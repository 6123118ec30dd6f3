------------------------------- MODULE ConnMap -------------------------------
(***************************************************************************)
(* conn_map.go: the connections of one event loop, kept in a Go map from    *)
(* file descriptor to connection with an atomic count of its own.  The      *)
(* matrix of conn_matrix.go (build tag gc_opt) replaces it: module          *)
(* ConnMatrix.                                                             *)
(***************************************************************************)
EXTENDS Integers

CONSTANTS
  Conns,   \* connections
  Fds,     \* file descriptors
  Fd,      \* the descriptor of each connection
  Nil      \* the nil pointer

VARIABLES
  connMap,    \* the connection of each descriptor, or Nil
  connCount   \* the atomic counter

vars == <<connMap, connCount>>

Live(c) == connMap[Fd[c]] = c

\* A descriptor is handed to addConn at most once before it is closed (the kernel
\* hands out the number again only after close(2), which follows delConn).
addConn(c) ==
  /\ connMap[Fd[c]] = Nil
  /\ connMap' = [connMap EXCEPT ![Fd[c]] = c]
  /\ connCount' = connCount + 1

delConn(c) ==
  /\ Live(c)
  /\ connMap' = [connMap EXCEPT ![Fd[c]] = Nil]
  /\ connCount' = connCount - 1

getConn(fd) == connMap[fd]

Init ==
  /\ connMap = [fd \in Fds |-> Nil]
  /\ connCount = 0

Next == \E c \in Conns : addConn(c) \/ delConn(c)

Spec == Init /\ [][Next]_vars

=============================================================================
