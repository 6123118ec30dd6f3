---------------------------- MODULE MCConnMatrix ----------------------------
(* A 2 x 2 matrix and six connections, two of which reuse a descriptor: one more *)
(* connection than the matrix has slots wants to be open at a time.              *)
EXTENDS ConnMatrix

CONSTANTS c1, c2, c3, c4, c5, c6, f1, f2, f3, f4, f5

MCConns == {c1, c2, c3, c4, c5, c6}
MCFds   == {f1, f2, f3, f4, f5}
MCFd    ==
  [c \in MCConns |-> CASE c \in {c1, c2} -> f1
                       [] c = c3 -> f2 [] c = c4 -> f3 [] c = c5 -> f4 [] c = c6 -> f5]
=============================================================================
