---------------------------- MODULE MCConnection ----------------------------
(* Small instances of Connection for TLC: what the handlers and the peer do. *)
EXTENDS Connection

Profile(et, chunk, uses, maxWrite, maxIn, iov) ==
  [et |-> et, chunk |-> chunk, uses |-> uses, maxWrite |-> maxWrite, maxIn |-> maxIn, iov |-> iov]

\* Everything that a handler of OnTraffic or OnClose does with a connection that breaks.
UsesAll == {"Write", "Flush", "Close", "Reset", "asyncWrite", "wake", "close", "shutdown"}

\* Vectored writes, ReadFrom and Flush on a healthy connection.
UsesVectors == {"Writev", "Flush", "ReadFrom", "asyncWrite", "wake"}

\* Everything except what wake and close tasks do, which UsesWake has.
UsesOwn == UsesAll \ {"wake", "close"}
UsesWake == {"Write", "Close", "Reset", "wake", "close"}

\* Both modes, and vectored writes in edge-triggered mode.  With iovMax 1 a gathered write
\* stops with room left in the socket, with 2 the kernel may cut it short of iovMax.  A behaviour has one task, so the
\* edge-triggered ones can be split by what that task is.
MCAll == {Profile(TRUE, 2, UsesOwn, 2, 3, 1), Profile(TRUE, 2, UsesWake, 2, 2, 1),
          Profile(FALSE, 2, UsesAll, 2, 2, 1), Profile(TRUE, 1, UsesVectors, 3, 1, 1),
          Profile(TRUE, 1, UsesVectors, 3, 1, 2)}

\* Plain traffic in both modes, for liveness; two bytes come in where a read can fall short.
MCLive == {Profile(FALSE, 1, {"Write", "asyncWrite", "wake"}, 2, 1, 1),
           Profile(TRUE, 1, {"Write", "asyncWrite", "wake"}, 2, 2, 1)}

\* ReadFrom and Flush in level-triggered mode.
MCReadFrom == {Profile(FALSE, 1, {"ReadFrom"}, 2, 2, 1)}
=============================================================================
