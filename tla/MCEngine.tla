----------------------------- MODULE MCEngine -----------------------------
(* Small instances of Engine for TLC. *)
EXTENDS Engine, TLC

CONSTANTS c1, c2, nil

\* Each way to start, with a load balancer of its own; the client falls back to
\* LeastConnections.
MCProfiles == {[mode |-> "reactors", lb |-> "RoundRobin"],
               [mode |-> "reuseport", lb |-> "SourceAddrHash"],
               [mode |-> "client", lb |-> "SourceAddrHash"]}
MCServer == {[mode |-> "reactors", lb |-> "RoundRobin"]}
MCHash == (c1 :> 0) @@ (c2 :> 1)
===========================================================================
