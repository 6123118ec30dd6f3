------------------------------ MODULE MCPoller ------------------------------
(* Small instances of Poller for TLC. *)
EXTENDS Poller

CONSTANTS p1, p2, el, none

MCProducers == {p1, p2}

\* One call of each goroutine, the loop's own from a callback or a task included.
MCQuotaEach == [c \in {p1, p2, el} |-> 1]

\* Two calls of one producer, whose order matters, against one of the other.
MCQuotaOrder == [c \in {p1, p2, el} |-> IF c = p1 THEN 2 ELSE IF c = p2 THEN 1 ELSE 0]
=============================================================================
