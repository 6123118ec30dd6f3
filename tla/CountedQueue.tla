---------------------------- MODULE CountedQueue ----------------------------
(***************************************************************************)
(* What pkg/queue promises the poller: a FIFO queue of tasks whose Enqueue  *)
(* and Dequeue take effect in one step, with a length counter that follows  *)
(* in a step of its own, and a Dequeue that answers "empty" only if the     *)
(* queue was empty at some moment of the call.                             *)
(***************************************************************************)
EXTENDS Integers, Sequences

CONSTANTS Enqueuers, Dequeuers, Values

VARIABLES
  items,     \* the queued values, head first
  length,    \* the counter
  stage,     \* "idle", "active" (before taking effect), "effected" (counter still to follow)
  sawEmpty,  \* the queue was empty at some moment of the current Dequeue
  received   \* every value a Dequeue returned, in the order the calls took effect

vars == <<items, length, stage, sawEmpty, received>>

Threads == Enqueuers \cup Dequeuers

Active == {c \in Dequeuers : stage[c] = "active"}

Begin(t) ==
  /\ stage[t] = "idle"
  /\ stage' = [stage EXCEPT ![t] = "active"]
  /\ sawEmpty' = IF t \in Dequeuers THEN [sawEmpty EXCEPT ![t] = items = <<>>] ELSE sawEmpty
  /\ UNCHANGED <<items, length, received>>

Put(t) ==
  /\ t \in Enqueuers
  /\ stage[t] = "active"
  /\ \E v \in Values : items' = Append(items, v)
  /\ stage' = [stage EXCEPT ![t] = "effected"]
  /\ UNCHANGED <<length, sawEmpty, received>>

Take(t) ==
  /\ t \in Dequeuers
  /\ stage[t] = "active"
  /\ items # <<>>
  /\ received' = Append(received, Head(items))
  /\ items' = Tail(items)
  /\ stage' = [stage EXCEPT ![t] = "effected"]
  /\ sawEmpty' = [c \in Dequeuers |-> sawEmpty[c] \/ (c \in Active /\ Tail(items) = <<>>)]
  /\ UNCHANGED length

AnswerEmpty(t) ==
  /\ t \in Active
  /\ sawEmpty[t]
  /\ stage' = [stage EXCEPT ![t] = "idle"]
  /\ UNCHANGED <<items, length, sawEmpty, received>>

Count(t) ==
  /\ stage[t] = "effected"
  /\ length' = IF t \in Enqueuers THEN length + 1 ELSE length - 1
  /\ stage' = [stage EXCEPT ![t] = "idle"]
  /\ UNCHANGED <<items, sawEmpty, received>>

Init ==
  /\ items = <<>>
  /\ length = 0
  /\ stage = [t \in Threads |-> "idle"]
  /\ sawEmpty = [t \in Dequeuers |-> FALSE]
  /\ received = <<>>

Next == \E t \in Threads : Begin(t) \/ Put(t) \/ Take(t) \/ AnswerEmpty(t) \/ Count(t)

Spec == Init /\ [][Next]_vars

=============================================================================
