------------------------------ MODULE ByteQueue ------------------------------
(***************************************************************************)
(* What a buffer promises: bytes are put in at the back and leave at the   *)
(* front.  They are numbered in the order they are put in, modulo Alphabet.*)
(***************************************************************************)
EXTENDS Integers, Sequences

CONSTANTS Alphabet, MaxHeld

VARIABLES q, next

vars == <<q, next>>

Init == q = <<>> /\ next = 0

Put ==
  \E n \in 1..MaxHeld :
    /\ next' = (next + n) % Alphabet
    /\ q' = q \o [i \in 1..n |-> (next + i - 1) % Alphabet]

Take == UNCHANGED next /\ \E n \in 1..Len(q) : q' = SubSeq(q, n + 1, Len(q))

Spec == Init /\ [][Put \/ Take]_vars
=============================================================================
