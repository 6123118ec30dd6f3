----------------------------- MODULE EventList -----------------------------
(***************************************************************************)
(* The array of events that the epoll poller hands to epoll_wait, and how  *)
(* Polling resizes it after every wait.  n is what the wait returned.      *)
(***************************************************************************)
EXTENDS Integers, TLAPS

InitPollEventsCap == 128
MaxPollEventsCap == 1024
MinPollEventsCap == 32
shrinkAfterPolls == 64

newEventList(size) == [size |-> size, low |-> 0]

expand(size) == IF 2 * size <= MaxPollEventsCap THEN 2 * size ELSE size
shrink(size) == IF size \div 2 >= MinPollEventsCap THEN size \div 2 ELSE size

adapt(el, n) ==
  IF n = el.size THEN [size |-> expand(el.size), low |-> 0]
  ELSE IF n >= el.size \div 2 THEN [size |-> el.size, low |-> 0]
  ELSE IF el.low + 1 >= shrinkAfterPolls THEN [size |-> shrink(el.size), low |-> 0]
  ELSE [size |-> el.size, low |-> el.low + 1]

--------------------------------------------------------------------------
\* The sizes between the two caps that doubling and halving lead to.
Sizes == {32, 64, 128, 256, 512, 1024}
EventLists == [size : Sizes, low : 0 .. (shrinkAfterPolls - 1)]

\* Whatever the waits return, the array Polling starts with and every one that adapt makes of
\* it keep a size between the caps: doubling and halving never miss a cap.
THEOREM SizeWithinCaps ==
  /\ newEventList(InitPollEventsCap) \in EventLists
  /\ \A el \in EventLists : \A n \in 0..el.size : adapt(el, n) \in EventLists
<1>1. newEventList(InitPollEventsCap) \in EventLists
  BY SMTT(40) DEF newEventList, InitPollEventsCap, EventLists, Sizes, shrinkAfterPolls
<1>2. ASSUME NEW el \in EventLists, NEW n \in 0..el.size
      PROVE  adapt(el, n) \in EventLists
  <2>1. el.size \in Sizes /\ el.low \in 0 .. (shrinkAfterPolls - 1)
    BY DEF EventLists
  <2>2. expand(el.size) \in Sizes /\ shrink(el.size) \in Sizes
    BY <2>1, SMTT(40) DEF expand, shrink, Sizes, MaxPollEventsCap, MinPollEventsCap
  <2> QED
    BY <2>1, <2>2, SMTT(40) DEF adapt, EventLists, shrinkAfterPolls
<1> QED
  BY <1>1, <1>2

\* A poll that fills the array doubles it, unless it has its largest size; and a poll that is
\* no more than half empty, or any resize, starts the count of small polls over, so that an
\* array is halved only shrinkAfterPolls polls after it last changed: a load around a power of
\* two does not make it flap.
THEOREM NoFlapping ==
  ASSUME NEW el \in EventLists, NEW n \in 0..el.size
  PROVE  /\ n = el.size /\ el.size < MaxPollEventsCap => adapt(el, n).size = 2 * el.size
         /\ adapt(el, n).size < el.size => el.low = shrinkAfterPolls - 1 /\ n < el.size \div 2
         /\ adapt(el, n).size # el.size \/ n >= el.size \div 2 => adapt(el, n).low = 0
         /\ adapt(el, n).low <= el.low + 1
<1>1. el.size \in Sizes /\ el.low \in 0 .. (shrinkAfterPolls - 1)
  BY DEF EventLists
<1>2. expand(el.size) >= el.size /\ (el.size < MaxPollEventsCap => expand(el.size) = 2 * el.size)
  BY <1>1, SMTT(40) DEF expand, Sizes, MaxPollEventsCap
<1> QED
  BY <1>1, <1>2, SMTT(40) DEF adapt, Sizes, shrinkAfterPolls, shrink, expand, MaxPollEventsCap
=============================================================================
