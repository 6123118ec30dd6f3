---------------------------- MODULE PollerProofs ----------------------------
(***************************************************************************)
(* Proofs about Poller, for any set of producers, any number of Trigger     *)
(* calls and any threshold.  The inductive invariant is the conjunction of  *)
(*   TypeInv      types, and a task in hand where one is used;              *)
(*   Lifecycle    Close only after Polling, no goroutine inside it;         *)
(*   WakeToken    wakeupCall as a token with a single holder;               *)
(*   LengthIsOffByInFlight                                                  *)
(*                what the counter of a queue says about its list;          *)
(*   Announced    a non-empty queue always has somebody who will see it.    *)
(***************************************************************************)
EXTENDS Poller, FiniteSetTheorems, TLAPS

\* A caller before Enqueue and a loop that runs or drops a task hold one.
InHand ==
  /\ \A c \in Callers : pc[c] \in {"choose", "link"} => task[c] \in Task
  /\ loop \in {"uncount", "exec", "dropping"} => current \in Task

TypeInv == TypeOK /\ InHand

Lifecycle ==
  /\ lifecycle # "open" => Returned
  /\ lifecycle = "closed" => Readers = {}

\* The eventfd flag of a batch is only set between epoll_wait and the end of the batch.
ChoresFlag == doChores => loop \in {"events", "failed", "shutdown"}

WakeToken == ChoresFlag /\ WakeTokenExclusive

\* Somebody who has linked a task will still try to set wakeupCall, or it is set.
Covered == wakeupCall = 1 \/ \E c \in Callers : pc[c] \in {"count", "cas"}

Announced ==
  /\ loop \in {"wait", "events"} => \A q \in Queues : queue[q] # <<>> => Covered
  /\ loop = "checkUrgent" /\ queue["low"] # <<>> => Covered

-----------------------------------------------------------------------------

LEMMA CallersFinite == IsFiniteSet(Callers) /\ Loop \in Callers
  BY PollerAssumption, FS_AddElement DEF Callers

LEMMA BoundsTypes ==
  EfdMax \in Nat /\ EfdMax > 0 /\ MaxAsyncTasks \in Nat /\ MaxEvents \in Nat
  BY PollerAssumption

LEMMA TypeInit == Init => TypeInv
<1> SUFFICES ASSUME Init PROVE TypeInv
  OBVIOUS
<1>1. <<>> \in Seq(Task) /\ 0 \in 0..EfdMax
  BY BoundsTypes
<1>2. queue \in [Queues -> Seq(Task)] /\ length \in [Queues -> Int]
  BY <1>1 DEF Init
<1>3. /\ pc \in [Callers -> TriggerStages]
      /\ task \in [Callers -> Task \cup {NoTask}]
      /\ into \in [Callers -> Queues]
      /\ issued \in [Callers -> Nat]
  BY DEF Init, TriggerStages, Queues
<1>4. executed \in Seq(Task) /\ dropped \subseteq Task /\ refused \subseteq Task
  BY <1>1 DEF Init
<1>5. QED
  BY <1>1, <1>2, <1>3, <1>4, Zenon DEF Init, TypeInv, TypeOK, InHand, Queues, LoopStages

\* Every step keeps the types.
LEMMA TypeStep == TypeInv /\ [Next]_vars => TypeInv'
<1> SUFFICES ASSUME TypeInv, [Next]_vars PROVE TypeInv'
  OBVIOUS
<1> USE DEF TypeInv, TypeOK, InHand, TriggerStages, LoopStages
<1>1. ASSUME NEW c \in Callers, TriggerEnter(c) PROVE TypeInv'
  <2>1. PICK prio \in Priorities : issued' = [issued EXCEPT ![c] = @ + 1]
                                   /\ task' = [task EXCEPT ![c] = NextTask(c, prio)]
    BY <1>1, Zenon DEF TriggerEnter
  <2>2. NextTask(c, prio) \in Task
    BY DEF NextTask, Task
  <2>3. QED
    BY <1>1, <2>1, <2>2 DEF TriggerEnter, efdVars, queueVars, pollVars
<1>2. ASSUME NEW c \in Callers, TriggerRefused(c) PROVE TypeInv'
  <2>1. PICK prio \in Priorities : refused' = refused \cup {NextTask(c, prio)}
    BY <1>2 DEF TriggerRefused
  <2>2. NextTask(c, prio) \in Task
    BY DEF NextTask, Task
  <2>3. QED
    BY <1>2, <2>1, <2>2 DEF TriggerRefused, efdVars, queueVars, pollVars
<1>3. ASSUME NEW c \in Callers, TriggerChoose(c) PROVE TypeInv'
  BY <1>3 DEF TriggerChoose, Choose, efdVars, queueVars, pollVars, Queues
<1>4. ASSUME NEW c \in Callers, TriggerLink(c) PROVE TypeInv'
  BY <1>4 DEF TriggerLink, efdVars, pollVars
<1>5. ASSUME NEW c \in Callers, TriggerCount(c) PROVE TypeInv'
  BY <1>5 DEF TriggerCount, efdVars, pollVars
<1>6. ASSUME NEW c \in Callers, Cas(c) PROVE TypeInv'
  BY <1>6 DEF Cas, SetWakeup, efdVars, queueVars, pollVars
<1>7. ASSUME NEW c \in Callers, EfdWrite(c) PROVE TypeInv'
  <2>1. efdCount' \in 0..EfdMax
    BY <1>7, BoundsTypes DEF EfdWrite, efdVars
  <2>2. efdReady' \in BOOLEAN
    BY <1>7, Zenon DEF EfdWrite, efdVars
  <2>3. /\ pc' \in [Callers -> TriggerStages]
        /\ \A d \in Callers : pc'[d] \in {"choose", "link"} => pc[d] = pc'[d]
    BY <1>7, Zenon DEF EfdWrite
  <2>4. QED
    BY <1>7, <2>1, <2>2, <2>3 DEF EfdWrite, queueVars, pollVars
<1>8. ASSUME NEW c \in Callers, EfdDrain(c) PROVE TypeInv'
  <2>1. efdCount' \in 0..EfdMax
    BY <1>8, BoundsTypes DEF EfdDrain, efdVars
  <2>2. efdReady' \in BOOLEAN
    BY <1>8, Zenon DEF EfdDrain, efdVars
  <2>3. /\ pc' \in [Callers -> TriggerStages]
        /\ \A d \in Callers : pc'[d] \in {"choose", "link"} => pc[d] = pc'[d]
    BY <1>8 DEF EfdDrain
  <2>4. QED
    BY <1>8, <2>1, <2>2, <2>3 DEF EfdDrain, queueVars, pollVars
<1>9. ASSUME NEW i \in 0..MaxEvents, NEW woken \in BOOLEAN, EpollWait(i, woken) PROVE TypeInv'
  BY <1>9, BoundsTypes DEF EpollWait, At, queueVars, callerVars
<1>10. CASE EpollFails
  BY <1>10 DEF EpollFails, At, efdVars, queueVars, callerVars
<1>11. CASE Callback
  BY <1>11 DEF Callback, At, efdVars, queueVars, callerVars
<1>12. CASE BatchDone
  BY <1>12, Zenon DEF BatchDone, At, efdVars, queueVars, callerVars, Queues
<1>13. CASE DequeueTask
  BY <1>13 DEF DequeueTask, TakeTask, At, efdVars, callerVars
<1>14. CASE Uncount
  BY <1>14 DEF Uncount, At, efdVars, callerVars
<1>15. CASE ExecTask
  BY <1>15 DEF ExecTask, At, efdVars, queueVars, callerVars, Queues
<1>16. CASE UrgentDrained
  BY <1>16, BoundsTypes DEF UrgentDrained, At, efdVars, queueVars, callerVars, Queues
<1>17. CASE LowDone
  BY <1>17 DEF LowDone, At, efdVars, queueVars, callerVars
<1>18. CASE ClearWakeup
  BY <1>18 DEF ClearWakeup, At, efdVars, queueVars, callerVars
<1>19. CASE CheckLow
  BY <1>19, CallersFinite DEF CheckLow, CheckLeftover, At, efdVars, queueVars
<1>20. CASE CheckUrgent
  BY <1>20, CallersFinite DEF CheckUrgent, CheckLeftover, At, efdVars, queueVars
<1>21. CASE DiscardTask
  BY <1>21 DEF DiscardTask, At, efdVars, callerVars
<1>22. CASE DropTask
  BY <1>22 DEF DropTask, PutBack, At, efdVars, callerVars
<1>23. CASE DiscardDone
  BY <1>23 DEF DiscardDone, At, efdVars, queueVars, callerVars, Queues
<1>24. CASE CloseLock
  BY <1>24 DEF CloseLock, efdVars, queueVars, callerVars, pollVars
<1>25. CASE Close
  <2>1. efdCount' \in 0..EfdMax
    BY <1>25, BoundsTypes DEF Close, CloseFds
  <2>2. efdReady' \in BOOLEAN
    BY <1>25, Zenon DEF Close, CloseFds
  <2>3. QED
    BY <1>25, <2>1, <2>2 DEF Close, CloseFds, queueVars, callerVars, pollVars
<1>26. CASE UNCHANGED vars
  BY <1>26 DEF vars, efdVars, queueVars, callerVars, pollVars
<1>27. QED
  BY ZenonT(40),
     <1>1, <1>2, <1>3, <1>4, <1>5, <1>6, <1>7, <1>8, <1>9, <1>10, <1>11, <1>12, <1>13, <1>14,
     <1>15, <1>16, <1>17, <1>18, <1>19, <1>20, <1>21, <1>22, <1>23, <1>24, <1>25, <1>26
  DEF Next, TriggerStep, Polling

\* Type correctness of the poller under every interleaving of Trigger, Polling and Close.
THEOREM TypeCorrect == Spec => []TypeOK
<1>1. Spec => []TypeInv
  BY TypeInit, TypeStep, PTL DEF Spec
<1>2. TypeInv => TypeOK
  BY DEF TypeInv
<1>3. QED
  BY <1>1, <1>2, PTL

-----------------------------------------------------------------------------
(* Close                                                                   *)

LEMMA LifecycleInit == Init => Lifecycle
  BY DEF Init, Lifecycle

\* Only an open poller lets a goroutine into Trigger, and Close waits for the others.
LEMMA LifecycleStep == TypeInv /\ Lifecycle /\ [Next]_vars => Lifecycle'
<1> SUFFICES ASSUME TypeInv, Lifecycle, [Next]_vars PROVE Lifecycle'
  OBVIOUS
<1> USE DEF TypeInv, TypeOK, Lifecycle, Returned, Readers
<1>1. ASSUME NEW c \in Callers, TriggerEnter(c) \/ TriggerRefused(c) PROVE Lifecycle'
  BY <1>1 DEF TriggerEnter, TriggerRefused, pollVars
<1>2. ASSUME NEW c \in Callers, TriggerStep(c) PROVE Lifecycle'
  <2>1. c \in Readers /\ UNCHANGED <<lifecycle, pollVars>>
    BY <1>2 DEF TriggerStep, TriggerChoose, Choose, TriggerLink, TriggerCount, Cas, SetWakeup,
                EfdWrite, EfdDrain
  <2>2. QED
    BY <2>1 DEF pollVars
<1>3. ASSUME Polling PROVE Lifecycle'
  <2>1. ~Returned /\ UNCHANGED lifecycle
    BY <1>3 DEF Polling, EpollWait, EpollFails, Callback, BatchDone, DequeueTask, TakeTask, Uncount,
                ExecTask, UrgentDrained, LowDone, ClearWakeup, CheckLow, CheckUrgent,
                CheckLeftover, DiscardTask, DropTask, PutBack, DiscardDone, At
  <2>2. QED
    BY <2>1, SMTT(40)
<1>4. CASE CloseLock
  BY <1>4 DEF CloseLock, callerVars, pollVars
<1>5. CASE Close
  BY <1>5 DEF Close, CloseFds, callerVars, pollVars
<1>6. CASE UNCHANGED vars
  BY <1>6 DEF vars, callerVars, pollVars
<1>7. QED
  BY <1>1, <1>2, <1>3, <1>4, <1>5, <1>6 DEF Next

\* Close never invalidates a descriptor under a goroutine that is inside Trigger.
THEOREM CloseIsSafe == Spec => []NoUseAfterClose
<1>1. Spec => [](TypeInv /\ Lifecycle)
  BY TypeInit, TypeStep, LifecycleInit, LifecycleStep, PTL DEF Spec
<1>2. Lifecycle => NoUseAfterClose
  BY DEF Lifecycle, NoUseAfterClose
<1>3. QED
  BY <1>1, <1>2, PTL

-----------------------------------------------------------------------------
(* The wakeup token                                                        *)

LEMMA WakeTokenInit == Init => WakeToken
  BY DEF Init, WakeToken, ChoresFlag, WakeTokenExclusive, Wakers, InChores, Returned

\* The token moves from a successful swap to the eventfd edge, to the loop's chores,
\* and is given up by the store of 0.
LEMMA WakeTokenStep == TypeInv /\ Lifecycle /\ WakeToken /\ [Next]_vars => WakeToken'
<1> SUFFICES ASSUME TypeInv, Lifecycle, WakeToken, [Next]_vars PROVE WakeToken'
  OBVIOUS
<1> USE DEF TypeInv, TypeOK, WakeToken, ChoresFlag, WakeTokenExclusive, Wakers, InChores, Returned
<1>1. ASSUME NEW c \in Callers, TriggerEnter(c) PROVE WakeToken'
  BY <1>1 DEF TriggerEnter, MayCall, efdVars, pollVars
<1>2. ASSUME NEW c \in Callers, TriggerRefused(c) PROVE WakeToken'
  BY <1>2 DEF TriggerRefused, efdVars, pollVars
<1>3. ASSUME NEW c \in Callers, TriggerChoose(c) PROVE WakeToken'
  BY <1>3 DEF TriggerChoose, Choose, efdVars, pollVars
<1>4. ASSUME NEW c \in Callers, TriggerLink(c) PROVE WakeToken'
  BY <1>4 DEF TriggerLink, efdVars, pollVars
<1>5. ASSUME NEW c \in Callers, TriggerCount(c) PROVE WakeToken'
  BY <1>5 DEF TriggerCount, efdVars, pollVars
<1>6. ASSUME NEW c \in Callers, Cas(c) PROVE WakeToken'
  BY <1>6 DEF Cas, SetWakeup, efdVars, pollVars
<1>7. ASSUME NEW c \in Callers, EfdWrite(c) PROVE WakeToken'
  <2>1. CASE efdCount = EfdMax
    BY <1>7, <2>1, ZenonT(40) DEF EfdWrite, efdVars, pollVars
  <2>2. CASE efdCount # EfdMax
    <3>1. \A d \in Callers : d # c => pc[d] \notin {"write", "drain"}
      BY <1>7 DEF EfdWrite
    <3>2. pc' = [pc EXCEPT ![c] = "idle"] /\ c \in Wakers
      BY <1>7, <2>2 DEF EfdWrite
    <3>3. Wakers # {} /\ Wakers' = {}
      BY <3>1, <3>2
    <3>4. efdCount' > 0 /\ efdReady' /\ UNCHANGED <<wakeupCall, loop, doChores>>
      BY <1>7, <2>2, BoundsTypes DEF EfdWrite, pollVars
    <3>5. QED
      BY <3>3, <3>4
  <2>3. QED
    BY <2>1, <2>2
<1>8. ASSUME NEW c \in Callers, EfdDrain(c) PROVE WakeToken'
  BY <1>8 DEF EfdDrain, efdVars, pollVars
<1>9. ASSUME NEW i \in 0..MaxEvents, NEW woken \in BOOLEAN, EpollWait(i, woken) PROVE WakeToken'
  BY <1>9 DEF EpollWait, At, callerVars
<1>10. CASE EpollFails
  BY <1>10 DEF EpollFails, At, efdVars, callerVars
<1>11. CASE Callback
  BY <1>11 DEF Callback, At, efdVars, callerVars
<1>12. CASE BatchDone
  BY <1>12 DEF BatchDone, At, efdVars, callerVars
<1>13. CASE DequeueTask
  BY <1>13 DEF DequeueTask, TakeTask, At, efdVars, callerVars
<1>14. CASE Uncount
  BY <1>14 DEF Uncount, At, efdVars, callerVars
<1>15. CASE ExecTask
  BY <1>15 DEF ExecTask, At, efdVars, callerVars
<1>16. CASE UrgentDrained
  BY <1>16 DEF UrgentDrained, At, efdVars, callerVars
<1>17. CASE LowDone
  BY <1>17 DEF LowDone, At, efdVars, callerVars
<1>18. CASE ClearWakeup
  BY <1>18 DEF ClearWakeup, At, efdVars, callerVars
<1>19. CASE CheckLow
  BY <1>19, CallersFinite, Zenon DEF CheckLow, CheckLeftover, At, efdVars
<1>20. CASE CheckUrgent
  BY <1>20, CallersFinite, ZenonT(40) DEF CheckUrgent, CheckLeftover, At, efdVars
<1>21. CASE DiscardTask
  BY <1>21 DEF DiscardTask, At, efdVars, callerVars
<1>22. CASE DropTask
  BY <1>22 DEF DropTask, PutBack, At, efdVars, callerVars
<1>23. CASE DiscardDone
  BY <1>23 DEF DiscardDone, At, efdVars, callerVars
<1>24. CASE CloseLock
  BY <1>24 DEF CloseLock, efdVars, callerVars, pollVars
<1>25. CASE Close
  BY <1>25 DEF Close, CloseFds, callerVars, pollVars, Lifecycle, Readers
<1>26. CASE UNCHANGED vars
  BY <1>26 DEF vars, efdVars, callerVars, pollVars
<1> HIDE DEF TypeInv, WakeToken
<1>27. QED
  BY <1>1, <1>2, <1>3, <1>4, <1>5, <1>6, <1>7, <1>8, <1>9, <1>10, <1>11, <1>12, <1>13, <1>14,
     <1>15, <1>16, <1>17, <1>18, <1>19, <1>20, <1>21, <1>22, <1>23, <1>24, <1>25, <1>26
  DEF Next, TriggerStep, Polling

\* At any moment at most one goroutine may touch the eventfd buffer, and wakeupCall
\* is 1 exactly while a wakeup of a running loop is under way.
THEOREM TokenIsExclusive == Spec => []WakeTokenExclusive
<1>1. Spec => [](TypeInv /\ Lifecycle /\ WakeToken)
  BY TypeInit, TypeStep, LifecycleInit, LifecycleStep, WakeTokenInit, WakeTokenStep, PTL DEF Spec
<1>2. WakeToken => WakeTokenExclusive
  BY DEF WakeToken
<1>3. QED
  BY <1>1, <1>2, PTL

-----------------------------------------------------------------------------
(* The length counters                                                     *)

LEMMA UncountedFinite ==
  ASSUME NEW q PROVE IsFiniteSet(Uncounted(q)) /\ Cardinality(Uncounted(q)) \in Nat
<1>1. Uncounted(q) \subseteq Callers
  BY DEF Uncounted
<1>2. QED
  BY <1>1, CallersFinite, FS_Subset, FS_CardinalityType

\* A step that leaves the queues alone, and nobody entering or leaving "count", changes
\* neither side of the equation.
LEMMA LengthFrame ==
  ASSUME LengthIsOffByInFlight, UNCHANGED queueVars,
         \A c \in Callers, q \in Queues :
           (pc'[c] = "count" /\ into'[c] = q) <=> (pc[c] = "count" /\ into[c] = q),
         \A q \in Queues : Unlinking(q)' = Unlinking(q)
  PROVE  LengthIsOffByInFlight'
<1>1. ASSUME NEW q \in Queues PROVE Uncounted(q)' = Uncounted(q)
  BY DEF Uncounted
<1>2. QED
  BY <1>1 DEF LengthIsOffByInFlight, queueVars

LEMMA LengthInit == Init => LengthIsOffByInFlight
<1> SUFFICES ASSUME Init, NEW q \in Queues
             PROVE  length[q] = Len(queue[q]) - Cardinality(Uncounted(q)) + Unlinking(q)
  BY DEF LengthIsOffByInFlight
<1>1. Uncounted(q) = {}
  BY DEF Init, Uncounted
<1>2. QED
  BY <1>1, FS_EmptySet DEF Init, Unlinking

\* Linking and counting a task, and unlinking and uncounting one, are two steps each.
LEMMA LengthStep ==
  TypeInv /\ LengthIsOffByInFlight /\ [Next]_vars => LengthIsOffByInFlight'
<1> SUFFICES ASSUME TypeInv, LengthIsOffByInFlight, [Next]_vars PROVE LengthIsOffByInFlight'
  OBVIOUS
<1> USE DEF TypeInv, TypeOK
<1>1. ASSUME NEW c \in Callers, TriggerLink(c) PROVE LengthIsOffByInFlight'
  <2> SUFFICES ASSUME NEW q \in Queues
               PROVE  (length[q] = Len(queue[q]) - Cardinality(Uncounted(q)) + Unlinking(q))'
    BY DEF LengthIsOffByInFlight
  <2>1. UNCHANGED length /\ Unlinking(q)' = Unlinking(q)
    BY <1>1 DEF TriggerLink, pollVars, Unlinking
  <2>2. length[q] = Len(queue[q]) - Cardinality(Uncounted(q)) + Unlinking(q)
    BY DEF LengthIsOffByInFlight
  <2>3. CASE into[c] = q
    <3>1. Len(queue'[q]) = Len(queue[q]) + 1 /\ Len(queue[q]) \in Nat
      BY <1>1, <2>3 DEF TriggerLink, InHand
    <3>2. Uncounted(q)' = Uncounted(q) \cup {c} /\ c \notin Uncounted(q)
      BY <1>1, <2>3 DEF TriggerLink, Uncounted
    <3>3. Cardinality(Uncounted(q)') = Cardinality(Uncounted(q)) + 1
      BY <3>2, UncountedFinite, FS_AddElement, Zenon
    <3>4. QED
      BY <2>1, <2>2, <3>1, <3>3, UncountedFinite, SMTT(40) DEF Unlinking
  <2>4. CASE into[c] # q
    <3>1. Uncounted(q)' = Uncounted(q) /\ queue'[q] = queue[q]
      BY <1>1, <2>4 DEF TriggerLink, Uncounted
    <3>2. QED
      BY <2>1, <2>2, <3>1
  <2>5. QED
    BY <2>3, <2>4
<1>2. ASSUME NEW c \in Callers, TriggerCount(c) PROVE LengthIsOffByInFlight'
  <2> SUFFICES ASSUME NEW q \in Queues
               PROVE  (length[q] = Len(queue[q]) - Cardinality(Uncounted(q)) + Unlinking(q))'
    BY DEF LengthIsOffByInFlight
  <2>1. UNCHANGED queue /\ Unlinking(q)' = Unlinking(q)
    BY <1>2 DEF TriggerCount, pollVars, Unlinking
  <2>2. length[q] = Len(queue[q]) - Cardinality(Uncounted(q)) + Unlinking(q)
    BY DEF LengthIsOffByInFlight
  <2>3. CASE into[c] = q
    <3>1. length'[q] = length[q] + 1 /\ Len(queue[q]) \in Nat
      BY <1>2, <2>3 DEF TriggerCount
    <3>2. Uncounted(q)' = Uncounted(q) \ {c} /\ c \in Uncounted(q)
      BY <1>2, <2>3 DEF TriggerCount, Uncounted
    <3>3. Cardinality(Uncounted(q)') = Cardinality(Uncounted(q)) - 1
      BY <3>2, UncountedFinite, FS_RemoveElement, Zenon
    <3>4. QED
      BY <2>1, <2>2, <3>1, <3>3, UncountedFinite DEF Unlinking
  <2>4. CASE into[c] # q
    <3>1. Uncounted(q)' = Uncounted(q) /\ length'[q] = length[q]
      BY <1>2, <2>4 DEF TriggerCount, Uncounted
    <3>2. QED
      BY <2>1, <2>2, <3>1
  <2>5. QED
    BY <2>3, <2>4
<1>3. ASSUME NEW c \in Callers,
             TriggerEnter(c) \/ TriggerRefused(c) \/ TriggerChoose(c) \/ Cas(c)
               \/ EfdWrite(c) \/ EfdDrain(c)
      PROVE  LengthIsOffByInFlight'
  <2>1. UNCHANGED queueVars /\ UNCHANGED pollVars
    BY <1>3 DEF TriggerEnter, TriggerRefused, TriggerChoose, Choose, Cas, SetWakeup, EfdWrite,
                EfdDrain
  <2>2. \A d \in Callers, q \in Queues :
           (pc'[d] = "count" /\ into'[d] = q) <=> (pc[d] = "count" /\ into[d] = q)
    BY <1>3 DEF TriggerEnter, MayCall, TriggerRefused, TriggerChoose, Choose, Cas, SetWakeup,
                EfdWrite, EfdDrain
  <2>3. QED
    BY <2>1, <2>2, LengthFrame DEF pollVars, Unlinking
<1>4. ASSUME DequeueTask \/ DiscardTask PROVE LengthIsOffByInFlight'
  <2> SUFFICES ASSUME NEW q \in Queues
               PROVE  (length[q] = Len(queue[q]) - Cardinality(Uncounted(q)) + Unlinking(q))'
    BY DEF LengthIsOffByInFlight
  <2>1. /\ queue[from] # <<>>
        /\ queue' = [queue EXCEPT ![from] = Tail(@)]
        /\ loop \in {"dequeue", "discard"}
        /\ loop' \in {"uncount", "dropping"}
        /\ UNCHANGED <<length, from, callerVars>>
    BY <1>4, SMTT(40) DEF DequeueTask, TakeTask, DiscardTask, At
  <2>2. length[q] = Len(queue[q]) - Cardinality(Uncounted(q)) + Unlinking(q)
    BY DEF LengthIsOffByInFlight
  <2>3. Uncounted(q)' = Uncounted(q) /\ Unlinking(q) = 0
    BY <2>1 DEF Uncounted, Unlinking, callerVars
  <2>4. CASE from = q
    <3>1. Len(queue'[q]) = Len(queue[q]) - 1 /\ Len(queue[q]) \in Nat
      BY <2>1, <2>4
    <3>2. Unlinking(q)' = 1
      BY <2>1, <2>4 DEF Unlinking
    <3>3. QED
      BY <2>1, <2>2, <2>3, <3>1, <3>2, UncountedFinite
  <2>5. CASE from # q
    <3>1. Unlinking(q)' = 0 /\ queue'[q] = queue[q]
      BY <2>1, <2>5 DEF Unlinking
    <3>2. QED
      BY <2>1, <2>2, <2>3, <3>1
  <2>6. QED
    BY <2>4, <2>5
<1>5. ASSUME Uncount \/ DropTask PROVE LengthIsOffByInFlight'
  <2> SUFFICES ASSUME NEW q \in Queues
               PROVE  (length[q] = Len(queue[q]) - Cardinality(Uncounted(q)) + Unlinking(q))'
    BY DEF LengthIsOffByInFlight
  <2>1. /\ length' = [length EXCEPT ![from] = @ - 1]
        /\ loop \in {"uncount", "dropping"}
        /\ loop' \in {"exec", "discard"}
        /\ UNCHANGED <<queue, from, callerVars>>
    BY <1>5 DEF Uncount, DropTask, PutBack, At
  <2>2. length[q] = Len(queue[q]) - Cardinality(Uncounted(q)) + Unlinking(q)
    BY DEF LengthIsOffByInFlight
  <2>3. Uncounted(q)' = Uncounted(q) /\ Unlinking(q)' = 0
    BY <2>1 DEF Uncounted, Unlinking, callerVars
  <2>4. Len(queue[q]) \in Nat
    OBVIOUS
  <2>5. CASE from = q
    BY <2>1, <2>2, <2>3, <2>4, <2>5, UncountedFinite DEF Unlinking
  <2>6. CASE from # q
    BY <2>1, <2>2, <2>3, <2>4, <2>6, UncountedFinite DEF Unlinking
  <2>7. QED
    BY <2>5, <2>6
<1>6. ASSUME \/ \E i \in 0..MaxEvents, woken \in BOOLEAN : EpollWait(i, woken)
             \/ EpollFails \/ Callback \/ BatchDone \/ ExecTask \/ UrgentDrained \/ LowDone
             \/ ClearWakeup \/ CheckLow \/ CheckUrgent \/ DiscardDone
      PROVE  LengthIsOffByInFlight'
  <2>1. /\ UNCHANGED <<queueVars, into>>
        /\ loop \notin {"uncount", "dropping"}
        /\ loop' \notin {"uncount", "dropping"}
    BY <1>6, SMTT(40)
    DEF EpollWait, EpollFails, Callback, BatchDone, ExecTask, UrgentDrained, LowDone,
                ClearWakeup, CheckLow, CheckUrgent, CheckLeftover, DiscardDone, At, callerVars
  <2>2. pc' = pc \/ (pc[Loop] = "idle" /\ pc' = [pc EXCEPT ![Loop] = "cas"])
    BY <1>6, SMTT(40)
    DEF EpollWait, EpollFails, Callback, BatchDone, ExecTask, UrgentDrained, LowDone,
                ClearWakeup, CheckLow, CheckUrgent, CheckLeftover, DiscardDone, At, callerVars
  <2>3. \A d \in Callers, q \in Queues :
           (pc'[d] = "count" /\ into'[d] = q) <=> (pc[d] = "count" /\ into[d] = q)
    BY <2>1, <2>2, CallersFinite
  <2>4. QED
    BY <2>1, <2>3, LengthFrame, SMTT(40) DEF Unlinking
<1>7. CASE CloseLock \/ Close \/ UNCHANGED vars
  BY <1>7, LengthFrame DEF CloseLock, Close, CloseFds, vars, callerVars, pollVars, Unlinking
<1> HIDE DEF TypeInv
<1>8. QED
  BY <1>1, <1>2, <1>3, <1>4, <1>5, <1>6, <1>7 DEF Next, TriggerStep, Polling

\* The counter IsEmpty and Trigger's threshold read is off by exactly the calls in flight.
THEOREM LengthIsExact == Spec => []LengthIsOffByInFlight
<1>1. Spec => [](TypeInv /\ LengthIsOffByInFlight)
  BY TypeInit, TypeStep, LengthInit, LengthStep, PTL DEF Spec
<1>2. QED
  BY <1>1, PTL

-----------------------------------------------------------------------------
(* No lost wakeup                                                          *)

\* A zero counter of a non-empty queue means that a producer has still to count its task.
LEMMA ZeroMeansInFlight ==
  ASSUME TypeInv, LengthIsOffByInFlight, NEW q \in Queues,
         length[q] = 0, queue[q] # <<>>, loop \notin {"uncount", "dropping"}
  PROVE  \E c \in Callers : pc[c] = "count"
<1>1. Len(queue[q]) > 0 /\ Len(queue[q]) \in Nat
  BY DEF TypeInv, TypeOK
<1>2. Cardinality(Uncounted(q)) # 0
  BY <1>1, UncountedFinite DEF LengthIsOffByInFlight, Unlinking
<1>3. Uncounted(q) # {}
  BY <1>2, FS_EmptySet, Zenon
<1>4. QED
  BY <1>3 DEF Uncounted

LEMMA AnnouncedInit == Init => Announced
  BY DEF Init, Announced, Queues

\* A task linked after the drain is seen by the loop's own check, or its producer
\* finds wakeupCall at 0 and wakes the loop.
LEMMA AnnouncedStep ==
  TypeInv /\ LengthIsOffByInFlight /\ Announced /\ [Next]_vars => Announced'
<1> SUFFICES ASSUME TypeInv, LengthIsOffByInFlight, Announced, [Next]_vars
             PROVE  Announced'
  OBVIOUS
<1> USE DEF TypeInv, TypeOK, Announced, Covered
<1>1. ASSUME NEW c \in Callers, TriggerLink(c) PROVE Announced'
  <2>1. c \in Callers /\ pc'[c] = "count"
    BY <1>1 DEF TriggerLink
  <2>2. QED
    BY <2>1
<1>2. ASSUME NEW c \in Callers, Cas(c) PROVE Announced'
  <2>1. wakeupCall' = 1
    BY <1>2 DEF Cas, SetWakeup
  <2>2. QED
    BY <2>1
<1>3. ASSUME NEW c \in Callers,
             TriggerEnter(c) \/ TriggerRefused(c) \/ TriggerChoose(c) \/ TriggerCount(c)
               \/ EfdWrite(c) \/ EfdDrain(c)
      PROVE  Announced'
  <2>1. UNCHANGED <<queue, loop, wakeupCall>>
    BY <1>3, SMTT(40)
    DEF TriggerEnter, TriggerRefused, TriggerChoose, Choose, TriggerCount, EfdWrite,
                EfdDrain, queueVars, pollVars
  <2>2. \A d \in Callers : pc[d] \in {"count", "cas"} => pc'[d] \in {"count", "cas"}
    BY <1>3, SMTT(40)
    DEF TriggerEnter, MayCall, TriggerRefused, TriggerChoose, Choose, TriggerCount,
                EfdWrite, EfdDrain
  <2>3. QED
    BY <2>1, <2>2, SMTT(40)
<1>4. CASE \/ \E i \in 0..MaxEvents, woken \in BOOLEAN : EpollWait(i, woken)
           \/ EpollFails \/ Callback \/ BatchDone
  <2>1. /\ loop \in {"wait", "events"}
        /\ loop' # "checkUrgent"
        /\ UNCHANGED <<queue, wakeupCall, pc>>
    BY <1>4 DEF EpollWait, EpollFails, Callback, BatchDone, At, queueVars, callerVars
  <2>2. QED
    BY <2>1
<1>5. CASE DequeueTask \/ Uncount \/ ExecTask \/ UrgentDrained \/ LowDone \/ ClearWakeup
           \/ DiscardTask \/ DropTask \/ DiscardDone
  <2>1. loop' \notin {"wait", "events", "checkUrgent"}
    BY <1>5, SMTT(40)
    DEF DequeueTask, TakeTask, Uncount, ExecTask, UrgentDrained, LowDone, ClearWakeup,
                DiscardTask, DropTask, PutBack, DiscardDone, At
  <2>2. QED
    BY <2>1, SMTT(40)
<1>6. CASE CheckLow
  <2>1. CASE length["low"] # 0
    BY <1>6, <2>1, CallersFinite DEF CheckLow, CheckLeftover
  <2>2. CASE length["low"] = 0
    <3>1. loop = "checkLow" /\ loop' = "checkUrgent" /\ UNCHANGED <<pc, wakeupCall, queue>>
      BY <1>6, <2>2 DEF CheckLow, CheckLeftover, At, queueVars
    <3>2. queue["low"] # <<>> => Covered
      BY <2>2, <3>1, ZeroMeansInFlight DEF Queues
    <3>3. QED
      BY <3>1, <3>2
  <2>3. QED
    BY <2>1, <2>2
<1>7. CASE CheckUrgent
  <2>1. CASE length["urgent"] # 0
    BY <1>7, <2>1, CallersFinite DEF CheckUrgent, CheckLeftover
  <2>2. CASE length["urgent"] = 0
    <3>1. loop = "checkUrgent" /\ loop' = "wait" /\ UNCHANGED <<pc, wakeupCall, queue>>
      BY <1>7, <2>2 DEF CheckUrgent, CheckLeftover, At, queueVars
    <3>2. queue["urgent"] # <<>> => Covered
      BY <2>2, <3>1, ZeroMeansInFlight DEF Queues
    <3>3. queue["low"] # <<>> => Covered
      BY <3>1
    <3>4. QED
      BY <3>1, <3>2, <3>3 DEF Queues
  <2>3. QED
    BY <2>1, <2>2, SMTT(40)
<1>8. CASE CloseLock \/ Close \/ UNCHANGED vars
  BY <1>8 DEF CloseLock, Close, CloseFds, vars, queueVars, callerVars, pollVars
<1> HIDE DEF TypeInv, Announced
<1>9. QED
  BY <1>1, <1>2, <1>3, <1>4, <1>5, <1>6, <1>7, <1>8 DEF Next, TriggerStep, Polling

PollerInv == TypeInv /\ Lifecycle /\ WakeToken /\ LengthIsOffByInFlight /\ Announced

\* The loop never goes to sleep on a task: clearing wakeupCall before looking at the
\* queues again, and linking before the compare-and-swap, close the race between them.
THEOREM NoWakeupIsLost == Spec => []NoLostWakeup
<1>1. Init => PollerInv
  BY TypeInit, LifecycleInit, WakeTokenInit, LengthInit, AnnouncedInit DEF PollerInv
<1>2. PollerInv /\ [Next]_vars => PollerInv'
  BY TypeStep, LifecycleStep, WakeTokenStep, LengthStep, AnnouncedStep DEF PollerInv
<1>3. PollerInv => NoLostWakeup
  <2> SUFFICES ASSUME PollerInv, At("wait"), ~efdReady, NEW q \in Queues, queue[q] # <<>>
               PROVE  \E c \in Callers : pc[c] \in {"count", "cas", "write", "drain"}
    BY DEF NoLostWakeup
  <2>1. Covered
    BY DEF PollerInv, Announced, At
  <2>2. CASE wakeupCall = 1
    <3>1. ~Returned /\ ~InChores
      BY DEF At, Returned, InChores, PollerInv, WakeToken, ChoresFlag
    <3>2. Wakers # {}
      BY <2>2, <3>1 DEF PollerInv, WakeToken, WakeTokenExclusive
    <3>3. QED
      BY <3>2 DEF Wakers
  <2>3. QED
    BY <2>1, <2>2 DEF Covered
<1>4. QED
  BY <1>1, <1>2, <1>3, PTL DEF Spec

=============================================================================
