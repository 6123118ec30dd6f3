------------------------------- MODULE Poller -------------------------------
(***************************************************************************)
(* The epoll poller of one event loop (pkg/netpoll/poller_epoll_default.go) *)
(* with its two task queues.  Any goroutine hands a task to the loop with   *)
(* Trigger: it links the task into a queue, counts it, and, if it wins the  *)
(* compare-and-swap on wakeupCall, writes the eventfd on which the loop is  *)
(* blocked.  Polling is the loop: it waits, runs I/O callbacks, and, when   *)
(* the eventfd was reported, drains the queues and re-arms wakeupCall.      *)
(*                                                                         *)
(* Every step below is one atomic memory operation or one system call of   *)
(* the code.  A queue is a sequence with the separately maintained length  *)
(* counter of pkg/queue (module CountedQueue; LockFreeQueue shows that the  *)
(* linked list implements it).                                             *)
(***************************************************************************)
EXTENDS Integers, Sequences, FiniteSets

CONSTANTS
  Producers,      \* goroutines other than the event loop that call Trigger
  Loop,           \* the event-loop goroutine, which runs Polling
  Quota,          \* Quota[c] bounds the number of Trigger calls of caller c
  Threshold,      \* highPriorityEventsThreshold
  MaxAsyncTasks,  \* MaxAsyncTasksAtOneTime
  MaxEvents,      \* bound on the I/O events of one epoll_wait batch
  EfdMax,         \* largest value of the eventfd counter
  NoTask          \* "no task" marker

Callers == Producers \cup {Loop}

ASSUME PollerAssumption ==
  /\ IsFiniteSet(Producers)
  /\ Loop \notin Producers
  /\ Quota \in [Callers -> Nat]
  /\ Threshold \in Nat
  /\ MaxAsyncTasks \in Nat
  /\ MaxEvents \in Nat
  /\ EfdMax \in Nat \ {0}

Queues     == {"urgent", "low"}
Priorities == {"high", "low"}

\* A Trigger call: the n-th of caller "by".
Task == [by : Callers, no : Nat, prio : Priorities]

ASSUME NoTaskAssumption == NoTask \notin Task

VARIABLES
  lifecycle,   \* "open", "closing" (Close waits for the write lock), "closed" (fd = -1)
  wakeupCall,  \* 1 while a wakeup of the loop is under way
  efdCount,    \* the eventfd counter
  efdReady,    \* the eventfd is on epoll's ready list (an undelivered edge)
  queue,       \* the linked tasks of each queue, head first
  length,      \* the length counter of each queue
  pc,          \* where each caller is inside Trigger; "idle" outside
  task,        \* the task a caller is submitting
  into,        \* the queue Trigger picked for it
  loop,        \* where the loop is inside Polling
  events,      \* I/O events of the current batch still to be handled
  doChores,    \* the current batch reported the eventfd
  from,        \* the queue the loop is dequeuing from
  budget,      \* low-priority tasks the current round may still run
  current,     \* the task the loop has dequeued
  issued,      \* history: number of Trigger calls of each caller
  executed,    \* history: the tasks run, in order
  dropped,     \* history: the tasks returned to the pool without being run
  refused      \* history: the tasks refused with ErrPollerClosed

callerVars == <<pc, task, into, issued, refused>>
pollVars   == <<loop, events, doChores, from, budget, current, executed, dropped>>
efdVars    == <<efdCount, efdReady>>
queueVars  == <<queue, length>>
vars == <<lifecycle, wakeupCall, efdVars, queueVars, callerVars, pollVars>>

-----------------------------------------------------------------------------
(* Trigger                                                                 *)

\* Callers inside Trigger hold the read lock of lifecycle.
Readers == {c \in Callers : pc[c] # "idle"}

\* The loop itself calls Trigger only from an I/O callback or from a running task.
MayCall(c) ==
  /\ pc[c] = "idle"
  /\ issued[c] < Quota[c]
  /\ c = Loop => \/ loop = "events" /\ events > 0
                 \/ loop = "exec"

NextTask(c, prio) == [by |-> c, no |-> issued[c] + 1, prio |-> prio]

\* RLock and the closed check.  A waiting Close blocks new readers.
TriggerEnter(c) ==
  \E prio \in Priorities :
    /\ MayCall(c)
    /\ lifecycle = "open"
    /\ issued' = [issued EXCEPT ![c] = @ + 1]
    /\ task' = [task EXCEPT ![c] = NextTask(c, prio)]
    /\ pc' = [pc EXCEPT ![c] = "choose"]
    /\ UNCHANGED <<lifecycle, wakeupCall, efdVars, queueVars, into, refused, pollVars>>

TriggerRefused(c) ==
  \E prio \in Priorities :
    /\ MayCall(c)
    /\ lifecycle = "closed"
    /\ issued' = [issued EXCEPT ![c] = @ + 1]
    /\ refused' = refused \cup {NextTask(c, prio)}
    /\ UNCHANGED <<lifecycle, wakeupCall, efdVars, queueVars, pc, task, into, pollVars>>

Choose(c, shunted) ==
  /\ pc[c] = "choose"
  /\ into' = [into EXCEPT ![c] = IF shunted THEN "low" ELSE "urgent"]
  /\ pc' = [pc EXCEPT ![c] = "link"]
  /\ UNCHANGED <<lifecycle, wakeupCall, efdVars, queueVars, task, issued, refused, pollVars>>

\* Mutant: the priority is not looked at.
TriggerChooseAnyPriority(c) == Choose(c, length["urgent"] >= Threshold)

\* The length of the urgent queue decides where a low-priority task goes.
TriggerChoose(c) == Choose(c, task[c].prio = "low" /\ length["urgent"] >= Threshold)

\* Enqueue links the node ...
TriggerLink(c) ==
  /\ pc[c] = "link"
  /\ queue' = [queue EXCEPT ![into[c]] = Append(@, task[c])]
  /\ task' = [task EXCEPT ![c] = NoTask]
  /\ pc' = [pc EXCEPT ![c] = "count"]
  /\ UNCHANGED <<lifecycle, wakeupCall, efdVars, length, into, issued, refused, pollVars>>

\* ... and only then counts it.
TriggerCount(c) ==
  /\ pc[c] = "count"
  /\ length' = [length EXCEPT ![into[c]] = @ + 1]
  /\ pc' = [pc EXCEPT ![c] = "cas"]
  /\ UNCHANGED <<lifecycle, wakeupCall, efdVars, queue, task, into, issued, refused, pollVars>>

SetWakeup(c, next) ==
  /\ pc[c] = "cas"
  /\ wakeupCall' = 1
  /\ pc' = [pc EXCEPT ![c] = next]
  /\ UNCHANGED <<lifecycle, efdVars, queueVars, task, into, issued, refused, pollVars>>

\* Mutants: a plain store, and a loop that spins until the swap succeeds.
CasStores(c) == SetWakeup(c, "write")
CasSpins(c)  == wakeupCall = 0 /\ SetWakeup(c, "write")

\* CompareAndSwapInt32(&wakeupCall, 0, 1): Trigger's, and the loop's own when it
\* re-arms itself for leftover tasks.
Cas(c) == SetWakeup(c, IF wakeupCall = 0 THEN "write" ELSE "idle")

\* WriteNB(efd): every successful write raises a new edge; a full counter is EAGAIN.
EfdWrite(c) ==
  /\ pc[c] = "write"
  /\ IF efdCount = EfdMax
     THEN /\ pc' = [pc EXCEPT ![c] = "drain"]
          /\ UNCHANGED efdVars
     ELSE /\ efdCount' = efdCount + 1
          /\ efdReady' = TRUE
          /\ pc' = [pc EXCEPT ![c] = "idle"]
  /\ UNCHANGED <<lifecycle, wakeupCall, queueVars, task, into, issued, refused, pollVars>>

\* ReadNB(efd) resets the counter; epoll then has nothing left to report for it.
EfdDrain(c) ==
  /\ pc[c] = "drain"
  /\ efdCount' = 0
  /\ efdReady' = FALSE
  /\ pc' = [pc EXCEPT ![c] = "write"]
  /\ UNCHANGED <<lifecycle, wakeupCall, queueVars, task, into, issued, refused, pollVars>>

TriggerStep(c) ==
  \/ TriggerChoose(c)
  \/ TriggerLink(c)
  \/ TriggerCount(c)
  \/ Cas(c)
  \/ EfdWrite(c)
  \/ EfdDrain(c)

-----------------------------------------------------------------------------
(* Polling                                                                 *)

\* Polling has returned, with ErrEngineShutdown or with another error.
Returned == loop \in {"failed", "shutdown"}

\* The loop moves on only when it is not itself inside Trigger.
At(stage) == loop = stage /\ pc[Loop] = "idle"

\* epoll_wait reports a batch of n I/O events, with or without the eventfd.  The
\* event list is bounded, so a pending eventfd may have to wait for the next batch.
EpollWait(n, woken) ==
  /\ At("wait")
  /\ n > 0 \/ woken
  /\ woken => efdReady
  /\ efdReady' = (efdReady /\ ~woken)
  /\ events' = n
  /\ doChores' = woken
  /\ loop' = "events"
  /\ UNCHANGED <<lifecycle, wakeupCall, efdCount, queueVars, callerVars, from, budget, current,
                 executed, dropped>>

\* epoll_wait fails with something other than EINTR.
EpollFails ==
  /\ At("wait")
  /\ loop' = "failed"
  /\ UNCHANGED <<lifecycle, wakeupCall, efdVars, queueVars, callerVars, events, doChores, from,
                 budget, current, executed, dropped>>

\* One I/O callback.  ErrAcceptSocket and ErrEngineShutdown end Polling at once.
Callback ==
  /\ At("events")
  /\ events > 0
  /\ \/ /\ events' = events - 1
        /\ UNCHANGED loop
     \/ /\ loop' \in {"failed", "shutdown"}
        /\ UNCHANGED events
  /\ UNCHANGED <<lifecycle, wakeupCall, efdVars, queueVars, callerVars, doChores, from, budget,
                 current, executed, dropped>>

\* The batch is done: chores if the eventfd was in it, else the next wait.
BatchDone ==
  /\ At("events")
  /\ events = 0
  /\ loop' = IF doChores THEN "dequeue" ELSE "wait"
  /\ doChores' = FALSE
  /\ from' = "urgent"
  /\ UNCHANGED <<lifecycle, wakeupCall, efdVars, queueVars, callerVars, events, budget, current,
                 executed, dropped>>

TakeTask ==
  /\ At("dequeue")
  /\ queue[from] # <<>>
  /\ current' = Head(queue[from])
  /\ queue' = [queue EXCEPT ![from] = Tail(@)]
  /\ budget' = IF from = "low" THEN budget - 1 ELSE budget
  /\ loop' = "uncount"
  /\ UNCHANGED <<lifecycle, wakeupCall, efdVars, length, callerVars, events, doChores, from,
                 executed, dropped>>

\* Mutant: the low queue is drained without the bound.
DequeueTaskUnbounded == TakeTask

\* Dequeue unlinks the head ...
DequeueTask == TakeTask /\ (from = "low" => budget > 0)

\* ... and only then takes it off the count.
Uncount ==
  /\ At("uncount")
  /\ length' = [length EXCEPT ![from] = @ - 1]
  /\ loop' = "exec"
  /\ UNCHANGED <<lifecycle, wakeupCall, efdVars, queue, callerVars, events, doChores, from, budget,
                 current, executed, dropped>>

\* task.Exec returns; ErrEngineShutdown ends Polling after the queues are discarded.
ExecTask ==
  /\ At("exec")
  /\ executed' = Append(executed, current)
  /\ current' = NoTask
  /\ \/ /\ loop' = "dequeue"
        /\ UNCHANGED from
     \/ /\ loop' = "discard"
        /\ from' = "urgent"
  /\ UNCHANGED <<lifecycle, wakeupCall, efdVars, queueVars, callerVars, events, doChores, budget,
                 dropped>>

\* The urgent queue is drained to exhaustion before the low one is looked at.
UrgentDrained ==
  /\ At("dequeue")
  /\ from = "urgent"
  /\ queue["urgent"] = <<>>
  /\ from' = "low"
  /\ budget' = MaxAsyncTasks
  /\ UNCHANGED <<lifecycle, wakeupCall, efdVars, queueVars, callerVars, loop, events, doChores,
                 current, executed, dropped>>

\* Mutant: the bound is tested after Dequeue, and the task in hand is forgotten.
LowDoneForgets ==
  /\ At("dequeue")
  /\ from = "low"
  /\ queue' = [queue EXCEPT !["low"] = IF @ = <<>> THEN @ ELSE Tail(@)]
  /\ queue["low"] = <<>> \/ budget = 0
  /\ loop' = "clear"
  /\ UNCHANGED <<lifecycle, wakeupCall, efdVars, length, callerVars, events, doChores, from,
                 budget, current, executed, dropped>>

LowDone ==
  /\ At("dequeue")
  /\ from = "low"
  /\ queue["low"] = <<>> \/ budget = 0
  /\ loop' = "clear"
  /\ UNCHANGED <<lifecycle, wakeupCall, efdVars, queueVars, callerVars, events, doChores, from,
                 budget, current, executed, dropped>>

\* StoreInt32(&wakeupCall, 0).
ClearWakeup ==
  /\ At("clear")
  /\ wakeupCall' = 0
  /\ loop' = "checkLow"
  /\ UNCHANGED <<lifecycle, efdVars, queueVars, callerVars, events, doChores, from, budget, current,
                 executed, dropped>>

\* IsEmpty reads the counter, not the list.  A leftover task makes the loop wake itself.
CheckLeftover(q, stage, next) ==
  /\ At(stage)
  /\ IF length[q] # 0
     THEN /\ pc' = [pc EXCEPT ![Loop] = "cas"]
          /\ loop' = "wait"
     ELSE /\ loop' = next
          /\ UNCHANGED pc
  /\ UNCHANGED <<lifecycle, wakeupCall, efdVars, queueVars, task, into, issued, refused, events,
                 doChores, from, budget, current, executed, dropped>>

\* Mutants: one of the two queues is not looked at again.
CheckLowSkipped    == CheckLeftover("urgent", "checkLow", "checkUrgent")
CheckUrgentSkipped == CheckLeftover("low", "checkUrgent", "wait")

CheckLow    == CheckLeftover("low", "checkLow", "checkUrgent")
CheckUrgent == CheckLeftover("urgent", "checkUrgent", "wait")

\* discardPendingTasks: both queues, one Dequeue at a time, while producers may still add.
DiscardTask ==
  /\ At("discard")
  /\ queue[from] # <<>>
  /\ current' = Head(queue[from])
  /\ queue' = [queue EXCEPT ![from] = Tail(@)]
  /\ loop' = "dropping"
  /\ UNCHANGED <<lifecycle, wakeupCall, efdVars, length, callerVars, events, doChores, from, budget,
                 executed, dropped>>

PutBack ==
  /\ At("dropping")
  /\ dropped' = dropped \cup {current}
  /\ current' = NoTask
  /\ loop' = "discard"
  /\ UNCHANGED <<lifecycle, wakeupCall, efdVars, queue, callerVars, events, doChores, from, budget,
                 executed>>

\* Mutant: the counter is not adjusted.
DropTaskUncounted == PutBack /\ UNCHANGED length

DropTask == PutBack /\ length' = [length EXCEPT ![from] = @ - 1]

DiscardDone ==
  /\ At("discard")
  /\ queue[from] = <<>>
  /\ IF from = "urgent"
     THEN from' = "low" /\ UNCHANGED loop
     ELSE loop' = "shutdown" /\ UNCHANGED from
  /\ UNCHANGED <<lifecycle, wakeupCall, efdVars, queueVars, callerVars, events, doChores, budget,
                 current, executed, dropped>>

Polling ==
  \/ \E n \in 0..MaxEvents, woken \in BOOLEAN : EpollWait(n, woken)
  \/ EpollFails
  \/ Callback
  \/ BatchDone
  \/ DequeueTask
  \/ Uncount
  \/ ExecTask
  \/ UrgentDrained
  \/ LowDone
  \/ ClearWakeup
  \/ CheckLow
  \/ CheckUrgent
  \/ DiscardTask
  \/ DropTask
  \/ DiscardDone

-----------------------------------------------------------------------------
(* Close: the engine calls it after Polling has returned.                  *)

CloseLock ==
  /\ Returned
  /\ lifecycle = "open"
  /\ lifecycle' = "closing"
  /\ UNCHANGED <<wakeupCall, efdVars, queueVars, callerVars, pollVars>>

CloseFds ==
  /\ lifecycle = "closing"
  /\ lifecycle' = "closed"
  /\ efdCount' = 0
  /\ efdReady' = FALSE
  /\ UNCHANGED <<wakeupCall, queueVars, callerVars, pollVars>>

\* Mutant: Close does not wait for the goroutines inside Trigger.
CloseUnlocked == CloseFds

\* The write lock is granted once no reader is left; both descriptors are closed.
Close == Readers = {} /\ CloseFds

-----------------------------------------------------------------------------

Init ==
  /\ lifecycle = "open"
  /\ wakeupCall = 0
  /\ efdCount = 0
  /\ efdReady = FALSE
  /\ queue = [q \in Queues |-> <<>>]
  /\ length = [q \in Queues |-> 0]
  /\ pc = [c \in Callers |-> "idle"]
  /\ task = [c \in Callers |-> NoTask]
  /\ into = [c \in Callers |-> "urgent"]
  /\ loop = "wait"
  /\ events = 0
  /\ doChores = FALSE
  /\ from = "urgent"
  /\ budget = 0
  /\ current = NoTask
  /\ issued = [c \in Callers |-> 0]
  /\ executed = <<>>
  /\ dropped = {}
  /\ refused = {}

Next ==
  \/ \E c \in Callers : TriggerEnter(c) \/ TriggerRefused(c) \/ TriggerStep(c)
  \/ Polling
  \/ CloseLock
  \/ Close

Spec == Init /\ [][Next]_vars

\* The loop's own steps once epoll_wait has returned.
LoopStep ==
  \/ Callback
  \/ BatchDone
  \/ DequeueTask
  \/ Uncount
  \/ ExecTask
  \/ UrgentDrained
  \/ LowDone
  \/ ClearWakeup
  \/ CheckLow
  \/ CheckUrgent
  \/ DiscardTask
  \/ DropTask
  \/ DiscardDone

\* A goroutine inside Trigger and a running loop keep running (the Go scheduler is
\* preemptive), epoll rotates its ready list, so a pending eventfd is reported after
\* finitely many batches, and a lock whose readers have left is granted.  Nothing
\* obliges a producer to call Trigger, I/O to arrive, or the engine to call Close.
Fairness ==
  /\ \A c \in Callers : WF_vars(TriggerStep(c))
  /\ WF_vars(LoopStep)
  /\ SF_vars(\E n \in 0..MaxEvents : EpollWait(n, TRUE))
  /\ WF_vars(Close)

FairSpec == Spec /\ Fairness

-----------------------------------------------------------------------------
(* Properties                                                              *)

TriggerStages == {"idle", "choose", "link", "count", "cas", "write", "drain"}
LoopStages == {"wait", "events", "dequeue", "uncount", "exec", "clear", "checkLow",
               "checkUrgent", "discard", "dropping", "failed", "shutdown"}

\* Type invariant of the poller's state.
TypeOK ==
  /\ lifecycle \in {"open", "closing", "closed"}
  /\ wakeupCall \in {0, 1}
  /\ efdCount \in 0..EfdMax
  /\ efdReady \in BOOLEAN
  /\ queue \in [Queues -> Seq(Task)]
  /\ length \in [Queues -> Int]
  /\ pc \in [Callers -> TriggerStages]
  /\ task \in [Callers -> Task \cup {NoTask}]
  /\ into \in [Callers -> Queues]
  /\ loop \in LoopStages
  /\ events \in Nat
  /\ doChores \in BOOLEAN
  /\ from \in Queues
  /\ budget \in Nat
  /\ current \in Task \cup {NoTask}
  /\ issued \in [Callers -> Nat]
  /\ executed \in Seq(Task)
  /\ dropped \subseteq Task
  /\ refused \subseteq Task

\* Callers that have won the compare-and-swap and still owe the eventfd a write.
Wakers == {c \in Callers : pc[c] \in {"write", "drain"}}

\* The loop owes itself a ClearWakeup.
InChores == doChores \/ loop \in {"dequeue", "uncount", "exec", "clear", "discard", "dropping"}

\* wakeupCall is a token with one holder: one waker about to write the eventfd, or
\* the undelivered edge, or the loop doing its chores.  So efdBuf and the EAGAIN
\* recovery of Trigger (Trigger and Polling share them without a lock: Trigger
\* takes only the read lock) are never used by two goroutines at once, and the
\* recovery's read never swallows the edge of somebody else.
WakeTokenExclusive ==
  /\ \A c, d \in Wakers : c = d
  /\ Wakers # {} => ~efdReady /\ ~InChores
  /\ efdReady => ~InChores /\ efdCount > 0
  /\ Wakers # {} \/ efdReady \/ InChores => wakeupCall = 1
  /\ wakeupCall = 1 /\ ~Returned => Wakers # {} \/ efdReady \/ InChores

\* A loop that blocks in epoll_wait with no edge pending leaves no task behind
\* unless its producer is still inside Trigger and will wake it: the re-arm after
\* the drain, which trusts the non-linearizable length counter, loses no task.
NoLostWakeup ==
  At("wait") /\ ~efdReady /\ (\E q \in Queues : queue[q] # <<>>)
    => \E c \in Callers : pc[c] \in {"count", "cas", "write", "drain"}

\* The counter of a queue is off by exactly the tasks linked but not yet counted
\* and the task unlinked but not yet taken off (Enqueue and Dequeue are not atomic).
Uncounted(q) == {c \in Callers : pc[c] = "count" /\ into[c] = q}
Unlinking(q) == IF loop \in {"uncount", "dropping"} /\ from = q THEN 1 ELSE 0
LengthIsOffByInFlight ==
  \A q \in Queues : length[q] = Len(queue[q]) - Cardinality(Uncounted(q)) + Unlinking(q)

\* How many places hold the n-th task of caller c.
IsCall(t, c, n) == t # NoTask /\ t.by = c /\ t.no = n
Copies(c, n) ==
  LET Occurs(s) == Cardinality({i \in DOMAIN s : IsCall(s[i], c, n)})
      One(t)    == IF IsCall(t, c, n) THEN 1 ELSE 0
      InSet(S)  == Cardinality({t \in S : IsCall(t, c, n)})
  IN  Occurs(queue["urgent"]) + Occurs(queue["low"]) + Occurs(executed)
        + One(task[c]) + One(current) + InSet(dropped) + InSet(refused)

\* Every task handed to Trigger is refused, or on its way, or run once, or returned
\* to the pool once: never lost, run twice, or put back while it can still run.
ExactlyOnce == \A c \in Callers : \A n \in 1..issued[c] : Copies(c, n) = 1

\* High-priority tasks of one goroutine (its AsyncWrites) run in the order it
\* handed them over, whatever the other goroutines and the low queue do.
HighPriorityFifo ==
  \A i, j \in DOMAIN executed :
    /\ i < j
    /\ executed[i].by = executed[j].by
    /\ executed[i].prio = "high"
    /\ executed[j].prio = "high"
    => executed[i].no < executed[j].no

\* No goroutine is between Trigger's closed check and its eventfd system calls once
\* the descriptors are closed (their numbers may belong to other files by then).
NoUseAfterClose == lifecycle = "closed" => Readers = {}

\* Every accepted task is eventually run, unless Polling ends first.
TasksSettle ==
  \A c \in Callers : \A n \in 1..Quota[c] :
    (issued[c] >= n) ~>
      \/ Returned
      \/ \E i \in DOMAIN executed : IsCall(executed[i], c, n)

\* Close gets the write lock however many Trigger calls keep coming.
CloseCompletes == (lifecycle = "closing") ~> (lifecycle = "closed")

=============================================================================
