---------------------------- MODULE LockFreeQueue ----------------------------
(***************************************************************************)
(* pkg/queue/lock_free_queue.go: the Michael-Scott queue behind the task    *)
(* queues of the poller, one action per load, compare-and-swap or atomic    *)
(* add.  The garbage collector keeps a node alive while anyone points to    *)
(* it, so nodes are never reused; a node stands for the task it carries.    *)
(***************************************************************************)
EXTENDS Integers, Sequences, FiniteSets

CONSTANTS
  Enqueuers,   \* goroutines calling Enqueue
  Dequeuers,   \* goroutines calling Dequeue
  MaxEnqueues, \* bound on the number of Enqueue calls
  MaxDequeues, \* bound on the number of Dequeue calls of each dequeuer
  Nil          \* the nil pointer

ASSUME QueueAssumption ==
  /\ IsFiniteSet(Enqueuers)
  /\ IsFiniteSet(Dequeuers)
  /\ Enqueuers \cap Dequeuers = {}
  /\ MaxEnqueues \in Nat
  /\ MaxDequeues \in Nat
  /\ Nil \notin Nat

Threads == Enqueuers \cup Dequeuers

\* Node 0 is the dummy that NewLockFreeQueue allocates.
Nodes == 0..MaxEnqueues

VARIABLES
  head, tail,  \* q.head and q.tail
  next,        \* the next pointer of each node
  length,      \* q.length
  pc,          \* the next memory operation of each thread
  h, t, n,     \* local pointers: head, tail and next as loaded
  mine,        \* the node an enqueuer is inserting
  allocated,   \* nodes allocated so far, the dummy included
  calls,       \* Dequeue calls made by each dequeuer
  order,       \* history: the linked nodes in the order they were linked
  sawEmpty,    \* history: the queue was empty at some moment of the current Dequeue
  received     \* history: the values returned, in the order of the unlinking steps

shared  == <<head, tail, next, length>>
locals  == <<h, t, n, mine>>
history == <<order, sawEmpty, received>>
vars == <<shared, pc, locals, allocated, calls, history>>

Goto(p, label) == pc' = [pc EXCEPT ![p] = label]

\* The values between head and the end of the list.
HeadIndex == CHOOSE i \in DOMAIN order : order[i] = head
Items == SubSeq(order, HeadIndex + 1, Len(order))

-----------------------------------------------------------------------------
(* Enqueue                                                                 *)

NewNode(p) ==
  /\ pc[p] = "idle"
  /\ allocated <= MaxEnqueues
  /\ mine' = [mine EXCEPT ![p] = allocated]
  /\ allocated' = allocated + 1
  /\ Goto(p, "eLoadTail")
  /\ UNCHANGED <<shared, h, t, n, calls, history>>

ELoadTail(p) ==
  /\ pc[p] = "eLoadTail"
  /\ t' = [t EXCEPT ![p] = tail]
  /\ Goto(p, "eLoadNext")
  /\ UNCHANGED <<shared, h, n, mine, allocated, calls, history>>

ELoadNext(p) ==
  /\ pc[p] = "eLoadNext"
  /\ n' = [n EXCEPT ![p] = next[t[p]]]
  /\ Goto(p, "eRecheck")
  /\ UNCHANGED <<shared, h, t, mine, allocated, calls, history>>

\* Are tail and next consistent?  Link at the end, help a lagging tail, or retry.
ERecheck(p) ==
  /\ pc[p] = "eRecheck"
  /\ Goto(p, IF tail # t[p] THEN "eLoadTail" ELSE IF n[p] = Nil THEN "eLink" ELSE "eHelp")
  /\ UNCHANGED <<shared, locals, allocated, calls, history>>

Link(p) ==
  /\ next' = [next EXCEPT ![t[p]] = mine[p]]
  /\ order' = Append(order, mine[p])
  /\ Goto(p, "eSwing")
  /\ UNCHANGED <<head, tail, length, locals, allocated, calls, sawEmpty, received>>

\* Mutant: the node is linked with a plain store.
ELinkStores(p) == pc[p] = "eLink" /\ Link(p)

\* cas(&tail.next, nil, n)
ELink(p) ==
  /\ pc[p] = "eLink"
  /\ \/ next[t[p]] = Nil /\ Link(p)
     \/ /\ next[t[p]] # Nil
        /\ Goto(p, "eLoadTail")
        /\ UNCHANGED <<shared, locals, allocated, calls, history>>

\* Mutant: tail is never moved.
SwingTailNot(p, to, label) ==
  /\ Goto(p, label)
  /\ UNCHANGED <<shared, locals, allocated, calls, history>>

\* cas(&q.tail, tail, to)
SwingTail(p, to, label) ==
  /\ tail' = IF tail = t[p] THEN to ELSE tail
  /\ Goto(p, label)
  /\ UNCHANGED <<head, next, length, locals, allocated, calls, history>>

EHelp(p)  == pc[p] = "eHelp" /\ SwingTail(p, n[p], "eLoadTail")
ESwing(p) == pc[p] = "eSwing" /\ SwingTail(p, mine[p], "eCount")

ECount(p) ==
  /\ pc[p] = "eCount"
  /\ length' = length + 1
  /\ Goto(p, "idle")
  /\ UNCHANGED <<head, tail, next, locals, allocated, calls, history>>

Enqueue(p) ==
  \/ ELoadTail(p)
  \/ ELoadNext(p)
  \/ ERecheck(p)
  \/ ELink(p)
  \/ EHelp(p)
  \/ ESwing(p)
  \/ ECount(p)

-----------------------------------------------------------------------------
(* Dequeue                                                                 *)

DStart(p) ==
  /\ pc[p] = "idle"
  /\ calls[p] < MaxDequeues
  /\ calls' = [calls EXCEPT ![p] = @ + 1]
  /\ sawEmpty' = [sawEmpty EXCEPT ![p] = Items = <<>>]
  /\ Goto(p, "dLoadHead")
  /\ UNCHANGED <<shared, locals, allocated, order, received>>

DLoadHead(p) ==
  /\ pc[p] = "dLoadHead"
  /\ h' = [h EXCEPT ![p] = head]
  /\ Goto(p, "dLoadTail")
  /\ UNCHANGED <<shared, t, n, mine, allocated, calls, history>>

DLoadTail(p) ==
  /\ pc[p] = "dLoadTail"
  /\ t' = [t EXCEPT ![p] = tail]
  /\ Goto(p, "dLoadNext")
  /\ UNCHANGED <<shared, h, n, mine, allocated, calls, history>>

DLoadNext(p) ==
  /\ pc[p] = "dLoadNext"
  /\ n' = [n EXCEPT ![p] = next[h[p]]]
  /\ Goto(p, "dRecheck")
  /\ UNCHANGED <<shared, h, t, mine, allocated, calls, history>>

\* Branches on the loaded pointers; "idle" is the return of nil.
Branch(p) ==
  IF h[p] = t[p] THEN (IF n[p] = Nil THEN "idle" ELSE "dHelp") ELSE "dUnlink"

DDecide(p, label) ==
  /\ pc[p] = "dRecheck"
  /\ Goto(p, label)
  /\ UNCHANGED <<shared, locals, allocated, calls, history>>

\* Mutant: a queue of one dummy node is not recognised as empty.
DRecheckNoEmpty(p) == DDecide(p, IF head # h[p] THEN "dLoadHead" ELSE "dUnlink")

\* Mutant: the lagging-tail case is taken for an empty queue.
DRecheckHasty(p) ==
  DDecide(p, IF head # h[p] THEN "dLoadHead" ELSE IF h[p] = t[p] THEN "idle" ELSE "dUnlink")

DRecheck(p) == DDecide(p, IF head # h[p] THEN "dLoadHead" ELSE Branch(p))

DHelp(p) == pc[p] = "dHelp" /\ SwingTail(p, n[p], "dLoadHead")

Unlink(p) ==
  /\ head' = n[p]
  /\ received' = Append(received, n[p])
  /\ sawEmpty' = [c \in Dequeuers |-> sawEmpty[c] \/
       (pc[c] \notin {"idle", "dCount"} /\ n[p] = order[Len(order)])]
  /\ Goto(p, "dCount")
  /\ UNCHANGED <<tail, next, length, locals, allocated, calls, order>>

\* cas(&q.head, head, next)
DUnlink(p) ==
  /\ pc[p] = "dUnlink"
  /\ \/ head = h[p] /\ Unlink(p)
     \/ /\ head # h[p]
        /\ Goto(p, "dLoadHead")
        /\ UNCHANGED <<shared, locals, allocated, calls, history>>

DCount(p) ==
  /\ pc[p] = "dCount"
  /\ length' = length - 1
  /\ Goto(p, "idle")
  /\ UNCHANGED <<head, tail, next, locals, allocated, calls, history>>

Dequeue(p) ==
  \/ DLoadHead(p)
  \/ DLoadTail(p)
  \/ DLoadNext(p)
  \/ DRecheck(p)
  \/ DHelp(p)
  \/ DUnlink(p)
  \/ DCount(p)

-----------------------------------------------------------------------------

Init ==
  /\ head = 0
  /\ tail = 0
  /\ next = [i \in Nodes |-> Nil]
  /\ length = 0
  /\ pc = [p \in Threads |-> "idle"]
  /\ h = [p \in Threads |-> 0]
  /\ t = [p \in Threads |-> 0]
  /\ n = [p \in Threads |-> Nil]
  /\ mine = [p \in Threads |-> 0]
  /\ allocated = 1
  /\ calls = [p \in Dequeuers |-> 0]
  /\ order = <<0>>
  /\ sawEmpty = [p \in Dequeuers |-> FALSE]
  /\ received = <<>>

Next ==
  \/ \E p \in Enqueuers : NewNode(p) \/ Enqueue(p)
  \/ \E p \in Dequeuers : DStart(p) \/ Dequeue(p)

Spec == Init /\ [][Next]_vars

\* A goroutine inside a queue operation keeps running.
Fairness ==
  /\ \A p \in Enqueuers : WF_vars(Enqueue(p))
  /\ \A p \in Dequeuers : WF_vars(Dequeue(p))

FairSpec == Spec /\ Fairness

-----------------------------------------------------------------------------
(* Properties                                                              *)

\* Type invariant of the queue.
TypeOK ==
  /\ head \in Nodes
  /\ tail \in Nodes
  /\ next \in [Nodes -> Nodes \cup {Nil}]
  /\ length \in Int
  /\ pc \in [Threads -> {"idle", "eLoadTail", "eLoadNext", "eRecheck", "eLink", "eHelp", "eSwing",
                         "eCount", "dLoadHead", "dLoadTail", "dLoadNext", "dRecheck", "dHelp",
                         "dUnlink", "dCount"}]
  /\ h \in [Threads -> Nodes]
  /\ t \in [Threads -> Nodes]
  /\ n \in [Threads -> Nodes \cup {Nil}]
  /\ mine \in [Threads -> Nodes]
  /\ allocated \in 1..(MaxEnqueues + 1)
  /\ calls \in [Dequeuers -> 0..MaxDequeues]
  /\ order \in Seq(Nodes)
  /\ sawEmpty \in [Dequeuers -> BOOLEAN]
  /\ received \in Seq(Nodes)

\* The list is one chain: each linked node points to the next one linked, the last to
\* nil; tail lags by at most one node and never falls behind head (Dequeue helps it
\* forward first), so a node given up by head is never the place of the next Enqueue.
Position(node) == CHOOSE i \in DOMAIN order : order[i] = node
ListShape ==
  /\ \A i \in 1..(Len(order) - 1) : next[order[i]] = order[i + 1]
  /\ next[order[Len(order)]] = Nil
  /\ head \in {order[i] : i \in DOMAIN order}
  /\ tail \in {order[i] : i \in DOMAIN order}
  /\ Position(tail) >= Len(order) - 1
  /\ Position(tail) >= Position(head)

Stage(p) ==
  CASE pc[p] = "idle" -> "idle"
    [] pc[p] \in {"eSwing", "eCount", "dCount"} -> "effected"
    [] OTHER -> "active"

\* The linked list implements the abstract queue: Enqueue takes effect when the node
\* is linked, Dequeue when head moves, and nil is returned only if the queue was empty
\* during the call.
Abstract == INSTANCE CountedQueue WITH
  items    <- Items,
  stage    <- [p \in Threads |-> Stage(p)],
  Values   <- Nodes
ImplementsCountedQueue == Abstract!Spec

\* Every call returns: a retry means that another call has made progress, and helping
\* moves a lagging tail, so no thread spins on one that stopped between link and swing.
CallsReturn == \A p \in Threads : pc[p] # "idle" ~> pc[p] = "idle"

=============================================================================
