---------------------------- MODULE EngineProofs ----------------------------
(***************************************************************************)
(* The engine for any number of loops, addresses and connections.          *)
(***************************************************************************)
EXTENDS Engine, FiniteSetTheorems, WellFoundedInduction, TLAPS

--------------------------------------------------------------------------
(* The inductive invariant *)

Tasks == [k : {"register", "enrol"}, c : Conns] \cup {Task("shutdown", Nil)}

LifeTypes ==
  /\ phase \in {"listen", "boot", "opening", "starting", "up", "failed", "waiting", "down"}
  /\ opened \in 0..N /\ cancelled \in BOOLEAN /\ inShutdown \in BOOLEAN
  /\ poller \in [All -> {"none", "open", "closed"}] /\ listening \in [All -> 0..Addrs]
  /\ pc \in [All -> {"none", "run", "exit", "done"}] /\ ticker \in {"off", "run", "done"}
  /\ mode \in Modes /\ lb \in LoadBalancing /\ nextIndex \in Nat

DataTypes ==
  /\ connections \in [All -> SUBSET Conns] /\ loop \in [Conns -> Loops \cup {Nil}]
  /\ socket \in [Conns -> {"none", "open", "closed"}] /\ enrol \in [Conns -> {"no", "wait", "ok", "err"}]
  /\ urgent \in [All -> Seq(Tasks)] /\ tasks \in [All -> Seq(Tasks)]
  /\ opens \in [Conns -> Nat] /\ closes \in [Conns -> Nat]

Types == LifeTypes /\ DataTypes

\* What has been opened and started in each phase.
Life ==
  /\ phase = "listen" => listening[ingress] < Addrs
  /\ phase \in {"listen", "boot"} => opened = 0 /\ \A el \in Loops : poller[el] = "none" /\ listening[el] = 0
  /\ phase \in {"listen", "boot", "opening"} => poller[ingress] = "none" /\ \A el \in All : pc[el] = "none"
  /\ phase = "opening" =>
       \A el \in Loops : /\ el <= opened => poller[el] = "open"
                         /\ el > opened + 1 => poller[el] = "none" /\ listening[el] = 0
  /\ phase \in {"starting", "up", "waiting"} =>
       opened = N /\ \A el \in Loops : poller[el] = "open" /\ pc[el] # "none"
  /\ phase = "starting" => mode = "reactors" /\ pc[ingress] = "none"
  /\ phase \in {"up", "waiting"} /\ mode = "reactors" => poller[ingress] = "open" /\ pc[ingress] # "none"
  /\ mode # "reactors" => poller[ingress] = "none" /\ pc[ingress] = "none"

\* c is what a task of the queue is about, and no two tasks are about one connection.
Holds(q, c) == \E i \in 1..Len(q) : q[i].c = c
Distinct(q) == \A i, j \in 1..Len(q) : q[i].c \in Conns /\ q[i].c = q[j].c => i = j

\* A queued registration is the first thing that happens to a connection on its loop.
QueueOf(el, c) ==
  /\ ~(Holds(urgent[el], c) /\ Holds(tasks[el], c))
  /\ Holds(urgent[el], c) \/ Holds(tasks[el], c) => loop[c] = el /\ socket[c] = "open" /\ opens[c] = 0
Queues ==
  \A el \in All : Distinct(urgent[el]) /\ Distinct(tasks[el]) /\ \A c \in Conns : QueueOf(el, c)

\* A connection is in the table of its loop exactly between OnOpen and OnClose.
TableOf(c) ==
  /\ closes[c] <= opens[c] /\ opens[c] <= 1
  /\ \A el \in All : c \in connections[el] <=> opens[c] > closes[c] /\ loop[c] = el
  /\ opens[c] > closes[c] => socket[c] = "open" /\ loop[c] \in Loops /\ pc[loop[c]] # "done"
  /\ socket[c] = "none" => opens[c] = 0
  /\ socket[c] = "open" /\ enrol[c] # "err" => loop[c] \in Loops
Tables == \A c \in Conns : TableOf(c)

\* A connection that is open is in the table, or waits in a queue, of a loop that goes on.
ReachedOf(c) ==
  socket[c] = "open" /\ enrol[c] # "err" /\ pc[loop[c]] \in {"none", "run"} =>
    c \in connections[loop[c]] \/ Holds(urgent[loop[c]], c) \/ Holds(tasks[loop[c]], c)
Reached == \A c \in Conns : ReachedOf(c)

Inv == Types /\ Life /\ PollersClosedInTime /\ Queues /\ Tables /\ Reached

--------------------------------------------------------------------------
(* The queues *)

LEMMA TaskTypes ==
  /\ \A t \in Tasks : t.c \in Conns \cup {Nil} /\ (t.k \in {"register", "enrol"} => t.c \in Conns)
  /\ \A c \in Conns : Task("register", c) \in Tasks /\ Task("enrol", c) \in Tasks
  /\ Task("shutdown", Nil) \in Tasks /\ Task("shutdown", Nil).c \notin Conns
BY EngineAssumption, SMTT(40) DEF Tasks, Task

LEMMA EmptyQueue ==
  <<>> \in Seq(Tasks) /\ Distinct(<<>>) /\ \A c \in Conns : ~Holds(<<>>, c)
BY SMTT(40) DEF Distinct, Holds

\* Appending a task about a connection that the queue does not know, or about none.
LEMMA AppendTask ==
  ASSUME NEW q \in Seq(Tasks), NEW t \in Tasks, Distinct(q), t.c \in Conns => ~Holds(q, t.c)
  PROVE  /\ Append(q, t) \in Seq(Tasks) /\ Distinct(Append(q, t))
         /\ \A c \in Conns : Holds(Append(q, t), c) <=> Holds(q, c) \/ c = t.c
<1> DEFINE p == Append(q, t)
<1>1. p \in Seq(Tasks) /\ Len(p) = Len(q) + 1 /\ Len(q) \in Nat
  BY SMTT(40)
<1>2. p[Len(q) + 1] = t /\ \A i \in 1..Len(q) : p[i] = q[i]
  BY SMTT(40)
<1> HIDE DEF p
<1>3. Distinct(p)
  <2> SUFFICES ASSUME NEW i \in 1..Len(p), NEW j \in 1..Len(p), p[i].c \in Conns, p[i].c = p[j].c
               PROVE  i = j
    BY Zenon DEF Distinct
  <2>1. CASE i \in 1..Len(q) /\ j \in 1..Len(q)
    BY <2>1, <1>2, Zenon DEF Distinct
  <2>2. CASE i = Len(q) + 1 /\ j \in 1..Len(q)
    BY <2>2, <1>2, Zenon DEF Holds
  <2>3. CASE j = Len(q) + 1 /\ i \in 1..Len(q)
    BY <2>3, <1>2, Zenon DEF Holds
  <2> QED
    BY <2>1, <2>2, <2>3, <1>1, SMTT(40)
<1>4. ASSUME NEW c \in Conns
      PROVE  Holds(p, c) <=> Holds(q, c) \/ c = t.c
  BY <1>1, <1>2, SMTT(40) DEF Holds
<1> QED
  BY <1>1, <1>3, <1>4 DEF p

\* Taking the first task forgets the connection it is about, and no other.
LEMMA TailTask ==
  ASSUME NEW q \in Seq(Tasks), q # <<>>, Distinct(q)
  PROVE  /\ Head(q) \in Tasks /\ Tail(q) \in Seq(Tasks) /\ Distinct(Tail(q))
         /\ Head(q).c \in Conns => Holds(q, Head(q).c)
         /\ \A c \in Conns : Holds(Tail(q), c) <=> Holds(q, c) /\ c # Head(q).c
<1> DEFINE p == Tail(q)
<1>1. p \in Seq(Tasks) /\ Len(p) = Len(q) - 1 /\ Len(q) \in Nat /\ Len(q) > 0 /\ Head(q) \in Tasks
  BY SMTT(40)
<1>2. Head(q) = q[1] /\ \A i \in 1..Len(p) : p[i] = q[i + 1]
  BY SMTT(40)
<1> HIDE DEF p
<1>3. Distinct(p)
  BY <1>1, <1>2, SMTT(40) DEF Distinct
<1>4. Head(q).c \in Conns => Holds(q, Head(q).c)
  BY <1>1, <1>2, SMTT(40) DEF Holds
<1>5. ASSUME NEW c \in Conns, Holds(p, c)
      PROVE  Holds(q, c) /\ c # Head(q).c
  <2>1. PICK i \in 1..Len(p) : p[i].c = c
    BY <1>5, Zenon DEF Holds
  <2>2. q[i + 1].c = c /\ i + 1 \in 1..Len(q) /\ i + 1 # 1 /\ 1 \in 1..Len(q)
    BY <2>1, <1>1, <1>2, SMTT(40)
  <2> QED
    BY <2>2, <1>2, Zenon DEF Holds, Distinct
<1>6. ASSUME NEW c \in Conns, Holds(q, c), c # Head(q).c
      PROVE  Holds(p, c)
  <2>1. PICK i \in 1..Len(q) : q[i].c = c
    BY <1>6, Zenon DEF Holds
  <2>2. i - 1 \in 1..Len(p) /\ i - 1 + 1 = i
    BY <2>1, <1>1, <1>2, <1>6, SMTT(40)
  <2> QED
    BY <2>1, <2>2, <1>2, Zenon DEF Holds
<1> QED
  BY <1>1, <1>3, <1>4, <1>5, <1>6 DEF p

--------------------------------------------------------------------------
(* The load balancers *)

LEMMA SmallestExists ==
  ASSUME NEW S \in SUBSET Nat, S # {}
  PROVE  \E n \in S : \A m \in S : n <= m
<1> DEFINE R == OpToRel(<, Nat)
<1>1. \E n \in S : \A m \in S : ~(<<m, n>> \in R)
  <2>1. IsWellFoundedOn(R, Nat)
    BY NatLessThanWellFounded, Zenon
  <2> HIDE DEF R
  <2> QED
    BY <2>1, WFMin, Zenon
<1>2. ASSUME NEW n \in Nat, NEW m \in Nat, ~(<<m, n>> \in R)
      PROVE  n <= m
  <2>1. R = {pair \in Nat \X Nat : pair[1] < pair[2]}
    BY Zenon DEF OpToRel
  <2> HIDE DEF R
  <2> QED
    BY <2>1, <1>2, SMTT(40)
<1> HIDE DEF R
<1> QED
  BY <1>1, <1>2, Zenon

\* Each of the three load balancers chooses one of the event loops.
LEMMA NextLoopIsALoop ==
  ASSUME Types, NEW c \in Conns
  PROVE  NextLoop(c) \in Loops
<1>1. N \in Nat \ {0} /\ Hash[c] \in Nat /\ nextIndex \in Nat /\ lb \in LoadBalancing
  BY EngineAssumption, SMTT(40) DEF Types, LifeTypes
<1>2. ASSUME NEW n \in Nat
      PROVE  (n % N) + 1 \in Loops
  BY <1>1, SMTT(40) DEF Loops
<1>3. Least \in Loops
  <2> DEFINE count(el) == Cardinality(connections[el])
  <2>1. \A el \in Loops : count(el) \in Nat
    BY EngineAssumption, FS_Subset, FS_CardinalityType, Zenon DEF Types, DataTypes, All
  <2>2. Loops # {} /\ Loops \subseteq Nat
    BY <1>1, SMTT(40) DEF Loops
  <2> HIDE DEF count
  <2>3. PICK least \in {count(el) : el \in Loops} : \A m \in {count(el) : el \in Loops} : least <= m
    BY <2>1, <2>2, SmallestExists, Zenon
  <2> DEFINE Few == {el \in Loops : count(el) = least}
  <2>4. Few # {} /\ Few \subseteq Nat
    BY <2>2, <2>3, Zenon
  <2>5. PICK el \in Few : \A l \in Few : el <= l
    BY <2>4, SmallestExists, Zenon
  <2>6. \A l \in Loops : count(el) < count(l) \/ (count(el) = count(l) /\ el <= l)
    BY <2>1, <2>3, <2>5, SMTT(40)
  <2>7. \E e \in Loops : \A l \in Loops : count(e) < count(l) \/ (count(e) = count(l) /\ e <= l)
    BY <2>5, <2>6, Zenon
  <2> QED
    BY <2>7, Zenon DEF Least, count
<1> QED
  BY <1>1, <1>2, <1>3, SMTT(40) DEF NextLoop, LoadBalancing

--------------------------------------------------------------------------
(* Init establishes the invariant. *)

LEMMA InitInv == Init => Inv
<1> SUFFICES ASSUME Init PROVE Inv
  OBVIOUS
<1>1. PICK p \in Profiles : mode = p.mode /\ lb = (IF p.mode = "client" THEN newLoadBalancerForClient(p.lb) ELSE p.lb)
  BY DEF Init
<1>2. mode \in Modes /\ lb \in LoadBalancing
  BY <1>1, EngineAssumption, SMTT(40) DEF newLoadBalancerForClient, LoadBalancing, Modes
<1>3. N \in Nat \ {0} /\ Addrs \in Nat \ {0} /\ 0 \in 0..N /\ 0 \in 0..Addrs /\ 0 < Addrs
  BY EngineAssumption, SMTT(40)
<1>4. Types
  <2>1. urgent \in [All -> Seq(Tasks)] /\ tasks \in [All -> Seq(Tasks)]
    BY EmptyQueue, Zenon DEF Init
  <2>2. LifeTypes
    BY <1>2, <1>3, Zenon DEF Init, LifeTypes
  <2>3. DataTypes
    BY <1>3, <2>1, Zenon DEF Init, DataTypes
  <2> QED
    BY <2>2, <2>3 DEF Types
<1>5. Life
  BY <1>2, <1>3, SMTT(40) DEF Init, Life, Modes, Loops, All, ingress
<1>6. PollersClosedInTime
  BY SMTT(40) DEF Init, PollersClosedInTime
<1>7. Queues
  BY EmptyQueue, Zenon DEF Init, Queues, QueueOf
<1>8. Tables
  BY <1>3, EngineAssumption, SMTT(40) DEF Init, Tables, TableOf
<1>9. Reached
  BY SMTT(40) DEF Init, Reached, ReachedOf
<1> QED
  BY <1>4, <1>5, <1>6, <1>7, <1>8, <1>9 DEF Inv

--------------------------------------------------------------------------
(* Every step keeps the types. *)

LEMMA Indexes ==
  /\ N \in Nat \ {0} /\ Addrs \in Nat \ {0}
  /\ ingress \in All /\ ingress \notin Loops /\ Loops \subseteq All /\ All \subseteq Nat
  /\ \A el \in All : el \in Loops \/ el = ingress
  /\ \A i \in Nat : i < N => i + 1 \in Loops
BY EngineAssumption, SMTT(40) DEF All, Loops, ingress

\* accept0 and the enrolments: a new connection is given a loop, and that loop the task of
\* registering it, unless the loop's poller is closed.
Handed(c, el) ==
  /\ socket[c] = "none" /\ loop' = [loop EXCEPT ![c] = el]
  /\ UNCHANGED <<pc, connections, opens, closes>>
  /\ \/ /\ socket' = [socket EXCEPT ![c] = "open"] /\ UNCHANGED tasks
        /\ \/ enrol' = enrol /\ urgent' = [urgent EXCEPT ![el] = Append(urgent[el], Task("register", c))]
           \/ /\ enrol' = [enrol EXCEPT ![c] = "wait"]
              /\ urgent' = [urgent EXCEPT ![el] = Append(urgent[el], Task("enrol", c))]
     \/ /\ socket' = [socket EXCEPT ![c] = "open"] /\ UNCHANGED urgent
        /\ enrol' = [enrol EXCEPT ![c] = "wait"]
        /\ tasks' = [tasks EXCEPT ![el] = Append(tasks[el], Task("enrol", c))]
     \/ /\ UNCHANGED <<urgent, tasks>>
        /\ \/ socket' = [socket EXCEPT ![c] = "closed"] /\ enrol' = enrol
           \/ socket' = [socket EXCEPT ![c] = "open"] /\ enrol' = [enrol EXCEPT ![c] = "err"]

LEMMA Handing ==
  ASSUME Types, Accept0 \/ Enroll
  PROVE  \E c \in Conns, el \in Loops : Handed(c, el)
<1>1. CASE Accept0
  <2>1. PICK c \in Conns : Accept0!(c)
    BY <1>1, Zenon DEF Accept0
  <2>2. PICK el \in Loops : el = NextLoop(c)
    BY NextLoopIsALoop, Zenon
  <2>3. Handed(c, el)
    BY <2>1, <2>2, SMTT(40) DEF Handed
  <2> QED
    BY <2>3
<1>2. CASE Enroll
  <2>1. PICK c \in Conns : Enroll!(c)
    BY <1>2, Zenon DEF Enroll
  <2>2. PICK el \in Loops : el = NextLoop(c)
    BY NextLoopIsALoop, Zenon
  <2>3. urgent \in [All -> Seq(Tasks)] /\ tasks \in [All -> Seq(Tasks)] /\ el \in All
    BY Indexes DEF Types, DataTypes
  <2>4. CASE poller[el] = "open" /\ mode = "client"
    <3>1. urgent' = [urgent EXCEPT ![el] = Append(urgent[el], Task("enrol", c))] /\ tasks' = tasks
      BY <2>1, <2>2, <2>3, <2>4, SMTT(40)
    <3>2. Handed(c, el)
      BY <2>1, <2>2, <2>4, <3>1, Zenon DEF Handed
    <3> QED
      BY <3>2
  <2>5. CASE poller[el] = "open" /\ mode # "client"
    <3>1. tasks' = [tasks EXCEPT ![el] = Append(tasks[el], Task("enrol", c))] /\ urgent' = urgent
      BY <2>1, <2>2, <2>3, <2>5, SMTT(40)
    <3>2. Handed(c, el)
      BY <2>1, <2>2, <2>5, <3>1, Zenon DEF Handed
    <3> QED
      BY <3>2
  <2>6. CASE poller[el] # "open"
    <3>1. tasks' = tasks /\ urgent' = urgent
      BY <2>1, <2>2, <2>3, <2>6, SMTT(40)
    <3>2. Handed(c, el)
      BY <2>1, <2>2, <2>6, <3>1, Zenon DEF Handed
    <3> QED
      BY <3>2
  <2> QED
    BY <2>4, <2>5, <2>6, Zenon
<1> QED
  BY <1>1, <1>2

LEMMA LifeTypesStep ==
  ASSUME LifeTypes, Life, Next
  PROVE  LifeTypes'
<1> USE Indexes DEF LifeTypes, life, options
<1>1. CASE Listen
  BY <1>1, SMTT(40) DEF Listen, initListener, Life
<1>2. CASE ListenFails
  BY <1>2, SMTT(40) DEF ListenFails
<1>3. CASE Boot
  BY <1>3, SMTT(40) DEF Boot
<1>4. CASE OpenListeners
  BY <1>4, SMTT(40) DEF OpenListeners, initListener
<1>5. CASE OpenPoller
  BY <1>5, SMTT(40) DEF OpenPoller
<1>6. CASE RegisterLoop
  BY <1>6, SMTT(40) DEF RegisterLoop
<1>7. CASE OpenLoopFails
  BY <1>7, SMTT(40) DEF OpenLoopFails, CloseEventLoops
<1>8. CASE StartLoops
  BY <1>8, SMTT(40) DEF StartLoops
<1>9. CASE OpenIngress
  BY <1>9, SMTT(40) DEF OpenIngress
<1>10. CASE StartIngress
  BY <1>10, SMTT(40) DEF StartIngress
<1>11. CASE StartIngressFails
  BY <1>11, SMTT(40) DEF StartIngressFails, CloseEventLoops
<1>12. CASE Accept0 \/ Enroll \/ EnrollFails
  <2>0. nextIndex' = nextIndex \/ nextIndex' = nextIndex + 1
    BY <1>12, Zenon DEF Accept0, Enroll, EnrollFails, Picks
  <2>1. nextIndex' \in Nat
    BY <2>0, SMTT(40)
  <2>2. UNCHANGED <<options, life, cancelled, pc>>
    BY <1>12, ZenonT(40) DEF Accept0, Enroll, EnrollFails
  <2> QED
    BY <2>1, <2>2, Zenon
<1>13. ASSUME NEW el \in All, Accept(el) \/ AcceptFails(el) \/ ReadUDP(el) \/ Execute(el) PROVE LifeTypes'
  <2>1. pc' = pc \/ Exits(el)
    BY <1>13, Zenon DEF Accept, AcceptFails, ReadUDP, Execute
  <2>2. pc' \in [All -> {"none", "run", "exit", "done"}]
    BY <2>1, SMTT(40) DEF Exits
  <2> QED
    BY <1>13, <2>2, Zenon DEF Accept, AcceptFails, ReadUDP, Execute
<1>14. ASSUME NEW el \in All, RunRegister(el) \/ RunShutdown(el) \/ ConnEvent(el) \/ PollerGone(el) PROVE LifeTypes'
  <2>1. pc' = pc \/ Exits(el)
    BY <1>14, Zenon DEF RunRegister, RunShutdown, ConnEvent, PollerGone
  <2>2. pc' \in [All -> {"none", "run", "exit", "done"}]
    BY <2>1, SMTT(40) DEF Exits
  <2> QED
    BY <1>14, <2>2, ZenonT(40) DEF RunRegister, RunShutdown, ConnEvent, PollerGone
<1>15. ASSUME NEW el \in All, Exit(el) PROVE LifeTypes'
  BY <1>15, SMTT(40) DEF Exit
<1>16. CASE RequestStop \/ Stop \/ Tick \/ TellLoops \/ Ended
  BY <1>16, Zenon DEF RequestStop, Stop, Tick, TellLoops, Ended, vars
<1>17. CASE Finish
  BY <1>17, SMTT(40) DEF Finish, CloseEventLoops
<1> QED
  BY <1>1, <1>2, <1>3, <1>4, <1>5, <1>6, <1>7, <1>8, <1>9, <1>10, <1>11, <1>12, <1>13, <1>14, <1>15,
     <1>16, <1>17, Zenon DEF Next, LoopStep

\* register0 has opened the connection, opened and closed it, or closed its socket only.
Opened(el, c) ==
  \/ /\ socket' = [socket EXCEPT ![c] = "closed"] /\ UNCHANGED <<connections, opens, closes>>
  \/ /\ connections' = [connections EXCEPT ![el] = connections[el] \cup {c}]
     /\ socket' = [socket EXCEPT ![c] = "open"]
     /\ opens' = [opens EXCEPT ![c] = opens[c] + 1] /\ closes' = closes
  \/ /\ socket' = [socket EXCEPT ![c] = "closed"] /\ connections' = connections
     /\ opens' = [opens EXCEPT ![c] = opens[c] + 1] /\ closes' = [closes EXCEPT ![c] = closes[c] + 1]

\* accept opens a new connection, and a Shutdown that comes out of it ends the loop.
Accepted(el, c) ==
  /\ el \in Loops /\ pc[el] = "run" /\ socket[c] = "none" /\ loop' = [loop EXCEPT ![c] = el]
  /\ Opened(el, c) /\ (pc' = pc \/ Exits(el)) /\ UNCHANGED <<urgent, tasks, enrol>>

LEMMA Accepting ==
  ASSUME NEW el \in All, Accept(el)
  PROVE  \E c \in Conns : Accepted(el, c)
<1>1. PICK c \in Conns, shut \in BOOLEAN : Accept(el)!(c, shut)
  BY Zenon DEF Accept
<1>2. Opened(el, c)
  BY <1>1, Zenon DEF Register0, Registered, Opened
<1>3. Accepted(el, c)
  BY <1>1, <1>2, Zenon DEF Accepted, queues
<1> QED
  BY <1>3

\* A task of registration is run: the queue it heads loses it, or with a Shutdown both
\* queues lose everything and the loop ends.
RanUrgent(el, c) ==
  /\ urgent[el] # <<>> /\ c = Head(urgent[el]).c
  /\ urgent' = [urgent EXCEPT ![el] = Tail(urgent[el])] /\ tasks' = tasks /\ pc' = pc
RanTask(el, c) ==
  /\ tasks[el] # <<>> /\ c = Head(tasks[el]).c
  /\ tasks' = [tasks EXCEPT ![el] = Tail(tasks[el])] /\ urgent' = urgent /\ pc' = pc
RanLast(el, c) ==
  /\ \/ urgent[el] # <<>> /\ c = Head(urgent[el]).c
     \/ tasks[el] # <<>> /\ c = Head(tasks[el]).c
  /\ Discards(el) /\ Exits(el)
Ran(el, c) ==
  /\ pc[el] = "run" /\ loop' = loop /\ Opened(el, c)
  /\ enrol' = enrol \/ enrol' = [enrol EXCEPT ![c] = "ok"]
  /\ RanUrgent(el, c) \/ RanTask(el, c) \/ RanLast(el, c)

LEMMA Registering ==
  ASSUME DataTypes, NEW el \in All, RunRegister(el)
  PROVE  \E c \in Conns : Ran(el, c)
<1>1. PICK t \in Heads(el), shut \in BOOLEAN : RunRegister(el)!(t, shut)
  BY Zenon DEF RunRegister
<1>2. t \in Tasks /\ t.c \in Conns
  <2>1. \/ urgent[el] # <<>> /\ t = Head(urgent[el])
        \/ tasks[el] # <<>> /\ t = Head(tasks[el])
    BY <1>1, Zenon DEF Heads
  <2>2. t \in Tasks
    BY <2>1, SMTT(40) DEF DataTypes
  <2> QED
    BY <1>1, <2>2, TaskTypes, Zenon
<1>3. Opened(el, t.c)
  BY <1>1, Zenon DEF Register0, Registered, Opened
<1>4. RanUrgent(el, t.c) \/ RanTask(el, t.c) \/ RanLast(el, t.c)
  BY <1>1, Zenon DEF RanUrgent, RanTask, RanLast, Heads, Takes
<1>5. Ran(el, t.c)
  BY <1>1, <1>3, <1>4, Zenon DEF Ran, Running
<1> QED
  BY <1>2, <1>5

--------------------------------------------------------------------------
(* Every step keeps what is opened and started in each phase. *)

\* No loop starts, and one that has ended stays so.
GoesOn ==
  /\ UNCHANGED <<mode, phase, opened, poller, listening>>
  /\ \A el \in All : /\ pc'[el] = "none" <=> pc[el] = "none"
                     /\ pc'[el] \in {"run", "exit"} => pc[el] \in {"run", "exit"}

LEMMA LifeGoesOn ==
  ASSUME Life, PollersClosedInTime, GoesOn
  PROVE  Life' /\ PollersClosedInTime'
<1> USE Indexes DEF GoesOn
<1>1. Life'
  BY SMTT(40) DEF Life
<1>2. PollersClosedInTime'
  BY SMTT(40) DEF PollersClosedInTime
<1> QED
  BY <1>1, <1>2

\* Of one loop: it starts to exit, or has ended.
LEMMA LoopGoesOn ==
  ASSUME LifeTypes, NEW el \in All, pc[el] \in {"run", "exit"},
         pc' = pc \/ Exits(el) \/ pc' = [pc EXCEPT ![el] = "done"],
         UNCHANGED <<mode, phase, opened, poller, listening>>
  PROVE  GoesOn
BY SMTT(40) DEF LifeTypes, GoesOn, Exits

\* What closeEventLoops and the caller do not close was not open.
LEMMA EverythingClosed ==
  ASSUME LifeTypes, NEW also \in SUBSET All, CloseEventLoops(also),
         pc[ingress] # "none" \/ ingress \in also \/ poller[ingress] # "open",
         \A el \in Loops : el \in 1..opened \/ el \in also \/ (poller[el] # "open" /\ listening[el] = 0)
  PROVE  \A el \in All : /\ poller'[el] # "open" /\ listening'[el] = 0
                         /\ poller[el] = "none" => poller'[el] = "none"
<1> DEFINE C == (1..opened) \cup also \cup (IF pc[ingress] # "none" THEN {ingress} ELSE {})
<1>1. \A el \in All : /\ poller'[el] = IF el \in C /\ poller[el] = "open" THEN "closed" ELSE poller[el]
                      /\ listening'[el] = IF el \in C \cup {ingress} THEN 0 ELSE listening[el]
  BY SMTT(40) DEF CloseEventLoops
<1>2. pc[ingress] # "none" => ingress \in C
  OBVIOUS
<1>3. 1..opened \subseteq C /\ also \subseteq C
  OBVIOUS
<1> HIDE DEF C
<1> QED
  BY <1>1, <1>2, <1>3, Indexes, SMTT(40)

\* A start that failed leaves the poller of the main reactor to a server that has one.
LEMMA FailedLife ==
  ASSUME Life, phase' = "failed", UNCHANGED <<mode, pc>>,
         \A el \in All : /\ poller'[el] # "open" /\ listening'[el] = 0
                         /\ poller[el] = "none" => poller'[el] = "none"
  PROVE  Life' /\ PollersClosedInTime'
<1>1. mode' # "reactors" => poller'[ingress] = "none" /\ pc'[ingress] = "none"
  BY Indexes, Zenon DEF Life
<1>2. Life'
  BY <1>1, SMTT(40) DEF Life
<1>3. PollersClosedInTime'
  BY SMTT(40) DEF PollersClosedInTime
<1> QED
  BY <1>2, <1>3

LEMMA LifeStep ==
  ASSUME LifeTypes, Life, PollersClosedInTime, Next
  PROVE  Life' /\ PollersClosedInTime'
<1> USE Indexes DEF LifeTypes
<1>1. CASE Listen
  BY <1>1, SMTT(40) DEF Listen, initListener, Life, PollersClosedInTime, options
<1>2. CASE ListenFails
  BY <1>2, SMTT(40) DEF ListenFails, Life, PollersClosedInTime, options
<1>3. CASE Boot
  <2>1. CASE phase' = "opening" /\ UNCHANGED listening
    <3>1. phase = "boot" /\ UNCHANGED <<mode, opened, poller, pc>>
      BY <1>3, Zenon DEF Boot, options
    <3>2. \A el \in Loops : ~(el <= 0)
      BY SMTT(40) DEF Loops
    <3>3. Life'
      BY <2>1, <3>1, <3>2, SMTT(40) DEF Life
    <3>4. PollersClosedInTime'
      BY <2>1, <3>1, SMTT(40) DEF PollersClosedInTime
    <3> QED
      BY <3>3, <3>4
  <2>2. CASE phase' = "failed" /\ listening' = [listening EXCEPT ![ingress] = 0]
    BY <1>3, <2>2, SMTT(40) DEF Boot, Life, PollersClosedInTime, options
  <2> QED
    BY <1>3, <2>1, <2>2, Zenon DEF Boot
<1>4. CASE OpenListeners
  BY <1>4, SMTT(40) DEF OpenListeners, initListener, Life, PollersClosedInTime, options
<1>5. CASE OpenPoller
  BY <1>5, SMTT(40) DEF OpenPoller, Life, PollersClosedInTime, options
<1>6. CASE RegisterLoop
  BY <1>6, SMTT(40) DEF RegisterLoop, Life, PollersClosedInTime, options
<1>7. CASE OpenLoopFails
  <2>1. /\ phase = "opening" /\ opened < N /\ phase' = "failed" /\ CloseEventLoops({opened + 1})
        /\ UNCHANGED <<mode, pc>>
    BY <1>7, Zenon DEF OpenLoopFails, Cleanup, options
  <2>2. {opened + 1} \in SUBSET All /\ \A el \in Loops : el \in 1..opened \/ el \in {opened + 1} \/ el > opened + 1
    BY <2>1, SMTT(40) DEF Loops
  <2>3. /\ poller[ingress] # "open"
        /\ \A el \in Loops : el \in 1..opened \/ el \in {opened + 1} \/ (poller[el] # "open" /\ listening[el] = 0)
    BY <2>1, <2>2, SMTT(40) DEF Life
  <2> QED
    BY <2>1, <2>2, <2>3, EverythingClosed, FailedLife
<1>8. CASE StartLoops
  <2>1. /\ phase = "opening" /\ opened = N /\ UNCHANGED <<mode, opened, poller, listening>>
        /\ phase' = IF mode = "reactors" THEN "starting" ELSE "up"
        /\ \A el \in Loops : pc'[el] = "run"
        /\ pc'[ingress] = pc[ingress]
    BY <1>8, SMTT(40) DEF StartLoops, options
  <2>2. \A el \in Loops : el <= N
    BY SMTT(40) DEF Loops
  <2>3. Life'
    BY <2>1, <2>2, SMTT(40) DEF Life
  <2>4. PollersClosedInTime'
    BY <2>1, <2>2, SMTT(40) DEF Life, PollersClosedInTime
  <2> QED
    BY <2>3, <2>4
<1>9. CASE OpenIngress
  BY <1>9, SMTT(40) DEF OpenIngress, Life, PollersClosedInTime, options
<1>10. CASE StartIngress
  BY <1>10, SMTT(40) DEF StartIngress, Life, PollersClosedInTime, options
<1>11. CASE StartIngressFails
  <2>1. phase = "starting" /\ phase' = "failed" /\ CloseEventLoops({ingress}) /\ UNCHANGED <<mode, pc>>
    BY <1>11, Zenon DEF StartIngressFails, options
  <2>2. \A el \in Loops : el \in 1..opened
    BY <2>1, SMTT(40) DEF Life, Loops
  <2> QED
    BY <2>1, <2>2, EverythingClosed, FailedLife
<1>12. CASE Accept0 \/ Enroll \/ EnrollFails
  <2>1. UNCHANGED <<mode, phase, opened, poller, listening, pc>>
    BY <1>12, ZenonT(40) DEF Accept0, Enroll, EnrollFails, options, life
  <2>2. GoesOn
    BY <2>1, Zenon DEF GoesOn
  <2> QED
    BY <2>2, LifeGoesOn
<1>13. ASSUME NEW el \in All, Accept(el) \/ AcceptFails(el) \/ ReadUDP(el) \/ RunRegister(el) \/ RunShutdown(el)
       PROVE  GoesOn
  <2>1. pc[el] \in {"run", "exit"} /\ (pc' = pc \/ Exits(el)) /\ UNCHANGED <<mode, phase, opened, poller, listening>>
    BY <1>13, ZenonT(40) DEF Accept, AcceptFails, ReadUDP, RunRegister, RunShutdown, Running, options, life
  <2> QED
    BY <2>1, LoopGoesOn
<1>14. ASSUME NEW el \in All, ConnEvent(el) \/ PollerGone(el) \/ Exit(el)
       PROVE  GoesOn
  <2>1. /\ pc[el] \in {"run", "exit"} /\ (pc' = pc \/ Exits(el) \/ pc' = [pc EXCEPT ![el] = "done"])
        /\ UNCHANGED <<mode, phase, opened, poller, listening>>
    BY <1>14, ZenonT(40) DEF ConnEvent, PollerGone, Exit, Running, options, life
  <2> QED
    BY <2>1, LoopGoesOn
<1>15. ASSUME NEW el \in All, Execute(el)
       PROVE  GoesOn
  BY <1>15, Zenon DEF Execute, GoesOn, options, life
<1>16. CASE RequestStop \/ Stop \/ Tick \/ Ended
  <2>1. GoesOn
    BY <1>16, Zenon DEF RequestStop, Stop, Tick, Ended, GoesOn, vars, options, life
  <2> QED
    BY <2>1, LifeGoesOn
<1>17. CASE TellLoops
  BY <1>17, SMTT(40) DEF TellLoops, Life, PollersClosedInTime, options
<1>18. CASE Finish
  <2>1. /\ phase = "waiting" /\ phase' = "down" /\ CloseEventLoops({}) /\ UNCHANGED <<mode, opened, pc>>
        /\ \A el \in All : pc[el] \in {"none", "done"}
    BY <1>18, Zenon DEF Finish, options
  <2>2. (\A el \in Loops : el \in 1..opened) /\ (pc[ingress] # "none" \/ poller[ingress] # "open")
    BY <2>1, SMTT(40) DEF Life, Loops
  <2>3. \A el \in All : /\ poller'[el] # "open" /\ listening'[el] = 0
                        /\ poller[el] = "none" => poller'[el] = "none"
    BY <2>1, <2>2, EverythingClosed, Zenon
  <2> QED
    BY <2>1, <2>3, SMTT(40) DEF Life, PollersClosedInTime
<1> QED
  BY <1>1, <1>2, <1>3, <1>4, <1>5, <1>6, <1>7, <1>8, <1>9, <1>10, <1>11, <1>12, <1>13, <1>14, <1>15,
     <1>16, <1>17, <1>18, LifeGoesOn, ZenonT(40) DEF Next, LoopStep

--------------------------------------------------------------------------
(* Every step keeps the tables and the queues. *)

Data == DataTypes /\ Queues /\ Tables /\ Reached

\* No loop ends and none comes back, and nothing else changes.
Quiet ==
  /\ UNCHANGED <<urgent, tasks, connections, socket, loop, opens, closes, enrol>>
  /\ \A el \in All : /\ pc'[el] = "done" => pc[el] = "done"
                     /\ pc'[el] \in {"none", "run"} => pc[el] \in {"none", "run"}

LEMMA QuietStep ==
  ASSUME Data, Quiet
  PROVE  Data'
<1> USE DEF Data, Quiet
<1>1. DataTypes' /\ Queues'
  BY Zenon DEF DataTypes, Queues, QueueOf
<1>2. ASSUME NEW c \in Conns PROVE TableOf(c)'
  <2>1. TableOf(c) /\ (loop[c] \in Loops => (pc'[loop[c]] = "done" => pc[loop[c]] = "done"))
    BY Indexes, Zenon DEF Tables
  <2> QED
    BY <2>1, SMTT(40) DEF TableOf
<1>3. ASSUME NEW c \in Conns PROVE ReachedOf(c)'
  <2>1. ReachedOf(c) /\ (loop[c] \in Loops => (pc'[loop[c]] \in {"none", "run"} => pc[loop[c]] \in {"none", "run"}))
    BY Indexes, Zenon DEF Reached
  <2>2. socket[c] = "open" /\ enrol[c] # "err" => loop[c] \in Loops
    BY Zenon DEF Tables, TableOf
  <2> QED
    BY <2>1, <2>2, Zenon DEF ReachedOf
<1> QED
  BY <1>1, <1>2, <1>3 DEF Tables, Reached

\* A loop is asked to shut down: its queues know the same connections as before.
Told(q, p) == p = q \/ p = Append(q, Task("shutdown", Nil))

LEMMA ToldQueue ==
  ASSUME NEW q \in Seq(Tasks), NEW p, Told(q, p), Distinct(q)
  PROVE  p \in Seq(Tasks) /\ Distinct(p) /\ \A c \in Conns : Holds(p, c) <=> Holds(q, c)
<1>1. CASE p = q
  BY <1>1
<1>2. CASE p = Append(q, Task("shutdown", Nil))
  BY <1>2, TaskTypes, AppendTask, Zenon
<1> QED
  BY <1>1, <1>2, Zenon DEF Told

ToldLoops ==
  /\ UNCHANGED <<connections, socket, loop, opens, closes, enrol, pc>>
  /\ urgent' = [el \in All |-> urgent'[el]] /\ tasks' = [el \in All |-> tasks'[el]]
  /\ \A el \in All : Told(urgent[el], urgent'[el]) /\ Told(tasks[el], tasks'[el])

LEMMA ToldStep ==
  ASSUME Data, ToldLoops
  PROVE  Data'
<1> USE DEF Data, ToldLoops
<1>1. ASSUME NEW el \in All
      PROVE  /\ urgent'[el] \in Seq(Tasks) /\ Distinct(urgent'[el])
             /\ tasks'[el] \in Seq(Tasks) /\ Distinct(tasks'[el])
             /\ \A c \in Conns : /\ Holds(urgent'[el], c) <=> Holds(urgent[el], c)
                                 /\ Holds(tasks'[el], c) <=> Holds(tasks[el], c)
  <2>1. urgent[el] \in Seq(Tasks) /\ tasks[el] \in Seq(Tasks) /\ Distinct(urgent[el]) /\ Distinct(tasks[el])
    BY Zenon DEF DataTypes, Queues
  <2> QED
    BY <2>1, ToldQueue, Zenon
<1>2. DataTypes'
  <2>1. urgent' \in [All -> Seq(Tasks)] /\ tasks' \in [All -> Seq(Tasks)]
    BY <1>1, Zenon
  <2> QED
    BY <2>1, Zenon DEF DataTypes
<1>3. Queues'
  BY <1>1, Zenon DEF Queues, QueueOf
<1>4. Tables'
  BY Zenon DEF Tables, TableOf
<1>5. ASSUME NEW c \in Conns PROVE ReachedOf(c)'
  <2>1. ReachedOf(c) /\ (socket[c] = "open" /\ enrol[c] # "err" => loop[c] \in All)
    BY Indexes, Zenon DEF Reached, Tables, TableOf
  <2> QED
    BY <2>1, <1>1, Zenon DEF ReachedOf
<1> QED
  BY <1>2, <1>3, <1>4, <1>5 DEF Reached

\* What a step does to all queues of a priority.
WellQueued(q) == q \in [All -> Seq(Tasks)] /\ \A e \in All : Distinct(q[e])
AppendedTo(q, p, el, t) == p = [q EXCEPT ![el] = Append(q[el], t)]
TakenFrom(q, p, el) == q[el] # <<>> /\ p = [q EXCEPT ![el] = Tail(q[el])]
EmptiedAt(q, p, el) == p = [q EXCEPT ![el] = <<>>]

LEMMA AppendTo ==
  ASSUME NEW q, NEW p, NEW el \in All, NEW t \in Tasks, t.c \in Conns, ~Holds(q[el], t.c),
         WellQueued(q), AppendedTo(q, p, el, t)
  PROVE  /\ WellQueued(p)
         /\ \A e \in All, c \in Conns : Holds(p[e], c) <=> Holds(q[e], c) \/ (e = el /\ c = t.c)
<1> USE DEF WellQueued, AppendedTo
<1>1. /\ Append(q[el], t) \in Seq(Tasks) /\ Distinct(Append(q[el], t))
      /\ \A c \in Conns : Holds(Append(q[el], t), c) <=> Holds(q[el], c) \/ c = t.c
  BY AppendTask, Zenon
<1>2. p \in [All -> Seq(Tasks)] /\ p[el] = Append(q[el], t) /\ \A e \in All : e # el => p[e] = q[e]
  BY <1>1, Zenon
<1> QED
  BY <1>1, <1>2, Zenon

LEMMA TakeFrom ==
  ASSUME NEW q, NEW p, NEW el \in All, WellQueued(q), TakenFrom(q, p, el)
  PROVE  /\ WellQueued(p) /\ (Head(q[el]).c \in Conns => Holds(q[el], Head(q[el]).c))
         /\ \A e \in All, c \in Conns : Holds(p[e], c) <=> Holds(q[e], c) /\ ~(e = el /\ c = Head(q[el]).c)
<1> USE DEF WellQueued, TakenFrom
<1>1. /\ Tail(q[el]) \in Seq(Tasks) /\ Distinct(Tail(q[el]))
      /\ Head(q[el]).c \in Conns => Holds(q[el], Head(q[el]).c)
      /\ \A c \in Conns : Holds(Tail(q[el]), c) <=> Holds(q[el], c) /\ c # Head(q[el]).c
  BY TailTask, Zenon
<1>2. p \in [All -> Seq(Tasks)] /\ p[el] = Tail(q[el]) /\ \A e \in All : e # el => p[e] = q[e]
  BY <1>1, Zenon
<1> QED
  BY <1>1, <1>2, Zenon

LEMMA Emptied ==
  ASSUME NEW q, NEW p, NEW el \in All, WellQueued(q), EmptiedAt(q, p, el)
  PROVE  /\ WellQueued(p)
         /\ \A e \in All, c \in Conns : Holds(p[e], c) <=> Holds(q[e], c) /\ e # el
<1> USE DEF WellQueued, EmptiedAt
<1>1. p \in [All -> Seq(Tasks)] /\ p[el] = <<>> /\ \A e \in All : e # el => p[e] = q[e]
  BY EmptyQueue, Zenon
<1> QED
  BY <1>1, EmptyQueue, Zenon

\* A connection nothing has happened to is in no queue and in no table.
LEMMA Untouched ==
  ASSUME Data, NEW c \in Conns, socket[c] = "none"
  PROVE  /\ \A e \in All : ~Holds(urgent[e], c) /\ ~Holds(tasks[e], c) /\ c \notin connections[e]
         /\ opens[c] = 0 /\ closes[c] = 0
<1>1. \A e \in All : ~Holds(urgent[e], c) /\ ~Holds(tasks[e], c)
  BY SMTT(40) DEF Data, Queues, QueueOf
<1>2. opens[c] = 0 /\ closes[c] = 0 /\ \A e \in All : c \notin connections[e]
  <2>1. TableOf(c) /\ opens[c] \in Nat /\ closes[c] \in Nat
    BY Zenon DEF Data, Tables, DataTypes
  <2> QED
    BY <2>1, SMTT(40) DEF TableOf
<1> QED
  BY <1>1, <1>2, Zenon

LEMMA HandedStep ==
  ASSUME Data, NEW c \in Conns, NEW el \in Loops, Handed(c, el)
  PROVE  Data'
<1> DEFINE Others == \A e \in All, d \in Conns : d # c => /\ Holds(urgent'[e], d) <=> Holds(urgent[e], d)
                                                          /\ Holds(tasks'[e], d) <=> Holds(tasks[e], d)
           Well   == WellQueued(urgent') /\ WellQueued(tasks')
           Once   == \A e \in All : /\ ~(Holds(urgent'[e], c) /\ Holds(tasks'[e], c))
                                    /\ Holds(urgent'[e], c) \/ Holds(tasks'[e], c) => e = el /\ socket'[c] = "open"
           There  == socket'[c] = "open" /\ enrol'[c] # "err" => Holds(urgent'[el], c) \/ Holds(tasks'[el], c)
<1>1. el \in All /\ el \in Loops
  BY Indexes
<1>2. /\ \A e \in All : ~Holds(urgent[e], c) /\ ~Holds(tasks[e], c) /\ c \notin connections[e]
      /\ opens[c] = 0 /\ closes[c] = 0
  BY Untouched, Zenon DEF Handed
<1>3. WellQueued(urgent) /\ WellQueued(tasks)
  BY Zenon DEF Data, DataTypes, Queues, WellQueued
<1>4. /\ socket' \in [Conns -> {"none", "open", "closed"}] /\ enrol' \in [Conns -> {"no", "wait", "ok", "err"}]
      /\ socket'[c] \in {"open", "closed"} /\ \A d \in Conns : d # c => socket'[d] = socket[d] /\ enrol'[d] = enrol[d]
  <2>1. /\ socket' = [socket EXCEPT ![c] = "open"] \/ socket' = [socket EXCEPT ![c] = "closed"]
        /\ enrol' = enrol \/ enrol' = [enrol EXCEPT ![c] = "wait"] \/ enrol' = [enrol EXCEPT ![c] = "err"]
    BY Zenon DEF Handed
  <2>2. socket \in [Conns -> {"none", "open", "closed"}] /\ enrol \in [Conns -> {"no", "wait", "ok", "err"}]
    BY Zenon DEF Data, DataTypes
  <2>3. /\ socket' \in [Conns -> {"none", "open", "closed"}] /\ socket'[c] \in {"open", "closed"}
        /\ \A d \in Conns : d # c => socket'[d] = socket[d]
    BY <2>1, <2>2, SMTT(40)
  <2>4. enrol' \in [Conns -> {"no", "wait", "ok", "err"}] /\ \A d \in Conns : d # c => enrol'[d] = enrol[d]
    BY <2>1, <2>2, SMTT(40)
  <2> QED
    BY <2>3, <2>4
<1>5. loop' \in [Conns -> Loops \cup {Nil}] /\ loop'[c] = el /\ \A d \in Conns : d # c => loop'[d] = loop[d]
  BY SMTT(40) DEF Handed, Data, DataTypes
<1>6. UNCHANGED <<pc, connections, opens, closes>>
  BY Zenon DEF Handed
<1>7. Others /\ Well /\ Once /\ There
  <2>1. ASSUME NEW t \in Tasks, t.c = c, urgent' = [urgent EXCEPT ![el] = Append(urgent[el], t)], tasks' = tasks,
               socket' = [socket EXCEPT ![c] = "open"]
        PROVE  Others /\ Well /\ Once /\ There
    <3>1. /\ WellQueued(urgent')
          /\ \A e \in All, d \in Conns : Holds(urgent'[e], d) <=> Holds(urgent[e], d) \/ (e = el /\ d = t.c)
      <4>1. t.c \in Conns /\ ~Holds(urgent[el], t.c) /\ AppendedTo(urgent, urgent', el, t)
        BY <1>1, <1>2, <2>1 DEF AppendedTo
      <4> QED
        BY <4>1, <1>1, <1>3, AppendTo, SMTT(60)
    <3>2. socket'[c] = "open"
      BY <2>1, SMTT(40) DEF Data, DataTypes
    <3> QED
      BY <1>1, <1>2, <1>3, <2>1, <3>1, <3>2, Zenon
  <2>2. ASSUME NEW t \in Tasks, t.c = c, tasks' = [tasks EXCEPT ![el] = Append(tasks[el], t)], urgent' = urgent,
               socket' = [socket EXCEPT ![c] = "open"]
        PROVE  Others /\ Well /\ Once /\ There
    <3>1. /\ WellQueued(tasks')
          /\ \A e \in All, d \in Conns : Holds(tasks'[e], d) <=> Holds(tasks[e], d) \/ (e = el /\ d = t.c)
      <4>1. t.c \in Conns /\ ~Holds(tasks[el], t.c) /\ AppendedTo(tasks, tasks', el, t)
        BY <1>1, <1>2, <2>2 DEF AppendedTo
      <4> QED
        BY <4>1, <1>1, <1>3, AppendTo, SMTT(60)
    <3>2. socket'[c] = "open"
      BY <2>2, SMTT(40) DEF Data, DataTypes
    <3> QED
      BY <1>1, <1>2, <1>3, <2>2, <3>1, <3>2, Zenon
  <2>3. ASSUME UNCHANGED <<urgent, tasks>>, \/ socket' = [socket EXCEPT ![c] = "closed"]
                                            \/ enrol' = [enrol EXCEPT ![c] = "err"]
        PROVE  Others /\ Well /\ Once /\ There
    <3>1. socket'[c] = "closed" \/ enrol'[c] = "err"
      BY <2>3, SMTT(40) DEF Data, DataTypes
    <3> QED
      BY <1>1, <1>2, <1>3, <2>3, <3>1, SMTT(40)
  <2>4. /\ Task("register", c) \in Tasks /\ Task("register", c).c = c
        /\ Task("enrol", c) \in Tasks /\ Task("enrol", c).c = c
    BY TaskTypes, SMTT(40) DEF Task
  <2> HIDE DEF Others, Well, Once, There
  <2> QED
    BY <2>1, <2>2, <2>3, <2>4, ZenonT(40) DEF Handed
<1>8. DataTypes'
  BY <1>4, <1>5, <1>6, <1>7, Zenon DEF Data, DataTypes, WellQueued
<1>9. ASSUME NEW e \in All, NEW d \in Conns PROVE QueueOf(e, d)'
  <2>1. QueueOf(e, d)
    BY Zenon DEF Data, Queues
  <2>2. CASE d = c
    BY <2>2, <1>2, <1>5, <1>6, <1>7, Zenon DEF QueueOf
  <2>3. CASE d # c
    BY <2>1, <2>3, <1>4, <1>5, <1>6, <1>7, Zenon DEF QueueOf
  <2> QED
    BY <2>2, <2>3
<1>10. ASSUME NEW d \in Conns PROVE TableOf(d)'
  <2>1. TableOf(d)
    BY Zenon DEF Data, Tables
  <2>2. CASE d = c
    BY <2>2, <1>1, <1>2, <1>4, <1>5, <1>6, SMTT(40) DEF TableOf
  <2>3. CASE d # c
    BY <2>1, <2>3, <1>4, <1>5, <1>6, Zenon DEF TableOf
  <2> QED
    BY <2>2, <2>3
<1>11. ASSUME NEW d \in Conns PROVE ReachedOf(d)'
  <2>1. ReachedOf(d) /\ (socket[d] = "open" /\ enrol[d] # "err" => loop[d] \in All)
    BY Indexes, Zenon DEF Data, Reached, Tables, TableOf
  <2>2. CASE d = c
    BY <2>2, <1>5, <1>7, Zenon DEF ReachedOf
  <2>3. CASE d # c
    BY <2>1, <2>3, <1>4, <1>5, <1>6, <1>7, Zenon DEF ReachedOf
  <2> QED
    BY <2>2, <2>3
<1> QED
  BY <1>7, <1>8, <1>9, <1>10, <1>11, Zenon DEF Data, Queues, Tables, Reached, WellQueued

LEMMA EnrollFailsStep ==
  ASSUME Data, EnrollFails
  PROVE  Data'
<1>1. PICK c \in Conns, left \in {"open", "closed"} :
        /\ socket[c] = "none" /\ enrol' = [enrol EXCEPT ![c] = "err"] /\ socket' = [socket EXCEPT ![c] = left]
        /\ UNCHANGED <<pc, urgent, tasks, connections, loop, opens, closes>>
  BY Zenon DEF EnrollFails, queues
<1>2. /\ \A e \in All : ~Holds(urgent[e], c) /\ ~Holds(tasks[e], c) /\ c \notin connections[e]
      /\ opens[c] = 0 /\ closes[c] = 0
  BY <1>1, Untouched, Zenon
<1>3. /\ socket' \in [Conns -> {"none", "open", "closed"}] /\ enrol' \in [Conns -> {"no", "wait", "ok", "err"}]
      /\ socket'[c] \in {"open", "closed"} /\ enrol'[c] = "err"
      /\ \A d \in Conns : d # c => socket'[d] = socket[d] /\ enrol'[d] = enrol[d]
  BY <1>1, SMTT(40) DEF Data, DataTypes
<1>4. DataTypes'
  BY <1>1, <1>3, Zenon DEF Data, DataTypes
<1>5. ASSUME NEW e \in All PROVE Distinct(urgent'[e]) /\ Distinct(tasks'[e])
  BY <1>1, Zenon DEF Data, Queues
<1>6. ASSUME NEW e \in All, NEW d \in Conns PROVE QueueOf(e, d)'
  <2>1. QueueOf(e, d)
    BY Zenon DEF Data, Queues
  <2> QED
    BY <2>1, <1>1, <1>2, <1>3, Zenon DEF QueueOf
<1>7. ASSUME NEW d \in Conns PROVE TableOf(d)'
  <2>1. TableOf(d)
    BY Zenon DEF Data, Tables
  <2>2. CASE d = c
    BY <2>2, <1>1, <1>2, <1>3, SMTT(40) DEF TableOf
  <2>3. CASE d # c
    BY <2>1, <2>3, <1>1, <1>3, Zenon DEF TableOf
  <2> QED
    BY <2>2, <2>3
<1>8. ASSUME NEW d \in Conns PROVE ReachedOf(d)'
  <2>1. ReachedOf(d)
    BY Zenon DEF Data, Reached
  <2> QED
    BY <2>1, <1>1, <1>3, Zenon DEF ReachedOf
<1> QED
  BY <1>4, <1>5, <1>6, <1>7, <1>8, Zenon DEF Data, Queues, Tables, Reached

\* A Shutdown leaves the tasks behind it to nobody: their loop ends.
LEMMA DiscardStep ==
  ASSUME Data, LifeTypes, NEW el \in All, Discards(el), Exits(el), pc[el] = "run",
         UNCHANGED <<connections, socket, loop, opens, closes, enrol>>
  PROVE  Data'
<1>1. WellQueued(urgent) /\ WellQueued(tasks)
  BY Zenon DEF Data, DataTypes, Queues, WellQueued
<1>2. EmptiedAt(urgent, urgent', el) /\ EmptiedAt(tasks, tasks', el)
  BY Zenon DEF Discards, EmptiedAt
<1>3. /\ WellQueued(urgent') /\ WellQueued(tasks')
      /\ \A e \in All, c \in Conns : /\ Holds(urgent'[e], c) <=> Holds(urgent[e], c) /\ e # el
                                     /\ Holds(tasks'[e], c) <=> Holds(tasks[e], c) /\ e # el
  BY <1>1, <1>2, Emptied, SMTT(60)
<1>4. pc'[el] = "exit" /\ \A e \in All : e # el => pc'[e] = pc[e]
  BY SMTT(40) DEF LifeTypes, Exits
<1>5. DataTypes'
  BY <1>3, Zenon DEF Data, DataTypes, WellQueued
<1>6. ASSUME NEW e \in All, NEW c \in Conns PROVE QueueOf(e, c)'
  <2>1. QueueOf(e, c)
    BY Zenon DEF Data, Queues
  <2> QED
    BY <2>1, <1>3, Zenon DEF QueueOf
<1>7. ASSUME NEW c \in Conns PROVE TableOf(c)'
  <2>1. TableOf(c)
    BY Zenon DEF Data, Tables
  <2>2. loop[c] \in Loops => (pc[loop[c]] # "done" => pc'[loop[c]] # "done")
    BY <1>4, Indexes, Zenon
  <2> QED
    BY <2>1, <2>2, SMTT(40) DEF TableOf
<1>8. ASSUME NEW c \in Conns PROVE ReachedOf(c)'
  <2>1. ReachedOf(c) /\ (socket[c] = "open" /\ enrol[c] # "err" => loop[c] \in All)
    BY Indexes, Zenon DEF Data, Reached, Tables, TableOf
  <2>2. CASE loop[c] = el
    <3>1. loop' = loop /\ pc'[loop[c]] \notin {"none", "run"}
      BY <2>2, <1>4, SMTT(40)
    <3> QED
      BY <3>1, Zenon DEF ReachedOf
  <2>3. CASE loop[c] # el
    BY <2>1, <2>3, <1>3, <1>4, Zenon DEF ReachedOf
  <2> QED
    BY <2>2, <2>3
<1> QED
  BY <1>3, <1>5, <1>6, <1>7, <1>8, Zenon DEF Data, Queues, Tables, Reached, WellQueued

\* Connections of a loop are closed, all of them when it ends.
LEMMA ClosedStep ==
  ASSUME Data, LifeTypes, NEW el \in All, NEW C \in SUBSET connections[el], Closed(el, C),
         UNCHANGED <<urgent, tasks, loop, opens, enrol>>, pc[el] \in {"run", "exit"},
         pc' = pc \/ Exits(el) \/ (pc' = [pc EXCEPT ![el] = "done"] /\ C = connections[el])
  PROVE  Data'
<1>1. /\ connections \in [All -> SUBSET Conns] /\ socket \in [Conns -> {"none", "open", "closed"}]
      /\ closes \in [Conns -> Nat] /\ opens \in [Conns -> Nat]
  BY Zenon DEF Data, DataTypes
<1>2. C \subseteq Conns
  BY <1>1, Zenon
<1>3. /\ connections' \in [All -> SUBSET Conns] /\ connections'[el] = connections[el] \ C
      /\ \A e \in All : e # el => connections'[e] = connections[e]
  BY <1>1, <1>2, SMTT(40) DEF Closed
<1>4. /\ socket' \in [Conns -> {"none", "open", "closed"}] /\ closes' \in [Conns -> Nat]
      /\ \A c \in Conns : IF c \in C THEN socket'[c] = "closed" /\ closes'[c] = closes[c] + 1
                                     ELSE socket'[c] = socket[c] /\ closes'[c] = closes[c]
  BY <1>1, <1>2, SMTT(40) DEF Closed
<1>5. /\ \A e \in All : e # el => pc'[e] = pc[e]
      /\ pc'[el] \in {"none", "run"} => pc[el] = "run"
      /\ pc'[el] = "done" => C = connections[el]
  BY SMTT(40) DEF LifeTypes, Exits
<1>6. \A c \in C : opens[c] = 1 /\ closes[c] = 0 /\ loop[c] = el
  <2> SUFFICES ASSUME NEW c \in C PROVE opens[c] = 1 /\ closes[c] = 0 /\ loop[c] = el
    OBVIOUS
  <2>1. TableOf(c) /\ c \in connections[el] /\ opens[c] \in Nat /\ closes[c] \in Nat
    BY <1>1, <1>2, Zenon DEF Data, Tables
  <2> QED
    BY <2>1, SMTT(40) DEF TableOf
<1>7. DataTypes'
  BY <1>3, <1>4, Zenon DEF Data, DataTypes
<1>8. ASSUME NEW e \in All, NEW c \in Conns PROVE QueueOf(e, c)'
  <2>1. QueueOf(e, c)
    BY Zenon DEF Data, Queues
  <2>2. c \in C => opens[c] # 0
    BY <1>6, SMTT(40)
  <2> QED
    BY <2>1, <2>2, <1>4, Zenon DEF QueueOf
<1>9. ASSUME NEW c \in Conns PROVE TableOf(c)'
  <2>1. TableOf(c)
    BY Zenon DEF Data, Tables
  <2>2. CASE c \in C
    BY <2>1, <2>2, <1>3, <1>4, <1>6, SMTT(40) DEF TableOf
  <2>3. CASE c \notin C
    <3>1. UNCHANGED <<socket[c], closes[c], opens[c], loop[c], enrol[c]>>
      BY <2>3, <1>4, Zenon
    <3>2. \A e \in All : c \in connections'[e] <=> c \in connections[e]
      BY <2>3, <1>3, Zenon
    <3>3. opens[c] > closes[c] => pc'[loop[c]] # "done"
      <4> SUFFICES ASSUME opens[c] > closes[c], pc'[loop[c]] = "done" PROVE FALSE
        OBVIOUS
      <4>1. loop[c] \in All /\ c \in connections[loop[c]] /\ pc[loop[c]] # "done"
        BY <2>1, Indexes, Zenon DEF TableOf
      <4> QED
        BY <4>1, <2>3, <1>5, ZenonT(40)
    <3> QED
      BY <2>1, <3>1, <3>2, <3>3, Zenon DEF TableOf
  <2> QED
    BY <2>2, <2>3
<1>10. ASSUME NEW c \in Conns PROVE ReachedOf(c)'
  <2>1. ReachedOf(c) /\ (socket[c] = "open" /\ enrol[c] # "err" => loop[c] \in All)
    BY Indexes, Zenon DEF Data, Reached, Tables, TableOf
  <2>2. CASE c \in C
    <3>1. socket'[c] # "open"
      BY <2>2, <1>4, SMTT(40)
    <3> QED
      BY <3>1, Zenon DEF ReachedOf
  <2>3. CASE c \notin C
    <3>1. socket'[c] = socket[c] /\ \A e \in All : c \in connections'[e] <=> c \in connections[e]
      BY <2>3, <1>3, <1>4, Zenon
    <3>2. loop[c] \in All => (pc'[loop[c]] \in {"none", "run"} => pc[loop[c]] \in {"none", "run"})
      BY <1>5, SMTT(40)
    <3> QED
      BY <2>1, <3>1, <3>2, Zenon DEF ReachedOf
  <2> QED
    BY <2>2, <2>3
<1>11. ASSUME NEW e \in All PROVE Distinct(urgent'[e]) /\ Distinct(tasks'[e])
  BY Zenon DEF Data, Queues
<1> QED
  BY <1>7, <1>8, <1>9, <1>10, <1>11, Zenon DEF Data, Queues, Tables, Reached

\* What register0 does to the connection it is given, and to the others.
LEMMA OpenedConn ==
  ASSUME DataTypes, NEW el \in All, NEW c \in Conns, Opened(el, c), opens[c] = 0, closes[c] = 0,
         \A e \in All : c \notin connections[e]
  PROVE  /\ connections' \in [All -> SUBSET Conns] /\ socket' \in [Conns -> {"none", "open", "closed"}]
         /\ opens' \in [Conns -> Nat] /\ closes' \in [Conns -> Nat]
         /\ \A d \in Conns : d # c => /\ UNCHANGED <<socket[d], opens[d], closes[d]>>
                                      /\ \A e \in All : d \in connections'[e] <=> d \in connections[e]
         /\ closes'[c] <= opens'[c] /\ opens'[c] <= 1
         /\ socket'[c] = "closed" \/ (socket'[c] = "open" /\ opens'[c] = 1 /\ closes'[c] = 0)
         /\ \A e \in All : c \in connections'[e] <=> e = el /\ socket'[c] = "open"
         /\ opens'[c] > closes'[c] <=> socket'[c] = "open"
<1> USE DEF DataTypes
<1>1. CASE Opened(el, c)!1
  BY <1>1, SMTT(40)
<1>2. CASE Opened(el, c)!2
  <2>1. /\ connections' \in [All -> SUBSET Conns] /\ connections'[el] = connections[el] \cup {c}
        /\ \A e \in All : e # el => connections'[e] = connections[e]
    BY <1>2, SMTT(40)
  <2>2. /\ socket' \in [Conns -> {"none", "open", "closed"}] /\ opens' \in [Conns -> Nat] /\ closes' \in [Conns -> Nat]
        /\ socket'[c] = "open" /\ opens'[c] = 1 /\ closes'[c] = 0
        /\ \A d \in Conns : d # c => UNCHANGED <<socket[d], opens[d], closes[d]>>
    BY <1>2, SMTT(40)
  <2>3. \A d \in Conns : d # c => \A e \in All : d \in connections'[e] <=> d \in connections[e]
    BY <2>1, Zenon
  <2>4. \A e \in All : c \in connections'[e] <=> e = el
    BY <2>1, Zenon
  <2> QED
    BY <2>1, <2>2, <2>3, <2>4, SMTT(40)
<1>3. CASE Opened(el, c)!3
  BY <1>3, SMTT(40)
<1> QED
  BY <1>1, <1>2, <1>3, Zenon DEF Opened

\* A connection is opened on its loop, no task is about it any more, and only a loop that
\* ends forgets the others.
OpenedOn(el, c) ==
  /\ el \in Loops /\ pc[el] = "run" /\ (pc' = pc \/ Exits(el)) /\ Opened(el, c)
  /\ opens[c] = 0 /\ closes[c] = 0 /\ \A e \in All : c \notin connections[e]
  /\ loop' \in [Conns -> Loops \cup {Nil}] /\ loop'[c] = el
  /\ enrol' \in [Conns -> {"no", "wait", "ok", "err"}]
  /\ \A d \in Conns : d # c => loop'[d] = loop[d] /\ enrol'[d] = enrol[d]
  /\ WellQueued(urgent') /\ WellQueued(tasks')
  /\ \A e \in All : ~Holds(urgent'[e], c) /\ ~Holds(tasks'[e], c)
  /\ \A e \in All, d \in Conns : /\ Holds(urgent'[e], d) => Holds(urgent[e], d)
                                 /\ Holds(tasks'[e], d) => Holds(tasks[e], d)
  /\ \A e \in All, d \in Conns : d # c /\ pc'[e] \in {"none", "run"} =>
                                /\ Holds(urgent[e], d) => Holds(urgent'[e], d)
                                /\ Holds(tasks[e], d) => Holds(tasks'[e], d)

LEMMA OpenedStep ==
  ASSUME Data, LifeTypes, NEW el \in All, NEW c \in Conns, OpenedOn(el, c)
  PROVE  Data'
<1> USE DEF OpenedOn
<1>1. el \in All
  OBVIOUS
<1>2. /\ connections' \in [All -> SUBSET Conns] /\ socket' \in [Conns -> {"none", "open", "closed"}]
      /\ opens' \in [Conns -> Nat] /\ closes' \in [Conns -> Nat]
      /\ \A d \in Conns : d # c => /\ UNCHANGED <<socket[d], opens[d], closes[d]>>
                                   /\ \A e \in All : d \in connections'[e] <=> d \in connections[e]
      /\ closes'[c] <= opens'[c] /\ opens'[c] <= 1
      /\ socket'[c] = "closed" \/ (socket'[c] = "open" /\ opens'[c] = 1 /\ closes'[c] = 0)
      /\ \A e \in All : c \in connections'[e] <=> e = el /\ socket'[c] = "open"
      /\ opens'[c] > closes'[c] <=> socket'[c] = "open"
  BY <1>1, OpenedConn, ZenonT(40) DEF Data
<1>3. pc'[el] # "done" /\ \A e \in All : e # el => pc'[e] = pc[e]
  BY <1>1, SMTT(40) DEF LifeTypes, Exits
<1>4. pc'[el] \in {"none", "run"} => pc[el] \in {"none", "run"}
  OBVIOUS
<1>5. DataTypes'
  BY <1>2, Zenon DEF DataTypes, WellQueued
<1>6. ASSUME NEW e \in All, NEW d \in Conns PROVE QueueOf(e, d)'
  <2>1. QueueOf(e, d)
    BY Zenon DEF Data, Queues
  <2>2. CASE d = c
    BY <2>2, Zenon DEF QueueOf
  <2>3. CASE d # c
    BY <2>1, <2>3, <1>2, ZenonT(40) DEF QueueOf
  <2> QED
    BY <2>2, <2>3
<1>7. ASSUME NEW d \in Conns PROVE TableOf(d)'
  <2>1. TableOf(d)
    BY ZenonT(40) DEF Data, Tables
  <2>2. CASE d = c
    BY <2>2, <1>2, <1>3, SMTT(40) DEF TableOf
  <2>3. CASE d # c
    <3>1. loop[d] \in Loops => (pc[loop[d]] # "done" => pc'[loop[d]] # "done")
      BY <1>3, Indexes, Zenon
    <3>2. UNCHANGED <<socket[d], opens[d], closes[d], loop[d], enrol[d]>>
      BY <2>3, <1>2, Zenon
    <3>3. \A e \in All : d \in connections'[e] <=> d \in connections[e]
      BY <2>3, <1>2, Zenon
    <3> QED
      BY <2>1, <3>1, <3>2, <3>3, Zenon DEF TableOf
  <2> QED
    BY <2>2, <2>3
<1>8. ASSUME NEW d \in Conns PROVE ReachedOf(d)'
  <2>1. ReachedOf(d) /\ (socket[d] = "open" /\ enrol[d] # "err" => loop[d] \in All)
    BY Indexes, Zenon DEF Data, Reached, Tables, TableOf
  <2>2. CASE d = c
    BY <2>2, <1>1, <1>2, Zenon DEF ReachedOf
  <2>3. CASE d # c
    <3>1. loop[d] \in All => (pc'[loop[d]] \in {"none", "run"} => pc[loop[d]] \in {"none", "run"})
      BY <1>3, Zenon
    <3> QED
      BY <2>1, <2>3, <3>1, <1>2, Zenon DEF ReachedOf
  <2> QED
    BY <2>2, <2>3
<1> QED
  BY <1>5, <1>6, <1>7, <1>8, ZenonT(40) DEF Data, Queues, Tables, Reached, WellQueued

LEMMA AcceptedStep ==
  ASSUME Data, LifeTypes, NEW el \in All, NEW c \in Conns, Accepted(el, c)
  PROVE  Data'
<1> USE DEF Accepted
<1>1. /\ \A e \in All : ~Holds(urgent[e], c) /\ ~Holds(tasks[e], c) /\ c \notin connections[e]
      /\ opens[c] = 0 /\ closes[c] = 0
  BY Untouched, Zenon
<1>2. WellQueued(urgent') /\ WellQueued(tasks')
  BY Zenon DEF Data, DataTypes, Queues, WellQueued
<1>3. loop' \in [Conns -> Loops \cup {Nil}] /\ loop'[c] = el /\ \A d \in Conns : d # c => loop'[d] = loop[d]
  BY SMTT(40) DEF Data, DataTypes
<1>4. enrol' \in [Conns -> {"no", "wait", "ok", "err"}]
  BY Zenon DEF Data, DataTypes
<1>5. UNCHANGED <<urgent, tasks, enrol>> /\ el \in Loops /\ pc[el] = "run" /\ (pc' = pc \/ Exits(el)) /\ Opened(el, c)
  BY Zenon
<1> HIDE DEF Accepted
<1>6. OpenedOn(el, c)
  BY <1>1, <1>2, <1>3, <1>4, <1>5, Zenon DEF OpenedOn
<1> QED
  BY <1>6, OpenedStep

LEMMA RanStep ==
  ASSUME Data, LifeTypes, NEW el \in All, NEW c \in Conns, Ran(el, c)
  PROVE  Data'
<1>1. WellQueued(urgent) /\ WellQueued(tasks)
  BY Zenon DEF Data, DataTypes, Queues, WellQueued
<1>2. Holds(urgent[el], c) \/ Holds(tasks[el], c)
  <2>1. \/ urgent[el] # <<>> /\ c = Head(urgent[el]).c
        \/ tasks[el] # <<>> /\ c = Head(tasks[el]).c
    BY Zenon DEF Ran, RanUrgent, RanTask, RanLast
  <2>2. /\ urgent[el] \in Seq(Tasks) /\ Distinct(urgent[el])
        /\ tasks[el] \in Seq(Tasks) /\ Distinct(tasks[el])
    BY <1>1, Zenon DEF WellQueued
  <2>3. CASE urgent[el] # <<>> /\ c = Head(urgent[el]).c
    BY <2>2, <2>3, TailTask, SMTT(40)
  <2>4. CASE tasks[el] # <<>> /\ c = Head(tasks[el]).c
    BY <2>2, <2>4, TailTask, SMTT(40)
  <2> QED
    BY <2>1, <2>3, <2>4
<1>3. loop[c] = el /\ socket[c] = "open" /\ opens[c] = 0 /\ closes[c] = 0 /\ \A e \in All : c \notin connections[e]
  <2>1. QueueOf(el, c) /\ TableOf(c) /\ opens[c] \in Nat /\ closes[c] \in Nat
    BY Zenon DEF Data, Queues, Tables, DataTypes
  <2> QED
    BY <1>2, <2>1, SMTT(40) DEF QueueOf, TableOf
<1>4. \A e \in All : e # el => ~Holds(urgent[e], c) /\ ~Holds(tasks[e], c)
  BY <1>3, Zenon DEF Data, Queues, QueueOf
<1>5. ~(Holds(urgent[el], c) /\ Holds(tasks[el], c))
  BY Zenon DEF Data, Queues, QueueOf
<1>6. el \in Loops
  BY <1>3, EngineAssumption, SMTT(40) DEF Data, DataTypes
<1> DEFINE Well == WellQueued(urgent') /\ WellQueued(tasks')
           Gone == \A e \in All : ~Holds(urgent'[e], c) /\ ~Holds(tasks'[e], c)
           Fewer == \A e \in All, d \in Conns : /\ Holds(urgent'[e], d) => Holds(urgent[e], d)
                                                /\ Holds(tasks'[e], d) => Holds(tasks[e], d)
           Kept == \A e \in All, d \in Conns : d # c /\ pc'[e] \in {"none", "run"} =>
                                                /\ Holds(urgent[e], d) => Holds(urgent'[e], d)
                                                /\ Holds(tasks[e], d) => Holds(tasks'[e], d)
<1>7. Well /\ Gone /\ Fewer /\ Kept /\ (pc' = pc \/ Exits(el))
  <2>1. CASE RanUrgent(el, c)
    <3>1. TakenFrom(urgent, urgent', el) /\ tasks' = tasks /\ pc' = pc /\ c = Head(urgent[el]).c
      BY <2>1, ZenonT(40) DEF RanUrgent, RanTask, TakenFrom
    <3>2. /\ WellQueued(urgent') /\ (Head(urgent[el]).c \in Conns => Holds(urgent[el], Head(urgent[el]).c))
          /\ \A e \in All, d \in Conns : Holds(urgent'[e], d) <=> Holds(urgent[e], d) /\ ~(e = el /\ d = Head(urgent[el]).c)
      BY <3>1, <1>1, TakeFrom, SMTT(60)
    <3>3. ~Holds(tasks[el], c)
      BY <3>1, <3>2, <1>5, Zenon
    <3>4. Well
      BY <3>1, <3>2, <1>1, Zenon
    <3>5. Gone
      BY <3>1, <3>2, <3>3, <1>4, Zenon
    <3>6. Fewer /\ Kept
      BY <3>1, <3>2, ZenonT(40)
    <3> QED
      BY <3>1, <3>4, <3>5, <3>6, Zenon
  <2>2. CASE RanTask(el, c)
    <3>1. TakenFrom(tasks, tasks', el) /\ urgent' = urgent /\ pc' = pc /\ c = Head(tasks[el]).c
      BY <2>2, ZenonT(40) DEF RanUrgent, RanTask, TakenFrom
    <3>2. /\ WellQueued(tasks') /\ (Head(tasks[el]).c \in Conns => Holds(tasks[el], Head(tasks[el]).c))
          /\ \A e \in All, d \in Conns : Holds(tasks'[e], d) <=> Holds(tasks[e], d) /\ ~(e = el /\ d = Head(tasks[el]).c)
      BY <3>1, <1>1, TakeFrom, SMTT(60)
    <3>3. ~Holds(urgent[el], c)
      BY <3>1, <3>2, <1>5, Zenon
    <3>4. Well
      BY <3>1, <3>2, <1>1, Zenon
    <3>5. Gone
      BY <3>1, <3>2, <3>3, <1>4, Zenon
    <3>6. Fewer /\ Kept
      BY <3>1, <3>2, ZenonT(40)
    <3> QED
      BY <3>1, <3>4, <3>5, <3>6, Zenon
  <2>3. CASE RanLast(el, c)
    <3>1. EmptiedAt(urgent, urgent', el) /\ EmptiedAt(tasks, tasks', el) /\ Exits(el)
      BY <2>3, Zenon DEF RanLast, Discards, EmptiedAt
    <3>2. /\ Well
          /\ \A e \in All, d \in Conns : /\ Holds(urgent'[e], d) <=> Holds(urgent[e], d) /\ e # el
                                         /\ Holds(tasks'[e], d) <=> Holds(tasks[e], d) /\ e # el
      BY <3>1, <1>1, Emptied, SMTT(60)
    <3>3. pc'[el] \notin {"none", "run"}
      BY <3>1, SMTT(40) DEF LifeTypes, Exits
    <3>4. Gone
      BY <3>2, <1>4, Zenon
    <3>5. Fewer /\ Kept
      BY <3>2, <3>3, Zenon
    <3> QED
      BY <3>1, <3>2, <3>4, <3>5, Zenon
  <2> HIDE DEF Well, Gone, Fewer, Kept
  <2>4. RanUrgent(el, c) \/ RanTask(el, c) \/ RanLast(el, c)
    BY Zenon DEF Ran
  <2> QED
    BY <2>1, <2>2, <2>3, <2>4, ZenonT(40)
<1>8. loop' \in [Conns -> Loops \cup {Nil}] /\ loop'[c] = el /\ \A d \in Conns : d # c => loop'[d] = loop[d]
  BY <1>3, Zenon DEF Ran, Data, DataTypes
<1>9. enrol' \in [Conns -> {"no", "wait", "ok", "err"}] /\ \A d \in Conns : d # c => enrol'[d] = enrol[d]
  <2>1. enrol' = enrol \/ enrol' = [enrol EXCEPT ![c] = "ok"]
    BY Zenon DEF Ran
  <2>2. enrol \in [Conns -> {"no", "wait", "ok", "err"}]
    BY Zenon DEF Data, DataTypes
  <2> QED
    BY <2>1, <2>2, SMTT(40)
<1>10. Opened(el, c) /\ pc[el] = "run"
  BY Zenon DEF Ran
<1>11. OpenedOn(el, c)
  BY <1>3, <1>6, <1>7, <1>8, <1>9, <1>10, Zenon DEF OpenedOn
<1> QED
  BY <1>11, OpenedStep

--------------------------------------------------------------------------
(* The theorems *)

LEMMA DataStep ==
  ASSUME Types, Data, Life, Next
  PROVE  Data'
<1>1. LifeTypes
  BY DEF Types
<1>2. CASE Listen \/ ListenFails \/ Boot \/ OpenListeners \/ OpenPoller \/ RegisterLoop \/ OpenLoopFails
  <2>1. Quiet
    BY <1>2, ZenonT(40) DEF Listen, ListenFails, Boot, OpenListeners, OpenPoller, RegisterLoop, OpenLoopFails,
                            Quiet, queues, state
  <2> QED
    BY <2>1, QuietStep
<1>3. CASE StartLoops \/ OpenIngress \/ StartIngress \/ StartIngressFails
  <2>1. UNCHANGED <<urgent, tasks, connections, socket, loop, opens, closes, enrol>>
    BY <1>3, ZenonT(40) DEF StartLoops, OpenIngress, StartIngress, StartIngressFails, queues, state
  <2>2. \/ phase = "opening" /\ pc' = [el \in All |-> IF el \in Loops THEN "run" ELSE pc[el]]
        \/ pc' = pc
        \/ phase = "starting" /\ pc' = [pc EXCEPT ![ingress] = "run"]
    BY <1>3, Zenon DEF StartLoops, OpenIngress, StartIngress, StartIngressFails
  <2>3. (phase = "opening" => \A el \in All : pc[el] = "none") /\ (phase = "starting" => pc[ingress] = "none")
    BY Zenon DEF Life
  <2>4. \A el \in All : pc'[el] = pc[el] \/ (pc[el] = "none" /\ pc'[el] = "run")
    BY <1>1, <2>2, <2>3, SMTT(40) DEF LifeTypes
  <2>5. Quiet
    BY <2>1, <2>4, SMTT(40) DEF Quiet
  <2> QED
    BY <2>5, QuietStep
<1>4. CASE Accept0 \/ Enroll
  BY <1>4, Handing, HandedStep, Zenon
<1>5. CASE EnrollFails
  BY <1>5, EnrollFailsStep
<1>6. ASSUME NEW el \in All, Accept(el) PROVE Data'
  BY <1>1, <1>6, Accepting, AcceptedStep, Zenon
<1>7. ASSUME NEW el \in All, RunRegister(el) PROVE Data'
  BY <1>1, <1>7, Registering, RanStep, Zenon DEF Data
<1>8. ASSUME NEW el \in All, AcceptFails(el) \/ ReadUDP(el) \/ PollerGone(el) PROVE Data'
  <2>1. /\ UNCHANGED <<urgent, tasks, connections, socket, loop, opens, closes, enrol>>
        /\ pc[el] = "run" /\ Exits(el)
    BY <1>8, Zenon DEF AcceptFails, ReadUDP, PollerGone, queues, state
  <2>2. Quiet
    BY <1>1, <2>1, SMTT(40) DEF Quiet, Exits, LifeTypes
  <2> QED
    BY <2>2, QuietStep
<1>9. ASSUME NEW el \in All, RunShutdown(el) PROVE Data'
  <2>1. Discards(el) /\ Exits(el) /\ pc[el] = "run" /\ UNCHANGED <<connections, socket, loop, opens, closes, enrol>>
    BY <1>9, Zenon DEF RunShutdown, Running, state
  <2> QED
    BY <1>1, <2>1, DiscardStep
<1>10. ASSUME NEW el \in All, ConnEvent(el) PROVE Data'
  <2>1. PICK c \in connections[el], closing \in BOOLEAN, shut \in BOOLEAN : ConnEvent(el)!(c, closing, shut)
    BY <1>10, Zenon DEF ConnEvent
  <2>2. /\ UNCHANGED <<urgent, tasks, loop, opens, enrol>> /\ pc[el] = "run" /\ (pc' = pc \/ Exits(el))
    BY <2>1, Zenon DEF Running, queues
  <2>3. CASE closing
    BY <1>1, <2>1, <2>2, <2>3, ClosedStep, Zenon
  <2>4. CASE ~closing
    <3>1. UNCHANGED <<connections, socket, closes>>
      BY <2>1, <2>4, Zenon
    <3>2. Quiet
      BY <1>1, <2>2, <3>1, SMTT(40) DEF Quiet, Exits, LifeTypes
    <3> QED
      BY <3>2, QuietStep
  <2> QED
    BY <2>3, <2>4
<1>11. ASSUME NEW el \in All, Exit(el) PROVE Data'
  <2>1. /\ UNCHANGED <<urgent, tasks, loop, opens, enrol>> /\ pc[el] = "exit" /\ pc' = [pc EXCEPT ![el] = "done"]
        /\ Closed(el, connections[el])
    BY <1>11, Zenon DEF Exit, queues
  <2> QED
    BY <1>1, <2>1, ClosedStep, Zenon
<1>12. ASSUME NEW el \in All, Execute(el) PROVE Data'
  <2>1. ToldLoops
    <3>1. /\ tasks' = [tasks EXCEPT ![el] = Append(tasks[el], Task("shutdown", Nil))] /\ urgent' = urgent
          /\ UNCHANGED <<connections, socket, loop, opens, closes, enrol, pc>>
      BY <1>12, Zenon DEF Execute, AskShutdown, state
    <3>2. urgent \in [All -> Seq(Tasks)] /\ tasks \in [All -> Seq(Tasks)]
      BY Zenon DEF Data, DataTypes
    <3>3. /\ tasks' = [e \in All |-> tasks'[e]]
          /\ \A e \in All : tasks'[e] = tasks[e] \/ tasks'[e] = Append(tasks[e], Task("shutdown", Nil))
      BY <3>1, <3>2, Zenon
    <3> QED
      BY <3>1, <3>2, <3>3, Zenon DEF ToldLoops, Told
  <2> QED
    BY <2>1, ToldStep
<1>13. CASE Tick
  <2>1. ToldLoops
    BY <1>13, SMTT(40) DEF Tick, AskShutdown, ToldLoops, Told, state, Data, DataTypes
  <2> QED
    BY <2>1, ToldStep
<1>14. CASE TellLoops
  <2>1. ToldLoops
    BY <1>14, SMTT(40) DEF TellLoops, ToldLoops, Told, state, Data, DataTypes
  <2> QED
    BY <2>1, ToldStep
<1>15. CASE RequestStop \/ Stop \/ Finish \/ Ended
  <2>1. Quiet
    BY <1>15, Zenon DEF RequestStop, Stop, Finish, Ended, Quiet, queues, state, vars
  <2> QED
    BY <2>1, QuietStep
<1> QED
  BY <1>2, <1>3, <1>4, <1>5, <1>6, <1>7, <1>8, <1>9, <1>10, <1>11, <1>12, <1>13, <1>14, <1>15, ZenonT(40) DEF Next, LoopStep

LEMMA StutterInv == Inv /\ UNCHANGED vars => Inv'
<1> SUFFICES ASSUME Inv, UNCHANGED vars PROVE Inv'
  OBVIOUS
<1> USE DEF vars, options, life, queues, state
<1>1. Types'
  BY Zenon DEF Inv, Types, LifeTypes, DataTypes
<1>2. Life' /\ PollersClosedInTime'
  BY Zenon DEF Inv, Life, PollersClosedInTime
<1>3. Queues' /\ Tables' /\ Reached'
  BY Zenon DEF Inv, Queues, QueueOf, Tables, TableOf, Reached, ReachedOf
<1> QED
  BY <1>1, <1>2, <1>3 DEF Inv

LEMMA NextInv == Inv /\ [Next]_vars => Inv'
<1>1. ASSUME Inv, Next PROVE Inv'
  <2>1. LifeTypes' /\ Life' /\ PollersClosedInTime'
    BY <1>1, LifeTypesStep, LifeStep, Zenon DEF Inv, Types
  <2>2. Data'
    BY <1>1, DataStep, Zenon DEF Inv, Types, Data
  <2> QED
    BY <2>1, <2>2 DEF Inv, Types, Data
<1> QED
  BY <1>1, StutterInv

LEMMA InvHolds == Spec => []Inv
  BY InitInv, NextInv, PTL DEF Spec

\* For any number of loops, addresses and connections, and whatever fails while the engine
\* starts: the variables keep their types, so each load balancer only ever gives a connection
\* to an existing event loop, never to the main reactor.
THEOREM TypeCorrect == Spec => []TypeOK
<1>1. Inv => TypeOK
  BY Zenon DEF Inv, Types, LifeTypes, DataTypes, TypeOK
<1> QED
  BY <1>1, InvHolds, PTL

\* Run, with or without an error, and Client.Stop return with every poller and every listener
\* closed, and no poller is closed under a loop that still runs, but for a start that failed.
THEOREM PollersAreClosedInTime == Spec => []PollersClosedInTime
<1>1. Inv => PollersClosedInTime
  BY DEF Inv
<1> QED
  BY <1>1, InvHolds, PTL

\* Each connection's OnOpen and OnClose come at most once and in this order, it is in the
\* table of its own loop between them, and a loop that has ended owes no OnClose.
THEOREM OpensAndClosesOnce == Spec => []OpenedThenClosedOnce
<1>1. ASSUME Inv PROVE OpenedThenClosedOnce
  <2> SUFFICES ASSUME NEW c \in Conns
               PROVE  /\ closes[c] <= opens[c] /\ opens[c] <= 1
                      /\ opens[c] > closes[c] => c \in connections[loop[c]] /\ socket[c] = "open" /\ pc[loop[c]] # "done"
    BY Zenon DEF OpenedThenClosedOnce
  <2>1. TableOf(c)
    BY <1>1, Zenon DEF Inv, Tables
  <2> QED
    BY <2>1, Indexes, Zenon DEF TableOf
<1> QED
  BY <1>1, InvHolds, PTL

\* The number of tasks about a connection is one or zero.
LEMMA CountOf ==
  ASSUME NEW q, Distinct(q), NEW c \in Conns
  PROVE  Cardinality({i \in 1..Len(q) : q[i].c = c}) = IF Holds(q, c) THEN 1 ELSE 0
<1> DEFINE S == {i \in 1..Len(q) : q[i].c = c}
<1>1. CASE Holds(q, c)
  <2>1. PICK i \in 1..Len(q) : q[i].c = c
    BY <1>1, Zenon DEF Holds
  <2>2. S = {i}
    BY <2>1, Zenon DEF Distinct
  <2> HIDE DEF S
  <2>3. Cardinality(S) = 1
    BY <2>2, FS_Singleton, Zenon
  <2> QED
    BY <1>1, <2>3, Zenon DEF S
<1>2. CASE ~Holds(q, c)
  <2>1. S = {}
    BY <1>2, Zenon DEF Holds
  <2> HIDE DEF S
  <2>2. Cardinality(S) = 0
    BY <2>1, FS_EmptySet, ZenonT(40)
  <2> QED
    BY <1>2, <2>2, Zenon DEF S
<1> QED
  BY <1>1, <1>2

\* An accepted or enrolled connection whose loop goes on is in the loop's table, or exactly
\* one task in the loop's two queues is its registration.
THEOREM NeverForgotten == Spec => []NotForgotten
<1>1. ASSUME Inv PROVE NotForgotten
  <2> SUFFICES ASSUME NEW c \in Conns, socket[c] = "open", enrol[c] # "err", pc[loop[c]] \in {"none", "run"}
               PROVE  (IF c \in connections[loop[c]] THEN 1 ELSE 0) + Queued(loop[c], c) = 1
    BY Zenon DEF NotForgotten
  <2>1. TableOf(c) /\ ReachedOf(c) /\ opens[c] \in Nat /\ closes[c] \in Nat
    BY <1>1, Zenon DEF Inv, Tables, Reached, Types, DataTypes
  <2>2. loop[c] \in All
    BY <2>1, Indexes, Zenon DEF TableOf
  <2>3. Distinct(urgent[loop[c]]) /\ Distinct(tasks[loop[c]]) /\ QueueOf(loop[c], c)
    BY <1>1, <2>2, Zenon DEF Inv, Queues
  <2>4. Queued(loop[c], c) = (IF Holds(urgent[loop[c]], c) THEN 1 ELSE 0) + (IF Holds(tasks[loop[c]], c) THEN 1 ELSE 0)
    BY <2>3, CountOf, Zenon DEF Queued
  <2>5. c \in connections[loop[c]] \/ Holds(urgent[loop[c]], c) \/ Holds(tasks[loop[c]], c)
    BY <2>1, ZenonT(40) DEF ReachedOf
  <2>6. c \in connections[loop[c]] => opens[c] # 0
    BY <2>1, <2>2, SMTT(40) DEF TableOf
  <2>7. /\ c \in connections[loop[c]] => ~Holds(urgent[loop[c]], c) /\ ~Holds(tasks[loop[c]], c)
        /\ ~(Holds(urgent[loop[c]], c) /\ Holds(tasks[loop[c]], c))
    BY <2>3, <2>6, Zenon DEF QueueOf
  <2> QED
    BY <2>4, <2>5, <2>7, SMTT(40)
<1> QED
  BY <1>1, InvHolds, PTL

=============================================================================
