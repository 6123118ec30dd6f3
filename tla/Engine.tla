------------------------------- MODULE Engine -------------------------------
(***************************************************************************)
(* The life of an engine on unix: start with its failures, the event loops *)
(* and their task queues, accepting and enrolling connections, stop.       *)
(*                                                                         *)
(* mode "reactors": activateReactors, a main reactor accepts for the sub-  *)
(* reactors; "reuseport": runEventLoops, every loop accepts for itself;    *)
(* "client": Client.Start, nothing is accepted.  A poller is seen through  *)
(* what module Poller establishes: Trigger is accepted until Close, a task *)
(* that returns Shutdown discards the tasks behind it, an I/O callback     *)
(* that does leaves them.  A connection is what its callbacks do to it.    *)
(***************************************************************************)
EXTENDS Integers, Sequences, FiniteSets

CONSTANTS
  Profiles,      \* records [mode, lb]: what a behaviour is about
  N,             \* determineEventLoops
  Addrs,         \* number of addresses to listen on
  Conns,         \* connections that may be accepted or enrolled
  Hash,          \* sourceAddrHashLoadBalancer.hash of each connection's address
  Nil

Loops == 1..N
ingress == 0
All == {ingress} \cup Loops

Modes == {"reactors", "reuseport", "client"}
LoadBalancing == {"RoundRobin", "LeastConnections", "SourceAddrHash"}

ASSUME EngineAssumption ==
  /\ {N, Addrs} \subseteq Nat \ {0} /\ IsFiniteSet(Conns) /\ Hash \in [Conns -> Nat]
  /\ \A p \in Profiles : p.mode \in Modes /\ p.lb \in LoadBalancing
  /\ Nil \notin Conns \cup All

VARIABLES
  mode, lb,     \* options
  phase,        \* of Run or Client.Start: "listen", "boot", "opening", "starting", "up", "failed",
                \* "waiting" (stop has told the loops) or "down"
  opened,       \* number of loops in eventLoops
  cancelled,    \* rootCtx
  inShutdown,
  poller,       \* of each loop: "none", "open" or "closed"
  listening,    \* for each loop, how many listeners of its own are open (ingress: engine.listeners)
  pc,           \* of each loop: "none", "run", "exit" or "done"
  urgent, tasks,\* of each loop's poller
  connections,  \* of each loop
  socket,       \* of each connection: "none", "open" or "closed"
  loop,         \* conn.loop
  opens, closes,\* calls of OnOpen and OnClose
  enrol,        \* an enrolment: "no", "wait", "ok" or "err"
  nextIndex,    \* roundRobinLoadBalancer.nextIndex
  ticker        \* "off", "run" or "done"

life == <<phase, opened, inShutdown, poller, listening, ticker>>
state == <<connections, socket, loop, opens, closes>>
queues == <<urgent, tasks>>
options == <<mode, lb>>
vars == <<options, life, cancelled, pc, queues, state, enrol, nextIndex>>

\* A client has no address to hash when it asks for a loop.
newLoadBalancerForClient(o) == IF o = "RoundRobin" THEN o ELSE "LeastConnections"

Init ==
  /\ \E p \in Profiles :
       /\ mode = p.mode
       /\ lb = IF p.mode = "client" THEN newLoadBalancerForClient(p.lb) ELSE p.lb
  /\ phase = (IF mode = "client" THEN "boot" ELSE "listen") /\ opened = 0 /\ cancelled = FALSE /\ inShutdown = FALSE
  /\ poller = [el \in All |-> "none"] /\ pc = [el \in All |-> "none"]
  /\ listening = [el \in All |-> 0]
  /\ urgent = [el \in All |-> <<>>] /\ tasks = [el \in All |-> <<>>]
  /\ connections = [el \in All |-> {}]
  /\ socket = [c \in Conns |-> "none"] /\ loop = [c \in Conns |-> Nil]
  /\ opens = [c \in Conns |-> 0] /\ closes = [c \in Conns |-> 0]
  /\ enrol = [c \in Conns |-> "no"]
  /\ nextIndex = 0 /\ ticker = "off"

--------------------------------------------------------------------------
(* Starting *)

\* initListener, which leaves nothing behind when it fails.
initListener(el) == listening' = [listening EXCEPT ![el] = @ + 1]

\* createListeners, one address after the other; ...
Listen ==
  /\ phase = "listen" /\ initListener(ingress)
  /\ phase' = IF listening'[ingress] = Addrs THEN "boot" ELSE phase
  /\ UNCHANGED <<opened, inShutdown, poller, ticker, options, cancelled, pc, queues, state, enrol, nextIndex>>

\* ... one that fails closes those before it.
ListenFails ==
  /\ phase = "listen" /\ phase' = "failed"
  /\ listening' = [listening EXCEPT ![ingress] = 0]
  /\ UNCHANGED <<opened, inShutdown, poller, ticker, options, cancelled, pc, queues, state, enrol, nextIndex>>

\* OnBoot, which may refuse; Run then closes its listeners.
Boot ==
  /\ phase = "boot"
  /\ \/ phase' = "opening" /\ UNCHANGED listening
     \/ mode # "client" /\ phase' = "failed" /\ listening' = [listening EXCEPT ![ingress] = 0]
  /\ UNCHANGED <<opened, inShutdown, poller, ticker, options, cancelled, pc, queues, state, enrol, nextIndex>>

\* One iteration of the loop that creates the event loops: with ReusePort every loop but the
\* first opens listeners of its own, one for each address, ...
OpenListeners ==
  /\ phase = "opening" /\ mode = "reuseport" /\ opened \in 1 .. (N - 1) /\ listening[opened + 1] < Addrs
  /\ initListener(opened + 1)
  /\ UNCHANGED <<phase, opened, inShutdown, poller, ticker, options, cancelled, pc, queues, state, enrol, nextIndex>>

\* ... then its poller, ...
OpenPoller ==
  /\ phase = "opening" /\ opened < N /\ poller[opened + 1] = "none"
  /\ mode = "reuseport" /\ opened > 0 => listening[opened + 1] = Addrs
  /\ poller' = [poller EXCEPT ![opened + 1] = "open"]
  /\ UNCHANGED <<phase, opened, inShutdown, listening, ticker, options, cancelled, pc, queues, state, enrol, nextIndex>>

\* ... watches the listeners and registers the loop with the load balancer.
RegisterLoop ==
  /\ phase = "opening" /\ opened < N /\ poller[opened + 1] = "open"
  /\ opened' = opened + 1
  /\ UNCHANGED <<phase, inShutdown, poller, listening, ticker, options, cancelled, pc, queues, state, enrol, nextIndex>>

\* closeEventLoops closes what the registered loops and the main reactor own, Run the
\* engine's listeners; the loops in also have been closed where the error was met.
CloseEventLoops(also) ==
  LET C == (1..opened) \cup also \cup (IF pc[ingress] # "none" THEN {ingress} ELSE {}) IN
  /\ poller' = [el \in All |-> IF el \in C /\ poller[el] = "open" THEN "closed" ELSE poller[el]]
  /\ listening' = [el \in All |-> IF el \in C \cup {ingress} THEN 0 ELSE listening[el]]

\* Mutant: an iteration that fails leaves what it has opened to nobody.
CleanupNothing == {}

\* The loop an iteration that fails was about to register.
Cleanup == {opened + 1}

\* An iteration fails at any of its steps.
OpenLoopFails ==
  /\ phase = "opening" /\ opened < N
  /\ poller[opened + 1] = "open" => mode = "reuseport"
  /\ phase' = "failed" /\ CloseEventLoops(Cleanup)
  /\ UNCHANGED <<opened, inShutdown, ticker, options, cancelled, pc, queues, state, enrol, nextIndex>>

\* The loops are started; a server without ReusePort goes on to its main reactor.
StartLoops ==
  /\ phase = "opening" /\ opened = N
  /\ pc' = [el \in All |-> IF el \in Loops THEN "run" ELSE pc[el]]
  /\ phase' = IF mode = "reactors" THEN "starting" ELSE "up"
  /\ ticker' = IF mode = "reactors" THEN ticker ELSE "run"
  /\ UNCHANGED <<opened, inShutdown, poller, listening, options, cancelled, queues, state, enrol, nextIndex>>

OpenIngress ==
  /\ phase = "starting" /\ poller[ingress] = "none"
  /\ poller' = [poller EXCEPT ![ingress] = "open"]
  /\ UNCHANGED <<phase, opened, inShutdown, listening, ticker, options, cancelled, pc, queues, state, enrol, nextIndex>>

StartIngress ==
  /\ phase = "starting" /\ poller[ingress] = "open" /\ phase' = "up"
  /\ pc' = [pc EXCEPT ![ingress] = "run"] /\ ticker' = "run"
  /\ UNCHANGED <<opened, inShutdown, poller, listening, options, cancelled, queues, state, enrol, nextIndex>>

\* The main reactor's poller, or its registration of a listener, fails while the
\* sub-reactors run already: run closes their pollers and returns.
StartIngressFails ==
  /\ phase = "starting"
  /\ phase' = "failed" /\ CloseEventLoops({ingress})
  /\ UNCHANGED <<opened, inShutdown, ticker, options, cancelled, pc, queues, state, enrol, nextIndex>>

--------------------------------------------------------------------------
(* Connections reach their loops. *)

Task(k, c) == [k |-> k, c |-> c]

\* loadBalancer.next
Least == CHOOSE el \in Loops : \A l \in Loops :
           \/ Cardinality(connections[el]) < Cardinality(connections[l])
           \/ Cardinality(connections[el]) = Cardinality(connections[l]) /\ el <= l
\* Mutant: the index may be one past the last loop.
NextLoopPastEnd(c) == nextIndex % (N + 1)

NextLoop(c) ==
  CASE lb = "RoundRobin"       -> (nextIndex % N) + 1
    [] lb = "LeastConnections" -> Least
    [] lb = "SourceAddrHash"   -> (Hash[c] % N) + 1

Picks == nextIndex' = IF lb = "RoundRobin" THEN nextIndex + 1 ELSE nextIndex

Registered(el, c) ==
  /\ connections' = [connections EXCEPT ![el] = @ \cup {c}]
  /\ socket' = [socket EXCEPT ![c] = "open"]
  /\ opens' = [opens EXCEPT ![c] = @ + 1] /\ UNCHANGED closes

\* register0: adding to the poller or the matrix fails; or OnOpen runs, which may Close.
\* shut says whether a Shutdown came out of it.
Register0(el, c, shut) ==
  \/ /\ ~shut
     /\ socket' = [socket EXCEPT ![c] = "closed"] /\ UNCHANGED <<connections, opens, closes>>
  \/ Registered(el, c)
  \/ /\ socket' = [socket EXCEPT ![c] = "closed"]
     /\ opens' = [opens EXCEPT ![c] = @ + 1] /\ closes' = [closes EXCEPT ![c] = @ + 1]
     /\ UNCHANGED connections

Exits(el) == pc' = [pc EXCEPT ![el] = "exit"]

\* accept0: the connection is handed to a loop, whose poller takes the task unless closed.
Accept0 ==
  \E c \in Conns :
    LET el == NextLoop(c) IN
    /\ pc[ingress] = "run" /\ poller[ingress] = "open" /\ socket[c] = "none"
    /\ Picks /\ loop' = [loop EXCEPT ![c] = el]
    /\ IF poller[el] = "open"
       THEN /\ socket' = [socket EXCEPT ![c] = "open"]
            /\ urgent' = [urgent EXCEPT ![el] = Append(@, Task("register", c))]
       ELSE /\ socket' = [socket EXCEPT ![c] = "closed"] /\ UNCHANGED urgent
    /\ UNCHANGED <<options, life, cancelled, pc, tasks, connections, opens, closes, enrol>>

\* accept: the loop of a ReusePort server registers what it accepted at once.
Accept(el) ==
  \E c \in Conns, shut \in BOOLEAN :
    /\ mode = "reuseport" /\ el \in Loops /\ pc[el] = "run" /\ poller[el] = "open" /\ socket[c] = "none"
    /\ loop' = [loop EXCEPT ![c] = el]
    /\ Register0(el, c, shut)
    /\ IF shut THEN Exits(el) ELSE UNCHANGED pc
    /\ UNCHANGED <<options, life, cancelled, queues, enrol, nextIndex>>

\* accept(2) fails for good: the accepting loop ends with ErrAcceptSocket.
AcceptFails(el) ==
  /\ pc[el] = "run" /\ poller[el] = "open"
  /\ (mode = "reactors" /\ el = ingress) \/ (mode = "reuseport" /\ el \in Loops)
  /\ Exits(el)
  /\ UNCHANGED <<options, life, cancelled, queues, state, enrol, nextIndex>>

\* readUDP, of an engine with UDP addresses: OnTraffic may shut the engine down.
ReadUDP(el) ==
  /\ mode = "reuseport" /\ el \in Loops /\ pc[el] = "run" /\ poller[el] = "open"
  /\ Exits(el)
  /\ UNCHANGED <<options, life, cancelled, queues, state, enrol, nextIndex>>

\* An enrolment fails on the way to the poller: the engine is in shutdown, the worker pool is
\* full, or dialling, duplicating or looking up the address fails, before or after next.
\* What fails behind the duplication leaves the duplicate open.
EnrollFails ==
  \E c \in Conns, left \in {"open", "closed"} :
    /\ phase \notin {"listen", "boot", "opening", "failed"} /\ socket[c] = "none"
    /\ enrol' = [enrol EXCEPT ![c] = "err"] /\ socket' = [socket EXCEPT ![c] = left]
    /\ Picks \/ UNCHANGED nextIndex
    /\ UNCHANGED <<options, life, cancelled, pc, queues, connections, loop, opens, closes>>

\* Engine.Register and EventLoop.Enroll (low priority, refused once in shutdown), and
\* Client.EnrollContext (high priority): the caller then waits for the registration.  A
\* poller that is closed refuses, and the descriptor stays open.
Enroll ==
  \E c \in Conns :
    LET el == NextLoop(c) IN
    /\ phase \notin {"listen", "boot", "opening", "failed"} /\ socket[c] = "none"
    /\ mode = "client" \/ ~inShutdown
    /\ Picks /\ loop' = [loop EXCEPT ![c] = el]
    /\ socket' = [socket EXCEPT ![c] = "open"]
    /\ enrol' = [enrol EXCEPT ![c] = IF poller[el] = "open" THEN "wait" ELSE "err"]
    /\ urgent' = [urgent EXCEPT ![el] = IF poller[el] = "open" /\ mode = "client"
                                        THEN Append(@, Task("enrol", c)) ELSE @]
    /\ tasks' = [tasks EXCEPT ![el] = IF poller[el] = "open" /\ mode # "client"
                                      THEN Append(@, Task("enrol", c)) ELSE @]
    /\ UNCHANGED <<options, life, cancelled, pc, connections, opens, closes>>

--------------------------------------------------------------------------
(* The event loops: rotate, orbit and run. *)

Running(el) == pc[el] = "run" /\ poller[el] = "open"

\* The loop takes a task: the next urgent one, or one of the batch of others it has begun.
Takes(el, t) ==
  \/ /\ urgent[el] # <<>> /\ t = Head(urgent[el])
     /\ urgent' = [urgent EXCEPT ![el] = Tail(@)] /\ UNCHANGED tasks
  \/ /\ tasks[el] # <<>> /\ t = Head(tasks[el])
     /\ tasks' = [tasks EXCEPT ![el] = Tail(@)] /\ UNCHANGED urgent

\* A task that returns ErrEngineShutdown ends Polling, and the tasks behind it are discarded.
Discards(el) ==
  /\ urgent' = [urgent EXCEPT ![el] = <<>>] /\ tasks' = [tasks EXCEPT ![el] = <<>>]

Heads(el) == {Head(q) : q \in {urgent[el], tasks[el]} \ {<<>>}}

\* Mutant: the tasks behind a registration are dropped with it.
RunRegisterDropsBatch(el) ==
  \E t \in Heads(el), shut \in BOOLEAN :
    /\ Running(el) /\ t.k \in {"register", "enrol"}
    /\ Register0(el, t.c, shut)
    /\ Discards(el)
    /\ IF shut THEN Exits(el) ELSE UNCHANGED pc
    /\ enrol' = IF t.k = "enrol" THEN [enrol EXCEPT ![t.c] = "ok"] ELSE enrol
    /\ UNCHANGED <<options, life, cancelled, loop, nextIndex>>

\* register; the enrolment is answered however it went.
RunRegister(el) ==
  \E t \in Heads(el), shut \in BOOLEAN :
    /\ Running(el) /\ t.k \in {"register", "enrol"}
    /\ Register0(el, t.c, shut)
    /\ IF shut THEN Discards(el) /\ Exits(el) ELSE Takes(el, t) /\ UNCHANGED pc
    /\ enrol' = IF t.k = "enrol" THEN [enrol EXCEPT ![t.c] = "ok"] ELSE enrol
    /\ UNCHANGED <<options, life, cancelled, loop, nextIndex>>

\* The task of stop, of ticker or of a Runnable that shuts the engine down.
RunShutdown(el) ==
  /\ Running(el) /\ Task("shutdown", Nil) \in Heads(el)
  /\ Discards(el) /\ Exits(el)
  /\ UNCHANGED <<options, life, cancelled, state, enrol, nextIndex>>

Closed(el, C) ==
  /\ connections' = [connections EXCEPT ![el] = @ \ C]
  /\ socket' = [c \in Conns |-> IF c \in C THEN "closed" ELSE socket[c]]
  /\ closes' = [c \in Conns |-> IF c \in C THEN closes[c] + 1 ELSE closes[c]]

\* A connection's event: it is closed, by its peer or its handler, or the handler shuts the
\* engine down, which leaves the queues as they are.
ConnEvent(el) ==
  \E c \in connections[el], closing, shut \in BOOLEAN :
    /\ Running(el) /\ (closing \/ shut)
    /\ IF closing THEN Closed(el, {c}) ELSE UNCHANGED <<connections, socket, closes>>
    /\ IF shut THEN Exits(el) ELSE UNCHANGED pc
    /\ UNCHANGED <<options, life, cancelled, queues, loop, opens, enrol, nextIndex>>

\* Waiting on a poller that was closed fails.
PollerGone(el) ==
  /\ pc[el] = "run" /\ poller[el] = "closed" /\ Exits(el)
  /\ UNCHANGED <<options, life, cancelled, queues, state, enrol, nextIndex>>

\* Mutant: the loop ends without closing its connections.
ExitKeepsConns(el) ==
  /\ pc[el] = "exit"
  /\ pc' = [pc EXCEPT ![el] = "done"] /\ cancelled' = TRUE
  /\ UNCHANGED <<options, life, queues, state, enrol, nextIndex>>

\* closeConns and engine.shutdown.
Exit(el) ==
  /\ pc[el] = "exit"
  /\ Closed(el, connections[el])
  /\ pc' = [pc EXCEPT ![el] = "done"] /\ cancelled' = TRUE
  /\ UNCHANGED <<options, life, queues, loop, opens, enrol, nextIndex>>

LoopStep(el) ==
  RunRegister(el) \/ RunShutdown(el) \/ PollerGone(el) \/ Exit(el)

--------------------------------------------------------------------------
(* Stopping *)

\* Engine.Stop, for those OnBoot gave the engine to.
RequestStop ==
  /\ mode # "client" /\ phase \notin {"listen", "failed"} /\ ~cancelled /\ cancelled' = TRUE
  /\ UNCHANGED <<options, life, pc, queues, state, enrol, nextIndex>>

\* gnet.Stop, by an address, once run has put the engine into allEngines.
Stop ==
  /\ mode # "client" /\ phase = "up" /\ ~cancelled /\ cancelled' = TRUE
  /\ UNCHANGED <<options, life, pc, queues, state, enrol, nextIndex>>

\* A task of low priority that shuts the engine down.  Bound: there is one at a time, and
\* none once a shutdown has begun.
AskShutdown(el) ==
  /\ poller[el] = "open" /\ ~cancelled
  /\ \A l \in All : \A i \in 1..Len(tasks[l]) : tasks[l][i].k # "shutdown"
  /\ tasks' = [tasks EXCEPT ![el] = Append(@, Task("shutdown", Nil))]

\* Execute, of a Runnable that ends with ErrEngineShutdown.
Execute(el) ==
  /\ pc[el] # "none" /\ el \in Loops /\ ~inShutdown /\ AskShutdown(el)
  /\ UNCHANGED <<options, life, cancelled, pc, urgent, state, enrol, nextIndex>>

\* ticker: OnTick asks the loop it belongs to for a shutdown; a cancelled context ends it.
TickerLoop == IF mode = "reactors" THEN ingress ELSE 1
Tick ==
  /\ ticker = "run"
  /\ \/ cancelled /\ ticker' = "done" /\ UNCHANGED tasks
     \/ AskShutdown(TickerLoop) /\ UNCHANGED ticker
  /\ UNCHANGED <<options, phase, opened, inShutdown, poller, listening, cancelled, pc, urgent, state, enrol, nextIndex>>

\* Mutant: the main reactor is not told.
TellLoopsOnly ==
  /\ phase = "up" /\ (cancelled \/ mode = "client")
  /\ phase' = "waiting" /\ cancelled' = TRUE
  /\ urgent' = [el \in All |-> IF el # ingress /\ poller[el] = "open"
                               THEN Append(urgent[el], Task("shutdown", Nil)) ELSE urgent[el]]
  /\ UNCHANGED <<options, opened, inShutdown, poller, listening, ticker, pc, tasks, state, enrol, nextIndex>>

\* stop, once the context is cancelled, and Client.Stop, which cancels it: every loop is told.
TellLoops ==
  /\ phase = "up" /\ (cancelled \/ mode = "client")
  /\ phase' = "waiting" /\ cancelled' = TRUE
  /\ urgent' = [el \in All |-> IF poller[el] = "open" THEN Append(urgent[el], Task("shutdown", Nil))
                               ELSE urgent[el]]
  /\ UNCHANGED <<options, opened, inShutdown, poller, listening, ticker, pc, tasks, state, enrol, nextIndex>>

\* concurrency.Wait, closeEventLoops, and the engine is in shutdown.
Finish ==
  /\ phase = "waiting" /\ ticker = "done"
  /\ \A el \in All : pc[el] \in {"none", "done"}
  /\ phase' = "down" /\ CloseEventLoops({}) /\ inShutdown' = TRUE
  /\ UNCHANGED <<options, opened, ticker, cancelled, pc, queues, state, enrol, nextIndex>>

\* The end: Run or Stop has returned and no loop runs.
Ended == phase \in {"down", "failed"} /\ (\A el \in All : pc[el] \in {"none", "done"}) /\ UNCHANGED vars

Next ==
  \/ Listen \/ ListenFails \/ Boot \/ OpenListeners \/ OpenPoller \/ RegisterLoop \/ OpenLoopFails
  \/ StartLoops \/ OpenIngress \/ StartIngress \/ StartIngressFails
  \/ Accept0 \/ EnrollFails \/ Enroll
  \/ \E el \in All : Accept(el) \/ AcceptFails(el) \/ ReadUDP(el) \/ Execute(el) \/ LoopStep(el) \/ ConnEvent(el)
  \/ RequestStop \/ Stop \/ Tick \/ TellLoops \/ Finish \/ Ended

\* Loops and Run go on whenever they can; connections and users need not.
Fairness ==
  /\ \A el \in All : WF_vars(LoopStep(el))
  /\ WF_vars(Listen \/ Boot \/ OpenListeners \/ OpenPoller \/ RegisterLoop \/ StartLoops \/ OpenIngress \/ StartIngress)
  /\ WF_vars(cancelled /\ TellLoops) /\ WF_vars(cancelled /\ Tick) /\ WF_vars(Finish)

Spec == Init /\ [][Next]_vars
FairSpec == Spec /\ Fairness

--------------------------------------------------------------------------
(* Properties *)

\* Every variable has its type; in particular no connection is ever given to the main reactor
\* or to a loop that does not exist, whatever the load balancer computes.
TypeOK ==
  /\ phase \in {"listen", "boot", "opening", "starting", "up", "failed", "waiting", "down"}
  /\ opened \in 0..N /\ cancelled \in BOOLEAN /\ inShutdown \in BOOLEAN
  /\ poller \in [All -> {"none", "open", "closed"}] /\ listening \in [All -> 0..Addrs]
  /\ pc \in [All -> {"none", "run", "exit", "done"}]
  /\ connections \in [All -> SUBSET Conns] /\ loop \in [Conns -> Loops \cup {Nil}]
  /\ socket \in [Conns -> {"none", "open", "closed"}]
  /\ enrol \in [Conns -> {"no", "wait", "ok", "err"}] /\ ticker \in {"off", "run", "done"}

\* When Run or Client.Stop returns, also with an error from whichever step of the start, no
\* poller and no listener is left open; and, except after a start that failed behind running
\* sub-reactors, no poller is closed before its loop has ended.
PollersClosedInTime ==
  /\ phase \in {"down", "failed"} => \A el \in All : poller[el] # "open" /\ listening[el] = 0
  /\ phase # "failed" => \A el \in All : pc[el] \in {"run", "exit"} => poller[el] = "open"

\* OnOpen and OnClose come once each; between them the connection is in the table of its own
\* loop; and when a loop has ended every OnOpen had its OnClose.
OpenedThenClosedOnce ==
  \A c \in Conns :
    /\ closes[c] <= opens[c] /\ opens[c] <= 1
    /\ opens[c] > closes[c] => c \in connections[loop[c]] /\ socket[c] = "open" /\ pc[loop[c]] # "done"

\* An accepted or enrolled connection whose loop has not ended is not forgotten: it is in the
\* loop's table, or its registration is queued exactly once.
Queued(el, c) ==
  Cardinality({i \in 1..Len(urgent[el]) : urgent[el][i].c = c})
    + Cardinality({i \in 1..Len(tasks[el]) : tasks[el][i].c = c})
NotForgotten ==
  \A c \in Conns :
    socket[c] = "open" /\ enrol[c] # "err" /\ pc[loop[c]] \in {"none", "run"} =>
      (IF c \in connections[loop[c]] THEN 1 ELSE 0) + Queued(loop[c], c) = 1

\* The shutdown of a running engine completes: however it began, every loop, the main
\* reactor and the ticker end and stop returns.
ShutdownCompletes == (phase = "up" /\ cancelled /\ mode # "client" ~> phase = "down")
                     /\ (phase = "waiting" ~> phase = "down")

\* Every enrolment that waits for its registration is still going to be answered: the loop
\* that would run the task has not ended.
EnrolmentAnswerable ==
  \A c \in Conns : enrol[c] = "wait" => pc[loop[c]] # "done"
=============================================================================
