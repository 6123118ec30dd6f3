---------------------------- MODULE WindowsLoop ----------------------------
(***************************************************************************)
(* The Windows backend: every event loop is a goroutine that takes items   *)
(* from a bounded channel.  The acceptor, the UDP listener, a reader per   *)
(* connection and the enrolling goroutines send to it with enqueue, which  *)
(* waits for room while it holds the read lock of submitMu; AsyncWrite,    *)
(* Wake, Close and Execute use submit, which does not wait.  Any of them,  *)
(* a handler or a caller of Stop may begin the shutdown at any time.       *)
(***************************************************************************)
EXTENDS Integers, Sequences, FiniteSets

CONSTANTS
  Loops,
  Accepted, Enrolled,   \* connections the acceptor and enroll may bring
  Datagrams,            \* datagrams the UDP listener may receive
  Tasks,                \* closures users may submit
  QueueCap,             \* capacity of eventloop.ch
  MaxReads,             \* bound on the arrivals of one connection
  Scenarios,            \* which of these come together, a set of sets
  Nil, Absent

ASSUME QueueAssumption == QueueCap \in Nat \ {0} /\ MaxReads \in Nat

Conns == Accepted \cup Enrolled

\* The goroutines that call enqueue.
Enrollers == {"enroll"} \X Enrolled
Readers == {"reader"} \X Conns
acceptor == <<"listener", "stream">>
udp == <<"listener", "packet">>
Listeners == {acceptor, udp}
Producers == Listeners \cup Enrollers \cup Readers

VARIABLES
  beingShutdown, inShutdown, \* of the engine
  ctx,           \* has concurrency.ctx been cancelled?
  ch, stopped,   \* of each loop
  pc,            \* of each loop: "run", then the deferred steps of eventloop.run
  writing,       \* the item whose bytes the loop is writing, Nil outside conn.Write
  connections,   \* eventloop.connections
  loop,          \* conn.loop, Nil before there is one
  conn,          \* conn: socket, pooled block, calls of OnOpen and of OnClose
  at, msg,       \* where each producer is, and the item it is sending
  opened,        \* connOpened of an enrolment: "no", "ok" or "err"
  answer,        \* what was sent to resCh, or returned: "no", "ok" or "err"; "unsent" when
                 \* enroll returned an error and nothing will ever come on resCh
  reads,         \* arrivals each reader has packed
  task,          \* "new", "queued", "full", "refused" or "ran"
  ticker, stopper, listening,
  blocks         \* blocks of bbPool that are out

engine == <<beingShutdown, inShutdown, ctx, ticker, stopper, listening>>
loops == <<ch, stopped, pc, writing, connections>>
clients == <<opened, answer, reads, task>>
vars == <<engine, loops, clients, loop, conn, at, msg, blocks>>

Init ==
  /\ beingShutdown = FALSE /\ inShutdown = FALSE /\ ctx = FALSE
  /\ ch = [el \in Loops |-> <<>>] /\ stopped = [el \in Loops |-> FALSE]
  /\ pc = [el \in Loops |-> "run"] /\ connections = [el \in Loops |-> {}]
  /\ writing = [el \in Loops |-> Nil]
  /\ \E coming \in Scenarios :
       loop = [c \in Conns \cup Datagrams \cup Tasks |-> IF c \in coming THEN Nil ELSE Absent]
  /\ conn = [c \in Conns |-> [socket |-> "none", block |-> FALSE, opens |-> 0, closes |-> 0]]
  /\ at = [p \in Producers |-> IF p \in Readers THEN "none" ELSE "idle"]
  /\ msg = [p \in Producers |-> Nil]
  /\ opened = [c \in Enrolled |-> "no"] /\ answer = [c \in Enrolled |-> "no"]
  /\ reads = [c \in Conns |-> 0] /\ task = [t \in Tasks |-> "new"]
  /\ ticker = "run" /\ stopper = "wait" /\ listening = TRUE
  /\ blocks = 0

--------------------------------------------------------------------------
(* eventloop.enqueue: admit under the read lock, then send or be cancelled. *)

Item(k, c) == [k |-> k, c |-> c]

\* The loop an item goes to.
Target(p) == loop[msg[p].c]

\* A pending Lock of submitMu keeps new readers of the lock out.
LockFree(el) == pc[el] # "lock"

Calls(p, item) == at' = [at EXCEPT ![p] = "call"] /\ msg' = [msg EXCEPT ![p] = item]
Goes(p, where) == at' = [at EXCEPT ![p] = where] /\ msg' = [msg EXCEPT ![p] = Nil]

\* rawConn.Close and conn.release by the goroutine that could not publish c.
Abandoned(c) == conn' = [conn EXCEPT ![c].socket = "closed", ![c].block = FALSE]

\* newStreamConn
NewStreamConn(c) ==
  /\ conn' = [conn EXCEPT ![c].socket = "open", ![c].block = TRUE]
  /\ blocks' = blocks + 1

\* readLoop: the worker pool starts the reader or refuses; then the loop is told to close c.
StartReader(p, c, where) ==
  \/ /\ at' = [at EXCEPT ![p] = where, ![<<"reader", c>>] = "idle"]
     /\ msg' = [msg EXCEPT ![p] = Nil]
  \/ Calls(p, Item("err", c))

Answer(c, a) == answer' = [answer EXCEPT ![c] = a]

\* enqueue returned nil to p.
Sent(p) ==
  LET i == msg[p] IN
  \/ /\ p = acceptor /\ i.k = "open" /\ StartReader(p, i.c, "idle") /\ UNCHANGED answer
  \/ /\ p = acceptor /\ i.k = "err" /\ Goes(p, "idle") /\ UNCHANGED answer
  \/ /\ p = udp /\ Goes(p, "idle") /\ UNCHANGED answer
  \/ /\ p \in Enrollers /\ i.k = "open" /\ Goes(p, "wait") /\ UNCHANGED answer
  \/ /\ p \in Enrollers /\ i.k = "err" /\ Goes(p, "done") /\ Answer(i.c, "err")
  \/ /\ p \in Readers /\ Goes(p, IF i.k = "data" THEN "idle" ELSE "done") /\ UNCHANGED answer

\* enqueue returned ErrEngineInShutdown to p.
Refused(p) ==
  LET i == msg[p] IN
  /\ IF i.k = "open" THEN Abandoned(i.c) ELSE UNCHANGED conn
  /\ blocks' = IF i.k \in {"open", "data", "udp"} THEN blocks - 1 ELSE blocks
  /\ Goes(p, IF p = acceptor /\ i.k = "err" THEN "idle" ELSE "done")
  /\ beingShutdown' = (beingShutdown \/ (p \in Listeners /\ i.k # "err"))
  /\ IF p \in Enrollers THEN Answer(i.c, "err") ELSE UNCHANGED answer

Admit(p) ==
  /\ at[p] = "call" /\ LockFree(Target(p))
  /\ IF stopped[Target(p)] \/ beingShutdown
     THEN Refused(p)
     ELSE at' = [at EXCEPT ![p] = "send"] /\ UNCHANGED <<msg, conn, blocks, beingShutdown, answer>>
  /\ UNCHANGED <<inShutdown, ctx, ticker, stopper, listening, loops, loop, opened, reads, task>>

Push(p) ==
  /\ at[p] = "send" /\ Len(ch[Target(p)]) < QueueCap
  /\ ch' = [ch EXCEPT ![Target(p)] = Append(@, msg[p])]
  /\ Sent(p)
  /\ UNCHANGED <<engine, stopped, pc, writing, connections, loop, conn, opened, reads, task, blocks>>

\* Mutant: a sender does not listen to the context.
CancelledNever(p) == FALSE

Cancelled(p) ==
  /\ at[p] = "send" /\ ctx /\ Refused(p)
  /\ UNCHANGED <<inShutdown, ctx, ticker, stopper, listening, loops, loop, opened, reads, task>>

--------------------------------------------------------------------------
(* The producers. *)

\* listenStream up to enqueue; the load balancer chooses the loop.
Accept ==
  \E c \in Accepted, el \in Loops :
    /\ at[acceptor] = "idle" /\ listening /\ loop[c] = Nil
    /\ NewStreamConn(c) /\ loop' = [loop EXCEPT ![c] = el]
    /\ Calls(acceptor, Item("open", c))
    /\ UNCHANGED <<engine, loops, clients>>

\* ListenUDP up to enqueue: every datagram comes with a connection and a block of its own.
ReceiveDatagram ==
  \E d \in Datagrams, el \in Loops :
    /\ at[udp] = "idle" /\ listening /\ loop[d] = Nil
    /\ loop' = [loop EXCEPT ![d] = el] /\ blocks' = blocks + 1
    /\ Calls(udp, Item("udp", d))
    /\ UNCHANGED <<engine, loops, clients, conn>>

\* Accept or ReadFrom fails, as both do once the listener is closed: the engine shuts down.
ListenerFails(p) ==
  /\ p \in Listeners /\ at[p] = "idle"
  /\ Goes(p, "done") /\ beingShutdown' = TRUE
  /\ UNCHANGED <<inShutdown, ctx, ticker, stopper, listening, loops, clients, loop, conn, blocks>>

\* How enroll and EnrollContext end without a connection: what becomes of the socket they
\* were given or dialled, whether a block is out for it, and the answer.  Only enroll's
\* unsupported network closes the socket; EnrollContext leaves it open, and with it the
\* block of newStreamConn when SetKeepAlive fails.
GivesUp(socket, block, a) ==
  \/ ~block /\ socket = "none" /\ a = "err"    \* Register in a shutdown, a failed Dial
  \/ ~block /\ socket = "open" /\ a = "err"    \* in a shutdown, SetNoDelay, unsupported protocol
  \/ /\ ~beingShutdown /\ ~inShutdown
     /\ \/ ~block /\ socket = "none" /\ a = "unsent"   \* the worker pool is full
        \/ ~block /\ socket = "closed" /\ a = "err"    \* unsupported network
        \/ block /\ socket = "open" /\ a = "err"       \* SetKeepAlive

\* enroll and EnrollContext up to enqueue.
Enroll ==
  \E c \in Enrolled :
    /\ at[<<"enroll", c>>] = "idle" /\ loop[c] = Nil
    /\ \/ /\ ~beingShutdown /\ ~inShutdown
          /\ \E el \in Loops : loop' = [loop EXCEPT ![c] = el]
          /\ NewStreamConn(c) /\ Calls(<<"enroll", c>>, Item("open", c)) /\ UNCHANGED answer
       \/ \E socket \in {"none", "open", "closed"}, block \in BOOLEAN, a \in {"err", "unsent"} :
            /\ GivesUp(socket, block, a)
            /\ conn' = [conn EXCEPT ![c].socket = socket, ![c].block = block]
            /\ blocks' = IF block THEN blocks + 1 ELSE blocks
            /\ Goes(<<"enroll", c>>, "done") /\ Answer(c, a) /\ UNCHANGED loop
    /\ UNCHANGED <<engine, loops, opened, reads, task>>

\* <-connOpened, then readLoop.
EnrollOpened(p) ==
  /\ p \in Enrollers /\ at[p] = "wait" /\ opened[p[2]] # "no"
  /\ IF opened[p[2]] = "ok" THEN StartReader(p, p[2], "done")
                            ELSE Goes(p, "done")
  /\ IF at'[p] = "done" THEN Answer(p[2], opened[p[2]]) ELSE UNCHANGED answer
  /\ UNCHANGED <<engine, loops, opened, reads, task, loop, conn, blocks>>

\* readLoop: something was read, and packed into a block.
ReadSome(p) ==
  /\ p \in Readers /\ at[p] = "idle" /\ conn[p[2]].socket = "open" /\ reads[p[2]] < MaxReads
  /\ reads' = [reads EXCEPT ![p[2]] = @ + 1] /\ blocks' = blocks + 1
  /\ Calls(p, Item("data", p[2]))
  /\ UNCHANGED <<engine, loops, opened, answer, task, loop, conn>>

\* readLoop: Read failed, as it does once the socket is closed.
ReadFails(p) ==
  /\ p \in Readers /\ at[p] = "idle"
  /\ Calls(p, Item("err", p[2]))
  /\ UNCHANGED <<engine, loops, clients, loop, conn, blocks>>

\* submit, of AsyncWrite, Wake, Close and Execute; in shutdown only the flag is looked at.
\* The first three need a connection, which users know from OnOpen on.
Submit ==
  \E t \in Tasks, el \in Loops, op \in {"wake", "close", "write", "run"}, c \in Conns :
    /\ task[t] = "new" /\ loop[t] = Nil /\ LockFree(el) /\ loop[c] = el
    /\ op = "run" \/ conn[c].opens > 0
    /\ IF stopped[el] \/ beingShutdown THEN task' = [task EXCEPT ![t] = "refused"] /\ UNCHANGED <<ch, loop>>
       ELSE IF Len(ch[el]) = QueueCap THEN task' = [task EXCEPT ![t] = "full"] /\ UNCHANGED <<ch, loop>>
       ELSE /\ task' = [task EXCEPT ![t] = "queued"] /\ loop' = [loop EXCEPT ![t] = el]
            /\ ch' = [ch EXCEPT ![el] = Append(@, [k |-> "fn", c |-> c, op |-> op, t |-> t])]
    /\ UNCHANGED <<engine, stopped, pc, writing, connections, opened, answer, reads, conn, at, msg, blocks>>

--------------------------------------------------------------------------
(* The event loop. *)

\* What a handler returns, or what else decides how a callback ends.
Actions == {"None", "Close", "Shutdown"}

Owned(c) == IF conn[c].block THEN 1 ELSE 0

\* eventloop.close of c, which also ends the socket and gives the block back.
Closed(el, c) ==
  /\ connections' = [connections EXCEPT ![el] = @ \ {c}]
  /\ conn' = [conn EXCEPT ![c] = [@ EXCEPT !.socket = "closed", !.block = FALSE, !.closes = @ + 1]]

\* Mutant: eventloop.close does not look whether the connection is still the loop's.
CloseUnchecked(el, c, action) ==
  /\ Closed(el, c) /\ blocks' = blocks - Owned(c)
  /\ pc' = [pc EXCEPT ![el] = IF action = "Shutdown" THEN "exit" ELSE @]

\* eventloop.close with its early return; action is what OnClose returns.
Close(el, c, action) ==
  IF c \in connections[el]
  THEN /\ Closed(el, c) /\ blocks' = blocks - Owned(c)
       /\ pc' = [pc EXCEPT ![el] = IF action = "Shutdown" THEN "exit" ELSE @]
  ELSE UNCHANGED <<connections, conn, blocks, pc>>

\* handleAction after a callback about c.
HandleAction(el, c, action, onClose) ==
  \/ action = "None" /\ UNCHANGED <<connections, conn, blocks, pc>>
  \/ action = "Close" /\ Close(el, c, onClose)
  \/ action = "Shutdown" /\ pc' = [pc EXCEPT ![el] = "exit"] /\ UNCHANGED <<connections, conn, blocks>>

Took(el, k) ==
  /\ pc[el] = "run" /\ writing[el] = Nil /\ ch[el] # <<>> /\ Head(ch[el]).k = k
  /\ ch' = [ch EXCEPT ![el] = Tail(@)]
  /\ UNCHANGED <<engine, stopped, loop, at, msg, answer, reads>>

\* eventloop.open up to conn.Write: the connection is published and OnOpen called, which may
\* close it itself.
Open(el) ==
  \E closes \in BOOLEAN :
    LET c == Head(ch[el]).c IN
    /\ Took(el, "open")
    /\ connections' = [connections EXCEPT ![el] = IF closes THEN @ ELSE @ \cup {c}]
    /\ conn' = [conn EXCEPT ![c] =
                  IF closes THEN [socket |-> "closed", block |-> FALSE, opens |-> @.opens + 1, closes |-> @.closes + 1]
                  ELSE [@ EXCEPT !.opens = @ + 1]]
    /\ blocks' = IF closes THEN blocks - Owned(c) ELSE blocks
    /\ writing' = [writing EXCEPT ![el] = Head(ch[el])]
    /\ UNCHANGED <<pc, opened, task>>

Wrote(el, k) ==
  /\ writing[el] # Nil /\ writing[el].k = k
  /\ writing' = [writing EXCEPT ![el] = Nil]
  /\ UNCHANGED <<engine, ch, stopped, loop, at, msg, answer, reads>>

\* conn.Write has returned to eventloop.open, because the kernel took every byte or with an
\* error; then the enrolment is told how it went.
OpenWrote(el) ==
  \E action \in Actions, onClose \in {"None", "Shutdown"}, ok \in BOOLEAN :
    LET c == writing[el].c IN
    /\ Wrote(el, "open")
    /\ IF ok THEN HandleAction(el, c, action, onClose) ELSE Close(el, c, "None")
    /\ opened' = IF c \in Enrolled
                 THEN [opened EXCEPT ![c] = IF ok /\ pc'[el] = "run" THEN "ok" ELSE "err"]
                 ELSE opened
    /\ UNCHANGED task

\* readTCP: the arrival's block replaces the connection's, or goes back if that is closed.
ReadTCP(el) ==
  \E action \in Actions, onClose \in {"None", "Shutdown"} :
    LET c == Head(ch[el]).c IN
    /\ Took(el, "data")
    /\ IF c \in connections[el]
       THEN \/ action = "None" /\ blocks' = blocks - 1 /\ UNCHANGED <<connections, conn, pc>>
            \/ /\ action = "Close" /\ Closed(el, c) /\ blocks' = blocks - 1 - Owned(c)
               /\ pc' = [pc EXCEPT ![el] = IF onClose = "Shutdown" THEN "exit" ELSE @]
            \/ /\ action = "Shutdown" /\ blocks' = blocks - 1
               /\ pc' = [pc EXCEPT ![el] = "exit"] /\ UNCHANGED <<connections, conn>>
       ELSE blocks' = blocks - 1 /\ UNCHANGED <<connections, conn, pc>>
    /\ UNCHANGED <<opened, task, writing>>

\* Mutant: the datagram's block goes back twice.
ReadUDPTwice(el) ==
  \E action \in Actions :
    /\ Took(el, "udp")
    /\ blocks' = blocks - 2
    /\ pc' = [pc EXCEPT ![el] = IF action = "Shutdown" THEN "exit" ELSE @]
    /\ UNCHANGED <<connections, conn, opened, task, writing>>

\* readUDP
ReadUDP(el) ==
  \E action \in Actions :
    /\ Took(el, "udp")
    /\ blocks' = blocks - 1
    /\ pc' = [pc EXCEPT ![el] = IF action = "Shutdown" THEN "exit" ELSE @]
    /\ UNCHANGED <<connections, conn, opened, task, writing>>

\* A reader gave up.
NetErr(el) ==
  \E onClose \in {"None", "Shutdown"} :
    /\ Took(el, "err") /\ Close(el, Head(ch[el]).c, onClose)
    /\ UNCHANGED <<opened, task, writing>>

Ran(t) == task' = [task EXCEPT ![t] = IF @ = "queued" THEN "ran" ELSE "twice"]

\* The submitted closures: eventloop.wake, eventloop.close, a Runnable, and conn.Write, which
\* returns at once only if the connection is closed.
RunTask(el) ==
  \E action \in Actions, onClose \in {"None", "Shutdown"} :
    LET i == Head(ch[el]) IN
    /\ Took(el, "fn") /\ (i.op = "write" => conn[i.c].socket = "closed") /\ Ran(i.t)
    /\ CASE i.op = "wake" -> IF i.c \in connections[el] THEN HandleAction(el, i.c, action, onClose)
                             ELSE UNCHANGED <<connections, conn, blocks, pc>>
         [] i.op = "close" -> Close(el, i.c, onClose)
         [] i.op = "write" -> UNCHANGED <<connections, conn, blocks, pc>>
         [] i.op = "run" -> pc' = [pc EXCEPT ![el] = IF action = "Shutdown" /\ ~beingShutdown THEN "exit" ELSE @]
                            /\ UNCHANGED <<connections, conn, blocks>>
    /\ UNCHANGED <<opened, writing>>

\* conn.Write of AsyncWrite: the loop's goroutine is in it until the kernel has every byte.
WriteTask(el) ==
  LET i == Head(ch[el]) IN
  /\ Took(el, "fn") /\ i.op = "write" /\ conn[i.c].socket = "open"
  /\ writing' = [writing EXCEPT ![el] = i]
  /\ UNCHANGED <<connections, conn, blocks, pc, opened, task>>

TaskWrote(el) ==
  /\ Wrote(el, "fn") /\ Ran(writing[el].t)
  /\ UNCHANGED <<connections, conn, blocks, pc, opened>>

\* The loop notices the cancelled context, whatever its queue holds.
LeaveLoop(el) ==
  /\ pc[el] = "run" /\ writing[el] = Nil /\ ctx
  /\ pc' = [pc EXCEPT ![el] = "exit"]
  /\ UNCHANGED <<engine, ch, stopped, writing, connections, clients, loop, conn, at, msg, blocks>>

\* The deferred function of run: shutdown, ...
ShutdownEngine(el) ==
  /\ pc[el] = "exit"
  /\ beingShutdown' = TRUE
  /\ pc' = [pc EXCEPT ![el] = "turnoff"]
  /\ UNCHANGED <<inShutdown, ctx, ticker, stopper, listening, ch, stopped, writing, connections, clients, loop, conn, at, msg, blocks>>

\* ... wait for the lock, ...
WaitForLock(el) ==
  /\ pc[el] = "turnoff" /\ ctx
  /\ pc' = [pc EXCEPT ![el] = "lock"]
  /\ UNCHANGED <<engine, ch, stopped, writing, connections, clients, loop, conn, at, msg, blocks>>

\* Mutant: admission stops while a sender is between its check and its send.
StopAdmissionUnlocked(el) ==
  /\ pc[el] = "lock"
  /\ stopped' = [stopped EXCEPT ![el] = TRUE]
  /\ pc' = [pc EXCEPT ![el] = "closing"]
  /\ UNCHANGED <<engine, ch, writing, connections, clients, loop, conn, at, msg, blocks>>

\* ... stop admission, ...
StopAdmission(el) ==
  /\ pc[el] = "lock" /\ \A p \in Producers : at[p] = "send" => Target(p) # el
  /\ stopped' = [stopped EXCEPT ![el] = TRUE]
  /\ pc' = [pc EXCEPT ![el] = "closing"]
  /\ UNCHANGED <<engine, ch, writing, connections, clients, loop, conn, at, msg, blocks>>

\* ... close every connection, ...
CloseAll(el) ==
  /\ pc[el] = "closing"
  /\ IF connections[el] = {} THEN pc' = [pc EXCEPT ![el] = "drain"] /\ UNCHANGED <<connections, conn, blocks>>
     ELSE /\ \E c \in connections[el] : Closed(el, c) /\ blocks' = blocks - Owned(c)
          /\ UNCHANGED pc
  /\ UNCHANGED <<engine, ch, stopped, writing, clients, loop, at, msg>>

\* Mutant: an abandoned connection's callback is not called.
FinishPendingSilent(el) ==
  /\ pc[el] = "drain"
  /\ IF ch[el] = <<>> THEN pc' = [pc EXCEPT ![el] = "done"] /\ UNCHANGED <<ch, conn, blocks, task>>
     ELSE LET i == Head(ch[el]) IN
          /\ ch' = [ch EXCEPT ![el] = Tail(@)] /\ UNCHANGED pc
          /\ IF i.k = "open" THEN Abandoned(i.c) ELSE UNCHANGED conn
          /\ blocks' = IF i.k \in {"open", "data", "udp"} THEN blocks - 1 ELSE blocks
          /\ IF i.k = "fn" THEN Ran(i.t) ELSE UNCHANGED task
  /\ UNCHANGED <<engine, stopped, writing, connections, opened, answer, reads, loop, at, msg>>

\* ... and finishPending.
FinishPending(el) ==
  /\ pc[el] = "drain"
  /\ IF ch[el] = <<>> THEN pc' = [pc EXCEPT ![el] = "done"] /\ UNCHANGED <<ch, conn, blocks, opened, task>>
     ELSE LET i == Head(ch[el]) IN
          /\ ch' = [ch EXCEPT ![el] = Tail(@)] /\ UNCHANGED pc
          /\ IF i.k = "open" THEN Abandoned(i.c) ELSE UNCHANGED conn
          /\ opened' = IF i.k = "open" /\ i.c \in Enrolled THEN [opened EXCEPT ![i.c] = "err"] ELSE opened
          /\ blocks' = IF i.k \in {"open", "data", "udp"} THEN blocks - 1 ELSE blocks
          /\ IF i.k = "fn" THEN Ran(i.t) ELSE UNCHANGED task
  /\ UNCHANGED <<engine, stopped, writing, connections, answer, reads, loop, at, msg>>

LoopStep(el) ==
  \/ Open(el) \/ ReadTCP(el) \/ ReadUDP(el) \/ NetErr(el) \/ RunTask(el) \/ WriteTask(el) \/ LeaveLoop(el)
  \/ ShutdownEngine(el) \/ WaitForLock(el) \/ StopAdmission(el) \/ CloseAll(el) \/ FinishPending(el)

WriteEnds(el) == OpenWrote(el) \/ TaskWrote(el)

--------------------------------------------------------------------------
(* The engine. *)

\* Engine.Stop, gnet.Stop and Client.Stop begin with engine.shutdown ...
RequestStop ==
  /\ ~beingShutdown /\ beingShutdown' = TRUE
  /\ UNCHANGED <<inShutdown, ctx, ticker, stopper, listening, loops, clients, loop, conn, at, msg, blocks>>

\* ... and whoever set the flag then cancels the context.
TurnOff ==
  /\ beingShutdown /\ ~ctx /\ ctx' = TRUE
  /\ UNCHANGED <<beingShutdown, inShutdown, ticker, stopper, listening, loops, clients, loop, conn, at, msg, blocks>>

\* ticker: OnTick may ask for a shutdown, and the cancelled context ends it.
Tick ==
  /\ ticker = "run"
  /\ IF ctx THEN ticker' = "done" /\ UNCHANGED beingShutdown
     ELSE ~beingShutdown /\ beingShutdown' = TRUE /\ UNCHANGED ticker
  /\ UNCHANGED <<inShutdown, ctx, stopper, listening, loops, clients, loop, conn, at, msg, blocks>>

\* engine.stop: closeEventLoops, ...
CloseEventLoops ==
  /\ stopper = "wait" /\ ctx
  /\ stopper' = "join" /\ beingShutdown' = TRUE /\ listening' = FALSE
  /\ UNCHANGED <<inShutdown, ctx, ticker, loops, clients, loop, conn, at, msg, blocks>>

\* ... then concurrency.Wait.
JoinAll ==
  /\ stopper = "join" /\ ticker = "done"
  /\ \A el \in Loops : pc[el] = "done"
  /\ \A p \in Listeners : at[p] = "done"
  /\ stopper' = "done" /\ inShutdown' = TRUE
  /\ UNCHANGED <<beingShutdown, ctx, ticker, listening, loops, clients, loop, conn, at, msg, blocks>>

Send(p) == Admit(p) \/ Push(p) \/ Cancelled(p)

Next ==
  \/ \E p \in Producers : Send(p) \/ ListenerFails(p) \/ EnrollOpened(p) \/ ReadSome(p) \/ ReadFails(p)
  \/ Accept \/ ReceiveDatagram \/ Enroll \/ Submit
  \/ \E el \in Loops : LoopStep(el) \/ WriteEnds(el)
  \/ RequestStop \/ TurnOff \/ Tick \/ CloseEventLoops \/ JoinAll

\* Goroutines that can go on do; a reader or listener whose socket is closed returns.
Fairness ==
  /\ \A p \in Producers : WF_vars(Send(p)) /\ WF_vars(EnrollOpened(p))
  /\ \A c \in Conns : WF_vars(conn[c].socket = "closed" /\ ReadFails(<<"reader", c>>))
  /\ \A p \in Listeners : WF_vars(~listening /\ ListenerFails(p))
  /\ \A el \in Loops : WF_vars(LoopStep(el))
  /\ WF_vars(TurnOff) /\ WF_vars(ctx /\ Tick) /\ WF_vars(CloseEventLoops) /\ WF_vars(JoinAll)

\* Peers go on reading, or their connections break: no conn.Write blocks for ever.  Nothing
\* in the code ensures it, since writes have no deadline.
PeersRead == \A el \in Loops : WF_vars(WriteEnds(el))

Spec == Init /\ [][Next]_vars
FairSpec == Spec /\ Fairness /\ PeersRead

--------------------------------------------------------------------------
(* Properties *)

\* Every variable has its type.
TypeOK ==
  /\ {beingShutdown, inShutdown, ctx, listening} \subseteq BOOLEAN
  /\ \A el \in Loops : /\ Len(ch[el]) <= QueueCap /\ stopped[el] \in BOOLEAN
                       /\ pc[el] \in {"run", "exit", "turnoff", "lock", "closing", "drain", "done"}
                       /\ connections[el] \subseteq Conns
  /\ conn \in [Conns -> [socket : {"none", "open", "closed"}, block : BOOLEAN, opens : Nat, closes : Nat]]
  /\ at \in [Producers -> {"none", "idle", "call", "send", "wait", "done"}]
  /\ opened \in [Enrolled -> {"no", "ok", "err"}] /\ answer \in [Enrolled -> {"no", "ok", "err", "unsent"}]
  /\ task \in [Tasks -> {"new", "queued", "full", "refused", "ran"}]
  /\ ticker \in {"run", "done"} /\ stopper \in {"wait", "join", "done"} /\ blocks \in Nat

\* OnOpen and OnClose come once each and in this order, and a loop has the connection
\* between them; when the loop's goroutine has ended every OnOpen had its OnClose, and every
\* socket it was handed is closed, whether it was published, queued or refused.  A connection
\* that was handed to a loop and whose enrolment was answered with an error does not stay open
\* either: its close is queued or the shutdown implies it.  Of a socket that EnrollContext
\* gives up before that (loop[c] = Nil) nothing is claimed: the code leaves it open.
OpenedThenClosedOnce ==
  \A c \in Conns :
    LET k == conn[c] IN
    /\ k.closes <= k.opens /\ k.opens <= 1
    /\ k.opens > k.closes <=> \E el \in Loops : c \in connections[el]
    /\ loop[c] \in Loops /\ pc[loop[c]] = "done" =>
         k.opens = k.closes /\ (k.socket = "open" => \E p \in Producers : msg[p] = Item("open", c))
    /\ c \in Enrolled /\ k.socket = "open" /\ answer[c] = "err" =>
         \/ loop[c] = Nil \/ beingShutdown \/ pc[loop[c]] # "run"
         \/ \E i \in 1..Len(ch[loop[c]]) : ch[loop[c]][i] = Item("err", c)

\* The blocks of bbPool that are out: one for each connection that has one, each arrival a
\* goroutine is sending and each arrival in a channel.
Carries(i) == i # Nil /\ i.k \in {"data", "udp"}
BlocksOwned ==
  blocks = Cardinality({c \in Conns : conn[c].block})
         + Cardinality({p \in Producers : Carries(msg[p])})
         + Cardinality({<<el, j>> \in Loops \X (1..QueueCap) : j <= Len(ch[el]) /\ Carries(ch[el][j])})

\* The block of a connection that EnrollContext gave up when SetKeepAlive failed, and that no
\* loop was handed: it is never returned.
Leaked(c) == conn[c].block /\ loop[c] = Nil

\* Nothing that enqueue or submit accepted is left behind: no goroutine adds an item to the
\* channel of a loop that has stopped admission, the loop ends with an empty channel, every
\* accepted closure has run exactly once, and no block is returned twice or, but for those of
\* a failed SetKeepAlive (Leaked), outlives the loop, whichever of unpackTCPConn, release, a
\* refused enqueue and finishPending ends its life.
NothingLeftBehind ==
  /\ \A el \in Loops : pc[el] = "done" => ch[el] = <<>>
  /\ \A p \in Producers : at[p] = "send" => ~stopped[Target(p)]
  /\ \A t \in Tasks : loop[t] \in Loops /\ pc[loop[t]] = "done" => task[t] = "ran"
  /\ BlocksOwned
  /\ \A c \in Conns : conn[c].block =>
       \/ Leaked(c) \/ pc[loop[c]] # "done"
       \/ \E p \in Producers : msg[p] = Item("open", c)

\* The shutdown, whoever begins it, completes: no producer, loop or listener waits for
\* another for ever, also with a full channel.  It takes peers that read (PeersRead): a loop
\* that is inside conn.Write does not notice the cancelled context, and stop waits for it.
ShutdownCompletes == beingShutdown ~> inShutdown

\* Every enrolment whose goroutine has started gets its result on resCh, also when the
\* shutdown overtakes it.  One that the full worker pool refuses does not: enroll returns the
\* error and leaves resCh open and empty.
EnrolmentAnswered ==
  \A c \in Enrolled : at[<<"enroll", c>>] = "call" ~> answer[c] \in {"ok", "err"}
=============================================================================
