----------------------------- MODULE Connection -----------------------------
(***************************************************************************)
(* One stream connection on its event loop (connection_unix.go,             *)
(* eventloop_unix.go, connection_linux.go): from OnOpen to the closing of   *)
(* the descriptor, in level-triggered and in edge-triggered mode.           *)
(*                                                                         *)
(* The loop is one goroutine.  "stack" holds the calls it is inside of,     *)
(* innermost first; an empty stack is the loop in epoll_wait or about to    *)
(* take a task.  A step of the loop is one system call or the code between  *)
(* two of them, so the peer, the kernel and other goroutines (which only    *)
(* post tasks: module Poller) move in between.                             *)
(*                                                                         *)
(* The n-th byte the application writes is the number n, so order and loss  *)
(* can be told; incoming bytes are only counted.                           *)
(***************************************************************************)
EXTENDS Integers, Sequences, FiniteSets, FiniteSetsExt

CONSTANTS
  Profiles,       \* records [et, chunk, uses, maxWrite, maxIn, iov]: Options.EdgeTriggeredIO
                  \* and Options.EdgeTriggeredIOChunk, the calls the application's handlers make
                  \* (see Handler), bounds on the bytes of one write and on those the peer
                  \* sends, and iovMax
  Coalescing,     \* ~Options.NoWriteCoalescing
  BufferLen,      \* len(el.buffer)
  HoldMax,        \* corkHoldMax
  SockCap,        \* capacity of the kernel's send buffer
  MaxBytes,       \* bound on the bytes the handlers write
  MaxTasks        \* bound on the tasks other goroutines have pending

ASSUME ConnectionAssumption ==
  /\ \A p \in Profiles : p.et \in BOOLEAN /\ {p.chunk, p.maxWrite, p.maxIn, p.iov} \subseteq Nat \ {0}
  /\ Coalescing \in BOOLEAN
  /\ {BufferLen, HoldMax, SockCap} \subseteq Nat \ {0}
  /\ {MaxBytes, MaxTasks} \subseteq Nat

Actions == {"None", "Close", "Shutdown"}
Callbacks == {"onOpen", "traffic", "wake", "onClose"}

\* The calls the loop can be inside of: user callbacks; register0's open; processIO's
\* last part; read, write, flushCoalesced and close with their loops; asyncWrite.
Frames == Callbacks \cup {"openOut", "openDone", "hup", "hupIn", "in", "inLoop", "inFlushed",
                          "inRest", "out", "flush", "send", "sendv", "async", "close", "residual"}

Posted == {"asyncWrite", "wake", "close", "shutdown"}
Tasks  == Posted \cup {"read0", "write0"}

VARIABLES
  c,        \* the conn object
  sk,       \* the socket, its epoll registration and the profile it is used in
  tracked,  \* the connection is in el.connections
  polling,  \* Polling has not returned
  stack,    \* the calls in progress, innermost first
  data,     \* conn.write, writev, open: the bytes not yet handed to the kernel
  overflow, \* writev: the bytes beyond iovMax buffers
  quantum,  \* eventloop.write: the bytes sent by this call
  recv,     \* eventloop.read: the bytes received by this call
  full,     \* eventloop.read: the last read(2) filled the buffer
  action,   \* what OnOpen or OnClose returned
  tasks,    \* tasks waiting in the poller's queues
  written,  \* history: the bytes the application has written
  arrived,  \* history: the bytes the peer has sent
  closes    \* history: the calls of OnClose

locals  == <<data, overflow, quantum, recv, full, action>>
history == <<written, arrived, closes>>
vars == <<c, sk, tracked, polling, stack, locals, tasks, history>>

\* Options.EdgeTriggeredIO, which decides how the descriptor is registered.
isET == sk.as.et
Chunk == sk.as.chunk
Uses == sk.as.uses
MaxWrite == sk.as.maxWrite
MaxIn == sk.as.maxIn
IovMax == sk.as.iov

At(f) == stack # <<>> /\ Head(stack) = f

\* The innermost call returns; goes on as the calls fs; makes a further call.
Returns     == stack' = Tail(stack)
Becomes(fs) == stack' = fs \o Tail(stack)
Enters(f)   == stack' = <<f>> \o stack

\* The n bytes after the first i.
Run(i, n) == [j \in 1..n |-> i + j]
Drop(s, n) == SubSeq(s, n + 1, Len(s))

-----------------------------------------------------------------------------
(* The socket                                                              *)

\* write(2) on the socket fails, would block, or takes as much as there is room for.
Fails   == sk.broken \/ ~sk.open
Blocks  == ~Fails /\ sk.space = 0
Accepts == ~Fails /\ sk.space > 0
Taken(s) == IF Len(s) < sk.space THEN Len(s) ELSE sk.space
Sent(s, n) == [sk EXCEPT !.sent = @ \o SubSeq(s, 1, n), !.space = @ - n]

Readable(s) == s.rcvq > 0 \/ s.fin \/ s.broken

\* epoll_ctl(MOD) looks at the descriptor again: in edge-triggered mode it raises an edge.
ModReadWrite(s) ==
  [s EXCEPT !.interest = "rw",
            !.edge = isET /\ (@ \/ s.space > 0 \/ Readable(s))]
Watched(s, watch) == IF watch THEN ModReadWrite(s) ELSE s
ModRead(s) == [s EXCEPT !.interest = "r"]
Deleted(s) == [s EXCEPT !.interest = "none", !.edge = FALSE, !.open = FALSE]

-----------------------------------------------------------------------------
(* conn.write, conn.writev, conn.open                                      *)

Buffered(s) == [c EXCEPT !.outbound = @ \o s]

\* The window of a callback is open and this write of n bytes is held back.
HeldBack(n) == c.cork = "armed" \/ (c.cork = "hold" /\ n <= HoldMax)

CorkCount == IF c.corkN < 2 THEN c.corkN + 1 ELSE 2  \* only "more than one" is looked at

\* Write or writev of the next n bytes, up to its first system call.  "call" is what the
\* loop is inside of afterwards if there is one, "back" if the bytes were buffered.
Buffers(n, held, back) ==
  /\ c' = [Buffered(Run(written, n)) EXCEPT
             !.corkN = CorkCount,
             !.cork = IF held THEN "armed" ELSE @,
             !.corkDirty = @ \/ held]
  /\ stack' = back
  /\ UNCHANGED <<data, overflow>>

Submits(n, split, call) ==
  /\ c' = [c EXCEPT !.corkN = CorkCount, !.cork = IF @ = "off" THEN "off" ELSE "armed"]
  /\ data' = SubSeq(Run(written, n), 1, split)
  /\ overflow' = Drop(Run(written, n), split)
  /\ stack' = call

WritesBytes(n) ==
  /\ written' = written + n
  /\ UNCHANGED <<sk, tracked, polling, quantum, recv, full, action, arrived, closes>>

\* Mutant: data pending in the outbound buffer is not looked at.
WriteOvertakes(n, frame, back) ==
  /\ IF c.cork # "off" /\ HeldBack(n)
     THEN Buffers(n, TRUE, back)
     ELSE Submits(n, n, <<frame>> \o back)
  /\ WritesBytes(n)

Write(n, frame, back) ==
  /\ IF c.outbound # <<>> THEN Buffers(n, FALSE, back)
     ELSE IF c.cork # "off" /\ HeldBack(n) THEN Buffers(n, TRUE, back)
     ELSE Submits(n, IF frame = "sendv" /\ n > IovMax THEN IovMax ELSE n, <<frame>> \o back)
  /\ WritesBytes(n)

SendKeeps == UNCHANGED <<tracked, polling, quantum, recv, full, action, tasks, history>>

\* The leftover goes to the outbound buffer, the poller is told if "watch", and the call ends.
SendBuffers(left, s, watch) ==
  /\ c' = Buffered(left)
  /\ sk' = Watched(s, watch)
  /\ data' = <<>>
  /\ overflow' = <<>>
  /\ Returns

\* One write(2) of conn.write.  Edge-triggered mode repeats until the kernel refuses.
Send ==
  /\ At("send")
  /\ \/ /\ Fails
        /\ data' = <<>>
        /\ Becomes(<<"close">>)
        /\ UNCHANGED <<c, sk, overflow>>
     \/ /\ Blocks
        /\ SendBuffers(data, sk, ~isET)
     \/ /\ Accepts
        /\ LET n == Taken(data)
           IN  IF isET /\ n < Len(data)
               THEN /\ sk' = Sent(data, n)
                    /\ data' = Drop(data, n)
                    /\ UNCHANGED <<c, overflow, stack>>
               ELSE SendBuffers(Drop(data, n), Sent(data, n), n < Len(data))
  /\ SendKeeps

\* One writev(2) of conn.writev.  Edge-triggered mode repeats only if the kernel stopped
\* inside a buffer ("sent" is then not zero after the walk over the buffers).
Sendv ==
  /\ At("sendv")
  /\ \/ /\ Fails
        /\ data' = <<>>
        /\ overflow' = <<>>
        /\ Becomes(<<"close">>)
        /\ UNCHANGED <<c, sk>>
     \/ /\ Blocks
        /\ SendBuffers(data \o overflow, sk, ~isET)
     \/ /\ Accepts
        /\ LET n == Taken(data)
               left == Drop(data, n) \o overflow
           IN  \/ SendBuffers(left, Sent(data, n), left # <<>>)
               \/ /\ isET
                  /\ n < Len(data)
                  /\ sk' = Sent(data, n)
                  /\ data' = Drop(data, n)
                  /\ UNCHANGED <<c, overflow, stack>>
  /\ SendKeeps

\* One write(2) of conn.open, which sends what OnOpen returned.  An error ends the
\* registration and leaves the connection as it is.
OpenOut ==
  /\ At("openOut")
  /\ \/ /\ Fails
        /\ data' = <<>>
        /\ stack' = Tail(Tail(stack))
        /\ UNCHANGED <<c, sk>>
     \/ /\ Blocks
        /\ c' = Buffered(data)
        /\ data' = <<>>
        /\ Returns
        /\ UNCHANGED sk
     \/ /\ Accepts
        /\ sk' = Sent(data, Taken(data))
        /\ data' = Drop(data, Taken(data))
        /\ IF Taken(data) = Len(data) THEN Returns ELSE UNCHANGED stack
        /\ UNCHANGED c
  /\ SendKeeps
  /\ UNCHANGED overflow

-----------------------------------------------------------------------------
(* eventloop.write and flushCoalesced                                      *)

\* Write tasks that eventloop.write triggers for the rest of a large buffer.
Requeue == tasks' = Append(tasks, "write0")

\* What one gathered write of the outbound buffer covers: all of it, or the first iovMax
\* pieces, each of at least a byte.
Gathered == {Len(c.outbound)} \cup IovMax..Len(c.outbound)

\* eventloop.write: one write(2) or writev(2), another one in edge-triggered mode while the call
\* is below its limit; "again" says whether the rest is handed to a task after that.
OutWith(limit, again) ==
  /\ At("out")
  /\ \/ /\ c.outbound = <<>> \/ Blocks
        /\ quantum' = 0
        /\ Returns
        /\ UNCHANGED <<c, sk, tasks>>
     \/ /\ c.outbound # <<>>
        /\ Fails
        /\ quantum' = 0
        /\ Becomes(<<"close">>)
        /\ UNCHANGED <<c, sk, tasks>>
     \/ /\ c.outbound # <<>>
        /\ Accepts
        /\ \E run \in Gathered :
             LET n == Taken(SubSeq(c.outbound, 1, run))
                 left == Drop(c.outbound, n)
             IN  /\ c' = [c EXCEPT !.outbound = left]
                 /\ sk' = IF left = <<>> /\ ~isET THEN ModRead(Sent(c.outbound, n))
                          ELSE Sent(c.outbound, n)
                 /\ IF isET /\ left # <<>> /\ quantum + n < limit
                    THEN /\ quantum' = quantum + n
                         /\ UNCHANGED <<stack, tasks>>
                    ELSE /\ quantum' = 0
                         /\ Returns
                         /\ IF again /\ left # <<>> THEN Requeue ELSE UNCHANGED tasks
  /\ UNCHANGED <<tracked, polling, data, overflow, recv, full, action, history>>

\* Mutant: the rest of a large buffer is left to the next edge.
OutNoTask == OutWith(Chunk, FALSE)

\* Mutant: the call goes on until the buffer is empty.
OutUnlimited == OutWith(MaxBytes + MaxTasks + 1, isET)

Out == OutWith(Chunk, isET)

FlushKeeps == UNCHANGED <<tracked, polling, locals, tasks, history>>

\* flushCoalesced: one write(2) of the first contiguous run of the buffer.  It ends when
\* the buffer is empty, or with the poller told ("watch") when the kernel is full.
FlushWith(watch) ==
  /\ At("flush")
  /\ \/ /\ c.outbound = <<>>
        /\ Returns
        /\ UNCHANGED <<c, sk>>
     \/ /\ c.outbound # <<>>
        /\ Fails
        /\ Becomes(<<"close">>)
        /\ UNCHANGED <<c, sk>>
     \/ /\ c.outbound # <<>>
        /\ Blocks
        /\ sk' = Watched(sk, watch)
        /\ Returns
        /\ UNCHANGED c
     \/ /\ c.outbound # <<>>
        /\ Accepts
        /\ \E run \in 1..Len(c.outbound) :
             LET n == Taken(SubSeq(c.outbound, 1, run))
             IN  /\ c' = [c EXCEPT !.outbound = Drop(@, n)]
                 /\ IF n < run
                    THEN sk' = Watched(Sent(c.outbound, n), watch) /\ Returns
                    ELSE sk' = Sent(c.outbound, n) /\ UNCHANGED stack
  /\ FlushKeeps

\* Mutant: the poller is not asked for writability.
FlushUnwatched == FlushWith(FALSE)

Flush == FlushWith(TRUE)

-----------------------------------------------------------------------------
(* eventloop.close                                                         *)

\* An error on its way out of the loop is lost in a callback (Write and Flush hand it to
\* the handler) and in asyncWrite; otherwise ErrEngineShutdown ends Polling, and orbit or
\* run closes the connections that are left.
Swallows == Callbacks \cup {"async"}
Unwinds(calls) ==
  LET catching == {i \in DOMAIN calls : calls[i] \in Swallows}
  IN  IF catching # {}
      THEN stack' = SubSeq(calls, Min(catching), Len(calls)) /\ UNCHANGED polling
      ELSE stack' = (IF polling THEN <<"close">> ELSE <<>>) /\ polling' = FALSE

\* handleAction after the current call, whose callers are "calls".
Acts(a, calls) ==
  \/ a = "None" /\ stack' = calls /\ UNCHANGED polling
  \/ a = "Close" /\ stack' = <<"close">> \o calls /\ UNCHANGED polling
  \/ a = "Shutdown" /\ Unwinds(calls)

\* delConn and OnClose; a stale connection is ignored.
CloseIf(live) ==
  /\ At("close")
  /\ IF live
     THEN /\ tracked' = FALSE
          /\ closes' = closes + 1
          /\ Becomes(<<"onClose", "residual">>)
     ELSE /\ Returns
          /\ UNCHANGED <<tracked, closes>>
  /\ UNCHANGED <<c, sk, polling, locals, tasks, written, arrived>>

\* Mutant: whether the connection is still in the table is not looked at.
CloseAgain == CloseIf(c.opened)

Close == CloseIf(c.opened /\ tracked)

\* conn.release
Released ==
  [outbound |-> <<>>, opened |-> FALSE, isEOF |-> FALSE, cork |-> "off", corkDirty |-> FALSE,
   corkBatch |-> FALSE, corkN |-> 0]

\* One writev(2) of what is left in the outbound buffer.
ResidualSend ==
  /\ At("residual")
  /\ c.outbound # <<>>
  /\ Accepts
  /\ \E run \in Gathered :
       LET n == Taken(SubSeq(c.outbound, 1, run))
       IN  /\ sk' = Sent(c.outbound, n)
           /\ c' = [c EXCEPT !.outbound = Drop(@, n)]
  /\ UNCHANGED <<tracked, polling, stack, locals, tasks, history>>

\* Everything is sent, or the kernel refuses: release, the descriptor leaves the poller
\* and is closed, and OnClose's action is carried out.
ResidualDone ==
  /\ At("residual")
  /\ c.outbound = <<>> \/ ~Accepts
  /\ c' = Released
  /\ sk' = Deleted(sk)
  /\ action' = "None"
  /\ Acts(action, Tail(stack))
  /\ UNCHANGED <<tracked, data, overflow, quantum, recv, full, tasks, history>>

-----------------------------------------------------------------------------
(* eventloop.open, read and wake                                           *)

Coalesce == Coalescing /\ ~isET

OpenCork ==
  IF Coalesce THEN [c EXCEPT !.corkN = 0, !.cork = IF c.corkBatch THEN "hold" ELSE "open"] ELSE c
CloseCork == [c EXCEPT !.corkBatch = IF Coalesce THEN c.corkN > 1 ELSE @,
                       !.cork = "off", !.corkDirty = FALSE]

\* The deferred writes of a callback that left some behind.
MustFlush == c.corkDirty /\ c.opened

\* After conn.open: ask for writability if something was left, then handleAction.
OpenDone ==
  /\ At("openDone")
  /\ sk' = IF c.outbound # <<>> /\ ~isET THEN ModReadWrite(sk) ELSE sk
  /\ action' = "None"
  /\ Acts(action, Tail(stack))
  /\ UNCHANGED <<c, tracked, data, overflow, quantum, recv, full, tasks, history>>

ReadKeeps == UNCHANGED <<tracked, polling, data, overflow, quantum, action, history>>

InIf(alive) ==
  /\ At("in")
  /\ recv' = 0
  /\ IF alive THEN Becomes(<<"inLoop">>) ELSE Returns
  /\ UNCHANGED <<c, sk, full, tasks>>
  /\ ReadKeeps

\* Mutant: read does not look whether the connection is open.
InUnchecked == InIf(TRUE)

In == InIf(c.opened)

\* read(2) and, with data, the opening of the coalescing window for OnTraffic.
ReadSocketTo(eof) ==
  /\ At("inLoop")
  /\ \/ /\ ~sk.open                               \* EBADF
        /\ Becomes(<<"close">>)
        /\ UNCHANGED <<c, sk, recv, full>>
     \/ /\ sk.open /\ sk.rcvq = 0
        /\ Becomes(IF sk.broken THEN <<"close">> ELSE IF sk.fin THEN eof ELSE <<>>)
        /\ UNCHANGED <<c, sk, recv, full>>
     \/ /\ sk.open /\ sk.rcvq > 0
        /\ LET n == IF sk.rcvq < BufferLen THEN sk.rcvq ELSE BufferLen
           IN  /\ sk' = [sk EXCEPT !.rcvq = @ - n]
               /\ recv' = recv + n
               /\ full' = (n = BufferLen)
        /\ c' = OpenCork
        /\ Becomes(<<"traffic", "inRest">>)
  /\ UNCHANGED tasks
  /\ ReadKeeps

\* Mutant: the end of the stream is taken for "no data yet".
ReadSocketMissesEof == ReadSocketTo(<<>>)

ReadSocket == ReadSocketTo(<<"close">>)

\* The flush after OnTraffic may have closed the connection.
InFlushed ==
  /\ At("inFlushed")
  /\ IF c.opened THEN Becomes(<<"inRest">>) ELSE Returns
  /\ UNCHANGED <<c, sk, recv, full, tasks>>
  /\ ReadKeeps

\* The unread rest is kept; the next read(2) follows, or a task when the chunk is used up.
InRest ==
  /\ At("inRest")
  /\ IF c.isEOF \/ (isET /\ recv < Chunk)
     THEN /\ Becomes(<<"inLoop">>)
          /\ UNCHANGED <<recv, full, tasks>>
     ELSE /\ Returns
          /\ recv' = 0
          /\ full' = FALSE
          /\ tasks' = IF isET /\ full THEN Append(tasks, "read0") ELSE tasks
  /\ UNCHANGED <<c, sk>>
  /\ ReadKeeps

-----------------------------------------------------------------------------
(* The application's handlers.  They use the connection only while it is   *)
(* open.                                                                   *)

InCallback == stack # <<>> /\ Head(stack) \in Callbacks
MayUse(call) == InCallback /\ c.opened /\ call \in Uses

HandlerWrite ==
  \E n \in 1..MaxWrite, frame \in {"send", "sendv"} :
    /\ MayUse(IF frame = "send" THEN "Write" ELSE "Writev")
    /\ written + n <= MaxBytes
    /\ Write(n, frame, stack)
    /\ UNCHANGED tasks

\* Conn.Flush
HandlerFlush ==
  /\ MayUse("Flush")
  /\ Enters("out")
  /\ UNCHANGED <<c, sk, tracked, polling, locals, tasks, history>>

\* Conn.ReadFrom, whose bytes the handler then flushes.
HandlerReadFrom ==
  \E n \in 1..MaxWrite :
    /\ MayUse("ReadFrom")
    /\ written + n <= MaxBytes
    /\ c' = Buffered(Run(written, n))
    /\ written' = written + n
    /\ Enters("out")
    /\ UNCHANGED <<sk, tracked, polling, locals, tasks, arrived, closes>>

\* EventLoop.Close
HandlerClose ==
  /\ MayUse("Close")
  /\ Enters("close")
  /\ UNCHANGED <<c, sk, tracked, polling, locals, tasks, history>>

\* OnOpen returns bytes only when it has left none in the outbound buffer: conn.open does not
\* look there, and the bytes returned would overtake them.  It may have closed the connection.
OnOpenReturns(a) ==
  \E n \in 0..MaxWrite :
    /\ At("onOpen")
    /\ n > 0 => c.outbound = <<>>
    /\ written + n <= MaxBytes
    /\ data' = Run(written, n)
    /\ written' = written + n
    /\ action' = a
    /\ Becomes(IF n = 0 THEN <<"openDone">> ELSE <<"openOut", "openDone">>)
    /\ UNCHANGED <<c, sk, tracked, polling, overflow, quantum, recv, full, tasks, arrived, closes>>

OnCloseReturns(a) ==
  /\ At("onClose")
  /\ action' = a
  /\ Returns
  /\ UNCHANGED <<c, sk, tracked, polling, data, overflow, quantum, recv, full, tasks, written,
                 arrived, closes>>

CallbackKeeps == UNCHANGED <<sk, tracked, locals, tasks, written, arrived, closes>>

\* OnTraffic returns to read: the deferred writes are flushed, or the action is taken.
TrafficReturns(a) ==
  /\ At("traffic")
  /\ c' = CloseCork
  /\ \/ /\ a = "None"
        /\ IF MustFlush THEN stack' = <<"flush", "inFlushed">> \o Tail(Tail(stack)) ELSE Returns
        /\ UNCHANGED polling
     \/ /\ a # "None"
        /\ Acts(a, Tail(Tail(stack)))
  /\ CallbackKeeps

\* OnTraffic returns to wake.
WakeReturns(a) ==
  /\ At("wake")
  /\ c' = CloseCork
  /\ IF MustFlush /\ a = "None"
     THEN Becomes(<<"flush">>) /\ UNCHANGED polling
     ELSE Acts(a, Tail(stack))
  /\ CallbackKeeps

HandlerReturns ==
  \E a \in Actions : OnOpenReturns(a) \/ OnCloseReturns(a) \/ TrafficReturns(a) \/ WakeReturns(a)

-----------------------------------------------------------------------------
(* processIO, and the tasks the poller runs                                *)

\* epoll_wait reports the socket and processIO takes the event apart: writable first,
\* then readable, then the peer's half-close (asked for in edge-triggered mode only).
\* A broken connection is reported as an error with or without the other two.
EpollWait(in, out) ==
  LET err == sk.broken
      hup == isET /\ (sk.fin \/ sk.broken)
  IN  /\ polling /\ stack = <<>>
      /\ sk.open
      /\ isET => sk.edge
      /\ in \/ out \/ err
      /\ in => Readable(sk)
      /\ out => sk.interest = "rw" /\ (sk.space > 0 \/ sk.broken)
      /\ ~err => /\ Readable(sk) => in
                 /\ sk.interest = "rw" /\ sk.space > 0 => out
      /\ sk' = [sk EXCEPT !.edge = FALSE]
      /\ IF err /\ ~in /\ ~out
         THEN c' = [c EXCEPT !.outbound = <<>>] /\ stack' = <<"close">>
         ELSE /\ stack' = (IF out \/ err THEN <<"out">> ELSE <<>>)
                            \o (IF in \/ err THEN <<"in">> ELSE <<>>)
                            \o (IF ~hup THEN <<>> ELSE IF in THEN <<"hupIn">> ELSE <<"hup">>)
              /\ UNCHANGED c
      /\ UNCHANGED <<tracked, polling, locals, tasks, history>>

\* The half-close of an open connection: read it to its end, or close it if unreadable.
HalfClosed ==
  /\ At("hup") \/ At("hupIn")
  /\ IF ~c.opened THEN Returns /\ UNCHANGED c
     ELSE IF At("hup") THEN Becomes(<<"close">>) /\ UNCHANGED c
     ELSE Becomes(<<"in">>) /\ c' = [c EXCEPT !.isEOF = TRUE]
  /\ UNCHANGED <<sk, tracked, polling, locals, tasks, history>>

\* asyncWrite ends: its callback is told the result.
AsyncDone ==
  /\ At("async")
  /\ Returns
  /\ UNCHANGED <<c, sk, tracked, polling, locals, tasks, history>>

\* The poller runs a task.  AsyncWrite and write0 have high priority and run in order; a
\* shutdown comes from engine.stop (high) or from a ticker (low) and may run at any place.
RunTask(i) ==
  LET rest == SubSeq(tasks, 1, i - 1) \o Drop(tasks, i)
      High == {"asyncWrite", "write0"}
  IN  /\ polling /\ stack = <<>>
      /\ tasks[i] \in High => \A j \in 1..(i - 1) : tasks[j] \notin High
      /\ tasks' = rest
      /\ \/ /\ tasks[i] = "asyncWrite"
            /\ IF c.opened
               THEN Write(1, "send", <<"async">>)
               ELSE UNCHANGED <<c, sk, tracked, polling, stack, locals, history>>
         \/ /\ tasks[i] = "wake"
            /\ IF c.opened /\ tracked
               THEN c' = OpenCork /\ stack' = <<"wake">>
               ELSE UNCHANGED <<c, stack>>
            /\ UNCHANGED <<sk, tracked, polling, locals, history>>
         \/ /\ tasks[i] = "shutdown"
            /\ Unwinds(<<>>)
            /\ UNCHANGED <<c, sk, tracked, locals, history>>
         \/ /\ tasks[i] \in {"close", "read0", "write0"}
            /\ stack' = CASE tasks[i] = "close" -> <<"close">>
                          [] tasks[i] = "read0" -> <<"in">>
                          [] tasks[i] = "write0" -> <<"out">>
            /\ UNCHANGED <<c, sk, tracked, polling, locals, history>>

\* Another goroutine calls AsyncWrite, Wake, Close or Engine.Stop.
Post(t) ==
  /\ t \in Uses
  /\ Cardinality({i \in DOMAIN tasks : tasks[i] \in Posted}) < MaxTasks
  /\ t = "asyncWrite" => written < MaxBytes
  /\ tasks' = Append(tasks, t)
  /\ UNCHANGED <<c, sk, tracked, polling, stack, locals, history>>

-----------------------------------------------------------------------------
(* The peer                                                                *)

Peer(s) ==
  /\ sk.open
  /\ sk' = s
  /\ UNCHANGED <<c, tracked, polling, stack, locals, tasks, written, closes>>

PeerReads ==
  /\ sk.space < SockCap /\ ~sk.broken
  /\ Peer([sk EXCEPT !.space = @ + 1, !.edge = @ \/ (isET /\ sk.space = 0)])
  /\ UNCHANGED arrived

PeerSends ==
  /\ arrived < MaxIn /\ ~sk.fin /\ ~sk.broken
  /\ arrived' = arrived + 1
  /\ Peer([sk EXCEPT !.rcvq = @ + 1, !.edge = isET])

PeerCloses ==
  /\ ~sk.fin /\ ~sk.broken
  /\ Peer([sk EXCEPT !.fin = TRUE, !.edge = isET])
  /\ UNCHANGED arrived

PeerResets ==
  /\ "Reset" \in Uses
  /\ ~sk.broken
  /\ Peer([sk EXCEPT !.broken = TRUE, !.edge = isET])
  /\ UNCHANGED arrived

-----------------------------------------------------------------------------

\* The connection as register0 leaves it when OnOpen is called.
Init ==
  /\ c = [outbound |-> <<>>, opened |-> TRUE, isEOF |-> FALSE, cork |-> "off",
          corkDirty |-> FALSE, corkBatch |-> FALSE, corkN |-> 0]
  /\ \E p \in Profiles :
       sk = [sent |-> <<>>, space |-> SockCap, rcvq |-> 0, fin |-> FALSE, broken |-> FALSE,
             open |-> TRUE, as |-> p, interest |-> IF p.et THEN "rw" ELSE "r", edge |-> p.et]
  /\ tracked = TRUE
  /\ polling = TRUE
  /\ stack = <<"onOpen">>
  /\ data = <<>>
  /\ overflow = <<>>
  /\ quantum = 0
  /\ recv = 0
  /\ full = FALSE
  /\ action = "None"
  /\ tasks = <<>>
  /\ written = 0
  /\ arrived = 0
  /\ closes = 0

HandlerCalls == HandlerWrite \/ HandlerFlush \/ HandlerReadFrom \/ HandlerClose

\* The library's own steps inside a call.
LoopStep ==
  \/ Send
  \/ Sendv
  \/ OpenOut
  \/ OpenDone
  \/ Out
  \/ Flush
  \/ Close
  \/ ResidualSend
  \/ ResidualDone
  \/ In
  \/ ReadSocket
  \/ InFlushed
  \/ InRest
  \/ HalfClosed
  \/ AsyncDone

Waits == \E in, out \in BOOLEAN : EpollWait(in, out)
Runs(t) == \E i \in DOMAIN tasks : tasks[i] = t /\ RunTask(i)

Next ==
  \/ HandlerCalls
  \/ HandlerReturns
  \/ LoopStep
  \/ Waits
  \/ \E t \in Tasks : Runs(t)
  \/ \E t \in Posted : Post(t)
  \/ PeerReads
  \/ PeerSends
  \/ PeerCloses
  \/ PeerResets

Spec == Init /\ [][Next]_vars

\* The loop runs, handlers return, and the poller goes on to serve both its events and
\* every task in its queues (Poller!TasksSettle); only the loop's own tasks need to run.
\* The peer reads what is sent to it.
Fairness ==
  /\ WF_vars(LoopStep)
  /\ SF_vars(HandlerReturns)
  /\ SF_vars(Waits)
  /\ \A t \in {"read0", "write0"} : SF_vars(Runs(t))
  /\ WF_vars(PeerReads)

FairSpec == Spec /\ Fairness

-----------------------------------------------------------------------------
(* Properties                                                              *)

Bytes == 1..(MaxBytes + MaxTasks)

\* Type invariant.  One call of eventloop.write sends less than its chunk before its
\* last write(2), so it never holds the loop longer than that.
TypeOK ==
  /\ c \in [outbound : Seq(Bytes), opened : BOOLEAN, isEOF : BOOLEAN,
            cork : {"off", "open", "hold", "armed"}, corkDirty : BOOLEAN, corkBatch : BOOLEAN,
            corkN : 0..2]
  /\ sk \in [sent : Seq(Bytes), space : 0..SockCap, rcvq : 0..MaxIn, fin : BOOLEAN,
             broken : BOOLEAN, open : BOOLEAN, as : Profiles, interest : {"r", "rw", "none"},
             edge : BOOLEAN]
  /\ tracked \in BOOLEAN
  /\ polling \in BOOLEAN
  /\ stack \in Seq(Frames)
  /\ data \in Seq(Bytes)
  /\ overflow \in Seq(Bytes)
  /\ quantum \in 0..(Chunk - 1)
  /\ recv \in Nat
  /\ full \in BOOLEAN
  /\ action \in Actions
  /\ tasks \in Seq(Tasks)
  /\ written \in Nat
  /\ arrived \in 0..MaxIn
  /\ closes \in Nat

\* The peer receives the bytes in the order they were written, without a gap ("for
\* maintaining the sequence of network packets", conn.write).
InOrder == sk.sent = Run(0, Len(sk.sent))

\* Order is kept whichever way each write went (straight to the kernel, held back,
\* buffered, flushed, drained on EPOLLOUT, by a task or on close), and an open healthy
\* connection has lost none of the bytes.
ByteStream ==
  /\ InOrder
  /\ c.opened /\ ~sk.broken => sk.sent \o data \o overflow \o c.outbound = Run(0, written)

Idle == stack = <<>> /\ polling /\ c.opened

\* When the loop goes back to waiting, bytes in the outbound buffer have somebody to send
\* them: epoll watches for writability (level-triggered); an edge is pending or will come
\* because the socket is full, or a write task is queued (edge-triggered).  And in
\* edge-triggered mode no unread byte, end of stream or error is left without an edge or a
\* read task.
Queued(t) == \E i \in DOMAIN tasks : tasks[i] = t
NothingStranded ==
  /\ Idle /\ ~sk.broken /\ c.outbound # <<>> =>
       IF isET THEN sk.edge \/ sk.space = 0 \/ Queued("write0") ELSE sk.interest = "rw"
  /\ isET /\ Idle /\ Readable(sk) => sk.edge \/ Queued("read0")

\* OnClose is called exactly once, when the connection leaves the table, whatever the
\* handlers, failing writes inside OnClose included, do meanwhile.
ClosedOnce ==
  /\ closes = IF tracked THEN 0 ELSE 1
  /\ c.opened <=> sk.open
  /\ tracked => c.opened

\* The library makes no system call on the descriptor after closing it: the number may
\* belong to another file by then.  Two calls are left out, because the code does make them:
\* in edge-triggered mode eventloop.read goes back to read(2) even if OnTraffic has closed
\* the connection, and conn.open writes what OnOpen returned even if OnOpen has closed it.
NoSyscallAfterClose ==
  ~sk.open => /\ ~At("send") /\ ~At("sendv")
              /\ At("inLoop") => isET
              /\ At("out") \/ At("flush") \/ At("residual") => c.outbound = <<>>

\* Every byte written reaches the kernel if the peer keeps reading and the connection
\* stays up.
Delivered == \A n \in Bytes : written >= n ~> Len(sk.sent) >= n \/ ~c.opened \/ sk.broken

\* The peer's close is noticed, and the connection closed.
CloseNoticed == sk.fin ~> ~c.opened

=============================================================================
