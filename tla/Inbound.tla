------------------------------ MODULE Inbound ------------------------------
(***************************************************************************)
(* The read side of a stream connection: Read, Next, Peek, Discard and     *)
(* WriteTo over the bytes that arrived last (conn.buffer) and what earlier *)
(* callbacks left unread (conn.inboundBuffer, an elastic.RingBuffer).      *)
(*                                                                         *)
(* kind "unix": conn.buffer is a part of the loop's own buffer.            *)
(* kind "windows": a reader goroutine packs what it read into a block of   *)
(* bbPool and queues it; the block becomes conn.buffer.                    *)
(* The other kinds are the buffers alone, module ElasticBuffer.            *)
(***************************************************************************)
EXTENDS ElasticBuffer

CONSTANTS
  MaxUnread,   \* bound on the bytes received and not consumed
  MaxFlight,   \* bound on the arrivals queued (windows)
  MaxCopies    \* bound on the copies Peek makes between two Discards

VARIABLES
  buffer,   \* conn.buffer, the bytes not yet consumed
  open,     \* conn.opened (unix), conn.buffer # nil (windows)
  cb,       \* the callback that is running: "no", "read" or "wake"
  cache,    \* is there a slice in conn.cache?
  copies,   \* the number of slices in conn.peekCaches
  lent,     \* slices taken from bsPool and not given back
  held,     \* conn.held (windows)
  flight,   \* arrivals packed and queued (windows)
  blocks,   \* blocks taken from bbPool and not given back (windows)
  recycled, \* was a block given back that a Peek, Next or WriteTo result lies in?
  alias,    \* is there such a result since the last Discard?
  crashed   \* has the loop dereferenced a nil conn.buffer?

connVars == <<buffer, open, cb, cache, copies, lent, held, flight, blocks, recycled, alias, crashed>>

vars == <<bufferVars, connVars>>

One(b) == IF b THEN 1 ELSE 0
IsConn == kind \in {"unix", "windows"}
OnWindows == kind = "windows"

Unread == R!Bytes(RingOf(rb)) \o buffer
Total == RingBuffered + Len(buffer)
InFlight == L!FlattenSeq(flight)

Init ==
  /\ BufferInit
  /\ buffer = <<>> /\ open = IsConn /\ cb = "no"
  /\ cache = FALSE /\ copies = 0 /\ lent = 0
  /\ held = FALSE /\ flight = <<>> /\ blocks = One(OnWindows)
  /\ recycled = FALSE /\ alias = FALSE /\ crashed = FALSE

--------------------------------------------------------------------------
(* Arrivals *)

Fits(n) == Len(Unread) + Len(InFlight) + n <= MaxUnread

\* eventloop.read up to OnTraffic: the loop's buffer is filled and lent to the connection.
ReadSocket ==
  \E n \in 1..MaxWrite :
    /\ kind = "unix" /\ open /\ cb = "no" /\ Fits(n)
    /\ buffer' = Bytes(n) /\ cb' = "read" /\ Wrote(n) /\ alias' = FALSE
    /\ UNCHANGED <<kind, rb, list, pool, pc, right>>
    /\ UNCHANGED <<open, cache, copies, lent, held, flight, blocks, recycled, crashed>>

\* readLoop and packTCPConn: the reader goroutine queues what it read.  It may still do so
\* after the loop has closed the connection.
PackTCPConn ==
  \E n \in 1..MaxWrite :
    /\ OnWindows /\ Len(flight) < MaxFlight /\ Fits(n)
    /\ flight' = Append(flight, Bytes(n)) /\ blocks' = blocks + 1 /\ Wrote(n)
    /\ UNCHANGED <<kind, rb, list, pool, pc, right>>
    /\ UNCHANGED <<buffer, open, cb, cache, copies, lent, held, recycled, alias, crashed>>

\* readTCP and unpackTCPConn: a closed connection gives the block back; one with a result
\* held writes into its block in place; else the new block replaces the old one, together
\* with what is left in that.
UnpackTCPConn ==
  /\ OnWindows /\ cb = "no" /\ flight # <<>> /\ ~crashed
  /\ flight' = Tail(flight) /\ blocks' = blocks - 1
  /\ buffer' = IF open THEN buffer \o Head(flight) ELSE buffer
  /\ cb' = IF open THEN "read" ELSE "no"
  /\ recycled' = (recycled \/ (open /\ ~held /\ alias))
  /\ UNCHANGED bufferVars
  /\ UNCHANGED <<open, cache, copies, lent, held, alias, crashed>>

\* eventloop.wake: OnTraffic without an arrival.
Wake ==
  /\ IsConn /\ open /\ cb = "no" /\ cb' = "wake"
  /\ UNCHANGED bufferVars
  /\ UNCHANGED <<buffer, open, cache, copies, lent, held, flight, blocks, recycled, alias, crashed>>

--------------------------------------------------------------------------
(* The calls a handler makes in OnTraffic. *)

InCallback == cb # "no" /\ UNCHANGED <<kind, list, pc, next, open, cb, flight, blocks, recycled, crashed>>

\* The call handed out the first n unread bytes and left the rest.
Answers(bytes, n) ==
  right' = (bytes = SubSeq(Unread, 1, n) /\ Unread' = SubSeq(Unread, n + 1, Len(Unread)))

\* A ring without bytes is not asked.
FromRing(b) == IF RingOf(rb).isEmpty THEN UNCHANGED <<rb, pool>> ELSE done(b)

\* conn.Read of k bytes: first from the ring, then from the latest bytes.
ReadBytes(k) ==
  LET r == R!Read(RingOf(rb), k)
      m == R!Lesser(k - Len(r.out), Len(buffer))
  IN  /\ FromRing(r.rb)
      /\ buffer' = SubSeq(buffer, m + 1, Len(buffer))
      /\ Answers(r.out \o SubSeq(buffer, 1, m), R!Lesser(k, Total))

ConnRead ==
  \E k \in 0..MaxUnread :
    /\ InCallback /\ ReadBytes(k)
    /\ UNCHANGED <<cache, copies, lent, held, alias>>

\* The result of a call lies in the block, which is kept until Discard (windows).
Holds == held' = (held \/ open) /\ alias' = (alias \/ open)

\* Next(n), 0 for everything: the latest bytes themselves, or a copy in a pooled slice that
\* replaces the one of the call before.
NextBytes(n) ==
  /\ InCallback /\ ReadBytes(IF n = 0 THEN Total ELSE n)
  /\ IF RingOf(rb).isEmpty THEN UNCHANGED <<cache, lent>>
     ELSE lent' = lent - One(cache) + 1 /\ cache' = TRUE
  /\ UNCHANGED copies

ConnNext == \E n \in 0..Total : kind = "unix" /\ NextBytes(n) /\ UNCHANGED <<held, alias>>

ConnNextWindows ==
  \E n \in 0..Total :
    /\ OnWindows /\ NextBytes(n)
    /\ IF RingOf(rb).isEmpty THEN Holds ELSE UNCHANGED <<held, alias>>

\* Peek(n), 0 for everything: the latest bytes or the head of the ring themselves, else a
\* copy that is kept until Discard.
PeekBytes(n) ==
  LET k == IF n = 0 THEN Total ELSE n
      p == R!Peek(RingOf(rb), k)
      all == p[1] \o p[2] \o SubSeq(buffer, 1, k - Len(p[1]) - Len(p[2]))
  IN
  /\ InCallback
  /\ IF RingOf(rb).isEmpty \/ Len(p[1]) = k THEN UNCHANGED <<lent, copies>>
     ELSE copies < MaxCopies /\ lent' = lent + 1 /\ copies' = copies + 1
  /\ right' = (all = SubSeq(Unread, 1, k))
  /\ UNCHANGED <<rb, pool, buffer, cache>>

ConnPeek == \E n \in 0..Total : kind = "unix" /\ PeekBytes(n) /\ UNCHANGED <<held, alias>>

ConnPeekWindows ==
  \E n \in 0..Total :
    /\ OnWindows /\ PeekBytes(n)
    /\ IF RingOf(rb).isEmpty THEN Holds ELSE UNCHANGED <<held, alias>>

\* Discard(n), 0 for everything; every slice handed out goes back to its pool.
DiscardBytes(n) ==
  LET r == R!Discard(RingOf(rb), n) IN
  /\ InCallback
  /\ lent' = lent - copies - One(cache) /\ copies' = 0 /\ cache' = FALSE
  /\ IF n = 0 \/ n >= Total
     THEN Done(rb) /\ buffer' = <<>> /\ right' = TRUE
     ELSE /\ FromRing(r.rb)
          /\ buffer' = SubSeq(buffer, n - r.n + 1, Len(buffer))
          /\ right' = (Unread' = SubSeq(Unread, n + 1, Len(Unread)))

ConnDiscard == \E n \in 0..MaxUnread : kind = "unix" /\ DiscardBytes(n) /\ UNCHANGED <<held, alias>>

ConnDiscardWindows ==
  \E n \in 0..MaxUnread : OnWindows /\ DiscardBytes(n) /\ held' = FALSE /\ alias' = FALSE

\* WriteTo a writer that takes t bytes; the latest bytes follow only a ring written whole.
WriteToBytes(t, bad, go) ==
  LET r == R!WriteTo(RingOf(rb), t, bad)
      m == IF go THEN R!Lesser(t - Len(r.out), Len(buffer)) ELSE 0
  IN
  /\ InCallback
  /\ go = (RingOf(rb).isEmpty \/ r.done)
  /\ FromRing(r.rb)
  /\ buffer' = SubSeq(buffer, m + 1, Len(buffer))
  /\ Answers(r.out \o SubSeq(buffer, 1, m), Len(r.out) + m)
  /\ UNCHANGED <<cache, copies, lent>>

ConnWriteTo ==
  \E t \in 1..MaxUnread, bad, go \in BOOLEAN :
    kind = "unix" /\ WriteToBytes(t, bad, go) /\ UNCHANGED <<held, alias>>

ConnWriteToWindows ==
  \E t \in 1..MaxUnread, bad, go \in BOOLEAN :
    /\ OnWindows /\ WriteToBytes(t, bad, go)
    /\ IF go /\ buffer # <<>> THEN held' = TRUE /\ alias' = TRUE ELSE UNCHANGED <<held, alias>>

--------------------------------------------------------------------------
\* Mutant: conn.release forgets the copies Peek has made.
ReleaseKeepsCopies ==
  /\ lent' = lent - One(cache) /\ copies' = 0 /\ cache' = FALSE
  /\ held' = FALSE /\ alias' = FALSE
  /\ Done(rb)
  /\ buffer' = <<>> /\ open' = FALSE
  /\ blocks' = blocks - One(OnWindows)

\* conn.release: everything pooled goes back.
Release0 ==
  /\ lent' = lent - copies - One(cache) /\ copies' = 0 /\ cache' = FALSE
  /\ held' = FALSE /\ alias' = FALSE
  /\ Done(rb)
  /\ buffer' = <<>> /\ open' = FALSE
  /\ blocks' = blocks - One(OnWindows)

\* EventLoop.Close in the callback.
ConnClose ==
  /\ cb # "no" /\ open /\ Release0
  /\ UNCHANGED <<kind, list, pc, next, right, cb, flight, recycled, crashed>>

\* OnTraffic returns Close, or the loop closes the connection; a closed one is left alone.
CloseConn ==
  /\ IsConn /\ (open \/ cb # "no") /\ ~crashed /\ cb' = "no"
  /\ IF open THEN Release0
     ELSE UNCHANGED <<rb, pool, buffer, open, cache, copies, lent, held, alias, blocks>>
  /\ UNCHANGED <<kind, list, pc, next, right, flight, recycled, crashed>>

\* OnTraffic returns None: what is left of the latest bytes is kept in the ring.
ReturnNone ==
  /\ cb = "read" /\ cb' = "no"
  /\ IF OnWindows /\ ~open THEN crashed' = TRUE /\ UNCHANGED <<rb, pool, buffer>>
     ELSE /\ crashed' = FALSE /\ buffer' = <<>>
          /\ IF buffer = <<>> THEN UNCHANGED <<rb, pool>>
             ELSE \E b \in instance : rb' = R!Write(b, buffer) /\ Take(b)
  /\ UNCHANGED <<kind, list, pc, next, right>>
  /\ UNCHANGED <<open, cache, copies, lent, held, flight, blocks, recycled, alias>>

ReturnWake ==
  /\ cb = "wake" /\ cb' = "no"
  /\ UNCHANGED bufferVars
  /\ UNCHANGED <<buffer, open, cache, copies, lent, held, flight, blocks, recycled, alias, crashed>>

Next ==
  \/ ~IsConn /\ BufferNext /\ UNCHANGED connVars
  \/ ReadSocket \/ PackTCPConn \/ UnpackTCPConn \/ Wake
  \/ ConnRead \/ ConnNext \/ ConnPeek \/ ConnDiscard \/ ConnWriteTo
  \/ ConnNextWindows \/ ConnPeekWindows \/ ConnDiscardWindows \/ ConnWriteToWindows \/ ConnClose
  \/ CloseConn \/ ReturnNone \/ ReturnWake

Spec == Init /\ [][Next]_vars

--------------------------------------------------------------------------
(* Properties *)

\* Every variable has its type, and the cursors of every ring lie inside it (RingType).
TypeOK ==
  /\ kind \in Kinds
  /\ rb = Nil \/ RingType(rb)
  /\ pool = Nil \/ RingType(pool)
  /\ list.nodes \in Seq(Seq(0 .. (Alphabet - 1)))
  /\ pc \in {"idle", "ring", "tail", "wrap", "gap", "list"}
  /\ next \in 0 .. (Alphabet - 1)
  /\ buffer \in Seq(0 .. (Alphabet - 1)) /\ flight \in Seq(Seq(0 .. (Alphabet - 1)))
  /\ cb \in {"no", "read", "wake"} /\ {copies, lent, blocks} \subseteq Nat
  /\ {right, open, cache, held, recycled, alias, crashed} \subseteq BOOLEAN

\* Bytes enter only at the back and leave only at the front: of a buffer, and of what a
\* connection has received, where arrivals on their way, the latest bytes and the ring of
\* unread bytes follow one another and leftovers move from one to the next.
Stream == IF IsConn THEN Unread \o InFlight ELSE Contents
Queue == INSTANCE ByteQueue WITH q <- Stream
ImplementsByteQueue == Queue!Spec

\* Every slice taken from bsPool by Next and Peek is still in conn.cache or conn.peekCaches,
\* and every block taken from bbPool is the connection's or queued: none leaks and none is
\* given back twice, whichever calls, arrivals and closes follow one another.  A block that a
\* result of Peek or Next lies in, or that WriteTo showed to a writer, is not given back by a
\* later arrival while the handler has not called Discard.
PooledMemoryOwned ==
  /\ lent = copies + One(cache)
  /\ OnWindows => blocks = One(open) + Len(flight)
  /\ IsConn /\ ~open => lent = 0 /\ rb = Nil
  /\ ~recycled
=============================================================================
