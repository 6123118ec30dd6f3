--------------------------- MODULE ElasticBuffer ---------------------------
(***************************************************************************)
(* pkg/buffer/elastic: Buffer, a ring of at most maxStaticBytes in front   *)
(* of a list, which holds what a connection has to send; and RingBuffer, a *)
(* ring taken from a pool when it is needed and given back when it is      *)
(* empty, which holds what a connection has received.  kind says which of  *)
(* the two ("Buffer", "RingBuffer") the behaviour is about; list stays     *)
(* empty for a RingBuffer.  Module Inbound adds a connection's read side.  *)
(*                                                                         *)
(* Bytes are numbered in the order they are written, modulo Alphabet.  One *)
(* call is one action, except ReadFrom: each call of its reader is a step. *)
(***************************************************************************)
EXTENDS Integers, Sequences

CONSTANTS
  Kinds,               \* the users of a buffer that are considered
  maxStaticBytes,
  DefaultBufferSize, bufferGrowThreshold, MinRead, \* of pkg/buffer/ring, scaled down
  Alphabet,            \* number of byte values
  MaxHeld,             \* bound on the bytes held
  MaxWrite,            \* bound on the bytes of one write
  ShortReads,          \* may a reader return less than it could before its end?
  EndsWithBytes,       \* may the call that ends a reader bring bytes to the list?
  Refusing,            \* may a writer refuse the first byte it is given?
  Nil, Junk

\* The loop of grow adds a quarter and would not advance from a size below 4; bytes held at
\* the same time have different numbers.
ASSUME SizesAssumption ==
  /\ {DefaultBufferSize, MinRead, maxStaticBytes} \subseteq Nat \ {0}
  /\ bufferGrowThreshold \in Nat /\ bufferGrowThreshold >= 4
  /\ MaxHeld < Alphabet /\ MaxWrite <= MaxHeld

R == INSTANCE RingBuffer
L == INSTANCE LinkedList

VARIABLES
  kind,
  rb,     \* RingBuffer.rb: the ring, or Nil
  list,   \* Buffer.listBuffer
  pool,   \* the ring kept by the pool, or Nil
  pc,     \* where ReadFrom is: "idle", "ring", "tail", "wrap", "gap" or "list"
  next,   \* the next byte to be written
  right   \* did the last call answer as a plain queue of bytes would?

bufferVars == <<kind, rb, list, pool, pc, next, right>>

--------------------------------------------------------------------------
(* RingBuffer: the ring that comes and goes. *)

RingOf(b) == IF b = Nil THEN R!New(0) ELSE b

\* instance: the ring in use or one of the pool, which makes a new one when it is empty.
instance ==
  IF rb # Nil THEN {rb} ELSE IF pool # Nil THEN {pool, R!New(0)} ELSE {R!New(0)}

\* The pool empties the ring it is given, and keeps it or drops it.
Keep(b) == pool' \in {R!Forget(R!Reset(b)), Nil}

\* A write into the ring, with the pool losing the ring it handed out.
Take(b) == IF rb = Nil /\ b = pool THEN pool' = Nil ELSE UNCHANGED pool

\* done: give the ring back if the call left it empty.
done(b) ==
  IF b.isEmpty THEN rb' = Nil /\ Keep(b) ELSE rb' = R!Forget(b) /\ UNCHANGED pool

\* Read, Discard, ReadByte and WriteTo of RingBuffer, which left its ring as b: without a
\* ring there is nothing to do, else done follows.
Drained(b) == IF rb = Nil THEN UNCHANGED <<rb, pool>> ELSE done(b)

\* Done: give the ring back whatever it holds.
Done(b) == IF b # Nil THEN rb' = Nil /\ Keep(b) ELSE rb' = Nil /\ UNCHANGED pool

RingBuffered == R!Buffered(RingOf(rb))
Held == RingBuffered + list.bytes
Contents == R!Bytes(RingOf(rb)) \o L!Contents(list)
IsEmpty == RingOf(rb).isEmpty /\ L!IsEmpty(list)

--------------------------------------------------------------------------
Bytes(n) == [i \in 1..n |-> (next + i - 1) % Alphabet]

\* The call took the n bytes in front, or all when there are fewer, handed them out and
\* dropped the next lost ones.
HandsOutAndDrops(bytes, n, lost) ==
  LET all == Contents
      m   == R!Lesser(n, Len(all))
  IN  right' = /\ bytes = SubSeq(all, 1, m)
               /\ Contents' = SubSeq(all, m + lost + 1, Len(all))

HandsOut(bytes, n) == HandsOutAndDrops(bytes, n, 0)

Wrote(n) == next' = (next + n) % Alphabet

Idle == pc = "idle" /\ pc' = "idle" /\ kind' = kind

BufferInit ==
  /\ kind \in Kinds
  /\ rb = Nil /\ list = L!Empty /\ pool = Nil
  /\ pc = "idle" /\ next = 0 /\ right = TRUE

\* Mutant: bytes go to the ring again as soon as it has room.
ToListUnlessRoom == RingBuffered >= maxStaticBytes

\* Does Buffer send what it is given to the list?
ToList == ~L!IsEmpty(list) \/ RingBuffered >= maxStaticBytes

\* Buffer.Write and RingBuffer.Write.
WriteSplit(p) ==
  IF kind = "Buffer" /\ ToList THEN <<<<>>, p>>
  ELSE IF kind = "Buffer" /\ RingOf(rb).size >= maxStaticBytes
       THEN LET n == R!Lesser(Len(p), R!Available(RingOf(rb)))
            IN  <<SubSeq(p, 1, n), SubSeq(p, n + 1, Len(p))>>
  ELSE <<p, <<>>>>

Write ==
  \E n \in 0..MaxWrite :
    LET s == WriteSplit(Bytes(n)) IN
    /\ Idle /\ Held + n <= MaxHeld
    /\ IF s[1] = <<>> THEN UNCHANGED <<rb, pool>>
       ELSE \E b \in instance : rb' = R!Write(b, s[1]) /\ Take(b)
    /\ list' = L!PushBack(list, s[2])
    /\ Wrote(n) /\ right' = TRUE

WriteByte ==
  /\ Idle /\ kind = "RingBuffer" /\ Held < MaxHeld
  /\ \E b \in instance : rb' = R!WriteByte(b, next) /\ Take(b)
  /\ UNCHANGED list /\ Wrote(1) /\ right' = TRUE

\* Writev(bs): slices go to the ring while they fit into writable; the first that does not is
\* split, and the rest goes to the list.
WritevStep(s, b) ==
  IF s.split THEN [s EXCEPT !.list = L!PushBack(s.list, b)]
  ELSE IF Len(b) > s.writable
  THEN [s EXCEPT !.ring = s.ring \o <<SubSeq(b, 1, s.writable)>>,
                 !.list = L!PushBack(s.list, SubSeq(b, s.writable + 1, Len(b))),
                 !.split = TRUE]
  ELSE [s EXCEPT !.ring = s.ring \o <<b>>, !.writable = s.writable - Len(b)]

WritevSplit(bs) ==
  LET writable == IF RingOf(rb).size < maxStaticBytes
                  THEN maxStaticBytes - RingBuffered ELSE R!Available(RingOf(rb))
  IN  L!FoldLeft(WritevStep, [ring |-> <<>>, list |-> list, writable |-> writable,
                              split |-> ToList], bs)

Writev ==
  \E n, m \in 0..MaxWrite :
    LET s    == WritevSplit(<<SubSeq(Bytes(n + m), 1, n), SubSeq(Bytes(n + m), n + 1, n + m)>>)
        ring == SelectSeq(s.ring, LAMBDA p : p # <<>>)
    IN
    /\ Idle /\ kind = "Buffer" /\ Held + n + m <= MaxHeld
    /\ IF ring = <<>> THEN UNCHANGED <<rb, pool>>
       ELSE \E b \in instance : rb' = L!FoldLeft(R!Write, b, ring) /\ Take(b)
    /\ list' = s.list
    /\ Wrote(n + m) /\ right' = TRUE

--------------------------------------------------------------------------
Read ==
  \E k \in 0..MaxHeld :
    LET r == R!Read(RingOf(rb), k)
        l == L!Read(list, k - Len(r.out))
    IN
    /\ Idle
    /\ Drained(r.rb)
    /\ list' = l.l
    /\ HandsOut(r.out \o l.out, k) /\ UNCHANGED next

ReadByte ==
  LET r == R!ReadByte(RingOf(rb)) IN
  /\ Idle /\ kind = "RingBuffer"
  /\ Drained(r.rb)
  /\ UNCHANGED <<list, next>> /\ HandsOut(r.out, 1)

\* Buffer.Peek answers ErrShortBuffer: more is asked for than is held or, when it is not just
\* what the ring holds, than the list holds by itself.
PeekRefused(n) ==
  /\ kind = "Buffer" /\ n > 0
  /\ n > Held \/ (RingBuffered # n /\ L!PeekRefuses(list, n))

\* What Peek hands out otherwise, 0 for everything.
Peeked(n) ==
  LET p == R!Peek(RingOf(rb), n)
  IN  IF kind = "RingBuffer" \/ (n > 0 /\ RingBuffered = n) THEN p[1] \o p[2]
      ELSE L!PeekWithBytes(list, n, p)

\* A refusal of bytes that are held is let pass only where some of them are in the ring.
Peek ==
  \E n \in 0..MaxHeld :
    /\ Idle
    /\ right' = IF PeekRefused(n) THEN n > Held \/ ~RingOf(rb).isEmpty
                ELSE /\ kind = "Buffer" => n <= Held
                     /\ Peeked(n) = SubSeq(Contents, 1, IF n = 0 THEN Held ELSE R!Lesser(n, Held))
    /\ UNCHANGED <<rb, list, pool, next>>

Discard ==
  \E n \in 0..MaxHeld :
    LET r == R!Discard(RingOf(rb), n)
        l == L!Discard(list, n - r.n)
    IN
    /\ Idle
    /\ Drained(r.rb)
    /\ list' = l.l
    /\ HandsOut(SubSeq(Contents, 1, r.n + l.n), n) /\ UNCHANGED next

\* The list is written only after a ring that was not empty and was written whole.
WriteTo ==
  \E t \in (IF Refusing THEN 0 ELSE 1)..MaxHeld, bad \in BOOLEAN :
    LET r == R!WriteTo(RingOf(rb), t, bad)
        l == IF r.done THEN L!WriteTo(list, t - Len(r.out), bad) ELSE [l |-> list, out |-> <<>>, lost |-> 0]
    IN
    /\ Idle
    /\ Drained(r.rb)
    /\ list' = l.l
    /\ UNCHANGED next
    /\ HandsOutAndDrops(r.out \o l.out, Len(r.out) + Len(l.out), IF bad THEN l.lost ELSE 0)

--------------------------------------------------------------------------
(* ReadFrom: the reader is called until it ends. *)

ReadFrom ==
  /\ pc = "idle" /\ Held < MaxHeld
  /\ IF kind = "Buffer" /\ ToList THEN pc' = "list" /\ UNCHANGED <<rb, pool>>
     ELSE /\ pc' = "ring"
          /\ \E b \in instance : rb' = b /\ Take(b)
  /\ UNCHANGED <<kind, list, next, right>>

\* The top of the loop: room for MinRead bytes, and which part of the ring comes first.
ReadFromRing ==
  /\ pc = "ring"
  /\ rb' = R!ReadFromRoom(rb)
  /\ pc' = IF rb'.w >= rb'.r THEN "tail" ELSE "gap"
  /\ UNCHANGED <<kind, list, pool, next, right>>

\* The reader puts n bytes into the slice it is given, and may end there.
Reads(room, n, end) ==
  /\ n <= room /\ Held + n <= MaxHeld
  /\ (ShortReads /\ n > 0) \/ n = room \/ end

ReaderCall ==
  \E n \in 0..MaxHeld, end \in BOOLEAN :
    LET s == R!Offered(rb, pc) IN
    /\ pc \in {"tail", "wrap", "gap"}
    /\ Reads(s[2] - s[1], n, end)
    /\ rb' = R!Filled(rb, pc, Bytes(n)) /\ Wrote(n)
    /\ pc' = IF end THEN "idle" ELSE IF pc = "tail" THEN "wrap" ELSE "ring"
    /\ UNCHANGED <<kind, list, pool, right>>

\* The list takes reads of any length, but counts and drops the bytes of the call that ends.
ReaderCallList ==
  \E n \in 0..MinRead, end \in BOOLEAN :
    /\ pc = "list" /\ Held + n <= MaxHeld
    /\ IF end THEN n = 0 \/ EndsWithBytes ELSE n > 0
    /\ list' = L!ReadFromStep(list, Bytes(n), end) /\ Wrote(n)
    /\ pc' = IF end THEN "idle" ELSE "list"
    /\ UNCHANGED <<kind, rb, pool>>
    /\ right' = (Contents' = Contents \o Bytes(n))

--------------------------------------------------------------------------
Reset ==
  /\ Idle
  /\ rb' = IF rb = Nil THEN Nil ELSE R!Forget(R!Reset(rb))
  /\ list' = L!Reset(list)
  /\ UNCHANGED <<pool, next, right>>

Release ==
  /\ Idle /\ Done(rb) /\ list' = L!Reset(list)
  /\ UNCHANGED <<next, right>>

BufferNext == \/ Write \/ WriteByte \/ Writev \/ Read \/ ReadByte \/ Peek \/ Discard \/ WriteTo
              \/ ReadFrom \/ ReadFromRing \/ ReaderCall \/ ReaderCallList
              \/ Reset \/ Release

--------------------------------------------------------------------------
(* Properties *)

\* The cursors stay inside the ring, also where it wrapped, is full or was just grown: one at
\* size would index past the slice.  An empty ring has both at 0, which is what ReadFrom counts
\* on when it hands the whole slice to the reader.
RingType(b) ==
  /\ b.size \in Nat /\ b.isEmpty \in BOOLEAN
  /\ {b.r, b.w} \subseteq IF b.isEmpty THEN {0} ELSE 0 .. (b.size - 1)
  /\ b.buf \in [0 .. (b.size - 1) -> 0 .. (Alphabet - 1) \cup {Junk}]

\* Whatever grew, wrapped, was split between ring and list, and was partly read, the bytes
\* held are consecutive bytes of what was written, in order.
InOrder ==
  pc \in {"idle", "list"} =>
    \A i \in 2..Len(Contents) : Contents[i] = (Contents[i - 1] + 1) % Alphabet

\* Read, ReadByte, Peek, Discard and WriteTo hand out the bytes in front, as many as were
\* asked for or as there are, and leave the rest, and ReadFrom keeps what its reader brought
\* (a reader that ends with bytes is left out), wherever the boundary between ring and
\* list and the end of the slice lie.  Two answers of Buffer are not a queue's: Peek(n) may
\* refuse bytes that lie partly in the ring, and a writer's error costs what WriteTo had not
\* handed out of the list's current slice.  IsEmpty and Buffered tell the truth about what is held
\* (the event loop sends until IsEmpty), and the list's counters agree with its nodes.
AnswersLikeAQueue ==
  /\ right
  /\ IsEmpty <=> Contents = <<>>
  /\ Held = Len(Contents) /\ list.size = Len(list.nodes)
=============================================================================
