----------------------------- MODULE RingBuffer -----------------------------
(***************************************************************************)
(* pkg/buffer/ring: the circular byte buffer, as operators on its fields.  *)
(* An operation takes the buffer and yields a record with the buffer after *)
(* it (rb) and the bytes handed out (out).  What a byte slice of the pool  *)
(* holds before it is written is Junk.                                     *)
(***************************************************************************)
EXTENDS Integers, Sequences

CONSTANTS DefaultBufferSize, bufferGrowThreshold, MinRead, Junk

\* The number of bits of n.
BitLen[n \in Nat] == IF n = 0 THEN 0 ELSE 1 + BitLen[n \div 2]

CeilToPowerOfTwo(n) == IF n <= 2 THEN 2 ELSE 2 ^ BitLen[n - 1]

Lesser(a, b) == IF a < b THEN a ELSE b

\* buf[i:j] and copy(buf[at:], p).
Slice(buf, i, j) == [k \in 1 .. (j - i) |-> buf[i + k - 1]]
Copied(buf, at, p) ==
  [i \in DOMAIN buf |-> IF i \in at .. (at + Len(p) - 1) THEN p[i - at + 1] ELSE buf[i]]

Fresh(size) == [i \in 0 .. (size - 1) |-> Junk]

New(size) ==
  LET n == IF size = 0 THEN 0 ELSE CeilToPowerOfTwo(size)
  IN  [buf |-> Fresh(n), size |-> n, r |-> 0, w |-> 0, isEmpty |-> TRUE]

Reset(b) == [b EXCEPT !.r = 0, !.w = 0, !.isEmpty = TRUE]

Buffered(b) ==
  IF b.r = b.w THEN IF b.isEmpty THEN 0 ELSE b.size
  ELSE IF b.w > b.r THEN b.w - b.r ELSE b.size - b.r + b.w

Available(b) ==
  IF b.r = b.w THEN IF b.isEmpty THEN b.size ELSE 0
  ELSE IF b.w < b.r THEN b.r - b.w ELSE b.size - b.w + b.r

\* The positions that hold bytes.  What the others still hold is never looked at, and the
\* model forgets it: it is Junk.
Live(b) ==
  IF b.isEmpty THEN {}
  ELSE IF b.w > b.r THEN b.r .. (b.w - 1)
  ELSE (b.r .. (b.size - 1)) \cup (0 .. (b.w - 1))

Forget(b) == [b EXCEPT !.buf = [i \in DOMAIN b.buf |-> IF i \in Live(b) THEN b.buf[i] ELSE Junk]]

\* All bytes, oldest first: what Bytes copies and peekAll hands out.
Bytes(b) ==
  IF b.isEmpty THEN <<>>
  ELSE IF b.w > b.r THEN Slice(b.buf, b.r, b.w)
  ELSE Slice(b.buf, b.r, b.size) \o Slice(b.buf, 0, b.w)

\* The bytes in front of the read position: head and tail.
Front(b, n) ==
  IF b.w > b.r \/ b.r + n <= b.size
  THEN <<Slice(b.buf, b.r, b.r + n), <<>>>>
  ELSE <<Slice(b.buf, b.r, b.size), Slice(b.buf, 0, n - (b.size - b.r))>>

Peek(b, n) ==
  IF b.isEmpty THEN <<<<>>, <<>>>>
  ELSE Front(b, IF n <= 0 THEN Buffered(b) ELSE Lesser(n, Buffered(b)))

\* Moving the read position; a buffer read to its end starts again at 0.
Advanced(b, n) ==
  LET r == IF b.w > b.r THEN b.r + n ELSE (b.r + n) % b.size
  IN  IF r = b.w THEN Reset(b) ELSE [b EXCEPT !.r = r]

Discard(b, n) ==
  IF n <= 0 THEN [rb |-> b, n |-> 0]
  ELSE IF n < Buffered(b) THEN [rb |-> [b EXCEPT !.r = (b.r + n) % b.size], n |-> n]
  ELSE [rb |-> Reset(b), n |-> Buffered(b)]

Read(b, k) ==
  IF k = 0 \/ b.isEmpty THEN [rb |-> b, out |-> <<>>]
  ELSE LET n == Lesser(k, Buffered(b))
           f == Front(b, n)
       IN  [rb |-> Advanced(b, n), out |-> f[1] \o f[2]]

ReadByte(b) ==
  IF b.isEmpty THEN [rb |-> b, out |-> <<>>]
  ELSE LET r == IF b.r + 1 = b.size THEN 0 ELSE b.r + 1
       IN  [rb  |-> IF r = b.w THEN Reset(b) ELSE [b EXCEPT !.r = r],
            out |-> <<b.buf[b.r]>>]

\* The capacity grow settles on when asked for newCap.
GrownCap(size, newCap) ==
  LET quarters[n \in Nat] == IF n >= newCap THEN n ELSE quarters[n + n \div 4]
      asked == IF newCap > 2 * size THEN newCap
               ELSE IF size < bufferGrowThreshold THEN 2 * size
               ELSE quarters[size]
  IN  IF size = 0
      THEN IF newCap <= DefaultBufferSize THEN DefaultBufferSize ELSE CeilToPowerOfTwo(newCap)
      ELSE IF asked <= size THEN size + size \div 4 ELSE asked

grow(b, newCap) ==
  LET cap == GrownCap(b.size, newCap)
      old == Buffered(b)
  IN  [buf |-> Copied(Fresh(cap), 0, Read(b, cap).out), size |-> cap,
       r |-> 0, w |-> old, isEmpty |-> IF old > 0 THEN FALSE ELSE b.isEmpty]

\* Mutant: the write position may come to rest behind the last byte of the slice.
PlacedUnwrapped(b, p) ==
  LET c1 == b.size - b.w
      n  == Len(p)
  IN  [b EXCEPT !.buf = IF b.w >= b.r /\ c1 < n
                        THEN Copied(Copied(b.buf, b.w, SubSeq(p, 1, c1)), 0, SubSeq(p, c1 + 1, n))
                        ELSE Copied(b.buf, b.w, p),
                !.w = IF b.w >= b.r /\ c1 < n THEN n - c1 ELSE b.w + n,
                !.isEmpty = FALSE]

\* The write itself, into a buffer with room for p.
Placed(b, p) ==
  LET c1 == b.size - b.w
      n  == Len(p)
      w  == IF b.w >= b.r /\ c1 < n THEN n - c1 ELSE b.w + n
  IN  [b EXCEPT !.buf = IF b.w >= b.r /\ c1 < n
                        THEN Copied(Copied(b.buf, b.w, SubSeq(p, 1, c1)), 0, SubSeq(p, c1 + 1, n))
                        ELSE Copied(b.buf, b.w, p),
                !.w = IF w = b.size THEN 0 ELSE w,
                !.isEmpty = FALSE]

Write(b, p) ==
  LET free == Available(b)
  IN  IF p = <<>> THEN b
      ELSE Placed(IF Len(p) > free THEN grow(b, b.size + Len(p) - free) ELSE b, p)

WriteByte(b, c) ==
  LET g == IF Available(b) < 1 THEN grow(b, 1) ELSE b
      w == IF g.w + 1 = g.size THEN 0 ELSE g.w + 1
  IN  [g EXCEPT !.buf[g.w] = c, !.w = w, !.isEmpty = FALSE]

\* ReadFrom calls the reader in a loop: on buf[w:], then on buf[:r], or on buf[w:r].
\* ReadFromRoom makes room at the top of the loop, Offered is the slice given to the
\* reader at a point of the loop, and Filled takes the bytes p the reader put there.
ReadFromRoom(b) == IF Available(b) < MinRead THEN grow(b, Buffered(b) + MinRead) ELSE b

Offered(b, at) ==
  CASE at = "tail" -> <<b.w, b.size>>
    [] at = "wrap" -> <<0, b.r>>
    [] at = "gap"  -> <<b.w, b.r>>

Filled(b, at, p) ==
  [b EXCEPT !.buf = Copied(b.buf, Offered(b, at)[1], p),
            !.w = (b.w + Len(p)) % b.size,
            !.isEmpty = IF p # <<>> /\ at # "wrap" THEN FALSE ELSE b.isEmpty]

\* WriteTo hands the bytes to a writer that takes t of them: in one call when they lie in
\* one piece, else in a second one for the part that wrapped, if the first was taken
\* whole.  bad says that the call in which the writer stops ends with an error.
WriteTo(b, t, bad) ==
  LET one  == b.w > b.r \/ b.r + Buffered(b) <= b.size
      c    == IF one THEN Buffered(b) ELSE b.size - b.r
      stop == t < c \/ (bad /\ t = c)
      n    == Lesser(t, IF one \/ stop THEN c ELSE Buffered(b))
      rb   == IF ~one /\ stop THEN [b EXCEPT !.r = (b.r + n) % b.size] ELSE Advanced(b, n)
  IN  IF b.isEmpty THEN [rb |-> b, out |-> <<>>, done |-> FALSE]
      ELSE [rb |-> rb, out |-> SubSeq(Bytes(b), 1, n), done |-> rb.isEmpty /\ ~(bad /\ n = t)]
=============================================================================
