----------------------------- MODULE LinkedList -----------------------------
(***************************************************************************)
(* pkg/buffer/linkedlist: the list of byte slices.  The chain of nodes is  *)
(* a sequence of byte sequences; the two counters the code keeps beside    *)
(* it, size (nodes) and bytes, are kept here too.                          *)
(***************************************************************************)
EXTENDS Integers, Sequences, SequencesExt

Empty == [nodes |-> <<>>, size |-> 0, bytes |-> 0]

IsEmpty(l) == l.nodes = <<>>

pop(l) ==
  [nodes |-> Tail(l.nodes), size |-> l.size - 1, bytes |-> l.bytes - Len(Head(l.nodes))]

pushFront(l, p) ==
  [nodes |-> <<p>> \o l.nodes, size |-> l.size + 1, bytes |-> l.bytes + Len(p)]

pushBack(l, p) ==
  [nodes |-> Append(l.nodes, p), size |-> l.size + 1, bytes |-> l.bytes + Len(p)]

PushBack(l, p) == IF p = <<>> THEN l ELSE pushBack(l, p)

\* Mutant: what is left of a node taken in part is dropped.
TakeHeadDrops(s) ==
  LET b == Head(s.l.nodes)
      m == IF s.k < Len(b) THEN s.k ELSE Len(b)
  IN  IF s.k = 0 THEN s ELSE [l |-> pop(s.l), out |-> s.out \o SubSeq(b, 1, m), k |-> s.k - m]

\* One round of the loops of Read, Discard and WriteTo: the head is popped, up to k of its
\* bytes are taken and what is left of it goes back to the front.  The round is skipped
\* once nothing more is wanted.
TakeHead(s) ==
  LET b == Head(s.l.nodes)
      m == IF s.k < Len(b) THEN s.k ELSE Len(b)
      l == pop(s.l)
  IN  IF s.k = 0 THEN s
      ELSE [l   |-> IF m < Len(b) THEN pushFront(l, SubSeq(b, m + 1, Len(b))) ELSE l,
            out |-> s.out \o SubSeq(b, 1, m),
            k   |-> s.k - m]

Take(l, k) ==
  LET After[i \in 0..Len(l.nodes)] ==
        IF i = 0 THEN [l |-> l, out |-> <<>>, k |-> k] ELSE TakeHead(After[i - 1])
  IN  After[Len(l.nodes)]

Read(l, k) == LET s == Take(l, k) IN [l |-> s.l, out |-> s.out]

Discard(l, n) ==
  IF n <= 0 THEN [l |-> l, n |-> 0] ELSE LET s == Take(l, n) IN [l |-> s.l, n |-> Len(s.out)]

\* PeekWithBytes: every node, put behind the pieces bs, without the bytes beyond a positive
\* limit.  The limit is compared with the bytes of the list alone: ErrShortBuffer.
PeekRefuses(l, maxBytes) == maxBytes > 0 /\ maxBytes > l.bytes

PeekWithBytes(l, maxBytes, bs) ==
  LET all == FlattenSeq(bs \o l.nodes)
  IN  IF maxBytes <= 0 THEN all ELSE SubSeq(all, 1, maxBytes)

\* What the reader of ReadFrom put into a new slice of the pool: a call that ends with EOF or
\* with an error gives the slice back together with the bytes read, which are counted.
ReadFromStep(l, p, ended) == IF ended THEN l ELSE pushBack(l, p)

\* WriteTo hands node after node to a writer that takes t bytes.  The node in which the
\* writer stops goes back to the front without the bytes taken, except when the call
\* ends with an error (bad): that node is not put back.
WriteToStep(s) ==
  LET b == Head(s.l.nodes)
      m == IF s.t < Len(b) THEN s.t ELSE Len(b)
      l == pop(s.l)
  IN  IF s.stop THEN s
      ELSE [l    |-> IF m < Len(b) /\ ~s.bad THEN pushFront(l, SubSeq(b, m + 1, Len(b))) ELSE l,
            out  |-> s.out \o SubSeq(b, 1, m),
            t    |-> s.t - m,
            bad  |-> s.bad,
            lost |-> IF s.bad THEN Len(b) - m ELSE 0,
            stop |-> m < Len(b) \/ (s.bad /\ m = s.t)]

WriteTo(l, t, bad) ==
  LET After[i \in 0..Len(l.nodes)] ==
        IF i = 0 THEN [l |-> l, out |-> <<>>, t |-> t, bad |-> bad, lost |-> 0, stop |-> FALSE]
        ELSE WriteToStep(After[i - 1])
  IN  After[Len(l.nodes)]

Reset(l) == Empty

Contents(l) == FlattenSeq(l.nodes)
=============================================================================
