------------------------------- MODULE Pools -------------------------------
(***************************************************************************)
(* The arithmetic of the buffer pools and of pkg/math: which size class a  *)
(* slice or a ring buffer goes to, what the ring-buffer pool learns from   *)
(* the classes it was given, and the roundings to a power of two.  The     *)
(* claims are assumptions that TLC evaluates for all inputs up to a bound. *)
(***************************************************************************)
EXTENDS Integers, Sequences, FiniteSets, FiniteSetsExt, SequencesExt, Bitwise

\* bits.Len: the number of bits of n.
BitsLen[n \in Nat] == IF n = 0 THEN 0 ELSE 1 + BitsLen[n \div 2]

--------------------------------------------------------------------------
\* pkg/math

IsPowerOfTwo(n) == n > 0 /\ (n & (n - 1)) = 0

CeilToPowerOfTwo(n) == IF n <= 2 THEN 2 ELSE 2 ^ BitsLen[n - 1]

FloorToPowerOfTwo(n) ==
  LET Smear(m, s) == m | (m \div 2 ^ s)
      all == Smear(Smear(Smear(Smear(Smear(n, 1), 2), 4), 8), 16)
  IN  IF n <= 2 THEN n ELSE all - (all \div 2)

ClosestPowerOfTwo(n) ==
  LET next == CeilToPowerOfTwo(n)
      prev == next \div 2
  IN  IF n - prev < next - n THEN prev ELSE next

\* The roundings are what their names say.
PowersUpTo(k) == {2 ^ i : i \in 0..k}
ASSUME RoundingsAgree ==
  \A n \in 1..300 :
    /\ IsPowerOfTwo(n) <=> n \in PowersUpTo(9)
    /\ FloorToPowerOfTwo(n) = Max({p \in PowersUpTo(9) : p <= n})
    /\ n > 1 => CeilToPowerOfTwo(n) = Min({p \in PowersUpTo(9) : p >= n})
    /\ n > 1 => \A p \in PowersUpTo(9) : (p - n) ^ 2 >= (ClosestPowerOfTwo(n) - n) ^ 2

--------------------------------------------------------------------------
\* pkg/pool/byteslice: slices are kept by class, class i holding slices that Get cuts to
\* 2^i bytes whatever the capacity they were put in with.

sliceIndex(n) == BitsLen[n - 1]

\* The class and the capacity of what Get returns.
GetSlice(size) == [class |-> sliceIndex(size), cap |-> 2 ^ sliceIndex(size)]

PutSlice(cap) == sliceIndex(cap) - (IF cap # 2 ^ sliceIndex(cap) THEN 1 ELSE 0)

\* Get never hands out memory beyond the slice that Put was given, nor less than it was asked
\* for, also when a slice that did not come from the pool is put into it.
ASSUME SlicesHoldTheirClass ==
  \A cap, size \in 1..130 :
    PutSlice(cap) = GetSlice(size).class => cap >= GetSlice(size).cap /\ GetSlice(size).cap >= size

--------------------------------------------------------------------------
\* pkg/pool/ringbuffer

CONSTANTS minBitSize, steps

minSize == 2 ^ minBitSize

ringIndex(n) ==
  LET k == (n - 1) \div minSize
      idx == IF k > 0 THEN BitsLen[k] ELSE 0
  IN  IF idx >= steps THEN steps - 1 ELSE idx

\* sort.Sort is not stable: every order that Less allows.
SortedCalls(calls) ==
  {a \in SetToSeqs(0 .. (steps - 1)) : \A i, j \in 1..steps : i < j => calls[a[i]] >= calls[a[j]]}

\* The sizes that calibrate may store for the given number of calls of each class.
calibrate(calls) ==
  LET sum == MapThenSumSet(LAMBDA i : calls[i], 0 .. (steps - 1))
      maxSum == (95 * sum) \div 100
      Before(a, i) == MapThenSumSet(LAMBDA j : calls[a[j]], 1 .. (i - 1))
      Counted(a) == {i \in 1..steps : Before(a, i) <= maxSum}
      Size(i) == minSize * 2 ^ i
  IN  {[defaultSize |-> Size(a[1]), maxSize |-> Max({Size(a[1])} \cup {Size(a[i]) : i \in Counted(a)})] :
        a \in SortedCalls(calls)}

\* Put keeps a buffer that is not larger than what calibrate found.
PutKeeps(cap, maxSize) == maxSize = 0 \/ cap <= maxSize

\* The pool never makes buffers that it would not take back, and what it takes back is at least
\* 95 of 100 of the buffers it has counted.
ASSUME CalibrationKeepsMost ==
  \A calls \in [0 .. (steps - 1) -> 0..4] : \A c \in calibrate(calls) :
    LET Calls(S) == MapThenSumSet(LAMBDA i : calls[i], S)
        all == 0 .. (steps - 1)
    IN  /\ PutKeeps(c.defaultSize, c.maxSize)
        /\ 100 * Calls({i \in all : PutKeeps(minSize * 2 ^ i, c.maxSize)}) >= 95 * Calls(all)

\* A buffer counts for the class it fits in: the smallest, except beyond the largest class.
ASSUME ClassesFit ==
  \A n \in 1 .. (minSize * 2 ^ (steps + 1)) :
    /\ ringIndex(n) < steps - 1 => n <= minSize * 2 ^ ringIndex(n)
    /\ ringIndex(n) > 0 => n > minSize * 2 ^ (ringIndex(n) - 1)
=============================================================================
