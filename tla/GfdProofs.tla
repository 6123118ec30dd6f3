----------------------------- MODULE GfdProofs -----------------------------
(* The identity of a connection loses nothing of what it is made from. *)
EXTENDS Gfd, TLAPS

Rows == 0 .. (ConnMatrixRowMax - 1)
Columns == 0 .. (ConnMatrixColumnMax - 1)

\* What it means to be an index below a limit.
LEMMA Below ==
  ASSUME NEW m \in Int, NEW n \in 0..(m - 1)
  PROVE  n \in Int /\ 0 <= n /\ n < m
  BY SMT

\* PutUint16 and Uint16 are inverse to each other on what two bytes can hold.
LEMMA Uint16RoundTrip ==
  ASSUME NEW n \in Columns
  PROVE  Uint16(PutUint16(n)) = n
<1>0. ConnMatrixColumnMax \in Int /\ ConnMatrixColumnMax = 256 * 256
  BY SMT DEF ConnMatrixColumnMax
<1>1. n \in Int /\ 0 <= n /\ n < 256 * 256
  <2>1. n \in Int /\ 0 <= n /\ n < ConnMatrixColumnMax
    BY <1>0, Below, Zenon DEF Columns
  <2> QED
    BY <1>0, <2>1, Zenon
<1> DEFINE h == n \div 256
<1>2. h \in 0..255 /\ n = h * 256 + (n % 256)
  BY <1>1, SMTT(40)
<1>3. Uint16(PutUint16(n)) = (h % 256) * 256 + (n % 256)
  BY Zenon DEF Uint16, PutUint16
<1> HIDE DEF h
<1>4. h % 256 = h
  BY <1>2, SMTT(40)
<1> QED
  BY <1>2, <1>3, <1>4

\* What the matrix stores with NewGFDWithSeq it reads back: row, column and descriptor of a
\* connection anywhere in the matrix are the ones it was given.
THEOREM IndexesRoundTrip ==
  ASSUME NEW fd \in Nat, NEW el \in Nat, NEW row \in Rows, NEW column \in Columns, NEW seq \in Nat
  PROVE  LET gfd == NewGFDWithSeq(fd, el, row, column, seq)
         IN  ConnMatrixRow(gfd) = row /\ ConnMatrixColumn(gfd) = column /\ Fd(gfd) = fd
<1> DEFINE gfd == NewGFDWithSeq(fd, el, row, column, seq)
<1>1. ConnMatrixRow(gfd) = row
  BY SMTT(40) DEF ConnMatrixRow, NewGFDWithSeq, byte, Rows, ConnMatrixRowMax
<1>2. ConnMatrixColumn(gfd) = column
  BY Uint16RoundTrip, SMTT(40) DEF ConnMatrixColumn, NewGFDWithSeq
<1>3. Fd(gfd) = fd
  BY SMTT(40) DEF Fd, NewGFDWithSeq
<1> QED
  BY <1>1, <1>2, <1>3

\* UpdateIndexes, by which a connection is moved into a hole, changes where the connection is
\* and nothing else of its identity.
THEOREM MoveKeepsIdentity ==
  ASSUME NEW gfd, NEW row \in Rows, NEW column \in Columns
  PROVE  LET moved == UpdateIndexes(gfd, row, column)
         IN  /\ ConnMatrixRow(moved) = row /\ ConnMatrixColumn(moved) = column
             /\ Fd(moved) = Fd(gfd) /\ Sequence(moved) = Sequence(gfd)
             /\ EventLoopIndex(moved) = EventLoopIndex(gfd)
<1> DEFINE moved == UpdateIndexes(gfd, row, column)
<1>1. ConnMatrixRow(moved) = row
  BY SMTT(40) DEF ConnMatrixRow, UpdateIndexes, byte, Rows, ConnMatrixRowMax
<1>2. ConnMatrixColumn(moved) = column
  BY Uint16RoundTrip, SMTT(40) DEF ConnMatrixColumn, UpdateIndexes
<1>3. Fd(moved) = Fd(gfd) /\ Sequence(moved) = Sequence(gfd) /\ EventLoopIndex(moved) = EventLoopIndex(gfd)
  BY SMTT(40) DEF Fd, Sequence, EventLoopIndex, UpdateIndexes
<1> QED
  BY <1>1, <1>2, <1>3

\* Whatever NumEventLoop asks for, determineEventLoops starts at least one loop and so few
\* that the one byte of a GFD tells them apart.
THEOREM LoopIndexFits ==
  ASSUME NEW multicore \in BOOLEAN, NEW cpus \in Nat \ {0}, NEW num \in Int,
         NEW fd \in Nat, NEW row \in Nat, NEW column \in Nat, NEW seq \in Nat
  PROVE  /\ determineEventLoops(multicore, cpus, num) \in 1..EventLoopIndexMax
         /\ \A el \in 0 .. (determineEventLoops(multicore, cpus, num) - 1) :
              EventLoopIndex(NewGFDWithSeq(fd, el, row, column, seq)) = el
<1>1. determineEventLoops(multicore, cpus, num) \in 1..EventLoopIndexMax
  BY SMTT(40) DEF determineEventLoops, EventLoopIndexMax
<1>2. ASSUME NEW el \in 0 .. (determineEventLoops(multicore, cpus, num) - 1)
      PROVE  EventLoopIndex(NewGFDWithSeq(fd, el, row, column, seq)) = el
  <2>1. el \in 0..255
    BY <1>1, SMTT(40) DEF EventLoopIndexMax
  <2> QED
    BY <2>1, SMTT(40) DEF EventLoopIndex, NewGFDWithSeq, byte
<1> QED
  BY <1>1, <1>2

\* Numbers less than m apart have different remainders by m.
LEMMA RemaindersDiffer ==
  ASSUME NEW m \in Nat \ {0}, NEW a \in Nat, NEW k \in 1 .. (m - 1)
  PROVE  a % m # (a + k) % m
<1> DEFINE p == a \div m
           q == (a + k) \div m
<1>1. a = m * p + (a % m) /\ p \in Int /\ a % m \in Int
  BY SMTT(40)
<1>2. a + k = m * q + ((a + k) % m) /\ q \in Int /\ (a + k) % m \in Int
  <2>1. a + k \in Nat
    BY SMTT(40)
  <2>2. ASSUME NEW n \in Nat
        PROVE  n = m * (n \div m) + (n % m) /\ n \div m \in Int /\ n % m \in Int
    BY SMTT(40)
  <2> QED
    BY <2>1, <2>2
<1> HIDE DEF p, q
<1>3. k # m * (q - p)
  <2>1. CASE q - p >= 1
    <3>1. m * (q - p) >= m
      BY <2>1, <1>1, <1>2, SMTT(40)
    <3> QED
      BY <3>1, SMTT(40)
  <2>2. CASE q - p <= 0
    <3>1. m * (q - p) <= 0
      BY <2>2, <1>1, <1>2, SMTT(40)
    <3> QED
      BY <3>1, SMTT(40)
  <2> QED
    BY <2>1, <2>2, <1>1, <1>2, SMTT(40)
<1>4. ASSUME a % m = (a + k) % m PROVE FALSE
  <2>1. k = m * q - m * p
    BY <1>1, <1>2, <1>4, SMTT(40)
  <2>2. m * q - m * p = m * (q - p)
    BY <1>1, <1>2, SMTT(40)
  <2> QED
    BY <2>1, <2>2, <1>3
<1> QED
  BY <1>4

\* Two identities made from one counter, fewer than 2^32 connections apart, differ: the
\* sequence tells a descriptor that was reused from the one before, also where the counter
\* wraps.
THEOREM SequencesDiffer ==
  ASSUME NEW seq \in Nat, NEW k \in 1 .. (SequenceMax - 1)
  PROVE  Inc(seq) # Inc(seq + k)
<1>1. ASSUME NEW m \in Nat \ {0}, NEW n \in Nat \ {0}
      PROVE  m * n \in Nat \ {0}
  BY SMTT(40)
<1>2. SequenceMax \in Nat \ {0}
  <2>1. ConnMatrixColumnMax \in Nat \ {0}
    BY SMTT(40) DEF ConnMatrixColumnMax
  <2> QED
    BY <1>1, <2>1, Zenon DEF SequenceMax
<1>3. (seq + 1) % SequenceMax # (seq + 1 + k) % SequenceMax
  <2>1. seq + 1 \in Nat
    BY SMTT(40)
  <2> QED
    BY <1>2, <2>1, RemaindersDiffer, Zenon
<1>4. seq + 1 + k = seq + k + 1
  BY <1>2, SMTT(40)
<1> QED
  BY <1>3, <1>4, SMTT(40) DEF Inc
=============================================================================
