-------------------------- MODULE ConnMatrixProofs --------------------------
(***************************************************************************)
(* Proofs about ConnMatrix for every size of the matrix and every set of    *)
(* connections: nothing is overwritten, the live prefix is dense, the       *)
(* counters are right, and the matrix implements the map of the default     *)
(* build.  Sound(m) is what addConn, delConn and move preserve of the table *)
(* and its indexes; MatrixInv adds the cursor and where compaction stands.  *)
(***************************************************************************)
EXTENDS ConnMatrix, FiniteSetTheorems, TLAPS

Sound(m) == m \in Matrix /\ Agree(m) /\ CountersOf(m)

\* The types of the indexes of m, as the proofs about one operation use them.
Typed(m) ==
  /\ m.table \in [Slots -> Conns \cup {Nil}]
  /\ m.fd2gfd \in [Fds -> Slots \cup {Nil}]
  /\ m.gfd \in [Conns -> Slots \cup {Nil}]
  /\ m.total \in Int

\* Where an iteration and a compaction stand.
Phase ==
  /\ calling => disableCompact
  /\ calling => at < Capacity
  /\ scan # Nil => dirty /\ ~disableCompact
  /\ dirty => disableCompact \/ scan # Nil
  /\ scan = Nil => next = 0

\* compact has made the slots below next dense and emptied those up to scan.
Swept ==
  scan # Nil =>
    /\ next <= scan
    /\ \A s \in Slots : s < next => cm.table[s] # Nil
    /\ \A s \in Slots : next <= s /\ s < scan => cm.table[s] = Nil

MatrixInv == TypeOK /\ Sound(cm) /\ NothingOverwritten /\ DensePrefix /\ Phase /\ Swept

-----------------------------------------------------------------------------
(* The table and its indexes                                               *)

LEMMA SlotFacts ==
  /\ Capacity \in Nat
  /\ \A s \in Slots : s \in Nat /\ s < Capacity /\ RowOf(s) \in Rows
  /\ Nil \notin Slots /\ Nil \notin Conns
  /\ \A c \in Conns : Fd[c] \in Fds
<1>1. Capacity \in Nat
  BY MatrixAssumption DEF Capacity
<1>2. ASSUME NEW s \in Slots PROVE RowOf(s) \in Rows
  BY MatrixAssumption DEF Slots, Rows, RowOf, Capacity
<1>3. QED
  BY <1>1, <1>2, MatrixAssumption DEF Slots

LEMMA LiveFinite ==
  ASSUME NEW m, NEW S \in SUBSET Slots
  PROVE  IsFiniteSet(LiveIn(m, S)) /\ Cardinality(LiveIn(m, S)) \in Nat
<1>1. IsFiniteSet(Slots)
  BY SlotFacts, FS_Interval DEF Slots
<1>2. LiveIn(m, S) \subseteq Slots
  BY DEF LiveIn
<1>3. QED
  BY <1>1, <1>2, FS_Subset, FS_CardinalityType

\* Filling an empty slot counts one more in every set of slots it is in.
LEMMA FillCounts ==
  ASSUME NEW m \in Matrix, NEW k \in Matrix, NEW c \in Conns, NEW slot \in Slots,
         m.table[slot] = Nil, k.table = [m.table EXCEPT ![slot] = c],
         NEW S \in SUBSET Slots
  PROVE  Cardinality(LiveIn(k, S))
           = IF slot \in S THEN Cardinality(LiveIn(m, S)) + 1 ELSE Cardinality(LiveIn(m, S))
<1>1. CASE slot \in S
  <2>1. LiveIn(k, S) = LiveIn(m, S) \cup {slot} /\ slot \notin LiveIn(m, S)
    BY <1>1, SlotFacts DEF LiveIn, Matrix
  <2>2. QED
    BY <1>1, <2>1, LiveFinite, FS_AddElement, Zenon
<1>2. CASE slot \notin S
  <2>1. LiveIn(k, S) = LiveIn(m, S)
    BY <1>2 DEF LiveIn, Matrix
  <2>2. QED
    BY <1>2, <2>1
<1>3. QED
  BY <1>1, <1>2

\* Emptying an occupied slot counts one less.
LEMMA EmptyCounts ==
  ASSUME NEW m \in Matrix, NEW k \in Matrix, NEW slot \in Slots,
         m.table[slot] # Nil, k.table = [m.table EXCEPT ![slot] = Nil],
         NEW S \in SUBSET Slots
  PROVE  Cardinality(LiveIn(k, S))
           = IF slot \in S THEN Cardinality(LiveIn(m, S)) - 1 ELSE Cardinality(LiveIn(m, S))
<1>1. CASE slot \in S
  <2>1. LiveIn(k, S) = LiveIn(m, S) \ {slot} /\ slot \in LiveIn(m, S)
    BY <1>1, SlotFacts DEF LiveIn, Matrix
  <2>2. IsFiniteSet(LiveIn(m, S))
    BY LiveFinite
  <2>3. Cardinality(LiveIn(m, S) \ {slot}) = Cardinality(LiveIn(m, S)) - 1
    BY <2>1, <2>2, FS_RemoveElement, Zenon
  <2>4. QED
    BY <1>1, <2>1, <2>3
<1>2. CASE slot \notin S
  <2>1. LiveIn(k, S) = LiveIn(m, S)
    BY <1>2 DEF LiveIn, Matrix
  <2>2. QED
    BY <1>2, <2>1
<1>3. QED
  BY <1>1, <1>2

LEMMA AddedCounters ==
  ASSUME NEW m \in Matrix, CountersOf(m), NEW c \in Conns, NEW slot \in Slots,
         m.table[slot] = Nil
  PROVE  Added(m, c, slot) \in Matrix /\ CountersOf(Added(m, c, slot))
<1> DEFINE k == Added(m, c, slot)
<1>1. k \in Matrix
  BY SlotFacts DEF Added, Matrix
<1>2. k.table = [m.table EXCEPT ![slot] = c]
  BY DEF Added
<1>3. k.total = Cardinality(LiveIn(k, Slots))
  BY <1>1, <1>2, FillCounts DEF Added, CountersOf
<1>4. ASSUME NEW r \in Rows
      PROVE  /\ k.connCounts[r] = Cardinality(LiveIn(k, InRow(r)))
             /\ r \in k.allocated <=> k.connCounts[r] > 0
  <2>1. InRow(r) \in SUBSET Slots /\ (slot \in InRow(r) <=> r = RowOf(slot))
    BY DEF InRow
  <2>2. Cardinality(LiveIn(m, InRow(r))) \in Nat
    BY <2>1, LiveFinite
  <2>3. Cardinality(LiveIn(k, InRow(r)))
          = IF r = RowOf(slot) THEN m.connCounts[r] + 1 ELSE m.connCounts[r]
    BY <1>1, <1>2, <2>1, FillCounts DEF CountersOf
  <2>4. /\ k.connCounts[r] = IF r = RowOf(slot) THEN m.connCounts[r] + 1 ELSE m.connCounts[r]
        /\ r \in k.allocated <=> r = RowOf(slot) \/ r \in m.allocated
    BY SlotFacts DEF Added, Matrix
  <2>5. m.connCounts[r] \in Nat /\ (r \in m.allocated <=> m.connCounts[r] > 0)
    BY <2>2 DEF CountersOf
  <2>6. QED
    BY <2>3, <2>4, <2>5
<1>5. QED
  BY <1>1, <1>3, <1>4 DEF CountersOf

LEMMA EmptiedCounters ==
  ASSUME NEW m \in Matrix, CountersOf(m), NEW slot \in Slots, m.table[slot] # Nil
  PROVE  Emptied(m, slot) \in Matrix /\ CountersOf(Emptied(m, slot))
<1> DEFINE k == Emptied(m, slot)
<1>1. k \in Matrix
  BY SlotFacts DEF Emptied, Matrix
<1>2. k.table = [m.table EXCEPT ![slot] = Nil]
  BY DEF Emptied, Matrix
<1>3. k.total = Cardinality(LiveIn(k, Slots))
  BY <1>1, <1>2, EmptyCounts DEF Emptied, CountersOf, Matrix
<1>4. ASSUME NEW r \in Rows
      PROVE  /\ k.connCounts[r] = Cardinality(LiveIn(k, InRow(r)))
             /\ r \in k.allocated <=> k.connCounts[r] > 0
  <2>1. InRow(r) \in SUBSET Slots /\ (slot \in InRow(r) <=> r = RowOf(slot))
    BY DEF InRow
  <2>2. Cardinality(LiveIn(m, InRow(r))) \in Nat /\ Cardinality(LiveIn(k, InRow(r))) \in Nat
    BY <2>1, LiveFinite
  <2>3. Cardinality(LiveIn(k, InRow(r)))
          = IF r = RowOf(slot) THEN m.connCounts[r] - 1 ELSE m.connCounts[r]
    BY <1>1, <1>2, <2>1, EmptyCounts DEF CountersOf
  <2>4. k.connCounts[r] = IF r = RowOf(slot) THEN m.connCounts[r] - 1 ELSE m.connCounts[r]
    BY SlotFacts DEF Emptied, Matrix
  <2>5. r \in k.allocated <=> r \in m.allocated /\ ~(r = RowOf(slot) /\ k.connCounts[r] = 0)
    BY SlotFacts DEF Emptied, Matrix
  <2>6. m.connCounts[r] \in Nat /\ (r \in m.allocated <=> m.connCounts[r] > 0)
    BY <2>2, SMTT(40) DEF CountersOf
  <2>7. QED
    BY <2>2, <2>3, <2>4, <2>5, <2>6
<1>5. QED
  BY <1>1, <1>3, <1>4 DEF CountersOf

\* addConn: a connection whose descriptor is free goes into an empty slot.
LEMMA AddedSound ==
  ASSUME NEW m, Sound(m), NEW c \in Conns, NEW slot \in Slots,
         m.table[slot] = Nil, m.fd2gfd[Fd[c]] = Nil
  PROVE  Sound(Added(m, c, slot))
<1> DEFINE k == Added(m, c, slot)
<1>t. Typed(m)
  BY DEF Sound, Matrix, Typed
<1>a. Agree(m)
  BY DEF Sound
<1>1. k \in Matrix /\ CountersOf(k)
  BY AddedCounters DEF Sound
<1>2. /\ k.table = [m.table EXCEPT ![slot] = c]
      /\ k.fd2gfd = [m.fd2gfd EXCEPT ![Fd[c]] = slot]
      /\ k.gfd = [m.gfd EXCEPT ![c] = slot]
  BY DEF Added
<1>3. ASSUME NEW s \in Slots, k.table[s] # Nil
      PROVE  k.gfd[k.table[s]] = s /\ k.fd2gfd[Fd[k.table[s]]] = s
  <2>1. CASE s = slot
    BY <1>2, <2>1, SlotFacts, <1>t DEF Typed
  <2>2. CASE s # slot
    <3>1. k.table[s] = m.table[s] /\ m.table[s] \in Conns
      BY <1>2, <1>3, <2>2, <1>t DEF Typed
    <3>2. m.gfd[m.table[s]] = s /\ m.fd2gfd[Fd[m.table[s]]] = s /\ s # Nil
      BY <3>1, SlotFacts, <1>a DEF Agree
    <3>3. Fd[m.table[s]] # Fd[c] /\ m.table[s] # c
      BY <3>2, SMTT(40)
    <3>4. QED
      BY <1>2, <3>1, <3>2, <3>3, SlotFacts, <1>t DEF Typed
  <2>3. QED
    BY <2>1, <2>2
<1>4. ASSUME NEW fd \in Fds, k.fd2gfd[fd] # Nil
      PROVE  k.table[k.fd2gfd[fd]] # Nil /\ Fd[k.table[k.fd2gfd[fd]]] = fd
  <2>1. CASE fd = Fd[c]
    BY <1>2, <2>1, SlotFacts, <1>t DEF Typed
  <2>2. CASE fd # Fd[c]
    <3>1. k.fd2gfd[fd] = m.fd2gfd[fd] /\ m.fd2gfd[fd] \in Slots
      BY <1>2, <1>4, <2>2, <1>t DEF Typed
    <3>2. m.table[m.fd2gfd[fd]] # Nil /\ Fd[m.table[m.fd2gfd[fd]]] = fd
      BY <1>4, <3>1, <1>a DEF Agree
    <3>3. QED
      BY <1>2, <3>1, <3>2, <1>t DEF Typed
  <2>3. QED
    BY <2>1, <2>2
<1>5. QED
  BY <1>1, <1>3, <1>4 DEF Sound, Agree

\* delConn: the deleted connection leaves the table and the fd table.
LEMMA RemovedSound ==
  ASSUME NEW m, Sound(m), NEW c \in Conns, NEW slot \in Slots, m.table[slot] = c
  PROVE  /\ Sound(Removed(m, c))
         /\ Removed(m, c).table = [m.table EXCEPT ![slot] = Nil]
         /\ Removed(m, c).fd2gfd = [m.fd2gfd EXCEPT ![Fd[c]] = Nil]
         /\ Removed(m, c).total = m.total - 1
<1> DEFINE k == Removed(m, c)
           e == Emptied(m, slot)
<1>t. Typed(m)
  BY DEF Sound, Matrix, Typed
<1>a. Agree(m)
  BY DEF Sound
<1>1. m.gfd[c] = slot /\ m.fd2gfd[Fd[c]] = slot /\ c # Nil
  BY SlotFacts, <1>a DEF Agree
<1>2. e \in Matrix /\ CountersOf(e)
  BY <1>1, EmptiedCounters, SMTT(40) DEF Sound
<1>3. /\ k.table = [m.table EXCEPT ![slot] = Nil]
      /\ k.table = e.table /\ k.allocated = e.allocated /\ k.connCounts = e.connCounts
      /\ k.total = e.total /\ k.total = m.total - 1
      /\ k.fd2gfd = [m.fd2gfd EXCEPT ![Fd[c]] = Nil]
      /\ k.gfd = [m.gfd EXCEPT ![c] = Nil]
  BY <1>1, Zenon DEF Removed, Emptied
<1>4. k \in Matrix
  <2>1. k = [table |-> e.table, allocated |-> e.allocated, connCounts |-> e.connCounts,
             total |-> e.total, fd2gfd |-> [m.fd2gfd EXCEPT ![Fd[c]] = Nil],
             gfd |-> [m.gfd EXCEPT ![c] = Nil]]
    BY <1>1 DEF Removed
  <2>2. /\ [m.fd2gfd EXCEPT ![Fd[c]] = Nil] \in [Fds -> Slots \cup {Nil}]
        /\ [m.gfd EXCEPT ![c] = Nil] \in [Conns -> Slots \cup {Nil}]
    BY <1>t, Zenon DEF Typed
  <2>3. QED
    BY <1>2, <2>1, <2>2, SMTT(40) DEF Matrix
<1> HIDE DEF k, e
<1>5. CountersOf(k)
  <2>1. ASSUME NEW S PROVE LiveIn(k, S) = LiveIn(e, S)
    BY <1>3, Zenon DEF LiveIn
  <2>2. QED
    BY <1>2, <1>3, <2>1, Zenon DEF CountersOf
<1>6. ASSUME NEW s \in Slots, k.table[s] # Nil
      PROVE  k.gfd[k.table[s]] = s /\ k.fd2gfd[Fd[k.table[s]]] = s
  <2>1. s # slot /\ k.table[s] = m.table[s] /\ m.table[s] \in Conns
    BY <1>3, <1>6, <1>t DEF Typed
  <2>2. m.gfd[m.table[s]] = s /\ m.fd2gfd[Fd[m.table[s]]] = s
    BY <2>1, SlotFacts, <1>a DEF Agree
  <2>3. m.table[s] # c /\ Fd[m.table[s]] # Fd[c]
    BY <1>1, <2>1, <2>2
  <2>4. QED
    BY <1>3, <2>1, <2>2, <2>3, SlotFacts, <1>t DEF Typed
<1>7. ASSUME NEW fd \in Fds, k.fd2gfd[fd] # Nil
      PROVE  k.table[k.fd2gfd[fd]] # Nil /\ Fd[k.table[k.fd2gfd[fd]]] = fd
  <2>1. fd # Fd[c] /\ k.fd2gfd[fd] = m.fd2gfd[fd] /\ m.fd2gfd[fd] \in Slots
    BY <1>3, <1>7, <1>t DEF Typed
  <2>2. m.table[m.fd2gfd[fd]] # Nil /\ Fd[m.table[m.fd2gfd[fd]]] = fd
    BY <1>7, <2>1, <1>a DEF Agree
  <2>3. m.fd2gfd[fd] # slot
    BY <2>1, <2>2
  <2>4. QED
    BY <1>3, <2>1, <2>2, <2>3, <1>t DEF Typed
<1>8. Sound(k)
  BY <1>4, <1>5, <1>6, <1>7 DEF Sound, Agree
<1>9. QED
  BY <1>3, <1>8 DEF k

\* move: every index follows the connection, and nobody else is touched.
LEMMA MovedSound ==
  ASSUME NEW m, Sound(m), NEW from \in Slots, NEW to \in Slots,
         m.table[from] # Nil, m.table[to] = Nil
  PROVE  LET k == Moved(m, m.table[from], to)
         IN  /\ Sound(k)
             /\ k.table = [[m.table EXCEPT ![to] = m.table[from]] EXCEPT ![from] = Nil]
             /\ k.fd2gfd = [m.fd2gfd EXCEPT ![Fd[m.table[from]]] = to]
             /\ k.total = m.total
<1> DEFINE c == m.table[from]
           a == Added(m, c, to)
           k == Moved(m, c, to)
<1>t. Typed(m)
  BY DEF Sound, Matrix, Typed
<1>a. Agree(m)
  BY DEF Sound
<1>1. c \in Conns /\ m.gfd[c] = from /\ m.fd2gfd[Fd[c]] = from /\ from # to
  BY SlotFacts, <1>t, <1>a DEF Typed, Agree
<1>2. a \in Matrix /\ CountersOf(a)
  BY <1>1, AddedCounters DEF Sound
<1>3. /\ a.table = [m.table EXCEPT ![to] = c] /\ a.fd2gfd = [m.fd2gfd EXCEPT ![Fd[c]] = to]
      /\ a.gfd = [m.gfd EXCEPT ![c] = to] /\ a.total = m.total + 1
  BY DEF Added
<1>4. k = Emptied(a, from)
  BY <1>1 DEF Moved
<1> HIDE DEF a, k
<1>5. k \in Matrix /\ CountersOf(k)
  <2>1. a.table[from] # Nil
    BY <1>1, <1>3, <1>t DEF Typed
  <2>2. QED
    BY <1>2, <1>4, <2>1, EmptiedCounters, SMTT(40)
<1>6. /\ k.table = [a.table EXCEPT ![from] = Nil] /\ k.fd2gfd = a.fd2gfd
      /\ k.gfd = a.gfd /\ k.total = a.total - 1
  BY <1>4 DEF Emptied
<1>7. /\ k.table = [[m.table EXCEPT ![to] = c] EXCEPT ![from] = Nil]
      /\ k.fd2gfd = [m.fd2gfd EXCEPT ![Fd[c]] = to]
      /\ k.gfd = [m.gfd EXCEPT ![c] = to]
      /\ k.total = m.total
  <2>1. m.total \in Int
    BY <1>t DEF Typed
  <2>2. QED
    BY <1>3, <1>6, <2>1
<1>8. ASSUME NEW s \in Slots, k.table[s] # Nil
      PROVE  k.gfd[k.table[s]] = s /\ k.fd2gfd[Fd[k.table[s]]] = s
  <2>1. CASE s = to
    BY <1>1, <1>7, <2>1, SlotFacts, <1>t, SMTT(40) DEF Typed
  <2>2. CASE s # to
    <3>1. s # from /\ k.table[s] = m.table[s] /\ m.table[s] \in Conns
      BY <1>7, <1>8, <2>2, <1>t DEF Typed
    <3>2. m.gfd[m.table[s]] = s /\ m.fd2gfd[Fd[m.table[s]]] = s
      BY <3>1, SlotFacts, <1>a DEF Agree
    <3>3. m.table[s] # c /\ Fd[m.table[s]] # Fd[c]
      BY <1>1, <3>1, <3>2
    <3>4. QED
      BY <1>7, <3>1, <3>2, <3>3, SlotFacts, <1>t DEF Typed
  <2>3. QED
    BY <2>1, <2>2
<1>9. ASSUME NEW fd \in Fds, k.fd2gfd[fd] # Nil
      PROVE  k.table[k.fd2gfd[fd]] # Nil /\ Fd[k.table[k.fd2gfd[fd]]] = fd
  <2>1. CASE fd = Fd[c]
    BY <1>1, <1>7, <2>1, SlotFacts, <1>t, SMTT(40) DEF Typed
  <2>2. CASE fd # Fd[c]
    <3>1. k.fd2gfd[fd] = m.fd2gfd[fd] /\ m.fd2gfd[fd] \in Slots
      BY <1>7, <1>9, <2>2, <1>t DEF Typed
    <3>2. m.table[m.fd2gfd[fd]] # Nil /\ Fd[m.table[m.fd2gfd[fd]]] = fd
      BY <1>9, <3>1, <1>a DEF Agree
    <3>3. m.fd2gfd[fd] # from /\ m.fd2gfd[fd] # to
      BY <2>2, <3>2
    <3>4. QED
      BY <1>7, <3>1, <3>2, <3>3, <1>t DEF Typed
  <2>3. QED
    BY <2>1, <2>2, SMTT(40)
<1>10. Sound(k)
  BY <1>5, <1>8, <1>9 DEF Sound, Agree
<1>11. QED
  BY <1>7, <1>10 DEF k

-----------------------------------------------------------------------------
(* Lookup                                                                  *)

Lookup(m, fd) == IF m.fd2gfd[fd] = Nil THEN Nil ELSE m.table[m.fd2gfd[fd]]

\* getConn of matrix m.
Find(m, fd) ==
  IF m.fd2gfd[fd] = Nil THEN Nil
  ELSE IF RowOf(m.fd2gfd[fd]) \notin m.allocated THEN Nil
  ELSE m.table[m.fd2gfd[fd]]

\* getConn's test for a released row never hides a connection.
LEMMA FindLooksUp ==
  ASSUME NEW m, Sound(m), NEW fd \in Fds PROVE Find(m, fd) = Lookup(m, fd)
<1>1. CASE m.fd2gfd[fd] = Nil
  BY <1>1 DEF Find, Lookup
<1>2. CASE m.fd2gfd[fd] # Nil
  <2> DEFINE s == m.fd2gfd[fd]
  <2>1. s \in Slots /\ m.table[s] # Nil /\ RowOf(s) \in Rows
    BY <1>2, SlotFacts DEF Sound, Matrix, Agree
  <2>2. s \in LiveIn(m, InRow(RowOf(s))) /\ InRow(RowOf(s)) \in SUBSET Slots
    BY <2>1 DEF LiveIn, InRow
  <2>3. /\ IsFiniteSet(LiveIn(m, InRow(RowOf(s))))
        /\ Cardinality(LiveIn(m, InRow(RowOf(s)))) \in Nat
    BY <2>2, LiveFinite
  <2>4. Cardinality(LiveIn(m, InRow(RowOf(s)))) # 0
    BY <2>2, <2>3, FS_EmptySet, SMTT(40)
  <2>5. RowOf(s) \in m.allocated
    BY <2>1, <2>3, <2>4 DEF Sound, CountersOf
  <2>6. QED
    BY <1>2, <2>5 DEF Find, Lookup
<1>3. QED
  BY <1>1, <1>2

LEMMA GetConnLooksUp ==
  ASSUME Sound(cm), NEW fd \in Fds PROVE getConn(fd) = Lookup(cm, fd)
<1>1. getConn(fd) = Find(cm, fd)
  BY SMTT(40) DEF getConn, Find
<1>2. QED
  BY <1>1, FindLooksUp

LEMMA LiveSlot ==
  ASSUME Sound(cm), NEW c \in Conns, Live(c)
  PROVE  cm.fd2gfd[Fd[c]] \in Slots /\ cm.table[cm.fd2gfd[Fd[c]]] = c
  BY SlotFacts, GetConnLooksUp DEF Live, Lookup, Sound, Matrix

LEMMA FreeDescriptor ==
  ASSUME Sound(cm), NEW fd \in Fds, getConn(fd) = Nil PROVE cm.fd2gfd[fd] = Nil
  BY GetConnLooksUp DEF Lookup, Sound, Agree

-----------------------------------------------------------------------------
(* The inductive invariant                                                 *)

LEMMA MatrixInit == Init => MatrixInv
<1> SUFFICES ASSUME Init PROVE MatrixInv
  OBVIOUS
<1>1. cm \in Matrix
  BY DEF Init, Matrix
<1>2. \A s \in Slots : cm.table[s] = Nil
  BY DEF Init
<1>3. Agree(cm)
  BY <1>2 DEF Init, Agree
<1>4. CountersOf(cm)
  <2>1. ASSUME NEW S \in SUBSET Slots PROVE Cardinality(LiveIn(cm, S)) = 0
    <3>1. LiveIn(cm, S) = {}
      BY <1>2 DEF LiveIn
    <3>2. QED
      BY <3>1, FS_EmptySet
  <2>2. \A r \in Rows : InRow(r) \in SUBSET Slots
    BY DEF InRow
  <2>3. cm.total = 0 /\ cm.allocated = {} /\ \A r \in Rows : cm.connCounts[r] = 0
    BY DEF Init
  <2>4. Cardinality(LiveIn(cm, Slots)) = 0
    BY <2>1
  <2>5. \A r \in Rows : Cardinality(LiveIn(cm, InRow(r))) = 0
    BY <2>1, <2>2
  <2>6. QED
    BY <2>3, <2>4, <2>5 DEF CountersOf
<1>5. TypeOK
  <2>1. 0 \in 0..Capacity /\ <<>> \in Seq(Conns)
    BY SlotFacts
  <2>2. QED
    BY <1>1, <2>1, Zenon DEF Init, TypeOK
<1>6. NothingOverwritten /\ DensePrefix
  BY <1>2, <1>3, SlotFacts DEF NothingOverwritten, DensePrefix, Init
<1>7. QED
  BY <1>1, <1>3, <1>4, <1>5, <1>6 DEF MatrixInv, Sound, Phase, Swept, Init

LEMMA AddStep ==
  ASSUME MatrixInv, NEW c \in Conns, addConn(c) PROVE MatrixInv'
<1> USE DEF MatrixInv
<1>1. /\ scan = Nil /\ ~disableCompact /\ ~dirty /\ tail < Capacity
      /\ cm' = Added(cm, c, tail) /\ tail' = tail + 1
      /\ UNCHANGED <<disableCompact, dirty, at, calling, visited, scan, next>>
  BY DEF addConn, MayCall, Phase, walk, sweep
<1>2. tail \in Slots /\ cm.table[tail] = Nil /\ tail \in Nat
  BY <1>1, SlotFacts DEF TypeOK, Slots, NothingOverwritten
<1>3. cm.fd2gfd[Fd[c]] = Nil
  BY SlotFacts, FreeDescriptor DEF addConn
<1>4. Sound(cm')
  BY <1>1, <1>2, <1>3, AddedSound
<1>5. cm'.table = [cm.table EXCEPT ![tail] = c] /\ DOMAIN cm.table = Slots
  BY <1>1 DEF Added, Sound, Matrix
<1>6. \A s \in Slots : cm'.table[s] # Nil <=> s < tail'
  BY <1>1, <1>2, <1>5, SlotFacts DEF DensePrefix
<1>7. TypeOK'
  BY <1>1, <1>4, SlotFacts DEF TypeOK, Sound
<1>8. NothingOverwritten' /\ DensePrefix'
  BY <1>4, <1>6 DEF NothingOverwritten, DensePrefix, Sound
<1>9. QED
  BY <1>1, <1>4, <1>7, <1>8 DEF Phase, Swept

LEMMA DeleteStep ==
  ASSUME MatrixInv, NEW c \in Conns, delConn(c) PROVE MatrixInv'
<1> USE DEF MatrixInv
<1> DEFINE m == Removed(cm, c)
<1>1. scan = Nil /\ UNCHANGED <<disableCompact, at, calling, visited, scan, next>>
  BY SMTT(40) DEF delConn, MayCall, walk, sweep
<1>2. PICK slot \in Slots : cm.table[slot] = c /\ c # Nil
  BY LiveSlot, SlotFacts, SMTT(40) DEF delConn
<1>3. /\ Sound(m)
      /\ m.table = [cm.table EXCEPT ![slot] = Nil]
      /\ cm.gfd[c] = slot
  <2>1. Sound(cm)
    OBVIOUS
  <2> HIDE DEF MatrixInv
  <2>2. Sound(Removed(cm, c))
    BY <1>2, <2>1, RemovedSound, Zenon
  <2>3. m.table = [cm.table EXCEPT ![slot] = Nil]
    BY <1>2, <2>1, RemovedSound, ZenonT(40)
  <2>4. cm.gfd[c] = slot
    BY <1>2, <2>1 DEF Sound, Agree
  <2>5. QED
    BY <2>2, <2>3, <2>4
<1>4. DOMAIN cm.table = Slots /\ slot < tail /\ tail \in Nat /\ tail <= Capacity
  BY <1>2, SlotFacts DEF Sound, Matrix, NothingOverwritten, TypeOK
<1>5. CASE disableCompact
  <2>1. cm' = m /\ dirty' = TRUE /\ tail' = tail
    BY <1>5 DEF delConn, LeaveHole
  <2>2. \A s \in Slots : cm'.table[s] # Nil => s < tail'
    BY <1>3, <1>4, <2>1 DEF NothingOverwritten
  <2>3. QED
    BY <1>1, <1>3, <1>5, <2>1, <2>2
    DEF TypeOK, Sound, NothingOverwritten, DensePrefix, Phase, Swept
<1>6. CASE ~disableCompact
  <2>1. ~dirty /\ UNCHANGED dirty /\ tail' = tail - 1
    BY <1>1, <1>6, Zenon DEF delConn, Refill, Phase
  <2>2. tail - 1 \in Slots /\ cm.table[tail - 1] # Nil
    BY <1>2, <1>4, <2>1, SlotFacts, SMTT(40) DEF DensePrefix, Slots
  <2>3. CASE tail - 1 = slot
    <3>1. cm' = m
      BY <1>3, <1>6, <2>3 DEF delConn, Refill
    <3>2. \A s \in Slots : cm'.table[s] # Nil <=> s < tail'
      BY <1>3, <1>4, <2>1, <2>3, <3>1, SlotFacts DEF DensePrefix
    <3>3. QED
      BY <1>1, <1>3, <1>4, <1>6, <2>1, <2>2, <3>1, <3>2, SlotFacts, SMTT(40)
      DEF TypeOK, Sound, NothingOverwritten, DensePrefix, Phase, Swept
  <2>4. CASE tail - 1 # slot
    <3>1. m.table[tail - 1] # Nil /\ m.table[slot] = Nil
      BY <1>2, <1>3, <1>4, <2>2, <2>4, SMTT(40)
    <3>2. cm' = Moved(m, m.table[tail - 1], slot)
      BY <1>3, <1>6, <2>4, SMTT(40) DEF delConn, Refill
    <3>3. /\ Sound(cm')
          /\ cm'.table = [[m.table EXCEPT ![slot] = m.table[tail - 1]] EXCEPT ![tail - 1] = Nil]
      BY <1>2, <1>3, <2>2, <3>1, <3>2, MovedSound, SMTT(40)
    <3>4. \A s \in Slots : cm'.table[s] # Nil <=> s < tail'
      BY <1>2, <1>3, <1>4, <2>1, <2>2, <2>4, <3>1, <3>3, SlotFacts, SMTT(40) DEF DensePrefix
    <3>5. TypeOK'
      BY <1>1, <1>4, <2>1, <2>2, <3>3, SlotFacts, SMTT(40) DEF TypeOK, Sound
    <3>6. NothingOverwritten' /\ DensePrefix'
      BY <3>3, <3>4 DEF NothingOverwritten, DensePrefix, Sound
    <3>7. QED
      BY <1>1, <2>1, <3>3, <3>5, <3>6 DEF Phase, Swept
  <2>5. QED
    BY <2>3, <2>4, SMTT(40)
<1>7. QED
  BY <1>5, <1>6

\* One slot of compact keeps the prefix dense and the rest up to scan empty.
LEMMA CompactStep ==
  ASSUME MatrixInv, CompactSlot PROVE MatrixInv'
<1> USE DEF MatrixInv
<1>1. /\ scan \in Slots /\ scan' = scan + 1 /\ scan \in Nat /\ next \in Nat /\ next <= scan
      /\ scan < Capacity /\ scan # Nil /\ dirty /\ ~disableCompact /\ Capacity \in Nat
      /\ UNCHANGED <<tail, disableCompact, dirty, at, calling, visited>>
  BY SlotFacts DEF CompactSlot, TypeOK, Slots, Phase, Swept, walk
<1>2. scan' # Nil /\ scan' \in 0..Capacity
  BY <1>1, MatrixAssumption
<1>3. CASE cm.table[scan] = Nil
  <2>1. cm' = cm /\ next' = next
    BY <1>3 DEF CompactSlot
  <2>2. Swept'
    <3>1. ASSUME NEW s \in Slots, next <= s, s < scan + 1 PROVE cm.table[s] = Nil
      <4>1. s < scan \/ s = scan
        BY <1>1, <3>1, SlotFacts
      <4>2. QED
        BY <1>1, <1>3, <3>1, <4>1, Zenon DEF Swept
    <3>2. next <= scan + 1
      BY <1>1
    <3>3. QED
      BY <1>1, <2>1, <3>1, <3>2, Zenon DEF Swept
  <2>3. QED
    BY <1>1, <1>2, <2>1, <2>2 DEF TypeOK, Sound, NothingOverwritten, DensePrefix, Phase
<1>4. CASE cm.table[scan] # Nil /\ scan = next
  <2>1. cm' = cm /\ next' = next + 1
    BY <1>4 DEF CompactSlot
  <2>2. Swept'
    BY <1>1, <1>4, <2>1, SlotFacts, SMTT(40) DEF Swept
  <2>3. QED
    BY <1>1, <1>2, <1>4, <2>1, <2>2 DEF TypeOK, Sound, NothingOverwritten, DensePrefix, Phase
<1>5. CASE cm.table[scan] # Nil /\ scan # next
  <2>1. cm' = Moved(cm, cm.table[scan], next) /\ next' = next + 1
    BY <1>5 DEF CompactSlot
  <2>2. next \in Slots /\ next < scan /\ cm.table[next] = Nil /\ DOMAIN cm.table = Slots
    BY <1>1, <1>5 DEF Swept, Slots, Sound, Matrix
  <2>3. /\ Sound(cm')
        /\ cm'.table = [[cm.table EXCEPT ![next] = cm.table[scan]] EXCEPT ![scan] = Nil]
    <3>1. Sound(cm) /\ scan \in Slots /\ next \in Slots
      BY <1>1, <2>2
    <3> HIDE DEF MatrixInv
    <3>2. PICK a \in Slots, b \in Slots : a = scan /\ b = next
      BY <3>1
    <3>3. cm.table[a] # Nil /\ cm.table[b] = Nil /\ cm' = Moved(cm, cm.table[a], b)
      BY <1>5, <2>1, <2>2, <3>2
    <3>4. Sound(cm')
      BY <3>1, <3>3, MovedSound, ZenonT(40)
    <3>5. cm'.table = [[cm.table EXCEPT ![b] = cm.table[a]] EXCEPT ![a] = Nil]
      <4>1. cm.gfd[cm.table[a]] = a
        BY <3>1, <3>3, SMTT(40) DEF Sound, Agree
      <4>2. QED
        BY <3>3, <4>1, Zenon DEF Moved, Emptied, Added
    <3>6. QED
      BY <3>2, <3>4, <3>5
  <2>4. \A s \in Slots : cm'.table[s] # Nil => s < tail
    <3>1. scan < tail /\ tail \in Nat
      BY <1>1, <1>5, SMTT(40) DEF NothingOverwritten, TypeOK
    <3>2. QED
      BY <1>1, <2>2, <2>3, <3>1, SlotFacts, SMTT(40) DEF NothingOverwritten
  <2>5. Swept'
    BY <1>1, <1>5, <2>1, <2>2, <2>3, SlotFacts DEF Swept
  <2>6. TypeOK'
    BY <1>1, <1>2, <2>1, <2>2, <2>3, SMTT(40) DEF TypeOK, Sound
  <2>7. NothingOverwritten' /\ DensePrefix'
    BY <1>1, <2>3, <2>4 DEF Sound, NothingOverwritten, DensePrefix
  <2>8. Phase'
    BY <1>1, <1>2 DEF Phase
  <2>9. QED
    BY <2>3, <2>5, <2>6, <2>7, <2>8
<1>6. QED
  BY <1>3, <1>4, <1>5

LEMMA MatrixStep == MatrixInv /\ [Next]_vars => MatrixInv'
<1> SUFFICES ASSUME MatrixInv, [Next]_vars PROVE MatrixInv'
  OBVIOUS
<1>1. ASSUME Iterate \/ Visit \/ Return \/ IterateDone PROVE MatrixInv'
  <2>1. UNCHANGED <<cm, tail, dirty, next>> /\ scan = Nil
    BY <1>1, Zenon
    DEF Iterate, MayCall, Visit, Return, IterateDone, EndIterate, sweep, MatrixInv, Phase
  <2>2. /\ disableCompact' \in BOOLEAN
        /\ calling' \in BOOLEAN
    BY <1>1, Zenon
    DEF Iterate, Visit, Return, IterateDone, EndIterate, walk, MatrixInv, TypeOK
  <2>3. at' \in 0..Capacity /\ visited' \in Seq(Conns)
    <3>1. CASE Iterate
      BY <3>1 DEF Iterate, walk, MatrixInv, TypeOK
    <3>2. CASE Visit
      <4>1. at \in Slots /\ at + 1 \in 0..Capacity
        BY <3>2, SlotFacts DEF Visit, MatrixInv, TypeOK, Slots
      <4>2. cm.table[at] = Nil \/ cm.table[at] \in Conns
        BY <4>1 DEF MatrixInv, Sound, Matrix
      <4>3. QED
        BY <3>2, <4>1, <4>2, SMTT(40) DEF Visit, MatrixInv, TypeOK
    <3>3. CASE Return
      <4>1. CASE EndIterate
        BY <4>1, SlotFacts DEF EndIterate
      <4>2. CASE at' = at + 1 /\ UNCHANGED visited
        BY <3>3, <4>2, SlotFacts DEF Return, MatrixInv, TypeOK, Phase
      <4>3. QED
        BY <3>3, <4>1, <4>2, ZenonT(40) DEF Return
    <3>4. CASE IterateDone
      BY <3>4, SlotFacts DEF IterateDone, EndIterate
    <3>5. QED
      BY <1>1, <3>1, <3>2, <3>3, <3>4
  <2>4. (scan' = Nil /\ (dirty => disableCompact')) \/ (scan' = 0 /\ dirty /\ ~disableCompact')
    BY <1>1, <2>1
    DEF Iterate, Visit, Return, IterateDone, EndIterate, sweep, MatrixInv, Phase
  <2>5. calling' => disableCompact' /\ at' < Capacity
    BY <1>1, ZenonT(40) DEF Iterate, Visit, Return, IterateDone, EndIterate, walk, MatrixInv, Phase
  <2>6. next = 0
    BY <2>1 DEF MatrixInv, Phase
  <2>7. TypeOK'
    BY <2>1, <2>2, <2>3, <2>4, SlotFacts DEF MatrixInv, TypeOK
  <2>8. Phase' /\ Swept'
    BY <2>1, <2>4, <2>5, <2>6, SlotFacts, MatrixAssumption DEF Phase, Swept
  <2>9. QED
    BY <2>1, <2>7, <2>8, Zenon DEF MatrixInv, NothingOverwritten, DensePrefix
<1>2. CASE CompactDone
  <2>1. /\ scan = Capacity /\ scan # Nil /\ UNCHANGED <<cm, disableCompact, at, calling, visited>>
        /\ tail' = next /\ ~dirty' /\ dirty' \in BOOLEAN /\ scan' = Nil /\ next' = 0
        /\ ~disableCompact
    BY <1>2, SlotFacts, MatrixAssumption, Zenon DEF CompactDone, CompactEnds, walk, MatrixInv, Phase
  <2>2. \A s \in Slots : cm.table[s] # Nil <=> s < next
    BY <2>1, SlotFacts DEF MatrixInv, Swept, TypeOK
  <2>3. QED
    BY <2>1, <2>2, SlotFacts
    DEF MatrixInv, TypeOK, NothingOverwritten, DensePrefix, Phase, Swept
<1>3. CASE UNCHANGED vars
  BY <1>3
  DEF vars, walk, sweep, MatrixInv, TypeOK, NothingOverwritten, DensePrefix, Phase, Swept
<1>4. QED
  BY <1>1, <1>2, <1>3, AddStep, DeleteStep, CompactStep DEF Next

\* After any sequence of additions, deletions, iterations and compactions every
\* descriptor resolves to its own connection, below the cursor.
THEOREM MatrixKeepsConnections == Spec => []NothingOverwritten
<1>1. MatrixInv => NothingOverwritten
  BY DEF MatrixInv
<1>2. QED
  BY MatrixInit, MatrixStep, <1>1, PTL DEF Spec

\* Swapping in the last connection, and compact after an iteration, keep the live
\* slots a prefix of the matrix.
THEOREM MatrixIsDense == Spec => []DensePrefix
<1>1. MatrixInv => DensePrefix
  BY DEF MatrixInv
<1>2. QED
  BY MatrixInit, MatrixStep, <1>1, PTL DEF Spec

\* loadCount, the row counters and the release of empty rows follow the table.
THEOREM MatrixCounts == Spec => []CountersAgree
<1>1. MatrixInv => CountersAgree
  BY DEF MatrixInv, Sound, CountersAgree
<1>2. QED
  BY MatrixInit, MatrixStep, <1>1, PTL DEF Spec

-----------------------------------------------------------------------------
(* Refinement                                                              *)

\* addConn, delConn and move as seen through getConn.
LEMMA AddedLookup ==
  ASSUME NEW m, Sound(m), NEW c \in Conns, NEW slot \in Slots,
         m.table[slot] = Nil, m.fd2gfd[Fd[c]] = Nil, NEW fd \in Fds
  PROVE  Lookup(Added(m, c, slot), fd) = IF fd = Fd[c] THEN c ELSE Lookup(m, fd)
<1> DEFINE k == Added(m, c, slot)
<1>t. Typed(m)
  BY DEF Sound, Matrix, Typed
<1>a. Agree(m)
  BY SMTT(40) DEF Sound
<1>1. /\ k.table = [m.table EXCEPT ![slot] = c]
      /\ k.fd2gfd = [m.fd2gfd EXCEPT ![Fd[c]] = slot]
      /\ slot # Nil
  BY SlotFacts, SMTT(40) DEF Added
<1>2. CASE fd = Fd[c]
  BY <1>1, <1>2, <1>t, SMTT(40) DEF Lookup, Typed
<1>3. CASE fd # Fd[c]
  <2>1. k.fd2gfd[fd] = m.fd2gfd[fd]
    BY <1>1, <1>3, <1>t, SMTT(40) DEF Typed
  <2>2. m.fd2gfd[fd] # Nil => m.fd2gfd[fd] \in Slots /\ m.fd2gfd[fd] # slot
    BY <1>t, <1>a DEF Typed, Agree
  <2>3. QED
    BY <1>1, <1>3, <2>1, <2>2, <1>t, SMTT(40) DEF Lookup, Typed
<1>4. QED
  BY <1>2, <1>3

LEMMA RemovedLookup ==
  ASSUME NEW m, Sound(m), NEW c \in Conns, NEW slot \in Slots, m.table[slot] = c,
         NEW fd \in Fds
  PROVE  Lookup(Removed(m, c), fd) = IF fd = Fd[c] THEN Nil ELSE Lookup(m, fd)
<1> DEFINE k == Removed(m, c)
<1>t. Typed(m)
  BY DEF Sound, Matrix, Typed
<1>a. Agree(m)
  BY SMTT(40) DEF Sound
<1>1. m.gfd[c] = slot /\ m.fd2gfd[Fd[c]] = slot
  BY SlotFacts, <1>a, SMTT(40) DEF Agree
<1>2. /\ k.table = [m.table EXCEPT ![slot] = Nil]
      /\ k.fd2gfd = [m.fd2gfd EXCEPT ![Fd[c]] = Nil]
  BY <1>1, ZenonT(40) DEF Removed, Emptied
<1>3. CASE fd = Fd[c]
  BY <1>2, <1>3, <1>t, ZenonT(40) DEF Lookup, Typed
<1>4. CASE fd # Fd[c]
  <2>1. k.fd2gfd[fd] = m.fd2gfd[fd]
    BY <1>2, <1>4, <1>t, SMTT(40) DEF Typed
  <2>2. m.fd2gfd[fd] # Nil => m.fd2gfd[fd] \in Slots /\ m.fd2gfd[fd] # slot
    BY <1>4, <1>t, <1>a DEF Typed, Agree
  <2>3. QED
    BY <1>2, <1>4, <2>1, <2>2, <1>t, SMTT(40) DEF Lookup, Typed
<1>5. QED
  BY <1>3, <1>4

LEMMA MovedTotal ==
  ASSUME NEW m, Sound(m), NEW c, NEW to PROVE Moved(m, c, to).total = m.total
<1> DEFINE a == Added(m, c, to)
<1>t. Typed(m)
  BY SMTT(40) DEF Sound, Matrix, Typed
<1>1. m.total \in Int /\ a.total = m.total + 1
  BY <1>t DEF Added, Typed
<1>2. Moved(m, c, to) = Emptied(a, m.gfd[c])
  BY SMTT(40) DEF Moved
<1> HIDE DEF a
<1>3. Emptied(a, m.gfd[c]).total = a.total - 1
  BY SMTT(40) DEF Emptied
<1>4. QED
  BY <1>1, <1>2, <1>3

LEMMA MovedLookup ==
  ASSUME NEW m, Sound(m), NEW from \in Slots, NEW to \in Slots,
         m.table[from] # Nil, m.table[to] = Nil, NEW fd \in Fds
  PROVE  Lookup(Moved(m, m.table[from], to), fd) = Lookup(m, fd)
<1> DEFINE c == m.table[from]
           k == Moved(m, c, to)
<1>t. Typed(m)
  BY DEF Sound, Matrix, Typed
<1>a. Agree(m)
  BY SMTT(40) DEF Sound
<1>1. /\ c \in Conns /\ m.gfd[c] = from /\ m.fd2gfd[Fd[c]] = from
      /\ from # to /\ to # Nil /\ from # Nil /\ Fd[c] \in Fds
  BY SlotFacts, <1>t, <1>a, SMTT(40) DEF Typed, Agree
<1>2. /\ k.table = [[m.table EXCEPT ![to] = c] EXCEPT ![from] = Nil]
      /\ k.fd2gfd = [m.fd2gfd EXCEPT ![Fd[c]] = to]
  <2> DEFINE a == Added(m, c, to)
  <2>1. a.table = [m.table EXCEPT ![to] = c] /\ a.fd2gfd = [m.fd2gfd EXCEPT ![Fd[c]] = to]
    BY SMTT(40) DEF Added
  <2>2. k = Emptied(a, from)
    BY <1>1, SMTT(40) DEF Moved
  <2> HIDE DEF a, k
  <2>3. k.table = [a.table EXCEPT ![from] = Nil] /\ k.fd2gfd = a.fd2gfd
    BY <2>2, SMTT(40) DEF Emptied
  <2>4. QED
    BY <2>1, <2>3, SMTT(40)
<1> HIDE DEF k
<1>3. /\ k.table[to] = c
      /\ \A s \in Slots : s # from /\ s # to => k.table[s] = m.table[s]
  BY <1>1, <1>2, <1>t, SMTT(40) DEF Typed
<1>4. k.fd2gfd[Fd[c]] = to /\ \A f \in Fds : f # Fd[c] => k.fd2gfd[f] = m.fd2gfd[f]
  BY <1>1, <1>2, <1>t DEF Typed
<1>5. CASE fd = Fd[c]
  <2>1. Lookup(k, fd) = c
    BY <1>1, <1>3, <1>4, <1>5 DEF Lookup
  <2>2. Lookup(m, fd) = c
    BY <1>1, <1>5 DEF Lookup
  <2>3. QED
    BY <2>1, <2>2, SMTT(40) DEF k
<1>6. CASE fd # Fd[c]
  <2>1. k.fd2gfd[fd] = m.fd2gfd[fd]
    BY <1>4, <1>6, SMTT(40)
  <2>2. m.fd2gfd[fd] # Nil =>
          m.fd2gfd[fd] \in Slots /\ m.fd2gfd[fd] # from /\ m.fd2gfd[fd] # to
    BY <1>6, <1>t, <1>a DEF Typed, Agree
  <2>3. Lookup(k, fd) = Lookup(m, fd)
    BY <1>3, <2>1, <2>2 DEF Lookup
  <2>4. QED
    BY <2>3 DEF k
<1>7. QED
  BY <1>5, <1>6

\* The map before and after a step, from the lookups.
LEMMA MapLookups ==
  ASSUME Sound(cm), Sound(cm')
  PROVE  /\ [fd \in Fds |-> getConn(fd)] = [fd \in Fds |-> Lookup(cm, fd)]
         /\ [fd \in Fds |-> getConn(fd)]' = [fd \in Fds |-> Lookup(cm', fd)]
<1>1. \A fd \in Fds : getConn(fd) = Lookup(cm, fd)
  BY GetConnLooksUp
<1>2. \A fd \in Fds : getConn(fd)' = Lookup(cm', fd)
  <2>1. \A fd \in Fds : getConn(fd)' = Find(cm', fd)
    BY DEF getConn, Find
  <2>2. QED
    BY <2>1, FindLooksUp
<1>3. QED
  BY <1>1, <1>2

\* A step that keeps every lookup and the total is no step of the map.
LEMMA MapStutter ==
  ASSUME Sound(cm), Sound(cm'), cm'.total = cm.total,
         \A fd \in Fds : Lookup(cm', fd) = Lookup(cm, fd)
  PROVE  UNCHANGED Map!vars
  BY MapLookups DEF Map!vars

LEMMA AddRefines ==
  ASSUME MatrixInv, MatrixInv', NEW c \in Conns, addConn(c) PROVE Map!addConn(c)
<1>1. Sound(cm) /\ Sound(cm') /\ Fd[c] \in Fds
  BY SlotFacts DEF MatrixInv
<1>2. cm' = Added(cm, c, tail) /\ getConn(Fd[c]) = Nil
  BY DEF addConn
<1>3. PICK slot \in Slots : slot = tail /\ cm.table[slot] = Nil
  <2>1. tail \in Slots
    BY SlotFacts, SMTT(40) DEF addConn, MatrixInv, TypeOK, Slots
  <2>2. cm.table[tail] = Nil
    BY <2>1, SlotFacts DEF MatrixInv, NothingOverwritten
  <2>3. QED
    BY <2>1, <2>2
<1>4. cm.fd2gfd[Fd[c]] = Nil
  BY <1>1, <1>2, FreeDescriptor, SMTT(40)
<1>5. \A fd \in Fds : Lookup(cm', fd) = IF fd = Fd[c] THEN c ELSE Lookup(cm, fd)
  BY <1>1, <1>2, <1>3, <1>4, AddedLookup, SMTT(40)
<1>6. cm'.total = cm.total + 1
  BY <1>2, Zenon DEF Added
<1>7. [fd \in Fds |-> getConn(fd)]' = [[fd \in Fds |-> getConn(fd)] EXCEPT ![Fd[c]] = c]
  BY <1>1, <1>5, MapLookups, Zenon
<1>8. QED
  BY <1>1, <1>2, <1>6, <1>7 DEF Map!addConn

LEMMA DeleteRefines ==
  ASSUME MatrixInv, MatrixInv', NEW c \in Conns, delConn(c) PROVE Map!delConn(c)
<1> DEFINE m == Removed(cm, c)
<1>1. Sound(cm) /\ Sound(cm') /\ Fd[c] \in Fds /\ getConn(Fd[c]) = c
  BY SlotFacts DEF MatrixInv, delConn, Live
<1>2. PICK slot \in Slots : cm.table[slot] = c /\ c # Nil
  BY <1>1, LiveSlot, SlotFacts DEF delConn
<1>3. Sound(m) /\ m.table = [cm.table EXCEPT ![slot] = Nil] /\ m.total = cm.total - 1
  <2>1. Sound(m)
    BY <1>1, <1>2, RemovedSound, ZenonT(40)
  <2>2. m.table = [cm.table EXCEPT ![slot] = Nil]
    <3>1. cm.gfd[c] = slot
      BY <1>1, <1>2, SMTT(40) DEF Sound, Agree
    <3>2. QED
      BY <3>1, Zenon DEF Removed, Emptied
  <2>3. m.total = cm.total - 1
    BY Zenon DEF Removed, Emptied
  <2>4. QED
    BY <2>1, <2>2, <2>3, SMTT(40)
<1>4. cm.gfd[c] = slot /\ DOMAIN cm.table = Slots
  BY <1>1, <1>2, SMTT(40) DEF Sound, Agree, Matrix
<1>5. \A fd \in Fds : Lookup(m, fd) = IF fd = Fd[c] THEN Nil ELSE Lookup(cm, fd)
  BY <1>1, <1>2, RemovedLookup
<1>6. cm'.total = m.total /\ \A fd \in Fds : Lookup(cm', fd) = Lookup(m, fd)
  <2>1. CASE cm' = m
    BY <2>1
  <2>2. CASE cm' # m
    <3>1. ~disableCompact /\ ~dirty /\ tail - 1 # slot
      BY <1>4, <2>2 DEF delConn, LeaveHole, Refill, MayCall, MatrixInv, Phase
    <3>2. PICK last \in Slots : last = tail - 1 /\ cm.table[last] # Nil
      <4>1. slot < tail /\ tail \in Nat /\ tail <= Capacity
        BY <1>2, SlotFacts DEF MatrixInv, NothingOverwritten, TypeOK
      <4>2. tail - 1 \in Slots /\ tail - 1 < tail
        BY <1>2, <4>1, SlotFacts, SMTT(40) DEF Slots
      <4>3. QED
        BY <3>1, <4>2, SMTT(40) DEF MatrixInv, DensePrefix
    <3>3. cm' = Moved(m, m.table[last], slot)
      BY <1>4, <3>1, <3>2, SMTT(40) DEF delConn, Refill
    <3>4. m.table[last] # Nil /\ m.table[slot] = Nil
      BY <1>3, <1>4, <3>1, <3>2
    <3> HIDE DEF m
    <3>5. \A fd \in Fds : Lookup(cm', fd) = Lookup(m, fd)
      <4>1. ASSUME NEW fd \in Fds
            PROVE  Lookup(Moved(m, m.table[last], slot), fd) = Lookup(m, fd)
        <5>1. Sound(m)
          BY <1>3
        <5>2. QED
          BY <3>4, <5>1, MovedLookup
      <4>2. QED
        BY <3>3, <4>1
    <3>6. cm'.total = m.total
      BY <1>3, <3>3, MovedTotal, SMTT(40)
    <3>7. QED
      BY <3>5, <3>6, SMTT(40)
  <2>3. QED
    BY <2>1, <2>2
<1>7. [fd \in Fds |-> getConn(fd)]' = [[fd \in Fds |-> getConn(fd)] EXCEPT ![Fd[c]] = Nil]
  BY <1>1, <1>5, <1>6, MapLookups, ZenonT(40)
<1>8. QED
  BY <1>1, <1>3, <1>6, <1>7 DEF Map!delConn, Map!Live

LEMMA CompactRefines ==
  ASSUME MatrixInv, MatrixInv', CompactSlot PROVE UNCHANGED Map!vars
<1>1. Sound(cm) /\ Sound(cm')
  BY DEF MatrixInv
<1>2. CASE cm' = cm
  BY <1>1, <1>2, MapStutter
<1>3. CASE cm' # cm
  <2>1. PICK a \in Slots, b \in Slots :
          a = scan /\ b = next /\ cm.table[a] # Nil /\ cm.table[b] = Nil
    BY <1>3, SlotFacts DEF CompactSlot, MatrixInv, TypeOK, Swept, Slots
  <2>2. cm' = Moved(cm, cm.table[a], b)
    BY <1>3, <2>1 DEF CompactSlot
  <2>3. \A fd \in Fds : Lookup(cm', fd) = Lookup(cm, fd)
    BY <1>1, <2>1, <2>2, MovedLookup
  <2>4. cm'.total = cm.total
    BY <1>1, <2>2, MovedTotal
  <2>5. QED
    BY <1>1, <2>3, <2>4, MapStutter
<1>4. QED
  BY <1>2, <1>3

\* The matrix of the gc_opt build implements the map of the default build.
THEOREM MatrixImplementsMap == Spec => ImplementsConnMap
<1>1. Init => Map!Init
  BY DEF Init, Map!Init, getConn
<1>2. MatrixInv /\ MatrixInv' /\ [Next]_vars => [Map!Next]_(Map!vars)
  <2> SUFFICES ASSUME MatrixInv, MatrixInv', [Next]_vars PROVE [Map!Next]_(Map!vars)
    OBVIOUS
  <2>1. ASSUME NEW c \in Conns, addConn(c) \/ delConn(c) PROVE Map!Next
    BY <2>1, AddRefines, DeleteRefines DEF Map!Next
  <2>2. CASE Iterate \/ Visit \/ Return \/ IterateDone \/ CompactDone \/ UNCHANGED vars
    <3>1. cm' = cm /\ Sound(cm) /\ Sound(cm')
      BY <2>2
      DEF Iterate, Visit, Return, IterateDone, EndIterate, CompactDone, CompactEnds, vars, MatrixInv
    <3>2. QED
      BY <3>1, MapStutter, SMTT(40)
  <2>3. QED
    BY <2>1, <2>2, CompactRefines DEF Next
<1>3. QED
  BY MatrixInit, MatrixStep, <1>1, <1>2, PTL DEF Spec, ImplementsConnMap, Map!Spec

=============================================================================
