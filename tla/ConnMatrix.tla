----------------------------- MODULE ConnMatrix -----------------------------
(***************************************************************************)
(* conn_matrix.go (build tag gc_opt): the connections of one event loop in  *)
(* a matrix with a dense prefix of live slots.  The slot (row, col) is the  *)
(* number row * ColumnMax + col, the order in which the code walks and      *)
(* fills the matrix.  A gfd is modelled by the slot it names.               *)
(*                                                                         *)
(* One goroutine, the event loop, changes the matrix.  Connections are      *)
(* added outside an iteration (register0); they are deleted at any time,    *)
(* also by the callback of iterate (closeConns closes every connection and  *)
(* OnClose may close others).                                              *)
(***************************************************************************)
EXTENDS Integers, Sequences, FiniteSets

CONSTANTS
  Conns,      \* connections
  Fds,        \* file descriptors
  Fd,         \* the descriptor of each connection
  RowMax,     \* gfd.ConnMatrixRowMax
  ColumnMax,  \* gfd.ConnMatrixColumnMax
  Nil         \* the nil pointer

ASSUME MatrixAssumption ==
  /\ Fd \in [Conns -> Fds]
  /\ RowMax \in Nat
  /\ ColumnMax \in Nat \ {0}
  /\ Nil \notin Conns
  /\ Nil \notin Nat

Capacity == RowMax * ColumnMax
Slots    == 0..(Capacity - 1)
Rows     == 0..(RowMax - 1)
RowOf(s) == s \div ColumnMax

VARIABLES
  cm,              \* the table and what is kept in step with it (see Matrix)
  tail,            \* the cursor (tailRow, tailCol): the next slot addConn fills
  disableCompact,  \* an iteration is under way
  dirty,           \* a deletion has left a hole behind
  at,              \* iterate: the slot being looked at
  calling,         \* iterate: the callback runs
  visited,         \* history: the connections given to the callback, in order
  scan,            \* compact: the slot being looked at, Nil outside compact
  next             \* compact: the next slot to fill

walk  == <<at, calling, visited>>
sweep == <<scan, next>>
vars == <<cm, tail, disableCompact, dirty, walk, sweep>>

Matrix ==
  [table      : [Slots -> Conns \cup {Nil}],  \* the connection in each slot
   allocated  : SUBSET Rows,                  \* the rows whose slice is allocated
   connCounts : [Rows -> Int],                \* the number of connections of each row
   total      : Int,                          \* the number of connections
   fd2gfd     : [Fds -> Slots \cup {Nil}],    \* the slot of each descriptor
   gfd        : [Conns -> Slots \cup {Nil}]]  \* c.gfd: the slot a connection believes it has

\* The goroutine is outside the methods, or inside the callback of iterate.
MayCall == scan = Nil /\ (disableCompact => calling)

\* The connection the matrix gives for a descriptor.
getConn(fd) ==
  IF cm.fd2gfd[fd] = Nil THEN Nil
  ELSE IF RowOf(cm.fd2gfd[fd]) \notin cm.allocated THEN Nil
  ELSE cm.table[cm.fd2gfd[fd]]

Live(c) == getConn(Fd[c]) = c

-----------------------------------------------------------------------------
(* addConn, move, delConn                                                  *)

\* Matrix m with c added at an empty slot.
Added(m, c, slot) ==
  [table      |-> [m.table EXCEPT ![slot] = c],
   allocated  |-> m.allocated \cup {RowOf(slot)},
   connCounts |-> [m.connCounts EXCEPT ![RowOf(slot)] = @ + 1],
   total      |-> m.total + 1,
   fd2gfd     |-> [m.fd2gfd EXCEPT ![Fd[c]] = slot],
   gfd        |-> [m.gfd EXCEPT ![c] = slot]]

\* Matrix m with an occupied slot emptied, and its row released if that was the last one.
Emptied(m, slot) ==
  LET counts == [m.connCounts EXCEPT ![RowOf(slot)] = @ - 1]
  IN  [table      |-> [m.table EXCEPT ![slot] = Nil],
       allocated  |-> IF counts[RowOf(slot)] = 0 THEN m.allocated \ {RowOf(slot)} ELSE m.allocated,
       connCounts |-> counts,
       total      |-> m.total - 1,
       fd2gfd     |-> m.fd2gfd,
       gfd        |-> m.gfd]

\* Matrix m without c.  The gfd of a deleted connection is not read again (close drops
\* the object), so it is cleared here.
Removed(m, c) ==
  LET e == Emptied(m, m.gfd[c])
  IN  [table      |-> e.table,
       allocated  |-> e.allocated,
       connCounts |-> e.connCounts,
       total      |-> e.total,
       fd2gfd     |-> [m.fd2gfd EXCEPT ![Fd[c]] = Nil],
       gfd        |-> [m.gfd EXCEPT ![c] = Nil]]

\* Mutant: a moved connection keeps the gfd of its old slot in the fd table.
MovedStale(m, c, to) == [Emptied(Added(m, c, to), m.gfd[c]) EXCEPT !.fd2gfd = m.fd2gfd]

\* Mutant: the row a connection moves away from is not counted down.
MovedMiscounted(m, c, to) ==
  [Emptied(Added(m, c, to), m.gfd[c]) EXCEPT !.connCounts = Added(m, c, to).connCounts]

\* move: connection c goes to the empty slot "to".
Moved(m, c, to) == Emptied(Added(m, c, to), m.gfd[c])

\* Mutant: a full matrix is not refused.
addConnUnchecked(c) ==
  /\ MayCall /\ ~disableCompact
  /\ getConn(Fd[c]) = Nil
  /\ cm' = Added(cm, c, tail)
  /\ tail' = tail + 1
  /\ UNCHANGED <<disableCompact, dirty, walk, sweep>>

\* ErrConnMatrixFull is returned, and nothing changes, when the cursor is at the end.
addConn(c) ==
  /\ MayCall /\ ~disableCompact
  /\ getConn(Fd[c]) = Nil
  /\ tail < Capacity
  /\ cm' = Added(cm, c, tail)
  /\ tail' = tail + 1
  /\ UNCHANGED <<disableCompact, dirty, walk, sweep>>

\* Deletion outside an iteration: the last connection fills the slot that became free,
\* unless it is the one deleted.
Refill(c) ==
  LET last == tail - 1
      m    == Removed(cm, c)
  IN  /\ cm' = IF last = cm.gfd[c] THEN m ELSE Moved(m, m.table[last], cm.gfd[c])
      /\ tail' = last
      /\ UNCHANGED dirty

\* Deletion by the callback of iterate: the hole stays until the iteration is over.
LeaveHole(c) ==
  /\ cm' = Removed(cm, c)
  /\ dirty' = TRUE
  /\ UNCHANGED tail

\* Mutant: moves are not deferred.
delConnMoves(c) ==
  /\ MayCall
  /\ Live(c)
  /\ Refill(c)
  /\ UNCHANGED <<disableCompact, walk, sweep>>

\* Mutant: the cursor is rewound onto the deleted slot.
delConnRewinds(c) ==
  /\ MayCall
  /\ Live(c)
  /\ IF disableCompact THEN LeaveHole(c)
     ELSE cm' = Removed(cm, c) /\ tail' = cm.gfd[c] /\ UNCHANGED dirty
  /\ UNCHANGED <<disableCompact, walk, sweep>>

delConn(c) ==
  /\ MayCall
  /\ Live(c)
  /\ IF disableCompact THEN LeaveHole(c) ELSE Refill(c)
  /\ UNCHANGED <<disableCompact, walk, sweep>>

-----------------------------------------------------------------------------
(* iterate and compact                                                     *)

Iterate ==
  /\ MayCall /\ ~disableCompact
  /\ disableCompact' = TRUE
  /\ UNCHANGED <<cm, tail, dirty, walk, sweep>>

\* The callback is called for a connection; an empty slot is passed over.
Visit ==
  /\ disableCompact /\ ~calling
  /\ at < Capacity
  /\ IF cm.table[at] = Nil
     THEN at' = at + 1 /\ UNCHANGED <<calling, visited>>
     ELSE calling' = TRUE /\ visited' = Append(visited, cm.table[at]) /\ UNCHANGED at
  /\ UNCHANGED <<cm, tail, disableCompact, dirty, sweep>>

\* The deferred function: compaction starts if a hole was left behind.
EndIterate ==
  /\ disableCompact' = FALSE
  /\ calling' = FALSE
  /\ at' = 0
  /\ visited' = <<>>
  /\ scan' = IF dirty THEN 0 ELSE Nil
  /\ UNCHANGED <<cm, tail, dirty, next>>

\* The callback returns true (go on) or false (stop).
Return ==
  /\ disableCompact /\ calling
  /\ \/ /\ at' = at + 1
        /\ calling' = FALSE
        /\ UNCHANGED <<cm, tail, disableCompact, dirty, visited, sweep>>
     \/ EndIterate

IterateDone ==
  /\ disableCompact /\ ~calling
  /\ at = Capacity
  /\ EndIterate

\* One slot of compact: a connection behind the dense prefix moves to its end.
CompactSlot ==
  /\ scan # Nil
  /\ scan < Capacity
  /\ cm' = IF cm.table[scan] = Nil \/ scan = next THEN cm ELSE Moved(cm, cm.table[scan], next)
  /\ next' = IF cm.table[scan] = Nil THEN next ELSE next + 1
  /\ scan' = scan + 1
  /\ UNCHANGED <<tail, disableCompact, dirty, walk>>

CompactEnds(newTail) ==
  /\ scan = Capacity
  /\ tail' = newTail
  /\ dirty' = FALSE
  /\ scan' = Nil
  /\ next' = 0
  /\ UNCHANGED <<cm, disableCompact, walk>>

\* Mutant: the cursor is left where it was.
CompactDoneKeepsTail == CompactEnds(tail)

CompactDone == CompactEnds(next)

-----------------------------------------------------------------------------

Init ==
  /\ cm = [table      |-> [s \in Slots |-> Nil],
           allocated  |-> {},
           connCounts |-> [r \in Rows |-> 0],
           total      |-> 0,
           fd2gfd     |-> [fd \in Fds |-> Nil],
           gfd        |-> [c \in Conns |-> Nil]]
  /\ tail = 0
  /\ disableCompact = FALSE
  /\ dirty = FALSE
  /\ at = 0
  /\ calling = FALSE
  /\ visited = <<>>
  /\ scan = Nil
  /\ next = 0

Next ==
  \/ \E c \in Conns : addConn(c) \/ delConn(c)
  \/ Iterate
  \/ Visit
  \/ Return
  \/ IterateDone
  \/ CompactSlot
  \/ CompactDone

Spec == Init /\ [][Next]_vars

-----------------------------------------------------------------------------
(* Properties                                                              *)

\* Type invariant of the matrix.
TypeOK ==
  /\ cm \in Matrix
  /\ tail \in 0..Capacity
  /\ disableCompact \in BOOLEAN
  /\ dirty \in BOOLEAN
  /\ at \in 0..Capacity
  /\ calling \in BOOLEAN
  /\ visited \in Seq(Conns)
  /\ scan \in (0..Capacity) \cup {Nil}
  /\ next \in 0..Capacity

\* The table, the gfd of each connection and the fd table name the same slots.
Agree(m) ==
  /\ \A s \in Slots : m.table[s] # Nil =>
       m.gfd[m.table[s]] = s /\ m.fd2gfd[Fd[m.table[s]]] = s
  /\ \A fd \in Fds : m.fd2gfd[fd] # Nil =>
       m.table[m.fd2gfd[fd]] # Nil /\ Fd[m.table[m.fd2gfd[fd]]] = fd

\* Every connection sits below the cursor, in the slot that its own gfd and the fd
\* table name: the next addConn overwrites nobody, and no descriptor resolves to
\* somebody else's connection, after any order of additions, deletions and compactions.
NothingOverwritten ==
  /\ Agree(cm)
  /\ \A s \in Slots : cm.table[s] # Nil => s < tail

\* Without a deletion pending compaction the live slots are exactly those below the
\* cursor, so a deletion finds a connection to move and no capacity is lost.
DensePrefix == ~dirty => \A s \in Slots : cm.table[s] # Nil <=> s < tail

LiveIn(m, S) == {s \in S : m.table[s] # Nil}
InRow(r) == {s \in Slots : RowOf(s) = r}

\* The per-row and total counters count the table, and a row is allocated exactly
\* while it holds a connection: getConn never looks into a released row.
CountersOf(m) ==
  /\ m.total = Cardinality(LiveIn(m, Slots))
  /\ \A r \in Rows :
       /\ m.connCounts[r] = Cardinality(LiveIn(m, InRow(r)))
       /\ r \in m.allocated <=> m.connCounts[r] > 0
CountersAgree == CountersOf(cm)

\* iterate hands every connection to the callback once, whatever the callback deletes
\* ("callbacks cannot skip connections by deleting them").
IterateVisitsAll ==
  /\ \A i, j \in DOMAIN visited : visited[i] = visited[j] => i = j
  /\ disableCompact /\ at = Capacity =>
       \A c \in Conns : Live(c) => \E i \in DOMAIN visited : visited[i] = c

\* The matrix implements the map of the default build: getConn and loadCount cannot
\* tell the two apart, also between two steps of a compaction.
Map == INSTANCE ConnMap WITH
  connMap   <- [fd \in Fds |-> getConn(fd)],
  connCount <- cm.total
ImplementsConnMap == Map!Spec

=============================================================================
