-------------------------------- MODULE Gfd --------------------------------
(***************************************************************************)
(* internal/gfd: the packed identity of a connection, and what the indexes *)
(* it is made from are allowed to be.  The setters truncate to the width   *)
(* of a field without a check, so a row, a column or a loop beyond it      *)
(* would be taken for another one.  Module ConnMatrix uses the pair (row,  *)
(* column) itself; the theorems of module GfdProofs are why it may.        *)
(***************************************************************************)
EXTENDS Integers

EventLoopIndexMax == 256
ConnMatrixRowMax == 256
ConnMatrixColumnMax == 65536
\* The values of a uint32: 2^16 * 2^16.
SequenceMax == ConnMatrixColumnMax * ConnMatrixColumnMax

\* byte(n), and the two bytes of a big-endian uint16.
byte(n) == n % 256
PutUint16(n) == [hi |-> (n \div 256) % 256, lo |-> n % 256]
Uint16(b) == b.hi * 256 + b.lo

\* atomic.AddUint32(seq, 1)
Inc(seq) == (seq + 1) % SequenceMax

NewGFDWithSeq(fd, elIndex, row, column, seq) ==
  [el |-> byte(elIndex), row |-> byte(row), column |-> PutUint16(column), seq |-> Inc(seq), fd |-> fd]

Fd(gfd) == gfd.fd
EventLoopIndex(gfd) == gfd.el
ConnMatrixRow(gfd) == gfd.row
ConnMatrixColumn(gfd) == Uint16(gfd.column)
Sequence(gfd) == gfd.seq

UpdateIndexes(gfd, row, column) ==
  [el |-> gfd.el, row |-> byte(row), column |-> PutUint16(column), seq |-> gfd.seq, fd |-> gfd.fd]

Validate(gfd) ==
  /\ Fd(gfd) > 2
  /\ EventLoopIndex(gfd) \in 0 .. (EventLoopIndexMax - 1)
  /\ ConnMatrixRow(gfd) \in 0 .. (ConnMatrixRowMax - 1)
  /\ ConnMatrixColumn(gfd) \in 0 .. (ConnMatrixColumnMax - 1)
  /\ Sequence(gfd) > 0

\* The number of event loops; num is Options.NumEventLoop.
determineEventLoops(multicore, cpus, num) ==
  LET n == IF num > 0 THEN num ELSE IF multicore THEN cpus ELSE 1
  IN  IF n > EventLoopIndexMax THEN EventLoopIndexMax ELSE n
=============================================================================
