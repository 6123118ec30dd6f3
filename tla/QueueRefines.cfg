SPECIFICATION FairSpec
CONSTANTS
  e1 = e1
  e2 = e2
  d1 = d1
  d2 = d2
  nil = nil
  Enqueuers <- MCEnqueuers
  Dequeuers <- MCDequeuers
  MaxEnqueues = 2
  MaxDequeues = 1
  Nil = nil
INVARIANTS
  TypeOK
  ListShape
PROPERTIES
  ImplementsCountedQueue
  CallsReturn
CHECK_DEADLOCK FALSE
