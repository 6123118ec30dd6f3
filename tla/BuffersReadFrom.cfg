SPECIFICATION Spec
CHECK_DEADLOCK FALSE
CONSTANTS
  nil = nil
  junk = junk
  Kinds <- MCKinds
  maxStaticBytes = 3
  DefaultBufferSize = 2
  bufferGrowThreshold = 4
  MinRead = 2
  Alphabet = 6
  MaxHeld = 5
  MaxWrite = 3
  ShortReads = TRUE
  EndsWithBytes = FALSE
  Refusing = FALSE
  MaxUnread = 3
  MaxFlight = 1
  MaxCopies = 2
  Nil = nil
  Junk = junk
  minBitSize = 2
  steps = 3
INVARIANTS
  InOrder
