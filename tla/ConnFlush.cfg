SPECIFICATION Spec
CONSTANTS
  Profiles <- MCReadFrom
  Coalescing = TRUE
  BufferLen = 2
  HoldMax = 1
  SockCap = 2
  MaxBytes = 4
  MaxTasks = 1
INVARIANTS
  NothingStranded
CHECK_DEADLOCK FALSE
