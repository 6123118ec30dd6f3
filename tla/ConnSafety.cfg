SPECIFICATION Spec
CONSTANTS
  Profiles <- MCAll
  Coalescing = TRUE
  BufferLen = 2
  HoldMax = 1
  SockCap = 2
  MaxBytes = 4
  MaxTasks = 1
INVARIANTS
  TypeOK
  ByteStream
  NothingStranded
  ClosedOnce
  NoSyscallAfterClose
CHECK_DEADLOCK FALSE
