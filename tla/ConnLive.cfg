SPECIFICATION FairSpec
CONSTANTS
  Profiles <- MCLive
  Coalescing = TRUE
  BufferLen = 2
  HoldMax = 1
  SockCap = 2
  MaxBytes = 3
  MaxTasks = 1
PROPERTIES
  Delivered
  CloseNoticed
CHECK_DEADLOCK FALSE
