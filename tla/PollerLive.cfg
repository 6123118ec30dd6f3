SPECIFICATION FairSpec
CONSTANTS
  p1 = p1
  p2 = p2
  el = el
  none = none
  Producers <- MCProducers
  Loop = el
  NoTask = none
  Quota <- MCQuotaOrder
  Threshold = 1
  MaxAsyncTasks = 1
  MaxEvents = 1
  EfdMax = 1
INVARIANTS
  HighPriorityFifo
PROPERTIES
  TasksSettle
  CloseCompletes
CHECK_DEADLOCK FALSE
