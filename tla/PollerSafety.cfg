SPECIFICATION Spec
CONSTANTS
  p1 = p1
  p2 = p2
  el = el
  none = none
  Producers <- MCProducers
  Loop = el
  NoTask = none
  Quota <- MCQuotaEach
  Threshold = 1
  MaxAsyncTasks = 1
  MaxEvents = 1
  EfdMax = 1
INVARIANTS
  TypeOK
  WakeTokenExclusive
  NoLostWakeup
  LengthIsOffByInFlight
  ExactlyOnce
  NoUseAfterClose
CHECK_DEADLOCK FALSE
