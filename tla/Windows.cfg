SPECIFICATION FairSpec
CONSTANTS
  el1 = el1
  a1 = a1
  e1 = e1
  d1 = d1
  t1 = t1
  nil = nil
  absent = absent
  Scenarios <- MCScenarios
  Loops = {el1}
  Accepted = {a1}
  Enrolled = {e1}
  Datagrams = {d1}
  Tasks = {t1}
  QueueCap = 1
  MaxReads = 1
  Nil = nil
  Absent = absent
INVARIANTS
  TypeOK
  OpenedThenClosedOnce
  NothingLeftBehind
PROPERTIES
  ShutdownCompletes
  EnrolmentAnswered
CHECK_DEADLOCK FALSE
