CONSTANTS
  c1 = c1
  c2 = c2
  c3 = c3
  c4 = c4
  c5 = c5
  c6 = c6
  f1 = f1
  f2 = f2
  f3 = f3
  f4 = f4
  f5 = f5
  Nil = Nil
  Conns <- MCConns
  Fds <- MCFds
  Fd <- MCFd
  RowMax = 2
  ColumnMax = 2
SPECIFICATION Spec
INVARIANTS
  TypeOK
  NothingOverwritten
  DensePrefix
  CountersAgree
  IterateVisitsAll
PROPERTIES
  ImplementsConnMap
