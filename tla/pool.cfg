CONSTANTS
  w1 = w1
  w2 = w2
  p1 = p1
  p2 = p2
  x1 = x1
  x2 = x2
  x3 = x3
  NoConnction = NoConnction
  NoSql = NoSql
  Workers = {w1, w2}
  Connctions = {p1, p2}
  Sqls = {x1, x2, x3}
  ShutDownInit = {FALSE, TRUE}
  MaxTasks = 3
  MaxSpurious = 1
SPECIFICATION FairSpec
INVARIANTS
  TypeOK
  SqlExclusive
  RightDatabase
  ConnectionsBounded
  TakenInOrder
  WokenFindTasks
  WorkersLast
PROPERTIES
  KeepsPromise
  ConnectionComesBack
  CloseEndsIdlePool
CHECK_DEADLOCK FALSE
