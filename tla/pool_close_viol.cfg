CONSTANTS
  w1 = w1
  w2 = w2
  p1 = p1
  x1 = x1
  x2 = x2
  NoConnction = NoConnction
  NoSql = NoSql
  Workers = {w1, w2}
  Connctions = {p1}
  Sqls = {x1, x2}
  ShutDownInit = {FALSE}
  MaxTasks = 1
  MaxSpurious = 0
SPECIFICATION FairSpec
PROPERTIES
  CloseEndsPool
CHECK_DEADLOCK FALSE
