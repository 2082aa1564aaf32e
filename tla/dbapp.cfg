CONSTANTS
  w1 = w1
  w2 = w2
  p1 = p1
  p2 = p2
  p3 = p3
  p4 = p4
  x1 = x1
  x2 = x2
  x3 = x3
  x4 = x4
  NoConnction = NoConnction
  NoSql = NoSql
  Workers = {w1, w2}
  Connctions = {p1, p2, p3, p4}
  Sqls = {x1, x2, x3, x4}
  ShutDownInit = {FALSE}
  MaxTasks = 4
  MaxSpurious = 1
  Users = {u1, u2}
  One = u1
  u1 = u1
  u2 = u2
SPECIFICATION AppSpec
SYMMETRY Symmetry
INVARIANTS
  AppTypeOK
  OpenSqlsBounded
  NeverPooled
PROPERTIES
  KeepsPromise
CHECK_DEADLOCK FALSE
