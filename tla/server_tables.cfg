CONSTANTS
  s1 = s1
  s2 = s2
  s3 = s3
  h1 = h1
  h2 = h2
  h3 = h3
  NoSession = NoSession
  NoHandle = NoHandle
  Sessions = {s1, s2, s3}
  Handles = {h1, h2, h3}
  SendBufs = {"text"}
  MaxConn = 3
  MaxChunks = 1
  MaxSends = 0
  ClosePolicy = "never"
SPECIFICATION Spec
SYMMETRY Symmetry
INVARIANTS
  TypeOK
  TablesAgree
  IdsAccounted
  OnlineIsOnline
PROPERTIES
  NoSilentTakeover
  IdsGrowOnlyWhenAllOnline
CHECK_DEADLOCK FALSE
