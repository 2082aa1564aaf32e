CONSTANTS
  s1 = s1
  h1 = h1
  NoSession = NoSession
  NoHandle = NoHandle
  Sessions = {s1}
  Handles = {h1}
  SendBufs = {"text"}
  MaxConn = 1
  MaxChunks = 1
  MaxSends = 1
  ClosePolicy = "any"
SPECIFICATION FairSpec
PROPERTIES
  CloseReturns
CHECK_DEADLOCK FALSE
