CONSTANTS
  s1 = s1
  s2 = s2
  h1 = h1
  NoSession = NoSession
  NoHandle = NoHandle
  Sessions = {s1, s2}
  Handles = {h1}
  SendBufs = {"text", "zero"}
  MaxConn = 2
  MaxChunks = 2
  MaxSends = 2
  ClosePolicy = "running"
SPECIFICATION FairSpec
PROPERTIES
  HeardInOrder
  KeepsPromise
  DisconnectReported
  SendsHandled
  CloseReturns
CHECK_DEADLOCK FALSE
