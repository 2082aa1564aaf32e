CONSTANTS
  s1 = s1
  s2 = s2
  h1 = h1
  h2 = h2
  NoSession = NoSession
  NoHandle = NoHandle
  Sessions = {s1, s2}
  Handles = {h1, h2}
  SendBufs = {"null"}
  MaxConn = 2
  MaxChunks = 1
  MaxSends = 1
  ClosePolicy = "never"
SPECIFICATION Spec
SYMMETRY Symmetry
INVARIANTS
  OnlineIsOnline
CHECK_DEADLOCK FALSE
