CONSTANTS
  s1 = s1
  s2 = s2
  h1 = h1
  h2 = h2
  u1 = u1
  NoSession = NoSession
  NoHandle = NoHandle
  NoRole = NoRole
  Sessions = {s1, s2}
  Handles = {h1, h2}
  Unknown = {u1}
  Ends = {"eof", "reset", "error"}
  Names = {249, 65470, 65528}
  Vocations = {1, 10}
  Others = {0}
  SendBufs = {"text", "zero"}
  MaxConn = 2
  MaxChunks = 1
  MaxSends = 3
SPECIFICATION SysSpec
INVARIANTS
  GameTypeOK
  RoleOfClient
  AnswersInOrder
  PackRight
PROPERTIES
  PlaysGame
CHECK_DEADLOCK FALSE
