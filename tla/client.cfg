CONSTANTS
  MaxSends = 3
SPECIFICATION FairSpec
INVARIANTS
  TypeOK
  OneDriver
  StatusTracksConnection
  SentInOrder
  LivesUntilClose
PROPERTIES
  Reconnects
  LossNoticed
  CloseReturnsOnceSeen
CHECK_DEADLOCK FALSE
