CONSTANTS
  MaxSends = 1
SPECIFICATION FairSpec
PROPERTIES
  CloseReturns
CHECK_DEADLOCK FALSE
