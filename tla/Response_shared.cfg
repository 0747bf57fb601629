SPECIFICATION FairSpec
CONSTANTS
  None = None
  Readers = {r1}
  MaxWrites = 2
PROPERTIES HandlerReturns
CHECK_DEADLOCK FALSE
