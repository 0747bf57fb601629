SPECIFICATION FairSpec
CONSTANTS
  None = None
  Readers = {r1, r2}
  MaxWrites = 2
INVARIANTS TypeOK ServedWhole NoWriteAfterReturn PanicsOnlyWithoutBody
PROPERTIES HandlerReturnsAlone UpstreamEnds
CHECK_DEADLOCK FALSE
