SPECIFICATION Spec
CONSTANTS
  None = None
  AnyPath = AnyPath
  MaxGens = 4
  Configs <- MCConfigs
  Hosts = {"h1", "h2"}
  Paths = {"x", "y"}
  Keys <- MCKeys
  Hash <- MCHash
  p1 = p1
  p2 = p2
  Purges = {p1, p2}
  Cond <- MCCond
  Sites <- MCSites
INVARIANTS EntriesKept GroupServed Registered GlobalsInUse PurgesOwnKeys
CHECK_DEADLOCK FALSE
