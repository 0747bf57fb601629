SPECIFICATION StatusSpec
CONSTANTS
  Absent = Absent
  Zero = Zero
  Second = 2
  DefaultMaxAge = 3
  LockTimeout = 1
  Ages <- MCAges
  Dates <- MCDates
  Delays = {0, 1}
INVARIANTS PublicIffCachable StoredFresh LifetimeHonoured
CHECK_DEADLOCK FALSE
