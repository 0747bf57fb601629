SPECIFICATION FairSpec
CONSTANTS
  None = None
  Entries = {e1, e2}
  Deleters = {d1}
  Keys = {k1}
  Headers = {h1}
  Values = {v1, v2}
  b1 = b1
  Buckets = {b1}
  BucketOf <- MCBucketOf
  MaxCap = 2
  isDistributed = TRUE
INVARIANTS SlotsDistinct WalkSafe CleanedOnce NothingLost GetNotOlder
PROPERTIES EventuallyCleaned
CHECK_DEADLOCK FALSE
