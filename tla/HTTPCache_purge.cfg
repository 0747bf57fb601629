SPECIFICATION Spec
CONSTANTS
  None = None
  Entries = {e1, e2, e3}
  Deleters = {d1}
  Keys = {k1}
  Headers = {h1}
  Values = {v1, v2, v3}
  b1 = b1
  Buckets = {b1}
  BucketOf <- MCBucketOf
  MaxCap = 4
  isDistributed = FALSE
SYMMETRY MCSymmetry
INVARIANTS DelPurgesKey
CHECK_DEADLOCK FALSE
