SPECIFICATION FairSpec
CONSTANTS
  k3 = k3  b1 = b1  b2 = b2
  None = None
  Requests = {r1, r2, r3}
  Keys = {k1, k2, k3}
  Mutexes = {m1, m2, m3}
  Buckets = {b1, b2}
  BucketOf <- MCBucketOf
INVARIANTS OneRequestPerKey WaitsOnlyForServing
PROPERTIES ImplementsKeyMutex AcquireReturns
