SPECIFICATION Spec
CONSTANTS
  None = None
  n1 = n1
  n2 = n2
  Nodes = {n1, n2}
  Locals = {l1}
  MaxCap = 4
  BucketOf <- MCBucketOf
  Chars <- MCChars
  Keys <- MCKeys
  Entries <- MCEntries
  Sites <- MCSites
INVARIANTS BodiesIndexed PurgePropagates
CHECK_DEADLOCK FALSE
