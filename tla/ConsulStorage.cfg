SPECIFICATION FairSpec
CONSTANTS
  None = None
  Dead = Dead
  s1 = s1
  s2 = s2
  a = a
  b = b
  c = c
  Storages = {s1, s2}
  Callers = {a, b, c}
  StorageOf <- MCStorageOf
  Names = {n1}
INVARIANTS Exclusion HeldIsKnown StoreKept
PROPERTIES StoredOnce LockGranted
