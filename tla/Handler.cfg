SPECIFICATION Spec
CONSTANTS
  None = None
  Peer = Peer
  Requests = {r1, r2, r3}
  Names = {"A"}
  Values <- MCValues
  Sites <- MCSites
  ProbePublic = TRUE
SYMMETRY Sym
INVARIANTS TypeOK OwnBody VariantServed HitServed StaleUsed
CHECK_DEADLOCK FALSE
