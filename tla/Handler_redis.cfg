SPECIFICATION Spec
CONSTANTS
  None = None
  Peer = Peer
  Requests = {r1, r2}
  Names = {"A"}
  Values <- MCValues
  Sites <- RedisSite
  ProbePublic = TRUE
SYMMETRY Sym
INVARIANTS HitServed
CHECK_DEADLOCK FALSE
