----------------------------- MODULE MCURLLock -----------------------------
(* Two keys of one bucket and one key of another; one mutex more than      *)
(* keys, so that a second mutex for a key could be made.                   *)
EXTENDS URLLock, TLC

CONSTANTS k3, b1, b2

MCBucketOf == [k \in Keys |-> IF k = k3 THEN b2 ELSE b1]
MCSymmetry == Permutations(Requests) \cup Permutations(Mutexes)
=============================================================================
