---------------------------- MODULE MCHTTPCache ----------------------------
EXTENDS HTTPCache, TLC

CONSTANTS b1

(* One bucket: its lock is shared by all keys. *)
MCBucketOf == [k \in Keys |-> b1]
MCSymmetry == Permutations(Entries) \cup Permutations(Values)
=============================================================================
