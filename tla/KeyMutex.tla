------------------------------ MODULE KeyMutex ------------------------------
(***************************************************************************)
(* What URLLock promises to ServeHTTP: one lock per cache key.  A request  *)
(* asks for the lock of a key, is granted it when nobody owns that key,    *)
(* and gives it back.  How keys are spread over buckets, and when the      *)
(* mutex of a key is made, does not show here.                             *)
(***************************************************************************)

CONSTANTS
  Requests,  \* goroutines running ServeHTTP
  Keys,      \* cache keys
  None

VARIABLES
  want,      \* want[r]: the key r asked for and has not given back yet
  owner      \* owner[k]: the request that owns k

mutexVars == <<want, owner>>

MutexInit ==
  /\ want = [r \in Requests |-> None]
  /\ owner = [k \in Keys |-> None]

Ask(r, k) ==
  /\ want[r] = None
  /\ want' = [want EXCEPT ![r] = k]
  /\ UNCHANGED owner

Grant(r, k) ==
  /\ want[r] = k
  /\ owner[k] = None
  /\ owner' = [owner EXCEPT ![k] = r]
  /\ UNCHANGED want

Release(r, k) ==
  /\ want[r] = k
  /\ owner[k] = r
  /\ want' = [want EXCEPT ![r] = None]
  /\ owner' = [owner EXCEPT ![k] = None]

MutexNext ==
  \E r \in Requests, k \in Keys : Ask(r, k) \/ Grant(r, k) \/ Release(r, k)

MutexSpec == MutexInit /\ [][MutexNext]_mutexVars
=============================================================================
