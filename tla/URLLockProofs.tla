--------------------------- MODULE URLLockProofs ---------------------------
(***************************************************************************)
(* For any requests, keys, mutexes and buckets: url_lock.go excludes two   *)
(* requests of one key, its waiters wait only for requests that are past   *)
(* Acquire, and it implements KeyMutex.                                    *)
(***************************************************************************)
EXTENDS URLLock, TLAPS

IndInv == TypeOK /\ LockDiscipline

USE DEF Goto, getBucketIndexForKey

(* Before the first request no lock is held and no key has a mutex.        *)
LEMMA InitInd == Init => IndInv
  BY NoneAssumption, BucketAssumption
  DEF Init, IndInv, TypeOK, LockDiscipline, BucketDiscipline, MutexOfKey,
      OwnMutexPerKey, MutexDiscipline, PCs, InBucket, HasMutex, Owning

(* A step of Acquire or Unlock keeps the types; that LockKey finds a mutex *)
(* to lock follows from the discipline.                                    *)
LEMMA NextType == TypeOK /\ LockDiscipline /\ [Next]_vars => TypeOK'
<1> USE NoneAssumption, BucketAssumption DEF TypeOK, PCs, HasMutex
<1> SUFFICES ASSUME TypeOK, LockDiscipline, [Next]_vars PROVE TypeOK'
  OBVIOUS
<1>1. ASSUME NEW r \in Requests, NEW k \in Keys, Call(r, k) PROVE TypeOK'
  BY <1>1 DEF Call
<1>2. ASSUME NEW r \in Requests, LockBucket(r) PROVE TypeOK'
  BY <1>2 DEF LockBucket
<1>3. ASSUME NEW r \in Requests, Lookup(r) PROVE TypeOK'
  BY <1>3 DEF Lookup, LookupFound, LookupMissing
<1>4. ASSUME NEW r \in Requests, Create(r) PROVE TypeOK'
  BY <1>4 DEF Create
<1>5. ASSUME NEW r \in Requests, LockKey(r) PROVE TypeOK'
  BY <1>5 DEF LockKey
<1>6. ASSUME NEW r \in Requests, LeaveBucket(r) PROVE TypeOK'
  BY <1>6 DEF LeaveBucket
<1>7. ASSUME NEW r \in Requests, Unlock(r) PROVE TypeOK'
  BY <1>7 DEF Unlock
<1>8. CASE UNCHANGED vars
  BY <1>8 DEF vars
<1>. QED BY <1>1, <1>2, <1>3, <1>4, <1>5, <1>6, <1>7, <1>8 DEF Next

(* A step keeps who holds which bucket and which mutex, and which mutex    *)
(* belongs to which key.                                                   *)
LEMMA NextDiscipline ==
  TypeOK /\ LockDiscipline /\ [Next]_vars => LockDiscipline'
<1> USE NoneAssumption, BucketAssumption
    DEF TypeOK, LockDiscipline, PCs, InBucket, HasMutex, Owning
<1> SUFFICES ASSUME TypeOK, LockDiscipline, [Next]_vars PROVE LockDiscipline'
  OBVIOUS
<1> USE DEF BucketDiscipline, MutexOfKey, OwnMutexPerKey, MutexDiscipline
<1>1. ASSUME NEW r \in Requests, NEW k \in Keys, Call(r, k) PROVE LockDiscipline'
  BY <1>1 DEF Call
<1>2. ASSUME NEW r \in Requests, LockBucket(r) PROVE LockDiscipline'
  BY <1>2 DEF LockBucket
<1>3. ASSUME NEW r \in Requests, Lookup(r) PROVE LockDiscipline'
  BY <1>3 DEF Lookup, LookupFound, LookupMissing
<1>4. ASSUME NEW r \in Requests, Create(r) PROVE LockDiscipline'
  BY <1>4 DEF Create
<1>5. ASSUME NEW r \in Requests, LockKey(r) PROVE LockDiscipline'
  BY <1>5 DEF LockKey
<1>6. ASSUME NEW r \in Requests, LeaveBucket(r) PROVE LockDiscipline'
  BY <1>6 DEF LeaveBucket
<1>7. ASSUME NEW r \in Requests, Unlock(r) PROVE LockDiscipline'
  BY <1>7 DEF Unlock
<1>8. CASE UNCHANGED vars
  BY <1>8 DEF vars
<1>. QED BY <1>1, <1>2, <1>3, <1>4, <1>5, <1>6, <1>7, <1>8 DEF Next

(* The inductive invariant holds of every behaviour of url_lock.go.        *)
LEMMA Invariance == Spec => []IndInv
<1>1. IndInv /\ [Next]_vars => IndInv'
  BY NextType, NextDiscipline DEF IndInv
<1>. QED BY InitInd, <1>1, PTL DEF Spec

(* Every state of Acquire is well formed: it never works on a nil mutex.   *)
THEOREM TypeCorrect == Spec => []TypeOK
  BY Invariance, PTL DEF IndInv

(* Each lock of Acquire is held exactly where the code holds it, and a     *)
(* key has one mutex that is its own.                                      *)
THEOREM Discipline == Spec => []LockDiscipline
  BY Invariance, PTL DEF IndInv

(* Acquire excludes: at most one request per cache key is past it.         *)
THEOREM Exclusion == Spec => []OneRequestPerKey
<1>1. IndInv => OneRequestPerKey
  BY NoneAssumption
  DEF IndInv, TypeOK, LockDiscipline, MutexOfKey, MutexDiscipline,
      OneRequestPerKey, PCs, HasMutex, Owning
<1>. QED BY Invariance, <1>1, PTL

(* Acquire waits, bucket in hand, only for a request that is past Acquire  *)
(* and holds no bucket: no cycle of waiting requests can form.             *)
THEOREM NoCircularWait == Spec => []WaitsOnlyForServing
<1>1. IndInv => WaitsOnlyForServing
  <2> SUFFICES ASSUME IndInv, NEW r \in Requests, NEW s \in Requests,
                      pc[r] = "key", heldBy[lock[r]] = s
               PROVE  pc[s] = "serving"
    BY DEF WaitsOnlyForServing
  <2> USE NoneAssumption, BucketAssumption DEF IndInv, TypeOK, LockDiscipline
  <2>1. pc[s] \in Owning /\ lock[s] = lock[r]
    BY DEF MutexDiscipline, HasMutex, Owning
  <2>2. key[s] = key[r]
    BY <2>1 DEF MutexOfKey, OwnMutexPerKey, HasMutex, Owning
  <2>3. pc[s] # "leave"
    BY <2>2 DEF BucketDiscipline, InBucket
  <2>. QED BY <2>1, <2>3 DEF Owning
<1>. QED BY Invariance, <1>1, PTL

(* No key has an owner at the start.                                       *)
LEMMA InitRefines == Init => Abstract!MutexInit
  BY DEF Init, Abstract!MutexInit, ownerMap

(* Only the steps that lock and unlock the mutex of a key change its       *)
(* owner; every other step of Acquire leaves the owners alone.             *)
LEMMA NextRefines ==
  IndInv /\ [Next]_vars => [Abstract!MutexNext]_(Abstract!mutexVars)
<1> USE NoneAssumption, BucketAssumption
    DEF IndInv, TypeOK, LockDiscipline, PCs, HasMutex, Owning, ownerMap
<1> SUFFICES ASSUME IndInv, [Next]_vars
             PROVE  Abstract!MutexNext \/ UNCHANGED <<key, ownerMap>>
  BY DEF Abstract!mutexVars
<1>1. ASSUME NEW r \in Requests, NEW k \in Keys, Call(r, k)
      PROVE  Abstract!Ask(r, k)
  BY <1>1 DEF Call, Abstract!Ask
<1>2. ASSUME NEW r \in Requests, LockBucket(r) \/ Lookup(r) \/ LeaveBucket(r)
      PROVE  UNCHANGED <<key, ownerMap>>
  BY <1>2 DEF LockBucket, Lookup, LookupFound, LookupMissing, LeaveBucket
<1>3. ASSUME NEW r \in Requests, Create(r)
      PROVE  UNCHANGED <<key, ownerMap>>
  <2>1. PICK m \in Mutexes :
          /\ \A s \in Requests : lock[s] # m
          /\ keys' = [keys EXCEPT ![key[r]] = m]
          /\ UNCHANGED <<key, heldBy>>
    BY <1>3 DEF Create
  <2>2. heldBy[m] = None
    BY <2>1 DEF MutexDiscipline
  <2>3. keys[key[r]] = None
    BY <1>3 DEF Create, MutexOfKey
  <2>. QED BY <2>1, <2>2, <2>3
<1>4. ASSUME NEW r \in Requests, LockKey(r)
      PROVE  Abstract!Grant(r, key[r])
  <2>1. key[r] \in Keys /\ lock[r] \in Mutexes /\ lock[r] = keys[key[r]]
    BY <1>4 DEF LockKey, MutexOfKey
  <2>2. \A k \in Keys : k # key[r] => keys[k] # lock[r]
    BY <2>1 DEF OwnMutexPerKey
  <2>3. ownerMap[key[r]] = None
    BY <1>4, <2>1 DEF LockKey
  <2>4. heldBy' = [heldBy EXCEPT ![lock[r]] = r] /\ UNCHANGED <<key, keys>>
    BY <1>4 DEF LockKey
  <2>5. ownerMap' = [ownerMap EXCEPT ![key[r]] = r]
    BY <2>1, <2>2, <2>4
  <2>. QED BY <2>3, <2>4, <2>5 DEF Abstract!Grant
<1>5. ASSUME NEW r \in Requests, Unlock(r)
      PROVE  Abstract!Release(r, key[r])
  <2>1. key[r] \in Keys /\ lock[r] \in Mutexes /\ lock[r] = keys[key[r]]
    BY <1>5 DEF Unlock, MutexOfKey
  <2>2. \A k \in Keys : k # key[r] => keys[k] # lock[r]
    BY <2>1 DEF OwnMutexPerKey
  <2>3. heldBy[lock[r]] = r
    BY <1>5, <2>1 DEF Unlock, MutexDiscipline
  <2>. QED BY <1>5, <2>1, <2>2, <2>3 DEF Unlock, Abstract!Release
<1>6. ASSUME NEW r \in Requests, LockKey(r) \/ Unlock(r)
      PROVE  Abstract!MutexNext
  <2>1. key[r] \in Keys
    BY <1>6 DEF LockKey, Unlock
  <2>2. Abstract!Grant(r, key[r]) \/ Abstract!Release(r, key[r])
    BY <1>4, <1>5, <1>6
  <2> HIDE DEF IndInv, ownerMap
  <2>. QED BY <2>1, <2>2 DEF Abstract!MutexNext
<1>7. ASSUME NEW r \in Requests, NEW k \in Keys, Call(r, k)
      PROVE  Abstract!MutexNext
  BY <1>1, <1>7 DEF Abstract!MutexNext
<1>8. CASE UNCHANGED vars
  BY <1>8 DEF vars
<1> HIDE DEF ownerMap, IndInv
<1>. QED BY <1>2, <1>3, <1>6, <1>7, <1>8 DEF Next

(* url_lock.go implements one mutex per key: the buckets and the lazily    *)
(* made mutexes do not show to ServeHTTP.                                  *)
THEOREM Refinement == Spec => ImplementsKeyMutex
  BY Invariance, InitRefines, NextRefines, PTL
  DEF Spec, ImplementsKeyMutex, Abstract!MutexSpec
=============================================================================
