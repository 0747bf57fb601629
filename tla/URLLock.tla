------------------------------ MODULE URLLock ------------------------------
(***************************************************************************)
(* url_lock.go.  Acquire(key) takes the global mutex of the key's bucket,  *)
(* looks the key's own mutex up (making it when it is not there yet),      *)
(* locks that mutex while still holding the bucket, and leaves the bucket  *)
(* on return.  ServeHTTP keeps the key's mutex until it returns            *)
(* (handler.go, the deferred lock.Unlock).  A key's mutex is never removed *)
(* from the map.                                                           *)
(***************************************************************************)
EXTENDS Naturals

CONSTANTS
  Requests,  \* goroutines running ServeHTTP
  Keys,      \* cache keys
  Mutexes,   \* the *sync.Mutex objects new() can return
  Buckets,   \* 0 .. urlLockBucketsSize - 1
  BucketOf,  \* checksum of the key modulo the number of buckets
  None

ASSUME NoneAssumption == None \notin Requests \cup Keys \cup Mutexes
ASSUME BucketAssumption == BucketOf \in [Keys -> Buckets]

VARIABLES
  pc,          \* where each request is in Acquire
  key,         \* Acquire's argument
  lock,        \* Acquire's local variable, and its result
  globalLocks, \* globalLocks[b]: the request holding bucket b's mutex
  keys,        \* keys[k]: the mutex the map of k's bucket holds for k
  heldBy       \* heldBy[m]: the request that has locked mutex m

vars == <<pc, key, lock, globalLocks, keys, heldBy>>

(* Program counter values.  "idle": not in ServeHTTP's locked part;        *)
(* "bucket": at globalLocks[b].Lock(); "lookup": at the map access;        *)
(* "create": the key was missing; "key": at lock.Lock(); "leave": at the   *)
(* deferred Unlock of the bucket; "serving": Acquire has returned.         *)
PCs == {"idle", "bucket", "lookup", "create", "key", "leave", "serving"}
InBucket == {"lookup", "create", "key", "leave"}
HasMutex == {"key", "leave", "serving"}
Owning == {"leave", "serving"}

getBucketIndexForKey(k) == BucketOf[k]

Init ==
  /\ pc = [r \in Requests |-> "idle"]
  /\ key = [r \in Requests |-> None]
  /\ lock = [r \in Requests |-> None]
  /\ globalLocks = [b \in Buckets |-> None]
  /\ keys = [k \in Keys |-> None]
  /\ heldBy = [m \in Mutexes |-> None]

Goto(r, from, to) ==
  /\ pc[r] = from
  /\ pc' = [pc EXCEPT ![r] = to]

(* ServeHTTP calls Acquire(k). *)
Call(r, k) ==
  /\ Goto(r, "idle", "bucket")
  /\ key' = [key EXCEPT ![r] = k]
  /\ UNCHANGED <<lock, globalLocks, keys, heldBy>>

(* Mutant: the key is looked up without its bucket being taken. *)
NoBucketLock(r) ==
  /\ Goto(r, "bucket", "lookup")
  /\ UNCHANGED <<key, lock, globalLocks, keys, heldBy>>

LockBucket(r) ==
  LET b == getBucketIndexForKey(key[r]) IN
  /\ Goto(r, "bucket", "lookup")
  /\ globalLocks[b] = None
  /\ globalLocks' = [globalLocks EXCEPT ![b] = r]
  /\ UNCHANGED <<key, lock, keys, heldBy>>

(* lock, exists := keys[b][key] *)
LookupFound(r) ==
  /\ Goto(r, "lookup", "key")
  /\ keys[key[r]] # None
  /\ lock' = [lock EXCEPT ![r] = keys[key[r]]]
  /\ UNCHANGED <<key, globalLocks, keys, heldBy>>

LookupMissing(r) ==
  /\ Goto(r, "lookup", "create")
  /\ keys[key[r]] = None
  /\ UNCHANGED <<key, lock, globalLocks, keys, heldBy>>

(* lock = new(sync.Mutex); keys[b][key] = lock.  new returns an object     *)
(* nobody refers to.                                                       *)
Create(r) ==
  \E m \in Mutexes :
    /\ \A k \in Keys : keys[k] # m
    /\ \A s \in Requests : lock[s] # m
    /\ Goto(r, "create", "key")
    /\ lock' = [lock EXCEPT ![r] = m]
    /\ keys' = [keys EXCEPT ![key[r]] = m]
    /\ UNCHANGED <<key, globalLocks, heldBy>>

(* Mutant: lock.TryLock() with its result ignored. *)
LockKeyAnyway(r) ==
  /\ Goto(r, "key", "leave")
  /\ heldBy' = [heldBy EXCEPT ![lock[r]] = r]
  /\ UNCHANGED <<key, lock, globalLocks, keys>>

LockKey(r) ==
  /\ Goto(r, "key", "leave")
  /\ heldBy[lock[r]] = None
  /\ heldBy' = [heldBy EXCEPT ![lock[r]] = r]
  /\ UNCHANGED <<key, lock, globalLocks, keys>>

(* Mutant: an early return that skips the deferred Unlock of the bucket. *)
KeepBucket(r) ==
  /\ Goto(r, "leave", "serving")
  /\ UNCHANGED <<key, lock, globalLocks, keys, heldBy>>

LeaveBucket(r) ==
  /\ Goto(r, "leave", "serving")
  /\ globalLocks' = [globalLocks EXCEPT ![getBucketIndexForKey(key[r])] = None]
  /\ UNCHANGED <<key, lock, keys, heldBy>>

(* ServeHTTP's deferred lock.Unlock(): it needs no bucket. *)
Unlock(r) ==
  /\ Goto(r, "serving", "idle")
  /\ heldBy' = [heldBy EXCEPT ![lock[r]] = None]
  /\ key' = [key EXCEPT ![r] = None]
  /\ lock' = [lock EXCEPT ![r] = None]
  /\ UNCHANGED <<globalLocks, keys>>

Lookup(r) == LookupFound(r) \/ LookupMissing(r)

Next ==
  \E r \in Requests :
    \/ \E k \in Keys : Call(r, k)
    \/ LockBucket(r)
    \/ Lookup(r)
    \/ Create(r)
    \/ LockKey(r)
    \/ LeaveBucket(r)
    \/ Unlock(r)

Spec == Init /\ [][Next]_vars

(* A goroutine that can run is scheduled, and a request that has the lock  *)
(* finishes.  sync.Mutex hands itself to its longest waiter once that one  *)
(* has waited 1 ms (starvation mode), so waiting for it is strongly fair.  *)
Fairness ==
  \A r \in Requests :
    /\ SF_vars(LockBucket(r)) /\ SF_vars(LockKey(r))
    /\ WF_vars(Lookup(r) \/ Create(r) \/ LeaveBucket(r) \/ Unlock(r))

FairSpec == Spec /\ Fairness

-----------------------------------------------------------------------------
(* Types, and that Acquire never goes on with a nil mutex. *)
TypeOK ==
  /\ pc \in [Requests -> PCs]
  /\ key \in [Requests -> Keys \cup {None}]
  /\ lock \in [Requests -> Mutexes \cup {None}]
  /\ \A r \in Requests : key[r] = None <=> pc[r] = "idle"
  /\ \A r \in Requests : lock[r] = None <=> pc[r] \notin HasMutex
  /\ globalLocks \in [Buckets -> Requests \cup {None}]
  /\ keys \in [Keys -> Mutexes \cup {None}]
  /\ heldBy \in [Mutexes -> Requests \cup {None}]

(* Acquire's purpose: never two requests of one cache key past Acquire,    *)
(* also when both arrive before the key has a mutex (url_lock.go, Acquire).*)
OneRequestPerKey ==
  \A r, s \in Requests :
    (pc[r] \in Owning /\ pc[s] \in Owning /\ key[r] = key[s]) => r = s

(* Why Acquire, which waits for a key while it holds a bucket, cannot      *)
(* deadlock: the request it waits for has already left every bucket, so    *)
(* nothing that request still does needs a lock of this module.            *)
WaitsOnlyForServing ==
  \A r, s \in Requests :
    (pc[r] = "key" /\ heldBy[lock[r]] = s) => pc[s] = "serving"

(* The inductive invariant behind the two invariants above.                *)
BucketDiscipline ==
  \A r \in Requests, b \in Buckets :
    globalLocks[b] = r <=> pc[r] \in InBucket /\ getBucketIndexForKey(key[r]) = b

MutexOfKey ==
  \A r \in Requests :
    /\ pc[r] \in HasMutex => lock[r] = keys[key[r]]
    /\ pc[r] = "create" => keys[key[r]] = None

OwnMutexPerKey ==
  \A k, l \in Keys : keys[k] # None /\ keys[k] = keys[l] => k = l

MutexDiscipline ==
  \A r \in Requests, m \in Mutexes :
    heldBy[m] = r <=> pc[r] \in Owning /\ lock[r] = m

(* A bucket's mutex is held exactly by the request between Lock and the    *)
(* deferred Unlock of Acquire; the mutex a request works with is the one   *)
(* the map holds for its key, keys never share one, and the holder of a    *)
(* mutex is exactly the request that got it from Acquire.                  *)
LockDiscipline ==
  BucketDiscipline /\ MutexOfKey /\ OwnMutexPerKey /\ MutexDiscipline

(* Every call of Acquire returns, although it may first queue on its       *)
(* bucket behind requests for other keys of the same bucket.               *)
AcquireReturns == \A r \in Requests : (pc[r] = "bucket") ~> (pc[r] = "serving")

(* The lock as its caller sees it. *)
ownerMap == [k \in Keys |-> IF keys[k] = None THEN None ELSE heldBy[keys[k]]]

Abstract ==
  INSTANCE KeyMutex WITH want <- key, owner <- ownerMap

(* Acquire and Unlock implement one mutex per key, whatever the buckets.   *)
ImplementsKeyMutex == Abstract!MutexSpec
=============================================================================
