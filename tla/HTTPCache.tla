----------------------------- MODULE HTTPCache -----------------------------
(***************************************************************************)
(* The index of cached responses (cache.go, HTTPCache): per key a Go slice *)
(* of entries, one per variant, guarded by the RWMutex of the key's        *)
(* bucket.  Put replaces the variant it matches or appends; Get takes the  *)
(* first variant that matches; every Put starts a goroutine that removes   *)
(* its entry once it has been stale for stale_max_age; Del purges a key.   *)
(*                                                                         *)
(* Slices share backing arrays, and that matters here: cleanEntry closes   *)
(* the gap in place, Put overwrites in place, and Del walks the array it   *)
(* saw without a lock.  A key's arrays are told apart by their capacity,   *)
(* as append doubles it and no operation shrinks it.                       *)
(***************************************************************************)
EXTENDS Integers

CONSTANTS
  Entries,       \* the *Entry objects
  Deleters,      \* goroutines calling Del
  Keys,          \* cache keys
  Headers,       \* request headers a Vary may name
  Values,        \* their values
  Buckets, BucketOf,
  MaxCap,        \* bound: largest capacity of a slice
  isDistributed, \* cleaning goes through distributedClean
  None

ASSUME CapAssumption == MaxCap \in Nat \ {0}
ASSUME BucketAssumption == BucketOf \in [Keys -> Buckets]
ASSUME NoneAssumption == None \notin Entries \cup Deleters \cup Keys
ASSUME ActorAssumption == Entries \cap Deleters = {}
ASSUME DistributedAssumption == isDistributed \in BOOLEAN

VARIABLES
  heap,    \* heap[k][c]: the backing array of capacity c that k's slice had
  slice,   \* slice[k]: capacity and length of entries[b][k]
  key, request, vary, \* an entry's key, its request's headers, its Vary
  life,    \* "new", then "fresh" and "stale" as its expiration passes
  puts, putAt, \* number of Puts so far; which of them put the entry
  timer,   \* its scheduleCleanEntry goroutine: "none", "asleep", "awake"
  replaced,\* entries whose "go previousEntry.Clean()" has not run yet
  writer,  \* writer[b]: who holds the write lock of bucket b
  cpc,     \* where an actor (an entry's timer, a deleter) is in cleanEntry
  target,  \* cleanEntry's argument
  cleans,  \* how often Clean was called on an entry's storage
  left,    \* entries distributedClean did not clean
  del      \* Del: program counter, key, slice it saw, next index, and the
           \* entries it was asked to purge

index == <<heap, slice>>
entryVars == <<key, request, vary, puts, putAt>>
cleanVars == <<writer, cpc, target, cleans, left>>
vars == <<index, entryVars, life, timer, replaced, cleanVars, del>>

Actors == Entries \cup Deleters
Slots == 1 .. MaxCap
getBucketIndexForKey(k) == BucketOf[k]
At(k, i) == heap[k][slice[k].cap][i]
InSlice(k) == {At(k, i) : i \in 1 .. slice[k].len}
Indexed(e) == key[e] # None /\ e \in InSlice(key[e])
IsFresh(e) == life[e] = "fresh"

Init ==
  /\ heap = [k \in Keys |-> [c \in Slots |-> [i \in Slots |-> None]]]
  /\ slice = [k \in Keys |-> [cap |-> 0, len |-> 0]]
  /\ key = [e \in Entries |-> None]
  /\ request = [e \in Entries |-> [h \in Headers |-> None]]
  /\ vary = [e \in Entries |-> {}]
  /\ life = [e \in Entries |-> "new"]
  /\ puts = 0 /\ putAt = [e \in Entries |-> 0]
  /\ timer = [e \in Entries |-> "none"]
  /\ replaced = {}
  /\ writer = [b \in Buckets |-> None]
  /\ cpc = [a \in Actors |-> "idle"]
  /\ target = [a \in Actors |-> None]
  /\ cleans = [e \in Entries |-> 0]
  /\ left = {}
  /\ del = [d \in Deleters |-> [pc |-> "idle", key |-> None,
                                cap |-> 0, len |-> 0, next |-> 1, asked |-> {}]]

-----------------------------------------------------------------------------
matchVary(headers, e) == \A h \in vary[e] : headers[h] = request[e][h]

Matching(k, headers) == {i \in 1 .. slice[k].len : matchVary(headers, At(k, i))}

IsFirst(i, S) == i \in S /\ \A j \in S : i <= j

(* Get: the first variant that matches, fresh unless includeStale. *)
Get(k, headers, includeStale) ==
  LET hits == {i \in Matching(k, headers) : IsFresh(At(k, i)) \/ includeStale} IN
  IF hits = {} THEN None ELSE At(k, CHOOSE i \in hits : IsFirst(i, hits))

Grow(c) == IF c = 0 THEN 1 ELSE 2 * c

(* append(entries[b][k], e): in place while the array has room, into a     *)
(* copy of twice the capacity when it has none.                            *)
Append(k, e) ==
  LET s == slice[k]
      c == IF s.len < s.cap THEN s.cap ELSE Grow(s.cap)
      old == IF s.cap = 0 THEN [i \in Slots |-> None] ELSE heap[k][s.cap] IN
  /\ c <= MaxCap
  /\ heap' = [heap EXCEPT ![k][c] = [i \in Slots |-> IF i <= s.len THEN old[i]
                                                     ELSE IF i = s.len + 1 THEN e
                                                     ELSE heap[k][c][i]]]
  /\ slice' = [slice EXCEPT ![k] = [cap |-> c, len |-> s.len + 1]]
  /\ UNCHANGED replaced

(* Mutant: a variant that matches stays where it is, the new one is added. *)
AppendInstead(k, i, e) == Append(k, e)

(* Mutant: the entry that is replaced is not cleaned. *)
ReplaceOnly(k, i, e) ==
  /\ heap' = [heap EXCEPT ![k][slice[k].cap][i] = e]
  /\ UNCHANGED <<slice, replaced>>

Replace(k, i, e) ==
  /\ replaced' = replaced \cup {At(k, i)}
  /\ heap' = [heap EXCEPT ![k][slice[k].cap][i] = e]
  /\ UNCHANGED slice

Put(e, k, headers, names) ==
  LET hits == Matching(k, headers) IN
  /\ life[e] = "new"
  /\ writer[getBucketIndexForKey(k)] = None
  /\ key' = [key EXCEPT ![e] = k]
  /\ request' = [request EXCEPT ![e] = headers]
  /\ vary' = [vary EXCEPT ![e] = names]
  /\ life' = [life EXCEPT ![e] = "fresh"]
  /\ putAt' = [putAt EXCEPT ![e] = puts + 1]
  /\ puts' = puts + 1
  /\ timer' = [timer EXCEPT ![e] = "asleep"]
  /\ \/ hits = {} /\ Append(k, e)
     \/ \E i \in hits : IsFirst(i, hits) /\ Replace(k, i, e)
  /\ UNCHANGED <<cleanVars, del>>

(* Its expiration passes. *)
Expire(e) ==
  /\ IsFresh(e)
  /\ life' = [life EXCEPT ![e] = "stale"]
  /\ UNCHANGED <<index, entryVars, timer, replaced, cleanVars, del>>

(* scheduleCleanEntry's goroutine wakes up when stale_max_age has passed   *)
(* since then, and calls cleanEntry.                                       *)
Wake(e) ==
  /\ timer[e] = "asleep" /\ life[e] = "stale"
  /\ timer' = [timer EXCEPT ![e] = "awake"]
  /\ cpc' = [cpc EXCEPT ![e] = "lock"]
  /\ target' = [target EXCEPT ![e] = e]
  /\ UNCHANGED <<index, entryVars, life, replaced, writer, cleans, left, del>>

(* The goroutine Put started for the entry it replaced. *)
CleanReplaced(e) ==
  /\ e \in replaced
  /\ replaced' = replaced \ {e}
  /\ cleans' = [cleans EXCEPT ![e] = @ + 1]
  /\ UNCHANGED <<index, entryVars, life, timer, writer, cpc, target, left, del>>

-----------------------------------------------------------------------------
(* cleanEntry *)

(* Mutant: the entry is cleaned and stays in the slice. *)
RemoveNothing(k, i) == UNCHANGED index

(* Mutant: the slice keeps its length. *)
RemoveKeepsLength(k, i) ==
  /\ heap' = [heap EXCEPT ![k][slice[k].cap] =
                [j \in Slots |-> IF i <= j /\ j < slice[k].len THEN @[j + 1] ELSE @[j]]]
  /\ UNCHANGED slice

(* Mutant: the slot that falls free is set to nil, as slices.Delete does. *)
RemoveClears(k, i) ==
  LET s == slice[k] IN
  /\ heap' = [heap EXCEPT ![k][s.cap] =
                [j \in Slots |-> IF j = s.len THEN None
                                 ELSE IF i <= j /\ j < s.len THEN @[j + 1] ELSE @[j]]]
  /\ slice' = [slice EXCEPT ![k].len = @ - 1]

(* append(entries[:i], entries[i+1:]...): the later entries move down one  *)
(* slot in the same array; the last slot keeps its old value.              *)
Remove(k, i) ==
  LET s == slice[k] IN
  /\ heap' = [heap EXCEPT ![k][s.cap] =
                [j \in Slots |-> IF i <= j /\ j < s.len THEN @[j + 1] ELSE @[j]]]
  /\ slice' = [slice EXCEPT ![k].len = @ - 1]

CleanFound(a) ==
  LET e == target[a]
      k == key[e] IN
  /\ cpc[a] = "lock"
  /\ writer[getBucketIndexForKey(k)] = None
  /\ \E i \in 1 .. slice[k].len : At(k, i) = e /\ Remove(k, i)
  /\ writer' = [writer EXCEPT ![getBucketIndexForKey(k)] = a]
  /\ cpc' = [cpc EXCEPT ![a] = "clean"]
  /\ UNCHANGED <<entryVars, life, timer, replaced, target, cleans, left, del>>

CleanMissing(a) ==
  LET e == target[a] IN
  /\ cpc[a] = "lock"
  /\ writer[getBucketIndexForKey(key[e])] = None
  /\ ~Indexed(e)
  /\ cpc' = [cpc EXCEPT ![a] = "idle"]
  /\ UNCHANGED <<index, entryVars, life, timer, replaced, writer, target, cleans, left, del>>

(* Mutant: a return that leaves the bucket locked. *)
CleanKeepsLock(a, err) ==
  LET e == target[a] IN
  /\ cpc[a] = "clean"
  /\ cleans' = [cleans EXCEPT ![e] = @ + 1]
  /\ cpc' = [cpc EXCEPT ![a] = "idle"]
  /\ UNCHANGED <<index, entryVars, life, timer, replaced, target, writer, left, del>>

(* entry.Clean, or distributedClean, which cleans only when this node got  *)
(* the lock: the bucket stays locked meanwhile.  An error ends Del.        *)
CleanStorage(a, err) ==
  LET e == target[a] IN
  /\ cpc[a] = "clean"
  /\ \/ cleans' = [cleans EXCEPT ![e] = @ + 1] /\ UNCHANGED left
     \/ isDistributed /\ left' = left \cup {e} /\ UNCHANGED cleans
  /\ writer' = [writer EXCEPT ![getBucketIndexForKey(key[e])] = None]
  /\ cpc' = [cpc EXCEPT ![a] = "idle"]
  /\ del' = IF err /\ a \in Deleters THEN [del EXCEPT ![a].pc = "failed"] ELSE del
  /\ UNCHANGED <<index, entryVars, life, timer, replaced, target>>

-----------------------------------------------------------------------------
(* Del(k): a snapshot of the slice under the read lock, then a walk over   *)
(* its array as it is at each turn.                                        *)
DelSnapshot(d, k) ==
  /\ del[d].pc = "idle"
  /\ writer[getBucketIndexForKey(k)] = None
  /\ del' = [del EXCEPT ![d] =
               [pc |-> "walk", key |-> k, cap |-> slice[k].cap,
                len |-> slice[k].len, next |-> 1,
                asked |-> {e \in InSlice(k) : IsFresh(e)}]]
  /\ UNCHANGED <<index, entryVars, life, timer, replaced, cleanVars>>

DelWalk(d) ==
  LET s == del[d]
      e == heap[s.key][s.cap][s.next] IN
  /\ s.pc = "walk" /\ cpc[d] = "idle" /\ s.next <= s.len
  /\ del' = [del EXCEPT ![d].next = @ + 1]
  /\ IF IsFresh(e)
     THEN /\ cpc' = [cpc EXCEPT ![d] = "lock"]
          /\ target' = [target EXCEPT ![d] = e]
     ELSE UNCHANGED <<cpc, target>>
  /\ UNCHANGED <<index, entryVars, life, timer, replaced, writer, cleans, left>>

DelReturn(d) ==
  /\ del[d].pc = "walk" /\ cpc[d] = "idle" /\ del[d].next > del[d].len
  /\ del' = [del EXCEPT ![d].pc = "purged"]
  /\ UNCHANGED <<index, entryVars, life, timer, replaced, cleanVars>>

-----------------------------------------------------------------------------
PutAny(e) ==
  \E k \in Keys, headers \in [Headers -> Values], names \in SUBSET Headers :
    Put(e, k, headers, names)

CleanStep(a) ==
  CleanFound(a) \/ CleanMissing(a) \/ \E err \in BOOLEAN : CleanStorage(a, err)

Next ==
  \/ \E e \in Entries : PutAny(e) \/ Expire(e) \/ Wake(e) \/ CleanReplaced(e)
  \/ \E a \in Actors : CleanStep(a)
  \/ \E d \in Deleters : (\E k \in Keys : DelSnapshot(d, k)) \/ DelWalk(d) \/ DelReturn(d)

Spec == Init /\ [][Next]_vars

(* Time passes, timers fire, and a goroutine waiting for a bucket gets it  *)
(* in turn (an RWMutex holds back new readers for a waiting writer, and a  *)
(* writer gives way to the readers that wait for it).                      *)
Fairness ==
  /\ \A e \in Entries : WF_vars(Expire(e)) /\ WF_vars(Wake(e)) /\ WF_vars(CleanReplaced(e))
  /\ \A a \in Actors : SF_vars(CleanFound(a) \/ CleanMissing(a))
                       /\ WF_vars(\E err \in BOOLEAN : CleanStorage(a, err))
  /\ \A d \in Deleters : WF_vars(DelWalk(d)) /\ WF_vars(DelReturn(d))

FairSpec == Spec /\ Fairness

-----------------------------------------------------------------------------
(* Types; no slice is longer than its array, whichever of its operations   *)
(* (Put's append, cleanEntry's removal, Del's copy) made it.               *)
TypeOK ==
  /\ heap \in [Keys -> [Slots -> [Slots -> Entries \cup {None}]]]
  /\ slice \in [Keys -> [cap : 0 .. MaxCap, len : 0 .. MaxCap]]
  /\ \A k \in Keys : slice[k].len <= slice[k].cap
  /\ key \in [Entries -> Keys \cup {None}]
  /\ request \in [Entries -> [Headers -> Values \cup {None}]]
  /\ vary \in [Entries -> SUBSET Headers]
  /\ life \in [Entries -> {"new", "fresh", "stale"}]
  /\ puts \in Nat /\ putAt \in [Entries -> Nat]
  /\ timer \in [Entries -> {"none", "asleep", "awake"}]
  /\ replaced \subseteq Entries
  /\ writer \in [Buckets -> Actors \cup {None}]
  /\ cpc \in [Actors -> {"idle", "lock", "clean"}]
  /\ target \in [Actors -> Entries \cup {None}]
  /\ cleans \in [Entries -> Nat]
  /\ left \subseteq Entries
  /\ del \in [Deleters -> [pc : {"idle", "walk", "purged", "failed"},
                           key : Keys \cup {None}, cap : 0 .. MaxCap,
                           len : 0 .. MaxCap, next : 1 .. MaxCap + 1,
                           asked : SUBSET Entries]]
  /\ \A d \in Deleters : /\ del[d].len <= del[d].cap
                         /\ del[d].pc = "walk" => del[d].key \in Keys

BeingCleaned(e) == \E a \in Actors : cpc[a] = "clean" /\ target[a] = e

(* No two slots of an index slice hold the same entry, and every entry is  *)
(* in the slice of its own key: in-place appends, replacements and         *)
(* removals never leave a trace of another entry in the live part.         *)
SlotsDistinct ==
  \A k \in Keys : \A i, j \in 1 .. slice[k].len :
    /\ At(k, i) \in Entries
    /\ key[At(k, i)] = k
    /\ At(k, i) = At(k, j) => i = j

(* Del, walking an array without a lock while others rewrite it, always    *)
(* finds an entry of its key there, never nil.                             *)
WalkSafe ==
  \A d \in Deleters :
    del[d].pc = "walk" =>
      \A i \in 1 .. del[d].len :
        LET e == heap[del[d].key][del[d].cap][i] IN
        e \in Entries /\ key[e] = del[d].key

(* The storage of an entry is cleaned at most once, and never while a Get  *)
(* can still return the entry or another goroutine is about to clean it:   *)
(* the timer, Del and the Clean that Put starts do not overlap.            *)
CleanedOnce ==
  \A e \in Entries :
    /\ cleans[e] <= 1
    /\ Indexed(e) => cleans[e] = 0 /\ e \notin replaced /\ ~BeingCleaned(e)
    /\ e \in replaced \/ BeingCleaned(e) => cleans[e] = 0
    /\ ~(e \in replaced /\ BeingCleaned(e))
    /\ \A a, b \in Actors :
         (cpc[a] = "clean" /\ cpc[b] = "clean" /\ target[a] = e /\ target[b] = e) => a = b

(* An entry that was put never drops out of sight with its storage left    *)
(* behind: it is in the index, or somebody has it to clean, or it has been *)
(* cleaned (in a cluster, possibly by another node).                       *)
NothingLost ==
  \A e \in Entries :
    life[e] # "new" =>
      Indexed(e) \/ e \in replaced \/ BeingCleaned(e) \/ cleans[e] > 0 \/ e \in left

(* Get never goes back in time: for the headers an indexed entry was       *)
(* stored under it returns that entry or one put after it.                 *)
GetNotOlder ==
  \A e \in Entries, includeStale \in BOOLEAN :
    (Indexed(e) /\ (IsFresh(e) \/ includeStale)) =>
      putAt[Get(key[e], request[e], includeStale)] >= putAt[e]

(* Every entry put in the cache is cleaned in the end, by its timer, a     *)
(* purge or its replacement, or is left to the other nodes of the cluster  *)
(* because the distributed lock was not to be had (distributedClean).      *)
EventuallyCleaned ==
  \A e \in Entries : (life[e] # "new") ~> (cleans[e] = 1 \/ e \in left)

(* "Del purge the key immediately": when Del has returned nil, no entry    *)
(* that was fresh in the cache when it was called is still served as such. *)
DelPurgesKey ==
  \A d \in Deleters :
    del[d].pc = "purged" => \A e \in del[d].asked : ~(Indexed(e) /\ IsFresh(e))
=============================================================================
