--------------------------- MODULE ConsulStorage ---------------------------
(***************************************************************************)
(* Caddy's certificate storage in Consul (extends/storage/consul.go), used *)
(* as certmagic uses it: under the lock of a name, a certificate that does *)
(* not exist is made and stored; at any time one may be deleted.           *)
(*                                                                         *)
(* Several processes have a Storage each, with a plain map from names to   *)
(* the locks it believes to hold.  A lock is an object of the Consul API   *)
(* with a session of its own, named after the caller that made it; the     *)
(* session may be lost under its holder, and expires when nobody renews it.*)
(***************************************************************************)
EXTENDS Naturals, FiniteSets

CONSTANTS
  Storages, Callers, StorageOf, \* a caller is a goroutine of one process
  Names,
  Dead,     \* has a key whose session nobody renews any more
  None

ASSUME NoneAssumption == {None, Dead} \cap (Callers \cup Storages) = {} /\ None # Dead
ASSUME CallersAssumption == Callers \cap Storages = {}
ASSUME StorageAssumption == StorageOf \in [Callers -> Storages]

VARIABLES
  pc, name, \* where a caller is, and its argument
  locks,    \* Storage.locks
  consul,   \* who has the key of a name in Consul: a lock, or the process of
            \* a lock that nothing refers to any more
  held,     \* callers whose lock is held as far as it knows, and its name
  data,     \* names with a value
  seen,     \* callers in Delete whose pair is still the one in Consul: its
            \* ModifyIndex has not changed
  spoiled,  \* history: storages and names where a session was lost, a Lock was
            \* cancelled, an Unlock failed, or two calls of a process met
  asked,    \* history: names a Delete was called for since the last Store
  suspect   \* history: names whose value was stored while they were spoiled, or
            \* was taken for absent as it could not be read

lockVars == <<locks, consul, held>>
dataVars == <<data, seen, asked, suspect>>
vars == <<pc, name, lockVars, dataVars, spoiled>>

(* Provision: an empty map. *)
Init ==
  /\ pc = [g \in Callers |-> "idle"] /\ name = [g \in Callers |-> None]
  /\ locks = [s \in Storages |-> [n \in Names |-> None]]
  /\ consul = [n \in Names |-> None] /\ held = {}
  /\ data = {} /\ seen = {}
  /\ spoiled = {} /\ asked = [n \in Names |-> TRUE] /\ suspect = {}

Goto(g, from, to) == pc[g] = from /\ pc' = [pc EXCEPT ![g] = to]

Leave(g, from) == Goto(g, from, "idle") /\ name' = [name EXCEPT ![g] = None]

Calling(s, n) ==
  {g \in Callers : /\ StorageOf[g] = s /\ name[g] = n
                   /\ pc[g] \in {"wait", "record", "section", "store", "unlock", "forget"}}

ProcessOf(o) == IF o \in Storages THEN o ELSE StorageOf[o]

Spoiled(n) == (Storages \X {n}) \cap spoiled # {}

(* A lock in Consul that the map no longer has cannot be released. *)
Unmapped(s, n) == IF locks[s][n] # None /\ consul[n] = locks[s][n] THEN s ELSE consul[n]

-----------------------------------------------------------------------------
(* Lock: a name in the map is taken for held; otherwise a lock is made. *)
Lock(g, n) ==
  LET s == StorageOf[g]
      exists == locks[s][n] # None IN
  /\ Goto(g, "idle", IF exists THEN "section" ELSE "wait")
  /\ name' = [name EXCEPT ![g] = n]
  /\ held' = IF exists THEN held ELSE held \ {<<g, n>>}
  /\ spoiled' = IF Calling(s, n) = {} THEN spoiled ELSE spoiled \cup {<<s, n>>}
  /\ UNCHANGED <<locks, consul, dataVars>>

(* lock.Lock returns with the key ... *)
Acquire(g) ==
  /\ Goto(g, "wait", "record")
  /\ consul[name[g]] = None
  /\ consul' = [consul EXCEPT ![name[g]] = g]
  /\ held' = held \cup {<<g, name[g]>>}
  /\ UNCHANGED <<name, locks, dataVars, spoiled>>

(* ... or with an error, as LockKey may ... *)
LockFails(g) ==
  /\ Leave(g, "wait")
  /\ UNCHANGED <<lockVars, dataVars, spoiled>>

(* ... or, its context being done, without the key: it returns a nil       *)
(* channel, which is not looked at, and no error.                          *)
Cancelled(g) ==
  /\ Goto(g, "wait", "record")
  /\ spoiled' = spoiled \cup {<<StorageOf[g], name[g]>>}
  /\ UNCHANGED <<name, lockVars, dataVars>>

Record(g) ==
  /\ Goto(g, "record", "section")
  /\ locks' = [locks EXCEPT ![StorageOf[g]][name[g]] = g]
  /\ consul' = [consul EXCEPT ![name[g]] = Unmapped(StorageOf[g], name[g])]
  /\ UNCHANGED <<name, held, dataVars, spoiled>>

-----------------------------------------------------------------------------
(* Mutant: the answer is not looked at. *)
ExistsNot(g) ==
  /\ Goto(g, "section", "store")
  /\ UNCHANGED <<name, lockVars, dataVars, spoiled>>

(* Under the lock: Exists, and Store if it does not. *)
Exists(g) ==
  /\ Goto(g, "section", IF name[g] \notin data THEN "store" ELSE "unlock")
  /\ UNCHANGED <<name, lockVars, dataVars, spoiled>>

(* An error of Exists is an absent key. *)
ExistsFails(g) ==
  /\ Goto(g, "section", "store")
  /\ suspect' = suspect \cup {name[g]}
  /\ UNCHANGED <<name, lockVars, data, seen, asked, spoiled>>

Store(g) ==
  /\ Goto(g, "store", "unlock")
  /\ data' = data \cup {name[g]}
  /\ seen' = {h \in seen : name[h] # name[g]}
  /\ asked' = [asked EXCEPT ![name[g]] = FALSE]
  /\ suspect' = IF Spoiled(name[g]) THEN suspect \cup {name[g]} ELSE suspect \ {name[g]}
  /\ UNCHANGED <<name, lockVars, spoiled>>

(* A Store that fails. *)
StoreFails(g) ==
  /\ Goto(g, "store", "unlock")
  /\ UNCHANGED <<name, lockVars, dataVars, spoiled>>

-----------------------------------------------------------------------------
(* Mutant: the lock is not asked to let its key go. *)
UnlockNothing(g) ==
  /\ Goto(g, "unlock", "forget")
  /\ UNCHANGED <<name, lockVars, dataVars, spoiled>>

(* Unlock: the lock the map has, if any, lets its key go ... *)
Unlock(g) ==
  LET n == name[g]
      o == locks[StorageOf[g]][n] IN
  /\ Goto(g, "unlock", "forget")
  /\ <<o, n>> \in held
  /\ held' = held \ {<<o, n>>}
  /\ consul' = IF consul[n] = o THEN [consul EXCEPT ![n] = None] ELSE consul
  /\ UNCHANGED <<name, locks, dataVars, spoiled>>

(* ... or there is none, or it is not held, or Consul cannot be reached:   *)
(* an error, and what is in the map stays there.                           *)
UnlockFails(g) ==
  LET n == name[g]
      o == locks[StorageOf[g]][n] IN
  /\ Leave(g, "unlock")
  /\ held' = held \ {<<o, n>>}
  /\ consul' = IF <<o, n>> \in held /\ consul[n] = o THEN [consul EXCEPT ![n] = Dead] ELSE consul
  /\ spoiled' = IF <<o, n>> \in held THEN spoiled \cup {<<StorageOf[g], n>>} ELSE spoiled
  /\ UNCHANGED <<locks, dataVars>>

(* Mutant: the entry stays in the map. *)
Remember(g) ==
  LET s == StorageOf[g] IN
  /\ Leave(g, "forget")
  /\ spoiled' = IF Calling(s, name[g]) = {g} THEN spoiled \ {<<s, name[g]>>} ELSE spoiled
  /\ UNCHANGED <<lockVars, dataVars>>

(* Then the entry is deleted from the map, whoever's it is by now. *)
Forget(g) ==
  LET s == StorageOf[g] n == name[g] IN
  /\ Leave(g, "forget")
  /\ locks' = [locks EXCEPT ![s][n] = None]
  /\ consul' = [consul EXCEPT ![n] = Unmapped(s, n)]
  /\ spoiled' = IF Calling(s, n) = {g} /\ consul'[n] # s THEN spoiled \ {<<s, n>>} ELSE spoiled
  /\ UNCHANGED <<held, dataVars>>

-----------------------------------------------------------------------------
(* Delete reads the pair ... *)
DeleteGet(g, n) ==
  /\ n \in data
  /\ Goto(g, "idle", "delete")
  /\ name' = [name EXCEPT ![g] = n]
  /\ seen' = seen \cup {g}
  /\ asked' = [asked EXCEPT ![n] = TRUE]
  /\ UNCHANGED <<lockVars, data, suspect, spoiled>>

(* Mutant: the key is deleted whatever its value is by now. *)
DeleteAny(g) ==
  /\ Leave(g, "delete")
  /\ data' = data \ {name[g]}
  /\ seen' = {h \in seen : name[h] # name[g]}
  /\ UNCHANGED <<lockVars, asked, suspect, spoiled>>

(* ... and deletes it if it is still what it was.  If not, or if Consul    *)
(* cannot be reached, it is an error.                                      *)
DeleteCAS(g) ==
  /\ Leave(g, "delete")
  /\ g \in seen
  /\ data' = data \ {name[g]}
  /\ seen' = {h \in seen : name[h] # name[g]}
  /\ UNCHANGED <<lockVars, asked, suspect, spoiled>>

DeleteFails(g) ==
  /\ Leave(g, "delete")
  /\ seen' = seen \ {g}
  /\ UNCHANGED <<lockVars, data, asked, suspect, spoiled>>

-----------------------------------------------------------------------------
(* The session of a lock is lost under its holder, which does not look. *)
SessionLost(n) ==
  /\ consul[n] \in Callers \cup Storages
  /\ consul' = [consul EXCEPT ![n] = None]
  /\ spoiled' = spoiled \cup {<<ProcessOf(consul[n]), n>>}
  /\ UNCHANGED <<pc, name, locks, held, dataVars>>

(* A session that is not renewed any more expires. *)
Expire(n) ==
  /\ consul[n] = Dead
  /\ consul' = [consul EXCEPT ![n] = None]
  /\ UNCHANGED <<pc, name, locks, held, dataVars, spoiled>>

(* A process ends, by a fatal error of its unsynchronised map for one, and *)
(* starts anew.                                                            *)
Crash(s) ==
  LET mine == {g \in Callers : StorageOf[g] = s} IN
  /\ pc' = [g \in Callers |-> IF g \in mine THEN "idle" ELSE pc[g]]
  /\ name' = [g \in Callers |-> IF g \in mine THEN None ELSE name[g]]
  /\ seen' = seen \ mine
  /\ locks' = [locks EXCEPT ![s] = [n \in Names |-> None]]
  /\ held' = held \ (mine \X Names)
  /\ consul' = [n \in Names |-> IF consul[n] \in mine \cup {s} THEN Dead ELSE consul[n]]
  /\ spoiled' = spoiled \ ({s} \X Names)
  /\ UNCHANGED <<data, asked, suspect>>

-----------------------------------------------------------------------------
CallerStep(g) ==
  \/ Record(g) \/ Exists(g) \/ ExistsFails(g) \/ Store(g) \/ StoreFails(g)
  \/ Unlock(g) \/ UnlockFails(g) \/ Forget(g) \/ DeleteCAS(g) \/ DeleteFails(g)

Next ==
  \/ \E g \in Callers : CallerStep(g) \/ Acquire(g) \/ LockFails(g) \/ Cancelled(g)
  \/ \E g \in Callers, n \in Names : Lock(g, n) \/ DeleteGet(g, n)
  \/ \E n \in Names : SessionLost(n) \/ Expire(n)
  \/ \E s \in Storages : Crash(s)

Spec == Init /\ [][Next]_vars

(* Callers go on and unlock what they have locked; Consul lets sessions    *)
(* expire, and gives a key that is free again and again to each that waits.*)
Fairness ==
  /\ \A g \in Callers : WF_vars(CallerStep(g)) /\ SF_vars(Acquire(g))
  /\ \A n \in Names : WF_vars(Expire(n))

FairSpec == Spec /\ Fairness

-----------------------------------------------------------------------------
(* Types. *)
TypeOK ==
  /\ pc \in [Callers -> {"idle", "wait", "record", "section", "store", "unlock", "forget", "delete"}]
  /\ name \in [Callers -> Names \cup {None}]
  /\ locks \in [Storages -> [Names -> Callers \cup {None}]]
  /\ consul \in [Names -> Callers \cup Storages \cup {None, Dead}]
  /\ held \subseteq Callers \X Names
  /\ data \subseteq Names /\ seen \subseteq Callers
  /\ spoiled \subseteq Storages \X Names /\ asked \in [Names -> BOOLEAN]
  /\ suspect \subseteq Names

InSection(g) == pc[g] \in {"section", "store", "unlock"}

(* Callers of two processes are never under the lock of one name at once,  *)
(* unless one of the processes lost its session, went on after a cancelled *)
(* Lock or a failed Unlock, or let two callers in (Lock, Unlock).          *)
Exclusion ==
  \A g, h \in Callers :
    /\ InSection(g) /\ InSection(h)
    /\ name[g] = name[h] /\ StorageOf[g] # StorageOf[h]
    => {<<StorageOf[g], name[g]>>, <<StorageOf[h], name[h]>>} \cap spoiled # {}

(* A key that Consul has given away is one that its process can give back: *)
(* the lock is in the process's map, or on its way there (Lock, Unlock).   *)
HeldIsKnown ==
  \A n \in Names :
    consul[n] \in Callers \cup Storages /\ <<ProcessOf(consul[n]), n>> \notin spoiled =>
      \/ consul[n] \in Callers /\ locks[StorageOf[consul[n]]][n] = consul[n]
      \/ \E g \in Callers : pc[g] = "record" /\ name[g] = n /\ g = consul[n]

(* What the lock is for: a certificate that exists is not made and stored  *)
(* again by a process that did not see it, however Lock, Exists, Store and *)
(* crashes between them interleave.  Aside are names spoiled as in         *)
(* Exclusion, and errors of Exists.                                        *)
StoredOnce ==
  [][\A g \in Callers :
       Store(g) /\ name[g] \in data => Spoiled(name[g]) \/ name[g] \in suspect]_vars

(* A stored value stays until a Delete is called after it was stored: one  *)
(* that was called before does not remove it (Delete, DeleteCAS).          *)
StoreKept == \A n \in Names \ data : asked[n]

(* Whoever waits for a lock gets it or gives up, also when its holder has  *)
(* crashed, unless a process has spoiled the name.                         *)
LockGranted ==
  \A g \in Callers :
    pc[g] = "wait" ~> (pc[g] # "wait" \/ Spoiled(name[g]))
=============================================================================
