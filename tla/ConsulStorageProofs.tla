------------------------ MODULE ConsulStorageProofs ------------------------
(***************************************************************************)
(* For any processes, callers and names: what the locks of consul.go       *)
(* exclude as long as a name is not spoiled, that the processes keep track *)
(* of what they hold, and that Delete removes only what it has read.       *)
(***************************************************************************)
EXTENDS ConsulStorage, TLAPS

In(g) == pc[g] \in {"wait", "record", "section", "store", "unlock", "forget"}

Mine(s, n) == consul[n] \in Callers \cup Storages /\ ProcessOf(consul[n]) = s

(* A call has an argument. *)
NameKnown == \A g \in Callers : pc[g] # "idle" => name[g] \in Names

(* Two callers of a process that are concerned with one name spoil it. *)
Alone ==
  \A g, h \in Callers :
    In(g) /\ In(h) /\ g # h /\ name[g] = name[h] /\ StorageOf[g] = StorageOf[h] =>
      <<StorageOf[g], name[g]>> \in spoiled

(* Who has passed Lock has the key in Consul, or its process has. *)
SectionHolds ==
  \A g \in Callers :
    pc[g] \in {"record", "section", "store", "unlock"} =>
      <<StorageOf[g], name[g]>> \in spoiled \/ Mine(StorageOf[g], name[g])

(* And so has the process whose map has the name, but for the moment after *)
(* Unlock.                                                                 *)
MapHolds ==
  \A s \in Storages, n \in Names :
    locks[s][n] # None =>
      \/ <<s, n>> \in spoiled \/ Mine(s, n)
      \/ \E g \in Callers : pc[g] = "forget" /\ name[g] = n /\ StorageOf[g] = s

MapOwn == \A s \in Storages, n \in Names : locks[s][n] # None => StorageOf[locks[s][n]] = s

(* A lock that is waited for was not in the map. *)
WaitFree ==
  \A g \in Callers :
    pc[g] \in {"wait", "record"} /\ locks[StorageOf[g]][name[g]] # None =>
      <<StorageOf[g], name[g]>> \in spoiled

(* The lock that is about to be deleted from the map has let its key go. *)
ForgetFree ==
  \A g \in Callers :
    /\ pc[g] = "forget" /\ locks[StorageOf[g]][name[g]] # None
    /\ consul[name[g]] = locks[StorageOf[g]][name[g]]
    => <<StorageOf[g], name[g]>> \in spoiled

(* A key without a lock to release it is spoiled; any other is held by the *)
(* lock in its process's map, or by one on its way there.                  *)
OrphanSpoiled == \A n \in Names : consul[n] \in Storages => <<consul[n], n>> \in spoiled

HolderMapped ==
  \A n \in Names :
    consul[n] \in Callers =>
      \/ locks[StorageOf[consul[n]]][n] = consul[n]
      \/ pc[consul[n]] = "record" /\ name[consul[n]] = n

(* Delete's pair is that of Consul only while no Store came between. *)
SeenAsked == \A g \in seen : pc[g] = "delete" /\ asked[name[g]]

(* Who is about to store has seen that there is no value, and nobody has   *)
(* stored one since, unless under a spoiled name or after an error.        *)
StoreSafe == \A g \in Callers : pc[g] = "store" /\ name[g] \in data => name[g] \in suspect

LockInv ==
  /\ Alone /\ SectionHolds /\ MapHolds /\ MapOwn
  /\ WaitFree /\ ForgetFree /\ OrphanSpoiled /\ HolderMapped
DataInv == SeenAsked /\ StoreKept /\ StoreSafe
IndInv == TypeOK /\ NameKnown /\ LockInv /\ DataInv

USE DEF Goto, Leave

-----------------------------------------------------------------------------
(* Provision: at first nothing is locked or stored.                        *)
LEMMA InitInd == Init => IndInv
  BY NoneAssumption, CallersAssumption, StorageAssumption
  DEF Init, IndInv, TypeOK, NameKnown, LockInv, DataInv, Alone, SectionHolds, MapHolds, MapOwn,
      WaitFree, ForgetFree, OrphanSpoiled, HolderMapped, SeenAsked, StoreKept, StoreSafe, In

(* Two callers under the lock of one name spoil it. *)
LEMMA Excludes ==
  ASSUME IndInv, NEW g \in Callers, NEW h \in Callers, g # h,
         InSection(g), InSection(h), name[g] = name[h]
  PROVE  {<<StorageOf[g], name[g]>>, <<StorageOf[h], name[h]>>} \cap spoiled # {}
<1>1. CASE StorageOf[g] = StorageOf[h]
  BY <1>1 DEF IndInv, LockInv, Alone, In, InSection
<1>2. CASE StorageOf[g] # StorageOf[h]
  BY <1>2, NoneAssumption, CallersAssumption, StorageAssumption
  DEF IndInv, LockInv, SectionHolds, Mine, InSection
<1>. QED BY <1>1, <1>2

(* A step keeps the types, and that a call has an argument.                *)
LEMMA NextType == TypeOK /\ NameKnown /\ [Next]_vars => TypeOK' /\ NameKnown'
<1> USE NoneAssumption, CallersAssumption, StorageAssumption DEF TypeOK, NameKnown, lockVars,
     dataVars, Unmapped, ProcessOf
<1> SUFFICES ASSUME TypeOK, NameKnown, [Next]_vars PROVE TypeOK' /\ NameKnown'
  OBVIOUS
<1>1. ASSUME NEW g \in Callers, NEW n \in Names, Lock(g, n) PROVE TypeOK' /\ NameKnown'
  BY <1>1 DEF Lock
<1>2. ASSUME NEW g \in Callers, Acquire(g) PROVE TypeOK' /\ NameKnown'
  BY <1>2 DEF Acquire
<1>3. ASSUME NEW g \in Callers, LockFails(g) PROVE TypeOK' /\ NameKnown'
  BY <1>3 DEF LockFails
<1>4. ASSUME NEW g \in Callers, Cancelled(g) PROVE TypeOK' /\ NameKnown'
  BY <1>4 DEF Cancelled
<1>5. ASSUME NEW g \in Callers, Record(g) PROVE TypeOK' /\ NameKnown'
  BY <1>5 DEF Record
<1>6. ASSUME NEW g \in Callers, Exists(g) PROVE TypeOK' /\ NameKnown'
  BY <1>6 DEF Exists
<1>7. ASSUME NEW g \in Callers, Store(g) PROVE TypeOK' /\ NameKnown'
  BY <1>7 DEF Store
<1>8. ASSUME NEW g \in Callers, StoreFails(g) PROVE TypeOK' /\ NameKnown'
  BY <1>8 DEF StoreFails
<1>9. ASSUME NEW g \in Callers, Unlock(g) PROVE TypeOK' /\ NameKnown'
  BY <1>9 DEF Unlock
<1>10. ASSUME NEW g \in Callers, UnlockFails(g) PROVE TypeOK' /\ NameKnown'
  BY <1>10 DEF UnlockFails
<1>11. ASSUME NEW g \in Callers, Forget(g) PROVE TypeOK' /\ NameKnown'
  BY <1>11 DEF Forget
<1>12. ASSUME NEW g \in Callers, NEW n \in Names, DeleteGet(g, n) PROVE TypeOK' /\ NameKnown'
  BY <1>12 DEF DeleteGet
<1>13. ASSUME NEW g \in Callers, DeleteCAS(g) PROVE TypeOK' /\ NameKnown'
  BY <1>13 DEF DeleteCAS
<1>14. ASSUME NEW n \in Names, SessionLost(n) PROVE TypeOK' /\ NameKnown'
  BY <1>14 DEF SessionLost
<1>15. ASSUME NEW n \in Names, Expire(n) PROVE TypeOK' /\ NameKnown'
  BY <1>15 DEF Expire
<1>16. ASSUME NEW s \in Storages, Crash(s) PROVE TypeOK' /\ NameKnown'
  BY <1>16 DEF Crash
<1>17. ASSUME NEW g \in Callers, ExistsFails(g) PROVE TypeOK' /\ NameKnown'
  BY <1>17 DEF ExistsFails
<1>18. ASSUME NEW g \in Callers, DeleteFails(g) PROVE TypeOK' /\ NameKnown'
  BY <1>18 DEF DeleteFails
<1>19. CASE UNCHANGED vars
  BY <1>19 DEF vars, lockVars, dataVars
<1>. QED BY <1>1, <1>2, <1>3, <1>4, <1>5, <1>6, <1>7, <1>8, <1>9, <1>10, <1>11, <1>12, <1>13, <1>14,
     <1>15, <1>16, <1>17, <1>18, <1>19
     DEF Next, CallerStep

(* A step keeps who holds a name's key, in Consul and in the maps: Lock    *)
(* trusts the map, and only a Forget that is alone calls the name sound.   *)
LEMMA NextLock == IndInv /\ [Next]_vars => LockInv'
<1> USE NoneAssumption, CallersAssumption, StorageAssumption DEF IndInv, TypeOK, NameKnown, LockInv,
     Alone, SectionHolds, MapHolds, MapOwn, WaitFree, ForgetFree, OrphanSpoiled, HolderMapped, In,
     Calling, Mine, ProcessOf, Unmapped, lockVars, dataVars
<1> SUFFICES ASSUME IndInv, [Next]_vars PROVE LockInv'
  OBVIOUS
<1>1. ASSUME NEW g \in Callers, NEW n \in Names, Lock(g, n) PROVE LockInv'
  BY <1>1 DEF Lock
<1>2. ASSUME NEW g \in Callers, Acquire(g) PROVE LockInv'
  BY <1>2 DEF Acquire
<1>3. ASSUME NEW g \in Callers, LockFails(g) PROVE LockInv'
  BY <1>3 DEF LockFails
<1>4. ASSUME NEW g \in Callers, Cancelled(g) PROVE LockInv'
  BY <1>4 DEF Cancelled
<1>5. ASSUME NEW g \in Callers, Record(g) PROVE LockInv'
  BY <1>5 DEF Record
<1>6. ASSUME NEW g \in Callers, Exists(g) PROVE LockInv'
  BY <1>6 DEF Exists
<1>7. ASSUME NEW g \in Callers, Store(g) PROVE LockInv'
  BY <1>7 DEF Store
<1>8. ASSUME NEW g \in Callers, StoreFails(g) PROVE LockInv'
  BY <1>8 DEF StoreFails
<1>9. ASSUME NEW g \in Callers, Unlock(g) PROVE LockInv'
  BY <1>9 DEF Unlock
<1>10. ASSUME NEW g \in Callers, UnlockFails(g) PROVE LockInv'
  BY <1>10 DEF UnlockFails
<1>11. ASSUME NEW g \in Callers, Forget(g) PROVE LockInv'
  BY <1>11 DEF Forget
<1>12. ASSUME NEW g \in Callers, NEW n \in Names, DeleteGet(g, n) PROVE LockInv'
  BY <1>12 DEF DeleteGet
<1>13. ASSUME NEW g \in Callers, DeleteCAS(g) PROVE LockInv'
  BY <1>13 DEF DeleteCAS
<1>14. ASSUME NEW n \in Names, SessionLost(n) PROVE LockInv'
  BY <1>14 DEF SessionLost
<1>15. ASSUME NEW n \in Names, Expire(n) PROVE LockInv'
  BY <1>15 DEF Expire
<1>16. ASSUME NEW s \in Storages, Crash(s) PROVE LockInv'
  BY <1>16 DEF Crash
<1>17. ASSUME NEW g \in Callers, ExistsFails(g) PROVE LockInv'
  BY <1>17 DEF ExistsFails
<1>18. ASSUME NEW g \in Callers, DeleteFails(g) PROVE LockInv'
  BY <1>18 DEF DeleteFails
<1>19. CASE UNCHANGED vars
  BY <1>19 DEF vars, lockVars, dataVars
<1>. QED BY <1>1, <1>2, <1>3, <1>4, <1>5, <1>6, <1>7, <1>8, <1>9, <1>10, <1>11, <1>12, <1>13, <1>14,
     <1>15, <1>16, <1>17, <1>18, <1>19
     DEF Next, CallerStep

(* A step keeps what is known of values: a Store makes the pairs that were *)
(* read before it outdated, and nobody else was about to store.            *)
LEMMA NextData == IndInv /\ [Next]_vars => DataInv'
<1> USE NoneAssumption, CallersAssumption, StorageAssumption DEF IndInv, TypeOK, NameKnown, LockInv,
     DataInv, SeenAsked, StoreKept, StoreSafe, lockVars, dataVars
<1> SUFFICES ASSUME IndInv, [Next]_vars PROVE DataInv'
  OBVIOUS
<1>1. ASSUME NEW g \in Callers, NEW n \in Names, Lock(g, n) PROVE DataInv'
  BY <1>1 DEF Lock
<1>2. ASSUME NEW g \in Callers, Acquire(g) PROVE DataInv'
  BY <1>2 DEF Acquire
<1>3. ASSUME NEW g \in Callers, LockFails(g) PROVE DataInv'
  BY <1>3 DEF LockFails
<1>4. ASSUME NEW g \in Callers, Cancelled(g) PROVE DataInv'
  BY <1>4 DEF Cancelled
<1>5. ASSUME NEW g \in Callers, Record(g) PROVE DataInv'
  BY <1>5 DEF Record
<1>6. ASSUME NEW g \in Callers, Exists(g) PROVE DataInv'
  BY <1>6 DEF Exists
<1>7. ASSUME NEW g \in Callers, Store(g) PROVE DataInv'
  <2>1. ASSUME NEW h \in Callers, h # g, pc[h] = "store", name[h] = name[g] PROVE Spoiled(name[g])
    <3>1. {<<StorageOf[g], name[g]>>, <<StorageOf[h], name[h]>>} \cap spoiled # {}
      BY <1>7, <2>1, Excludes DEF Store, InSection
    <3>. QED BY <2>1, <3>1 DEF Spoiled
  <2>2. SeenAsked' /\ StoreKept'
    BY <1>7 DEF Store
  <2>3. StoreSafe'
    BY <1>7, <2>1 DEF Store
  <2>. QED BY <2>2, <2>3
<1>8. ASSUME NEW g \in Callers, StoreFails(g) PROVE DataInv'
  BY <1>8 DEF StoreFails
<1>9. ASSUME NEW g \in Callers, Unlock(g) PROVE DataInv'
  BY <1>9 DEF Unlock
<1>10. ASSUME NEW g \in Callers, UnlockFails(g) PROVE DataInv'
  BY <1>10 DEF UnlockFails
<1>11. ASSUME NEW g \in Callers, Forget(g) PROVE DataInv'
  BY <1>11 DEF Forget
<1>12. ASSUME NEW g \in Callers, NEW n \in Names, DeleteGet(g, n) PROVE DataInv'
  BY <1>12 DEF DeleteGet
<1>13. ASSUME NEW g \in Callers, DeleteCAS(g) PROVE DataInv'
  BY <1>13 DEF DeleteCAS
<1>14. ASSUME NEW n \in Names, SessionLost(n) PROVE DataInv'
  BY <1>14 DEF SessionLost
<1>15. ASSUME NEW n \in Names, Expire(n) PROVE DataInv'
  BY <1>15 DEF Expire
<1>16. ASSUME NEW s \in Storages, Crash(s) PROVE DataInv'
  BY <1>16 DEF Crash
<1>17. ASSUME NEW g \in Callers, ExistsFails(g) PROVE DataInv'
  BY <1>17 DEF ExistsFails
<1>18. ASSUME NEW g \in Callers, DeleteFails(g) PROVE DataInv'
  BY <1>18 DEF DeleteFails
<1>19. CASE UNCHANGED vars
  BY <1>19 DEF vars, lockVars, dataVars
<1>. QED BY <1>1, <1>2, <1>3, <1>4, <1>5, <1>6, <1>7, <1>8, <1>9, <1>10, <1>11, <1>12, <1>13, <1>14,
     <1>15, <1>16, <1>17, <1>18, <1>19
     DEF Next, CallerStep

(* The inductive invariant holds of every behaviour of consul.go.          *)
LEMMA Invariance == Spec => []IndInv
<1>1. IndInv /\ [Next]_vars => IndInv'
  BY NextType, NextLock, NextData DEF IndInv
<1>. QED BY InitInd, <1>1, PTL DEF Spec

(* The maps hold locks, and Consul's keys are held by locks. *)
THEOREM TypeCorrect == Spec => []TypeOK
  BY Invariance, PTL DEF IndInv

(* Lock and Unlock exclude callers of two processes from one name, as long *)
(* as neither process has spoiled it.                                      *)
THEOREM LockExcludes == Spec => []Exclusion
<1>1. IndInv => Exclusion
  BY Excludes DEF Exclusion
<1>. QED BY Invariance, <1>1, PTL

(* Whatever key is held in Consul, Unlock finds its lock in the map or is  *)
(* about to, as long as the name is not spoiled.                           *)
THEOREM HoldersKnown == Spec => []HeldIsKnown
<1>1. IndInv => HeldIsKnown
  BY NoneAssumption, CallersAssumption, StorageAssumption
  DEF IndInv, LockInv, OrphanSpoiled, HolderMapped, HeldIsKnown, ProcessOf
<1>. QED BY Invariance, <1>1, PTL

(* Delete removes only the value it was called for: one stored after it    *)
(* read the pair stays (DeleteCAS).                                        *)
THEOREM DeletesWhatItRead == Spec => []StoreKept
  BY Invariance, PTL DEF IndInv, DataInv

(* Under Lock, Exists and Store together store a value once.               *)
THEOREM NoSecondStore == Spec => StoredOnce
<1>1. IndInv /\ [Next]_vars =>
        [\A g \in Callers :
           Store(g) /\ name[g] \in data => Spoiled(name[g]) \/ name[g] \in suspect]_vars
  BY DEF IndInv, DataInv, StoreSafe, Store
<1>. QED BY Invariance, <1>1, PTL DEF Spec, StoredOnce
=============================================================================
