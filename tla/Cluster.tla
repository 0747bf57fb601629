------------------------------ MODULE Cluster ------------------------------
(***************************************************************************)
(* A purge in a cluster: Put, Del, cleanEntry and distributedClean         *)
(* (cache.go) on several nodes, the distributed lock and the watch of its  *)
(* keys (extends/distributed/register.go), handleDeleteKey (handler.go),   *)
(* and Close and Clean of the memory backend (backends/memory.go).         *)
(*                                                                         *)
(* Every node has an index of its own; bodies are in the group they share. *)
(* Who removes an entry asks Consul for the lock of its key.  The one that *)
(* gets it removes the body and sleeps while the other nodes, whose watch  *)
(* shows them the lock, delete the key.  The index is made of Go slices as *)
(* in HTTPCache: Del walks an array that others shift and overwrite.       *)
(***************************************************************************)
EXTENDS Naturals, Sequences, FiniteSetsExt

CONSTANTS
  Nodes,
  Locals,  \* a node's goroutines that purge a key or wait for an entry to age
  Chars, Keys, \* characters, and cache keys, sequences of them
  BucketOf, \* the bucket a key hashes to
  Entries, \* the *Entry objects of all nodes, records with the node, the key,
           \* what the request has in the headers a Vary may name, whether the
           \* response has such a Vary, whether it has a body (that which asks
           \* the group before the upstream has neither), and whether it ages
  Sites,   \* what to look at: sets of entries, and of jobs, the goroutines that
           \* get something to do
  MaxCap,  \* bound: largest capacity of a slice
  None

(* Keyprefix, and the characters handleDeleteKey trims. *)
Keyprefix == <<"d", "e", "l", "_", "c", "a", "c", "h", "e", "_", "k", "e", "y">>
Cutset == {Keyprefix[i] : i \in DOMAIN Keyprefix} \cup {"/"}

ASSUME LocalsAssumption == "watch" \notin Locals
ASSUME CharsAssumption == "/" \in Chars /\ Keyprefix \in Seq(Chars)
ASSUME KeysAssumption == Keys \subseteq Seq(Chars)
ASSUME EntriesAssumption ==
  /\ \A s \in Sites : s.entries \subseteq Entries
  /\ \A e \in Entries : e.node \in Nodes /\ e.key \in Keys
ASSUME CapAssumption == MaxCap \in Nat \ {0}
ASSUME NoneAssumption == None \notin Nodes /\ None \notin Entries /\ None \notin Keys

VARIABLES
  site,    \* the entries that requests make, and the jobs
  heap,    \* heap[n][k][c]: the backing array of capacity c of n's slice for k
  slice,   \* slice[n][k]: capacity and length of entries[b][k]
  put, closed, stale, \* entries that were put, closed, and have expired
  replaced,\* entries whose "go previousEntry.Clean()" has not run yet
  group,   \* the storage keys that have a body in the group
  pc, walk, entry, \* an actor: where it is, the slice its Del walks over and the
           \* next index, and the entry it cleans
  kv,      \* a key's lock in Consul: its value, the holder, if it has a session
  changed, \* nodes whose watch has something new to fetch
  work,    \* the locks a node's watch handler has still to look at
  due,     \* history: entries whose key another node has announced
  unsure,  \* history: nodes whose watch's Del may leave out an entry
  orphans  \* history: bodies whose cleaning failed, was left to a leader that
           \* did not clean them, or came before they were stored

index == <<heap, slice>>
entryVars == <<put, closed, stale, replaced>>
jobVars == <<pc, walk, entry>>
watchVars == <<changed, work>>
history == <<due, unsure, orphans>>
vars == <<site, index, entryVars, group, jobVars, kv, watchVars, history>>

Actors == Nodes \X (Locals \cup {"watch"})
NodeOf(a) == a[1]
Slots == 1 .. MaxCap
NoWalk == [key |-> None, cap |-> 0, len |-> 0, next |-> 1]

At(n, k, i) == heap[n][k][slice[n][k].cap][i]
InSlice(n, k) == {At(n, k, i) : i \in 1 .. slice[n][k].len}
Indexed(e) == e \in InSlice(e.node, e.key)
IsFresh(e) == e \notin stale

(* keyWithRespectVary: the storage key; variants have one of their own. *)
Store(e) == <<e.key, IF e.vary THEN e.request ELSE None>>

(* matchVary: an entry is good for the request another one was made for. *)
matchVary(e, previous) == previous.vary => e.request = previous.request

(* Whoever cleans an entry keeps the bucket it took it from: Put and Del   *)
(* wait.                                                                   *)
Holding == {"lock", "leader", "sleep", "failed"}
BucketFree(n, k) ==
  \A a \in Actors : NodeOf(a) = n /\ pc[a] \in Holding => BucketOf[entry[a].key] # BucketOf[k]

Init ==
  /\ site \in Sites
  /\ heap = [n \in Nodes |-> [k \in Keys |-> [c \in Slots |-> [i \in Slots |-> None]]]]
  /\ slice = [n \in Nodes |-> [k \in Keys |-> [cap |-> 0, len |-> 0]]]
  /\ put = {} /\ closed = {} /\ stale = {} /\ replaced = {} /\ group = {}
  /\ pc = [a \in Actors |-> "idle"]
  /\ walk = [a \in Actors |-> NoWalk] /\ entry = [a \in Actors |-> None]
  /\ kv = [k \in Keys |-> None] /\ changed = {} /\ work = [n \in Nodes |-> {}]
  /\ due = {} /\ unsure = {} /\ orphans = {}

Goto(a, from, to) == pc[a] = from /\ pc' = [pc EXCEPT ![a] = to]

-----------------------------------------------------------------------------
(* The names of locks. *)
lockKey(k) == Keyprefix \o <<"/">> \o k

HasPrefix(s, p) == Len(p) <= Len(s) /\ SubSeq(s, 1, Len(p)) = p

TrimLeft(s, cut) ==
  LET kept == {i \in DOMAIN s : s[i] \notin cut} IN
  IF kept = {} THEN <<>> ELSE SubSeq(s, Min(kept), Len(s))

trimmed(s) == IF HasPrefix(s, Keyprefix) THEN TrimLeft(s, Cutset) ELSE s

(* Keys that the trimming gives back, as those that begin with a method. *)
Plain(k) == k # <<>> /\ k[1] \notin Cutset

-----------------------------------------------------------------------------
(* What becomes of an entry and its body. *)

(* The watch of n is deleting k. *)
Deleting(n, k) == pc[<<n, "watch">>] # "idle" /\ walk[<<n, "watch">>].key = k

(* Somebody cleans the body the entry leads to. *)
Cleaning(e) == \E a \in Actors : entry[a] = e /\ pc[a] \in {"lock", "leader"}

(* append: in place while the array has room, into a copy of twice the     *)
(* capacity when it has none.                                              *)
AppendEntry(n, k, e) ==
  LET s == slice[n][k]
      c == IF s.len < s.cap THEN s.cap ELSE IF s.cap = 0 THEN 1 ELSE 2 * s.cap IN
  /\ c <= MaxCap
  /\ heap' = [heap EXCEPT ![n][k][c] =
                [i \in Slots |-> IF i <= s.len THEN At(n, k, i) ELSE IF i = s.len + 1 THEN e ELSE @[i]]]
  /\ slice' = [slice EXCEPT ![n][k] = [cap |-> c, len |-> s.len + 1]]
  /\ unsure' = IF Deleting(n, k) THEN unsure \cup {n} ELSE unsure
  /\ UNCHANGED <<replaced, due>>

Replace(n, k, i, e) ==
  /\ heap' = [heap EXCEPT ![n][k][slice[n][k].cap][i] = e]
  /\ replaced' = replaced \cup {At(n, k, i)}
  /\ due' = due \ {At(n, k, i)}
  /\ UNCHANGED <<slice, unsure>>

(* Put takes the place of the first entry that is good for the request. *)
Put(e) ==
  LET n == e.node
      k == e.key
      hits == {i \in 1 .. slice[n][k].len : matchVary(e, At(n, k, i))} IN
  /\ e \notin put /\ BucketFree(n, k)
  /\ put' = put \cup {e}
  /\ \/ hits = {} /\ AppendEntry(n, k, e)
     \/ \E i \in hits : (\A j \in hits : i <= j) /\ Replace(n, k, i, e)
  /\ orphans' = orphans \ {Store(e)}
  /\ UNCHANGED <<closed, stale, group, jobVars, kv, watchVars>>

(* The upstream closes the body, before or after Put: the group keeps what *)
(* it has under the storage key, or stores the body, or fails.             *)
Close(e) ==
  LET late == e \in put /\ ~Indexed(e) /\ e \notin replaced /\ ~Cleaning(e) IN
  /\ e \notin closed /\ e.body
  /\ closed' = closed \cup {e}
  /\ \/ /\ group' = group \cup {Store(e)}
        /\ orphans' = IF late THEN orphans \cup {Store(e)} ELSE orphans \ {Store(e)}
     \/ UNCHANGED <<group, orphans>>
  /\ UNCHANGED <<index, put, stale, replaced, jobVars, kv, watchVars, due, unsure>>

(* Its expiration passes. *)
Expire(e) ==
  /\ e.ages /\ e \in put \ stale
  /\ stale' = stale \cup {e} /\ due' = due \ {e}
  /\ UNCHANGED <<index, put, closed, replaced, group, jobVars, kv, watchVars, unsure, orphans>>

(* The group forgets a body that has expired, or for want of space. *)
Evict(s) ==
  /\ s \in group
  /\ group' = group \ {s} /\ orphans' = orphans \ {s}
  /\ UNCHANGED <<index, entryVars, jobVars, kv, watchVars, due, unsure>>

(* What fails to be cleaned and is in the group. *)
Orphaned(e) == orphans \cup ({Store(e)} \cap group)

(* The goroutine Put started for the entry it replaced. *)
CleanReplaced(e) ==
  /\ e \in replaced
  /\ replaced' = replaced \ {e}
  /\ \/ group' = group \ {Store(e)} /\ orphans' = orphans \ {Store(e)}
     \/ orphans' = Orphaned(e) /\ UNCHANGED group
  /\ UNCHANGED <<index, put, closed, stale, jobVars, kv, watchVars, due, unsure>>

-----------------------------------------------------------------------------
(* Del(k): a snapshot of the slice, if there is one, then a walk over its  *)
(* array as it is at each turn.  Nothing is left out when the slice has at *)
(* most two entries and none is added meanwhile.                           *)
Del(a, k) ==
  LET n == NodeOf(a)
      s == slice[n][k] IN
  \/ /\ k \in Keys /\ BucketFree(n, k) /\ s.len > 0
     /\ Goto(a, "idle", "walk")
     /\ walk' = [walk EXCEPT ![a] = [key |-> k, cap |-> s.cap, len |-> s.len, next |-> 1]]
     /\ unsure' = IF a[2] = "watch" /\ s.len > 2 THEN unsure \cup {n} ELSE unsure
  \/ /\ k \in Keys => BucketFree(n, k) /\ s.len = 0
     /\ pc[a] = "idle" /\ UNCHANGED <<pc, walk, unsure>>

Purge(a, k) ==
  /\ a \in site.jobs /\ a[2] # "watch" /\ Del(a, k)
  /\ UNCHANGED <<index, entryVars, group, entry, kv, watchVars, due, orphans>>

(* The same walk, further on or over. *)
Turn(w, len, next) == [key |-> w.key, cap |-> w.cap, len |-> len, next |-> next]

Visit(a) ==
  LET w == walk[a]
      e == heap[NodeOf(a)][w.key][w.cap][w.next] IN
  /\ w.next <= w.len
  /\ walk' = [walk EXCEPT ![a] = Turn(w, w.len, w.next + 1)]
  /\ \/ IsFresh(e) /\ Goto(a, "walk", "clean") /\ entry' = [entry EXCEPT ![a] = e]
     \/ ~IsFresh(e) /\ Goto(a, "walk", "walk") /\ UNCHANGED entry
  /\ UNCHANGED <<index, entryVars, group, kv, watchVars, history>>

Return(a) ==
  LET n == NodeOf(a) IN
  /\ walk[a].next > walk[a].len
  /\ Goto(a, "walk", "idle")
  /\ walk' = [walk EXCEPT ![a] = NoWalk]
  /\ IF a[2] = "watch" /\ n \in unsure
     THEN /\ unsure' = unsure \ {n}
          /\ due' = {e \in due : e.node # n \/ e.key # walk[a].key}
     ELSE UNCHANGED <<unsure, due>>
  /\ UNCHANGED <<index, entryVars, group, entry, kv, watchVars, orphans>>

(* An entry has been stale for long enough, and its timer cleans it, which *)
(* announces its key as a purge does.                                      *)
Wake(a, e) ==
  /\ a \in site.jobs /\ a[2] # "watch" /\ NodeOf(a) = e.node
  /\ e \in put /\ ~IsFresh(e) /\ Indexed(e)
  /\ Goto(a, "idle", "clean") /\ entry' = [entry EXCEPT ![a] = e]
  /\ UNCHANGED <<index, entryVars, group, walk, kv, watchVars, history>>

(* append(entries[:i], entries[i+1:]...): the last slot keeps its value. *)
Remove(n, k, i) ==
  LET s == slice[n][k] IN
  /\ heap' = [heap EXCEPT ![n][k][s.cap] = [j \in Slots |-> IF i <= j /\ j < s.len THEN @[j + 1] ELSE @[j]]]
  /\ slice' = [slice EXCEPT ![n][k] = [cap |-> s.cap, len |-> s.len - 1]]

(* cleanEntry takes the entry out of the index and keeps the bucket, or    *)
(* does not find it.                                                       *)
CleanEntry(a) ==
  LET e == entry[a] IN
  /\ pc[a] = "clean" /\ BucketFree(e.node, e.key)
  /\ \/ /\ Goto(a, "clean", "lock")
        /\ \E i \in 1 .. slice[e.node][e.key].len : At(e.node, e.key, i) = e /\ Remove(e.node, e.key, i)
        /\ due' = due \ {e}
        /\ UNCHANGED entry
     \/ /\ Goto(a, "clean", "walk")
        /\ ~Indexed(e)
        /\ entry' = [entry EXCEPT ![a] = None]
        /\ UNCHANGED <<index, due>>
  /\ UNCHANGED <<entryVars, group, walk, kv, watchVars, unsure, orphans>>

-----------------------------------------------------------------------------
(* distributedClean. *)

(* It returns, and with it cleanEntry: the bucket is free, and Del goes on *)
(* with its next entry unless there was an error.                          *)
Done(a, from, err) ==
  /\ Goto(a, from, "walk")
  /\ entry' = [entry EXCEPT ![a] = None]
  /\ walk' = IF err THEN [walk EXCEPT ![a] = Turn(walk[a], 0, walk[a].next)] ELSE walk
  /\ unsure' = IF err /\ a[2] = "watch" THEN unsure \cup {NodeOf(a)} ELSE unsure

(* No session, no lock, or an error of Lock, which is not passed on. *)
LockFails(a) ==
  /\ \E err \in BOOLEAN : Done(a, "lock", err)
  /\ orphans' = Orphaned(entry[a])
  /\ UNCHANGED <<index, entryVars, group, kv, watchVars, due>>

Elected(a) ==
  LET k == entry[a].key IN
  /\ Goto(a, "lock", "leader")
  /\ kv[k] = None
  /\ kv' = [kv EXCEPT ![k] = NodeOf(a)]
  /\ changed' = Nodes
  /\ due' = due \cup {e \in Entries : e.key = k /\ e.node # NodeOf(a) /\ Indexed(e) /\ IsFresh(e)}
  /\ UNCHANGED <<index, entryVars, group, walk, entry, work, unsure, orphans>>

(* Another node has the lock after a second of waiting: it is the leader,  *)
(* and is to clean the body.                                               *)
NotElected(a) ==
  /\ Done(a, "lock", FALSE)
  /\ kv[entry[a].key] # None
  /\ orphans' = IF \E b \in Actors \ {a} : pc[b] = "leader" /\ Store(entry[b]) = Store(entry[a])
                THEN orphans ELSE Orphaned(entry[a])
  /\ UNCHANGED <<index, entryVars, group, kv, watchVars, due>>

(* Mutant: whoever is elected sleeps and leaves the body. *)
CleanNothing(a) ==
  /\ Goto(a, "leader", "sleep")
  /\ UNCHANGED <<index, entryVars, group, walk, entry, kv, watchVars, history>>

(* The leader removes the body, or fails to; it does not try when it knows *)
(* that it has lost its lock.                                              *)
Clean(a) ==
  LET e == entry[a] IN
  /\ \/ Goto(a, "leader", "sleep") /\ group' = group \ {Store(e)} /\ orphans' = orphans \ {Store(e)}
     \/ Goto(a, "leader", "failed") /\ orphans' = Orphaned(e) /\ UNCHANGED group
     \/ /\ Goto(a, "leader", "sleep") /\ orphans' = Orphaned(e) /\ UNCHANGED group
        /\ kv[e.key] # NodeOf(a)
  /\ UNCHANGED <<index, entryVars, walk, entry, kv, watchVars, due, unsure>>

(* Nodes that still have a lock to fetch, and whose handler could do it.   *)
Pending(k) == {m \in changed \ {kv[k]} : pc[<<m, "watch">>] = "idle" /\ work[m] = {}}

(* The lock of k goes away; handlers that were busy have not seen it. *)
Gone(k) ==
  /\ kv' = [kv EXCEPT ![k] = None]
  /\ changed' = Nodes
  /\ due' = {e \in due : e.key = k => e.node \notin changed \ Pending(k)}
  /\ UNCHANGED work

(* Mutant: no time is left for the other nodes. *)
UnlockAtOnce(a) ==
  LET k == entry[a].key IN
  /\ Done(a, "sleep", FALSE) \/ Done(a, "failed", TRUE)
  /\ kv[k] = NodeOf(a) /\ Gone(k)
  /\ UNCHANGED <<index, entryVars, group, orphans>>

(* After three seconds the lock is released.  That is time enough for a    *)
(* watch that is idle.                                                     *)
Unlock(a) ==
  LET k == entry[a].key IN
  /\ Done(a, "sleep", FALSE) \/ Done(a, "failed", TRUE)
  /\ \/ kv[k] = NodeOf(a) /\ Pending(k) = {} /\ Gone(k)
     \/ kv[k] # NodeOf(a) /\ UNCHANGED <<kv, watchVars, due>>
  /\ UNCHANGED <<index, entryVars, group, orphans>>

(* A session that is lost; it lives longer than the three seconds. *)
SessionLost(k) ==
  /\ kv[k] # None /\ Pending(k) = {} /\ Gone(k)
  /\ UNCHANGED <<index, entryVars, group, jobVars, unsure, orphans>>

-----------------------------------------------------------------------------
(* The watch of a node fetches the keys under Keyprefix as they are now,   *)
(* and its handler deletes those whose lock another node holds.            *)
Fetch(n) ==
  LET seen == {k \in Keys : kv[k] \notin {None, n}} IN
  /\ n \in changed /\ pc[<<n, "watch">>] = "idle" /\ work[n] = {}
  /\ changed' = changed \ {n}
  /\ work' = [work EXCEPT ![n] = {lockKey(k) : k \in seen}]
  /\ UNCHANGED <<index, entryVars, group, jobVars, kv, history>>

handleDeleteKey(n, s) ==
  /\ s \in work[n]
  /\ Del(<<n, "watch">>, trimmed(s))
  /\ work' = [work EXCEPT ![n] = @ \ {s}]
  /\ UNCHANGED <<index, entryVars, group, entry, kv, changed, due, orphans>>

-----------------------------------------------------------------------------
Step(a) ==
  \/ (\E k \in Keys : Purge(a, k)) \/ Visit(a) \/ Return(a) \/ CleanEntry(a)
  \/ LockFails(a) \/ Elected(a) \/ NotElected(a) \/ Clean(a) \/ Unlock(a)

Life(e) ==
  \/ Put(e) \/ Close(e) \/ Expire(e) \/ CleanReplaced(e) \/ Evict(Store(e))
  \/ \E a \in Actors : Wake(a, e)

Watch(n) == Fetch(n) \/ \E s \in work[n] : handleDeleteKey(n, s)

Next ==
  /\ \/ \E a \in Actors : Step(a)
     \/ \E e \in site.entries : Life(e)
     \/ \E n \in Nodes : Watch(n)
     \/ \E k \in Keys : SessionLost(k)
  /\ UNCHANGED site

Spec == Init /\ [][Next]_vars

-----------------------------------------------------------------------------
(* Types. *)
TypeOK ==
  /\ site \in Sites
  /\ heap \in [Nodes -> [Keys -> [Slots -> [Slots -> Entries \cup {None}]]]]
  /\ slice \in [Nodes -> [Keys -> [cap : 0 .. MaxCap, len : 0 .. MaxCap]]]
  /\ put \subseteq Entries /\ closed \subseteq Entries /\ stale \subseteq Entries
  /\ replaced \subseteq Entries /\ due \subseteq Entries
  /\ pc \in [Actors -> {"idle", "walk", "clean"} \cup Holding]
  /\ walk \in [Actors -> [key : Keys \cup {None}, cap : 0 .. MaxCap, len : 0 .. MaxCap, next : 1 .. MaxCap + 1]]
  /\ entry \in [Actors -> Entries \cup {None}]
  /\ kv \in [Keys -> Nodes \cup {None}]
  /\ changed \subseteq Nodes /\ unsure \subseteq Nodes
  /\ work \in [Nodes -> SUBSET {lockKey(k) : k \in Keys}]

(* No announcement is forgotten: a fresh entry whose key another node's    *)
(* lock has announced stays in the index only while the lock is there for  *)
(* the watch to fetch, or is among those that the handler has still to     *)
(* look at, or the watch is deleting the key; when that Del returns the    *)
(* entry is gone.  Excepted are keys that handleDeleteKey trims to another *)
(* one, locks that come and go while the handler is busy, and what a Del   *)
(* leaves behind that ended with an error, saw more than two variants, or  *)
(* had one added to the slice under it (distributedClean, handleDeleteKey, *)
(* Del, Put).                                                              *)
PurgePropagates ==
  \A e \in due : Plain(e.key) =>
    \/ e.node \in changed /\ kv[e.key] \notin {None, e.node}
    \/ lockKey(e.key) \in work[e.node]
    \/ Deleting(e.node, e.key)

(* The entry leads to its body: by the index or soon by the index, or      *)
(* somebody is about to clean it.                                          *)
Leads(e) == Indexed(e) \/ (e \in closed /\ e \notin put) \/ e \in replaced \/ Cleaning(e)

(* A body does not outlive the entries that lead to it, unless the lock or *)
(* the group failed, or the leader it was left to cleaned another variant  *)
(* of the key or had cleaned already, or its entry was removed before      *)
(* Close stored it (Put, Close, cleanEntry, distributedClean).             *)
BodiesIndexed ==
  \A s \in group : s \in orphans \/ \E e \in Entries : Store(e) = s /\ Leads(e)
=============================================================================
