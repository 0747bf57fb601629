------------------------------ MODULE Handler ------------------------------
(***************************************************************************)
(* ServeHTTP (handler.go) on one cache key, with what it composes: the URL *)
(* lock, the index, and the storage of bodies (backends/memory.go,         *)
(* redis.go, file.go).  The lock, the index and a response have modules of *)
(* their own (KeyMutex, HTTPCache, Response); here an operation of theirs  *)
(* is one step, and the question is what clients are answered.             *)
(*                                                                         *)
(* Every request makes at most one entry of its own and one probe entry;   *)
(* a body is named after the request whose upstream wrote it.  The memory  *)
(* and Redis backends keep bodies in one store shared by all entries, under*)
(* a key made by keyWithRespectVary; the file backend has a file per entry.*)
(***************************************************************************)
EXTENDS Naturals, FiniteSets, SequencesExt

CONSTANTS
  Requests,
  Names, Values, \* request headers and their values, as sequences
  Sites,         \* the configurations to look at: the cache_type, whether
                 \* the handler is part of a cluster, the upstream's Vary line
                 \* split at commas (names, and whether a blank comes before),
                 \* and bounds: the values of headers, how many requests come
  ProbePublic,   \* what NewEntry says of a response without headers: FALSE
                 \* with a match_header rule, or for a POST
  Peer,          \* the bodies other nodes of the cluster store
  None

ASSUME NoneAssumption ==
  /\ None \notin Requests /\ Peer \notin Requests /\ Peer # None
  /\ None \notin [req : Requests, probe : BOOLEAN]
ASSUME ErrorsAssumption == {"nopre", "error"} \cap (Requests \cup {Peer}) = {}
ASSUME ValuesAssumption == <<>> \in Values /\ Values \subseteq Seq(STRING)
ASSUME SitesAssumption ==
  \A c \in Sites :
    /\ c.type \in {"memory", "redis", "file"} /\ c.distributed \in BOOLEAN /\ c.requests \in Nat
    /\ c.values \subseteq Values
    /\ c.vary \in Seq([name : Names, blank : BOOLEAN])
    \* "Currently, only support the memory backends" (handler.go)
    /\ c.distributed => c.type = "memory"
ASSUME FlagAssumption == ProbePublic \in BOOLEAN

VARIABLES
  conf,        \* one of the configurations
  pc, headers,
  owner,       \* who owns the key's URL lock
  prev,        \* the entry the last Get returned
  code, verdict, \* what fetchUpstream brought: the status, and whether the
               \* response is public or private or came with an error
  wrote,       \* whether its upstream wrote a body
  index,       \* the key's entries
  bucket,      \* the entry whose cleanEntry holds the bucket's write lock
  life,        \* an entry: "none", "fresh", "stale"
  closed,      \* entries whose upstream has closed the response
  cachedBytes, \* an entry's copy of its body (memory)
  store,       \* bodies by storage key (memory, Redis)
  files,       \* entries whose file exists
  replaced,    \* entries whose "go previousEntry.Clean()" has not run yet
  cleaned,     \* entries Clean was called on before they were closed
  stray,       \* requests whose body was closed after its entry was cleaned,
               \* or was fetched anew although its entry was fresh
  away,        \* requests whose client left in the middle of a body
  answer       \* what the client got: cache status, entry and body

fetchVars == <<code, verdict>>
storeVars == <<cachedBytes, store, files, wrote>>
indexVars == <<index, bucket, life, replaced>>
cleanVars == <<cleaned, stray>>
reqVars == <<conf, headers, away>>
vars == <<pc, reqVars, owner, prev, fetchVars, indexVars, closed, storeVars,
          cleanVars, answer>>

Kind == conf.type
Distributed == conf.distributed
Vary == conf.vary

EntryOf(r) == [req |-> r, probe |-> FALSE]
ProbeOf(r) == [req |-> r, probe |-> TRUE]
Entries == [req : Requests, probe : BOOLEAN]
Bodies == Requests \cup {Peer}

(* A probe entry's response has no headers yet, so no Vary: it matches     *)
(* every request.                                                          *)
matchVary(h, e) ==
  e.probe \/ \A i \in DOMAIN Vary : h[Vary[i].name] = headers[e.req][Vary[i].name]

(* Mutant: the storage key is the cache key alone. *)
KeyAlone(e) == <<>>

(* The values of the Vary headers, one after the other.  Names are not     *)
(* trimmed here, and no header's name begins with a blank.                 *)
VaryValues(h) ==
  FlattenSeq([i \in DOMAIN Vary |-> IF Vary[i].blank THEN <<>> ELSE h[Vary[i].name]])

keyWithRespectVary(e) == IF e.probe THEN <<>> ELSE VaryValues(headers[e.req])

Headers == [Names -> conf.values \cup {<<>>}]
StoreKeys == {<<>>} \cup {VaryValues(h) : h \in Headers}

Init ==
  /\ pc = [r \in Requests |-> "idle"] /\ owner = None
  /\ conf \in Sites /\ headers = [r \in Requests |-> [n \in Names |-> <<>>]]
  /\ prev = [r \in Requests |-> None]
  /\ code = [r \in Requests |-> 0] /\ verdict = [r \in Requests |-> None]
  /\ wrote = [r \in Requests |-> FALSE]
  /\ index = <<>> /\ bucket = None /\ life = [e \in Entries |-> "none"]
  /\ replaced = {} /\ closed = {} /\ files = {}
  /\ cachedBytes = [e \in Entries |-> None]
  /\ store = [k \in StoreKeys |-> None]
  /\ cleaned = {} /\ stray = {} /\ away = {}
  /\ answer = [r \in Requests |-> None]

-----------------------------------------------------------------------------
(* The index, as HTTPCache has it. *)

Matching(r) == {i \in DOMAIN index : matchVary(headers[r], index[i])}
IsFirst(i, S) == i \in S /\ \A j \in S : i <= j

Get(r, includeStale) ==
  LET hits == {i \in Matching(r) : life[index[i]] = "fresh" \/ includeStale} IN
  IF hits = {} THEN None ELSE index[CHOOSE i \in hits : IsFirst(i, hits)]

PutEntry(e) ==
  LET hits == Matching(e.req) IN
  /\ bucket = None
  /\ life' = [life EXCEPT ![e] = "fresh"]
  /\ \/ hits = {} /\ index' = Append(index, e) /\ UNCHANGED replaced
     \/ \E i \in hits :
          /\ IsFirst(i, hits)
          /\ replaced' = replaced \cup {index[i]}
          /\ index' = [index EXCEPT ![i] = e]
  /\ UNCHANGED bucket

-----------------------------------------------------------------------------
(* The backends. *)

(* The context a backend keeps is that of the request that made it: it is *)
(* cancelled when the request is over or its client has left.              *)
CtxAlive(e) == pc[e.req] # "done" /\ e.req \notin away

(* A call to a group of several nodes may fail on a cancelled context.     *)
CallMayFail(e) == Distributed /\ ~CtxAlive(e)

(* groupch.Get: what the group holds under the key, or what its getter     *)
(* finds collected in the context of the call.                             *)
GroupGet(k, collected) == IF store[k] # None THEN store[k] ELSE collected

(* GetReader: a body, "nopre" (a NoPreCollectError) or another error.  A   *)
(* Redis command fails on the context of a request that is over.           *)
ReadMemory(e) ==
  LET collected == IF ~e.probe /\ e \in closed /\ wrote[e.req] THEN e.req ELSE "nopre" IN
  IF cachedBytes[e] # None THEN cachedBytes[e] ELSE GroupGet(keyWithRespectVary(e), collected)

ReadRedis(e) ==
  LET found == store[keyWithRespectVary(e)] IN
  IF CtxAlive(e) /\ found # None THEN found ELSE "error"

ReadFile(e) == IF e \in files THEN e.req ELSE "error"

GetReader(e) ==
  CASE Kind = "memory" -> ReadMemory(e)
    [] Kind = "redis" -> ReadRedis(e)
    [] Kind = "file" -> ReadFile(e)

(* Whether it can fail with another error than a NoPreCollectError. *)
ReadFails(e) == GetReader(e) = "error" \/ (cachedBytes[e] = None /\ CallMayFail(e))

(* The memory backend keeps what it read, and so does the group. *)
Remember(e) ==
  LET b == GetReader(e)
      asked == Kind = "memory" /\ cachedBytes[e] = None /\ b \in Bodies IN
  /\ cachedBytes' = IF asked THEN [cachedBytes EXCEPT ![e] = b] ELSE cachedBytes
  /\ store' = IF asked /\ life[e] # "stale"
              THEN [store EXCEPT ![keyWithRespectVary(e)] = b] ELSE store

(* Close, of a body to which something was written if w.  In memory it     *)
(* asks the group for the key, with its content collected for the case     *)
(* that the group has none; Redis is set in any case.  Content lives until *)
(* the entry expires; when it has by then, the group does not keep it, and *)
(* Redis keeps it without a limit, as no time that has passed is sent.     *)
CloseMemory(e, w) ==
  LET k == keyWithRespectVary(e) IN
  \/ /\ w
     /\ cachedBytes' = [cachedBytes EXCEPT ![e] = GroupGet(k, e.req)]
     /\ store' = IF life[e] = "stale" THEN store ELSE [store EXCEPT ![k] = GroupGet(k, e.req)]
  \/ /\ ~w \/ CallMayFail(e)
     /\ UNCHANGED <<cachedBytes, store>>

CloseRedis(e) ==
  /\ store' = IF CtxAlive(e) THEN [store EXCEPT ![keyWithRespectVary(e)] = e.req] ELSE store
  /\ UNCHANGED cachedBytes

CloseStore(e, w) ==
  CASE Kind = "memory" -> CloseMemory(e, w)
    [] Kind = "redis" -> CloseRedis(e)
    [] Kind = "file" -> UNCHANGED <<cachedBytes, store>>

(* Mutant: the memory backend's Clean forgets to remove the content. *)
KeepBody(e) ==
  /\ files' = files \ {e}
  /\ cleaned' = cleaned \cup ({e} \ closed)
  /\ UNCHANGED <<cachedBytes, store>>

(* Clean.  On the context of a finished request the removal from Redis     *)
(* fails, and so may the one from a group with peers.                      *)
Removed(e) == [store EXCEPT ![keyWithRespectVary(e)] = None]

CleanMemory(e) == {Removed(e)} \cup (IF CallMayFail(e) THEN {store} ELSE {})

CleanRedis(e) == {IF CtxAlive(e) THEN Removed(e) ELSE store}

CleanBody(e) ==
  /\ store' \in CASE Kind = "memory" -> CleanMemory(e)
                  [] Kind = "redis" -> CleanRedis(e)
                  [] Kind = "file" -> {store}
  /\ files' = files \ {e}
  /\ cleaned' = cleaned \cup ({e} \ closed)
  /\ UNCHANGED cachedBytes

-----------------------------------------------------------------------------
(* ServeHTTP. *)

Goto(r, from, to) == pc[r] = from /\ pc' = [pc EXCEPT ![r] = to]

(* The end of ServeHTTP: the client has its answer, the lock is released,  *)
(* the local variables are no more.                                        *)
Finish(r, from, status, e, body) ==
  /\ Goto(r, from, "done")
  /\ answer' = [answer EXCEPT ![r] = [status |-> status, entry |-> e, body |-> body]]
  /\ owner' = None
  /\ prev' = [prev EXCEPT ![r] = None]
  /\ code' = [code EXCEPT ![r] = 0]
  /\ verdict' = [verdict EXCEPT ![r] = None]

(* A request comes, with its headers. *)
Arrive(r) ==
  /\ Cardinality({q \in Requests : pc[q] # "idle"}) < conf.requests
  /\ \E h \in [Names -> conf.values] : headers' = [headers EXCEPT ![r] = h]

(* A request that must not use the cache goes straight to the upstream.    *)
Bypass(r) ==
  /\ Goto(r, "idle", "done") /\ Arrive(r)
  /\ answer' = [answer EXCEPT ![r] = [status |-> "bypass", entry |-> None, body |-> r]]
  /\ UNCHANGED <<conf, away, owner, prev, fetchVars, indexVars, closed, storeVars, cleanVars>>

(* Mutant: no lock is taken. *)
AcquireNothing(r) ==
  /\ Goto(r, "idle", "get") /\ Arrive(r)
  /\ UNCHANGED <<conf, away, owner, prev, fetchVars, indexVars, closed, storeVars, cleanVars, answer>>

Acquire(r) ==
  /\ Goto(r, "idle", "get") /\ Arrive(r)
  /\ owner = None /\ owner' = r
  /\ UNCHANGED <<conf, away, prev, fetchVars, indexVars, closed, storeVars, cleanVars, answer>>

AfterMiss == IF Distributed THEN "probe" ELSE "fetch"

Lookup(r) ==
  LET e == Get(r, FALSE) IN
  /\ Goto(r, "get", IF e = None THEN AfterMiss ELSE "hit")
  /\ bucket = None
  /\ prev' = [prev EXCEPT ![r] = e]
  /\ UNCHANGED <<reqVars, owner, fetchVars, indexVars, closed, storeVars, cleanVars, answer>>

(* Mutant: an error of GetReader is not looked at. *)
RespondRaw(r, from, status, after) ==
  LET e == prev[r] IN
  /\ e \in closed
  /\ Finish(r, from, status, e, GetReader(e))
  /\ Remember(e)
  /\ UNCHANGED <<reqVars, indexVars, closed, files, wrote, cleanVars>>

(* respond with an entry of the index: its body, or nothing but its status *)
(* when memory has no content for it.  Any other error, also one of the    *)
(* copy to the client, falls through to what comes after.                  *)
RespondEntry(r, from, status, after) ==
  LET e == prev[r] IN
  /\ e \in closed
  /\ \/ /\ GetReader(e) # "error"
        /\ Finish(r, from, status, e, IF GetReader(e) = "nopre" THEN None ELSE GetReader(e))
        /\ Remember(e)
        /\ UNCHANGED <<away, stray>>
     \/ /\ ReadFails(e)
        /\ Goto(r, from, after)
        /\ UNCHANGED <<owner, prev, fetchVars, answer, away, stray, cachedBytes, store>>
     \/ /\ GetReader(e) \in Bodies
        /\ Goto(r, from, after)
        /\ Remember(e)
        /\ away' = away \cup {r}
        /\ stray' = IF life[e] = "fresh" THEN stray \cup {e.req} ELSE stray
        /\ UNCHANGED <<owner, prev, fetchVars, answer>>
  /\ UNCHANGED <<conf, headers, indexVars, closed, files, wrote, cleaned>>

RespondHit(r) == RespondEntry(r, "hit", "hit", AfterMiss)

(* The probe of a cluster: an entry without content is put in the index,   *)
(* in the hope that the group has the content.                             *)
ProbePut(r) ==
  /\ Goto(r, "probe", IF ProbePublic THEN "probed" ELSE "blocked")
  /\ PutEntry(ProbeOf(r))
  /\ closed' = closed \cup {ProbeOf(r)}
  /\ UNCHANGED <<reqVars, owner, prev, fetchVars, storeVars, cleanVars, answer>>

(* Without content the upstream is asked.  (A private probe is "blocked":  *)
(* writePrivateResponse calls SetBody a second time, and the token of the  *)
(* first is never taken.)                                                  *)
ProbeRespond(r) ==
  LET e == ProbeOf(r) IN
  /\ \/ /\ GetReader(e) # "nopre"
        /\ Finish(r, "probed", "hit", e, GetReader(e))
        /\ Remember(e)
     \/ /\ GetReader(e) # "nopre" \/ ReadFails(e)
        /\ Finish(r, "probed", "error", None, None)
        /\ UNCHANGED <<cachedBytes, store>>
     \/ /\ GetReader(e) = "nopre"
        /\ Goto(r, "probed", "fetch")
        /\ UNCHANGED <<owner, prev, fetchVars, answer, cachedBytes, store>>
  /\ UNCHANGED <<reqVars, indexVars, closed, files, wrote, cleanVars>>

(* fetchUpstream returns: a status, whether the response may be cached,    *)
(* and an error if the upstream has failed by then.                        *)
fetchUpstream(r) ==
  /\ Goto(r, "fetch", "fetched")
  /\ \E c \in {200, 500} : code' = [code EXCEPT ![r] = c]
  /\ \E v \in {"public", "private", "error"} : verdict' = [verdict EXCEPT ![r] = v]
  /\ UNCHANGED <<reqVars, owner, prev, indexVars, closed, storeVars, cleanVars, answer>>

(* Mutant: only a fresh entry answers for a server error. *)
LookupNoStale(r) ==
  LET e == IF code[r] >= 500 THEN Get(r, FALSE) ELSE None IN
  /\ Goto(r, "fetched", IF e = None THEN "decide" ELSE "stale")
  /\ bucket = None
  /\ prev' = [prev EXCEPT ![r] = e]
  /\ UNCHANGED <<reqVars, owner, fetchVars, indexVars, closed, storeVars, cleanVars, answer>>

(* After a server error a stale entry will do. *)
LookupStaleEntry(r) ==
  LET e == IF code[r] >= 500 THEN Get(r, TRUE) ELSE None IN
  /\ Goto(r, "fetched", IF e = None THEN "decide" ELSE "stale")
  /\ code[r] >= 500 => bucket = None
  /\ prev' = [prev EXCEPT ![r] = e]
  /\ UNCHANGED <<reqVars, owner, fetchVars, indexVars, closed, storeVars, cleanVars, answer>>

RespondStale(r) == RespondEntry(r, "stale", "hit", "decide")

(* The upstream's error, or a backend that cannot be made. *)
ReturnError(r) ==
  /\ verdict[r] \in {"error", "public"}
  /\ Finish(r, "decide", "error", None, None)
  /\ UNCHANGED <<reqVars, indexVars, closed, storeVars, cleanVars>>

(* A private response is handed on as it comes. *)
RespondPrivate(r) ==
  /\ verdict[r] = "private"
  /\ \E w \in BOOLEAN :
       /\ wrote' = [wrote EXCEPT ![r] = w]
       /\ Finish(r, "decide", "skip", EntryOf(r), IF w THEN r ELSE None)
  /\ UNCHANGED <<reqVars, indexVars, closed, cachedBytes, store, files, cleanVars>>

(* A public one gets a backend, from here on the upstream can close it ... *)
setBackend(r) ==
  /\ Goto(r, "decide", "put")
  /\ verdict[r] = "public"
  /\ files' = IF Kind = "file" THEN files \cup {EntryOf(r)} ELSE files
  /\ UNCHANGED <<reqVars, owner, prev, fetchVars, indexVars, closed, cachedBytes, store, wrote, cleanVars, answer>>

UpstreamClose(r) ==
  LET e == EntryOf(r) IN
  /\ pc[r] \in {"put", "respond"} /\ e \notin closed
  /\ closed' = closed \cup {e}
  /\ \E w \in BOOLEAN : wrote' = [wrote EXCEPT ![r] = w] /\ CloseStore(e, w)
  /\ stray' = IF e \in cleaned THEN stray \cup {r} ELSE stray
  /\ cleaned' = cleaned \ {e}
  /\ UNCHANGED <<pc, reqVars, owner, prev, fetchVars, indexVars, files, answer>>

(* ... is put in the index ... *)
Put(r) ==
  /\ Goto(r, "put", "respond")
  /\ PutEntry(EntryOf(r))
  /\ UNCHANGED <<reqVars, owner, prev, fetchVars, closed, storeVars, cleanVars, answer>>

(* ... and answers the request once it is complete, unless it cannot be    *)
(* read, or not be sent.                                                   *)
RespondMiss(r) ==
  LET e == EntryOf(r) IN
  /\ e \in closed
  /\ \/ /\ GetReader(e) \in Bodies
        /\ Finish(r, "respond", "miss", e, GetReader(e))
        /\ Remember(e)
     \/ /\ Finish(r, "respond", "error", None, None)
        /\ Remember(e) \/ (ReadFails(e) /\ UNCHANGED <<cachedBytes, store>>)
  /\ UNCHANGED <<reqVars, indexVars, closed, files, wrote, cleanVars>>

-----------------------------------------------------------------------------
(* An entry expires, in the index and in the store. *)
Expire(e) ==
  LET k == keyWithRespectVary(e) IN
  /\ life[e] = "fresh"
  /\ life' = [life EXCEPT ![e] = "stale"]
  /\ store' = IF ~e.probe /\ store[k] = e.req THEN [store EXCEPT ![k] = None] ELSE store
  /\ UNCHANGED <<pc, reqVars, owner, prev, fetchVars, index, bucket, replaced, closed,
                 cachedBytes, files, wrote, cleanVars, answer>>

(* The goroutine Put started for the entry it replaced. *)
CleanReplaced(e) ==
  /\ e \in replaced /\ replaced' = replaced \ {e}
  /\ CleanBody(e)
  /\ UNCHANGED <<pc, reqVars, owner, prev, fetchVars, index, bucket, life, closed, stray, wrote, answer>>

WithoutSlot(i) ==
  [j \in 1 .. Len(index) - 1 |-> IF j < i THEN index[j] ELSE index[j + 1]]

(* Mutant: the entry is cleaned and stays in the index. *)
CleanInPlace(e) ==
  /\ bucket = None /\ bucket' = e
  /\ e \in {index[i] : i \in DOMAIN index}
  /\ UNCHANGED <<pc, reqVars, owner, prev, fetchVars, index, life, replaced, closed, storeVars, cleanVars, answer>>

(* cleanEntry, for a purge or by the entry's timer: the entry leaves the   *)
(* index, and its body is cleaned before the bucket is unlocked, in a      *)
(* cluster unless the distributed lock is not to be had (distributedClean).*)
CleanEntry(e) ==
  /\ bucket = None /\ bucket' = e
  /\ \E i \in DOMAIN index : index[i] = e /\ index' = WithoutSlot(i)
  /\ UNCHANGED <<pc, reqVars, owner, prev, fetchVars, life, replaced, closed, storeVars, cleanVars, answer>>

CleanEntryBody(e) ==
  /\ bucket = e /\ bucket' = None
  /\ CleanBody(e) \/ (Distributed /\ UNCHANGED <<cachedBytes, store, files, cleaned>>)
  /\ UNCHANGED <<pc, reqVars, owner, prev, fetchVars, index, life, replaced, closed, stray, wrote, answer>>

(* Another node of the cluster stores a body in the group, or loses it. *)
PeerStore(k) ==
  /\ Distributed
  /\ \/ store[k] = None /\ store' = [store EXCEPT ![k] = Peer]
     \/ store[k] = Peer /\ store' = [store EXCEPT ![k] = None]
  /\ UNCHANGED <<pc, reqVars, owner, prev, fetchVars, indexVars, closed, cachedBytes, files, wrote, cleanVars, answer>>

-----------------------------------------------------------------------------
HandlerStep(r) ==
  \/ Lookup(r) \/ RespondHit(r) \/ ProbePut(r) \/ ProbeRespond(r)
  \/ fetchUpstream(r) \/ LookupStaleEntry(r) \/ RespondStale(r)
  \/ ReturnError(r) \/ RespondPrivate(r) \/ setBackend(r) \/ Put(r) \/ RespondMiss(r)

Next ==
  \/ \E r \in Requests : Bypass(r) \/ Acquire(r) \/ HandlerStep(r) \/ UpstreamClose(r)
  \/ \E e \in Entries : Expire(e) \/ CleanReplaced(e) \/ CleanEntry(e) \/ CleanEntryBody(e)
  \/ \E k \in StoreKeys : PeerStore(k)

Spec == Init /\ [][Next]_vars

-----------------------------------------------------------------------------
Places == {"idle", "get", "hit", "probe", "probed", "blocked", "fetch", "fetched", "stale",
           "decide", "put", "respond", "done"}
Answers == [status : {"hit", "miss", "skip", "bypass", "error"},
            entry : Entries \cup {None}, body : Bodies \cup {None}]

(* Types; what is sent to a client is a body or nothing. *)
TypeOK ==
  /\ conf \in Sites /\ headers \in [Requests -> Headers]
  /\ pc \in [Requests -> Places]
  /\ owner \in Requests \cup {None}
  /\ prev \in [Requests -> Entries \cup {None}]
  /\ code \in [Requests -> {0, 200, 500}]
  /\ verdict \in [Requests -> {None, "public", "private", "error"}]
  /\ wrote \in [Requests -> BOOLEAN]
  /\ index \in Seq(Entries) /\ bucket \in Entries \cup {None}
  /\ life \in [Entries -> {"none", "fresh", "stale"}]
  /\ cachedBytes \in [Entries -> Bodies \cup {None}]
  /\ store \in [StoreKeys -> Bodies \cup {None}]
  /\ \A S \in {closed, files, replaced, cleaned} : S \subseteq Entries
  /\ stray \subseteq Requests /\ away \subseteq Requests
  /\ answer \in [Requests -> Answers \cup {None}]

RightBody(a) ==
  a.entry \in Entries /\ ~a.entry.probe =>
    a.body \in {a.entry.req} \cup (IF wrote[a.entry.req] THEN {} ELSE {None})

(* A client is answered with the body that belongs to the entry, and so to *)
(* the headers, it is answered with, although all entries of a storage key *)
(* share one place in the store.  The exceptions are a body whose upstream *)
(* closed it after its entry was purged, and one that was fetched anew     *)
(* while it was fresh, its client having left (memory.go, Close and Clean; *)
(* ServeHTTP); and a cluster, where a body that peers store or that the    *)
(* distributed lock kept from being cleaned answers for the next entry.    *)
OwnBody ==
  \A r \in Requests :
    answer[r] # None => RightBody(answer[r]) \/ answer[r].body \in stray \/ Distributed

(* Whatever body a client is answered with, its own request agrees with    *)
(* the one the body was fetched for on every header the response varies by *)
(* (matchVary, keyWithRespectVary): one variant never answers for another, *)
(* through purges, replacements and expiry of the storage key's content.   *)
VariantServed ==
  \A r \in Requests :
    answer[r] # None /\ answer[r].body \in Requests =>
      \A i \in DOMAIN Vary :
        headers[r][Vary[i].name] = headers[answer[r].body][Vary[i].name]

(* A response in the cache "should be served as saved" (ServeHTTP): the    *)
(* upstream is asked only when the index has no fresh entry for the        *)
(* request, or its client left while it was sent one.  Neither requests    *)
(* that wait for each other nor a cleanEntry between Get and GetReader     *)
(* lead to a second fetch of what is cached.                               *)
HitServed ==
  \A r \in Requests \ away : pc[r] = "fetch" => Get(r, FALSE) \in {None, ProbeOf(r)}

(* readme.org, stale_max_age: when the upstream "answers with an HTTP      *)
(* status code >= 500" and there is an entry, expired or not, "this stale  *)
(* entry is used to answer instead of the 5xx response".                   *)
StaleUsed ==
  \A r \in Requests \ away : pc[r] = "decide" /\ code[r] >= 500 => Get(r, TRUE) = None
=============================================================================
