--------------------------- MODULE HandlerProofs ---------------------------
(***************************************************************************)
(* For any requests, headers and sites: what is cached is served as saved, *)
(* a stale entry answers for a server error, one variant never answers for *)
(* another, and a client is answered with its entry's own body.  Each of   *)
(* these says on which sites it holds (Uniform, Separate, Own).            *)
(***************************************************************************)
EXTENDS Handler, WellFoundedInduction, TLAPS

(* One request at a time is between Acquire and Unlock, only a handler of  *)
(* a cluster probes, and an entry to respond with is one Get has found.    *)
Locked == \A r \in Requests : pc[r] \notin {"idle", "done"} => owner = r
Clustered == \A r \in Requests : pc[r] \in {"probe", "probed", "blocked"} => Distributed
PrevKnown == \A r \in Requests : pc[r] \in {"hit", "stale"} => prev[r] \in Entries
Known == TypeOK /\ Locked /\ Clustered /\ PrevKnown

(* Put puts an entry in the index once, so no entry is there twice, and    *)
(* what has left the index does not come back.  A file is removed after    *)
(* its entry has left.                                                     *)
Indexed(e) == \E i \in DOMAIN index : index[i] = e
HasPut(e) ==
  IF e.probe THEN Distributed /\ pc[e.req] \notin {"idle", "get", "hit", "probe"}
             ELSE pc[e.req] \in {"respond", "done"}
PutBefore == \A e \in Entries : Indexed(e) \/ e \in replaced \/ e = bucket => HasPut(e)
Slots ==
  /\ \A i, j \in DOMAIN index : index[i] = index[j] => i = j
  /\ \A i \in DOMAIN index : index[i] \notin replaced /\ index[i] # bucket
FilesKept ==
  Kind = "file" => /\ \A i \in DOMAIN index : index[i] \in files
                   /\ \A r \in Requests : pc[r] = "put" => EntryOf(r) \in files
Tracked == PutBefore /\ Slots /\ FilesKept
NeverBack == \A e \in Entries : HasPut(e) /\ ~Indexed(e) => ~Indexed(e)'

(* The sites on which an entry that matches a request is the one entry     *)
(* that does: all but a cluster whose responses vary, where probe entries  *)
(* match every request.  Redis refuses reads in the context of a request   *)
(* that is over.                                                           *)
Uniform == Kind # "redis" /\ (~Distributed \/ Vary = <<>>)

OneEach ==
  \A h \in Headers : \A e, f \in Entries :
    Indexed(e) /\ Indexed(f) /\ matchVary(h, e) /\ matchVary(h, f) => e = f

(* What a request knows of the entries in the index that match it, by how  *)
(* far it is.                                                              *)
Matched(r, e) == Indexed(e) /\ matchVary(headers[r], e)
AtHit ==
  \A r \in Requests, e \in Entries :
    pc[r] = "hit" /\ Matched(r, e) /\ life[e] = "fresh" => e = prev[r]
AtFetch ==
  \A r \in Requests \ away, e \in Entries :
    pc[r] = "fetch" /\ Matched(r, e) /\ life[e] = "fresh" => e = ProbeOf(r)
AfterProbe ==
  Distributed => \A r \in Requests :
    /\ pc[r] \in {"probed", "fetch", "fetched", "stale"} =>
         \A e \in Entries : Indexed(e) => e = ProbeOf(r)
    /\ pc[r] = "stale" => prev[r] = ProbeOf(r)
AtStale ==
  \A r \in Requests, e \in Entries : pc[r] = "stale" /\ Matched(r, e) => e = prev[r]
AtDecide ==
  \A r \in Requests \ away, e \in Entries :
    pc[r] = "decide" /\ code[r] >= 500 => ~Matched(r, e)
Served == OneEach /\ AtHit /\ AtFetch /\ AfterProbe /\ AtStale /\ AtDecide

(* Where bodies are kept: an entry answers a request that matches it, and  *)
(* a body is under the storage key of the request it was fetched for.      *)
Found ==
  /\ \A e \in Entries : Indexed(e) => life[e] # "none"
  /\ \A r \in Requests, e \in Entries :
       pc[r] \in {"hit", "stale"} /\ prev[r] = e =>
         HasPut(e) /\ matchVary(headers[r], e) /\ life[e] # "none"
Filed(k, b) == pc[b] # "idle" /\ VaryValues(headers[b]) = k
Keyed ==
  /\ \A k \in StoreKeys, b \in Requests : store[k] = b => Filed(k, b)
  /\ \A e \in Entries, b \in Requests :
       cachedBytes[e] = b => pc[e.req] # "idle" /\ Filed(keyWithRespectVary(e), b)

(* Storage keys that tell variants apart: the names of the Vary line have  *)
(* no blanks before them, and values do not run into each other.           *)
Agree(h, g) == \A i \in DOMAIN Vary : h[Vary[i].name] = g[Vary[i].name]
KeysApart == \A h, g \in Headers : VaryValues(h) = VaryValues(g) => Agree(h, g)

(* The sites where one variant never answers for another: there are none,  *)
(* or the node is alone (a probe entry matches every request) and tells    *)
(* them apart by file or by storage key.                                   *)
Separate == Vary = <<>> \/ (~Distributed /\ (Kind = "file" \/ KeysApart))
Variants ==
  \A r, b \in Requests :
    answer[r] # None /\ answer[r].body = b =>
      pc[r] = "done" /\ pc[b] # "idle" /\ (Separate => Agree(headers[r], headers[b]))

(* An entry is closed once its request has a backend for it, and answers   *)
(* only then. *)
ClosedAt == \A r \in Requests : EntryOf(r) \in closed => pc[r] \in {"put", "respond", "done"}
Final(e) == e \in closed \/ pc[e.req] = "done"
Answered ==
  \A r \in Requests, e \in Entries :
    answer[r] # None /\ answer[r].entry = e /\ ~e.probe => Final(e)

(* A memory backend of its own whose keys tell variants apart: a body in   *)
(* the store is that of an entry in the index or on its way there, until   *)
(* it is cleaned; whoever fetches anew finds none but its own.             *)
Shelf == Kind = "memory" /\ ~Distributed /\ KeysApart
StoreHeld ==
  \A k \in StoreKeys, b \in Requests :
    store[k] = b =>
      /\ EntryOf(b) \in closed /\ life[EntryOf(b)] # "stale"
      /\ b \in stray \/ Indexed(EntryOf(b)) \/ bucket = EntryOf(b) \/ pc[b] = "put"
NoPeer == (\A k \in StoreKeys : store[k] # Peer) /\ (\A e \in Entries : cachedBytes[e] # Peer)
Asking == {"fetch", "fetched", "stale", "decide", "put", "respond"}
Clear ==
  \A q, b \in Requests, k \in StoreKeys :
    store[k] = b /\ VaryValues(headers[q]) = k =>
      /\ pc[q] \in Asking => b = q \/ b \in stray
      /\ pc[q] = "hit" => prev[q] = EntryOf(b) \/ b \in stray
Awaited ==
  \A r \in Requests :
    pc[r] = "respond" /\ EntryOf(r) \notin closed =>
      Indexed(EntryOf(r)) \/ bucket = EntryOf(r) \/ EntryOf(r) \in cleaned
CachedOwn ==
  \A r, b \in Requests : cachedBytes[EntryOf(r)] = b => b = r \/ b \in stray
WroteCached ==
  \A r \in Requests : EntryOf(r) \in closed /\ wrote[r] => cachedBytes[EntryOf(r)] # None
Shelved == StoreHeld /\ NoPeer /\ Clear /\ Awaited /\ CachedOwn /\ WroteCached

(* The sites where a body answers for its own entry only.  Not Redis: what *)
(* a request that is over stored there cannot be removed.  OwnBody excepts *)
(* clusters itself.                                                        *)
Own == Kind # "redis" /\ (Kind = "file" \/ Distributed \/ KeysApart)

-----------------------------------------------------------------------------
(* The operators. *)

LEMMA EntryTypes ==
  ASSUME NEW r \in Requests
  PROVE  EntryOf(r) \in Entries /\ ProbeOf(r) \in Entries
BY DEF EntryOf, ProbeOf, Entries

LEMMA SiteTypes ==
  ASSUME TypeOK
  PROVE  /\ Kind \in {"memory", "redis", "file"} /\ Distributed \in BOOLEAN
         /\ Distributed => Kind = "memory"
BY SitesAssumption DEF TypeOK, Kind, Distributed

(* The storage keys are those of the site. *)
LEMMA SameKeys ==
  ASSUME conf' = conf
  PROVE  StoreKeys' = StoreKeys /\ Headers' = Headers
<1>1. Headers' = Headers BY DEF Headers
<1>2. Vary' = Vary BY DEF Vary
<1>3. ASSUME NEW h PROVE VaryValues(h)' = VaryValues(h) BY <1>2 DEF VaryValues
<1> QED BY <1>1, <1>3 DEF StoreKeys

LEMMA KeyTypes ==
  ASSUME TypeOK, NEW e \in Entries
  PROVE  keyWithRespectVary(e) \in StoreKeys
BY DEF keyWithRespectVary, StoreKeys, TypeOK, Entries

(* GetReader answers with a body or one of the two kinds of errors; in     *)
(* memory the only one is a NoPreCollectError.                             *)
LEMMA ReadTypes ==
  ASSUME TypeOK, NEW e \in Entries
  PROVE  /\ GetReader(e) \in Bodies \cup {"nopre", "error"}
         /\ Kind = "memory" => GetReader(e) \in Bodies \cup {"nopre"}
         /\ Kind # "memory" => GetReader(e) \in Bodies \cup {"error"}
<1>1. /\ e.req \in Bodies /\ store[keyWithRespectVary(e)] \in Bodies \cup {None}
      /\ cachedBytes[e] \in Bodies \cup {None}
      BY KeyTypes DEF TypeOK, Entries, Bodies
<1>2. CASE Kind = "memory" BY <1>1, <1>2 DEF GetReader, ReadMemory, GroupGet
<1>3. CASE Kind = "redis" BY <1>1, <1>3 DEF GetReader, ReadRedis
<1>4. CASE Kind = "file" BY <1>1, <1>4 DEF GetReader, ReadFile
<1> QED BY <1>2, <1>3, <1>4, SiteTypes

LEMMA RememberTypes ==
  ASSUME TypeOK, NEW e \in Entries, Remember(e)
  PROVE  /\ cachedBytes' \in [Entries -> Bodies \cup {None}]
         /\ store' \in [StoreKeys -> Bodies \cup {None}]
BY KeyTypes DEF TypeOK, Remember

LEMMA CloseTypes ==
  ASSUME TypeOK, NEW e \in Entries, NEW w \in BOOLEAN, CloseStore(e, w)
  PROVE  /\ cachedBytes' \in [Entries -> Bodies \cup {None}]
         /\ store' \in [StoreKeys -> Bodies \cup {None}]
<1>1. /\ e.req \in Bodies /\ GroupGet(keyWithRespectVary(e), e.req) \in Bodies
      BY KeyTypes DEF TypeOK, Entries, Bodies, GroupGet
<1>2. CASE Kind = "memory" BY <1>1, <1>2 DEF TypeOK, CloseStore, CloseMemory
<1>3. CASE Kind = "redis" BY <1>1, <1>3 DEF TypeOK, CloseStore, CloseRedis
<1>4. CASE Kind = "file" BY <1>4 DEF TypeOK, CloseStore
<1> QED BY <1>2, <1>3, <1>4, SiteTypes

LEMMA CleanTypes ==
  ASSUME TypeOK, NEW e \in Entries, CleanBody(e)
  PROVE  /\ store' \in [StoreKeys -> Bodies \cup {None}] /\ cachedBytes' = cachedBytes
         /\ files' = files \ {e} /\ cleaned' \subseteq Entries
<1>1. Removed(e) \in [StoreKeys -> Bodies \cup {None}] BY DEF TypeOK, Removed
<1>2. store' \in {store, Removed(e)}
  <2>1. CASE Kind = "memory" BY <2>1 DEF CleanBody, CleanMemory
  <2>2. CASE Kind = "redis" BY <2>2 DEF CleanBody, CleanRedis
  <2>3. CASE Kind = "file" BY <2>3 DEF CleanBody
  <2> QED BY <2>1, <2>2, <2>3, SiteTypes
<1> QED BY <1>1, <1>2 DEF TypeOK, CleanBody

LEMMA LeastHit ==
  ASSUME NEW S \in SUBSET Nat, S # {}
  PROVE  \E i \in S : IsFirst(i, S)
<1> DEFINE R == {ss \in Nat \X Nat : ss[1] < ss[2]}
<1>1. IsWellFoundedOn(R, Nat)
  BY NatLessThanWellFounded, Zenon DEF OpToRel
<1> HIDE DEF R
<1>2. PICK i \in S : \A j \in S : ~(<<j, i>> \in R)
  BY <1>1, WFMin, Zenon
<1>3. \A j \in Nat : j < i => <<j, i>> \in R
  BY DEF R
<1>4. \A j \in S : j \in Nat /\ ~(j < i)
  BY <1>2, <1>3, Zenon
<1> QED BY <1>4 DEF IsFirst

(* Get answers with the first entry that matches, if there is one. *)
LEMMA GetFinds ==
  ASSUME TypeOK, NEW r \in Requests, NEW stale \in BOOLEAN
  PROVE  \/ /\ Get(r, stale) = None
            /\ \A i \in DOMAIN index :
                 ~(matchVary(headers[r], index[i]) /\ (life[index[i]] = "fresh" \/ stale))
         \/ /\ Get(r, stale) \in Entries /\ Get(r, stale) # None
            /\ \E i \in DOMAIN index :
                 /\ index[i] = Get(r, stale) /\ matchVary(headers[r], index[i])
                 /\ life[index[i]] = "fresh" \/ stale
<1> DEFINE hits == {i \in Matching(r) : life[index[i]] = "fresh" \/ stale}
<1>1. CASE hits = {} BY <1>1 DEF Get, Matching
<1>2. CASE hits # {}
  <2>1. hits \subseteq Nat BY DEF Matching, TypeOK
  <2>2. \E i \in hits : IsFirst(i, hits)
    BY <1>2, <2>1, LeastHit
  <2>3. PICK c \in hits : Get(r, stale) = index[c] BY <1>2, <2>2 DEF Get
  <2>4. c \in DOMAIN index /\ index[c] \in Entries BY DEF TypeOK, Matching
  <2> QED BY <2>3, <2>4, NoneAssumption DEF Matching, Entries
<1> QED BY <1>1, <1>2

-----------------------------------------------------------------------------
(* The lock and what a request knows of its own. *)

LEMMA KnownInit == Init => Known
<1> SUFFICES ASSUME Init PROVE Known OBVIOUS
<1>1. headers \in [Requests -> Headers] BY DEF Init, Headers
<1>2. TypeOK
  <2>1. /\ conf \in Sites /\ owner = None /\ index = <<>> /\ bucket = None /\ replaced = {}
        /\ closed = {} /\ files = {} /\ cleaned = {} /\ stray = {} /\ away = {}
        BY DEF Init
  <2>2. wrote \in [Requests -> BOOLEAN] BY DEF Init
  <2>3. /\ pc = [r \in Requests |-> "idle"] /\ prev = [r \in Requests |-> None]
        /\ code = [r \in Requests |-> 0] /\ verdict = [r \in Requests |-> None]
        /\ life = [e \in Entries |-> "none"] /\ cachedBytes = [e \in Entries |-> None]
        /\ store = [k \in StoreKeys |-> None] /\ answer = [r \in Requests |-> None]
        BY DEF Init
  <2> QED BY <1>1, <2>1, <2>2, <2>3 DEF TypeOK, Places
<1>3. Locked /\ Clustered /\ PrevKnown BY DEF Init, Locked, Clustered, PrevKnown
<1> QED BY <1>2, <1>3 DEF Known

(* The end of ServeHTTP. *)
LEMMA FinishKnown ==
  ASSUME Known, NEW r \in Requests, NEW from \in {"hit", "probed", "stale", "decide", "respond"},
         NEW status \in {"hit", "miss", "skip", "error"},
         NEW e \in Entries \cup {None}, NEW body \in Bodies \cup {None},
         Finish(r, from, status, e, body), conf' = conf
  PROVE  /\ Locked' /\ Clustered' /\ PrevKnown'
         /\ pc' \in [Requests -> Places]
         /\ owner' = None /\ prev' \in [Requests -> Entries \cup {None}]
         /\ code' \in [Requests -> {0, 200, 500}]
         /\ verdict' \in [Requests -> {None, "public", "private", "error"}]
         /\ answer' \in [Requests -> Answers \cup {None}]
<1>1. owner = r BY DEF Known, TypeOK, Locked, Finish, Goto
<1>2. \A q \in Requests : q # r => pc'[q] = pc[q] /\ pc[q] \in {"idle", "done"}
  BY <1>1 DEF Known, TypeOK, Locked, Finish, Goto
<1>3. pc'[r] = "done" BY DEF Known, TypeOK, Finish, Goto
<1>4. Locked' /\ Clustered' /\ PrevKnown' BY <1>2, <1>3 DEF Locked, Clustered, PrevKnown
<1>5. /\ pc' \in [Requests -> Places]
      /\ owner' = None /\ prev' \in [Requests -> Entries \cup {None}]
      /\ code' \in [Requests -> {0, 200, 500}]
      /\ verdict' \in [Requests -> {None, "public", "private", "error"}]
  BY DEF Known, TypeOK, Places, Finish, Goto
<1>6. answer' \in [Requests -> Answers \cup {None}]
  BY DEF Known, TypeOK, Answers, Finish
<1> QED BY <1>4, <1>5, <1>6

(* A step of ServeHTTP from one point to the next. *)
LEMMA GotoKnown ==
  ASSUME Known, NEW r \in Requests,
         NEW from \in {"get", "hit", "probe", "probed", "fetch", "fetched", "stale", "decide", "put"},
         NEW to \in {"hit", "probe", "probed", "blocked", "fetch", "fetched", "stale", "decide",
                     "put", "respond"},
         Goto(r, from, to), owner' = owner, conf' = conf,
         to \in {"probe", "probed", "blocked"} => Distributed
  PROVE  /\ Locked' /\ Clustered'
         /\ pc' \in [Requests -> Places]
         /\ pc'[r] = to /\ \A q \in Requests : q # r => pc'[q] = pc[q]
<1>1. /\ pc' \in [Requests -> Places]
      /\ pc'[r] = to /\ \A q \in Requests : q # r => pc'[q] = pc[q]
  BY DEF Known, TypeOK, Places, Goto
<1>2. owner = r BY DEF Known, TypeOK, Locked, Goto
<1>3. Locked' BY <1>1, <1>2 DEF Known, Locked
<1>4. Distributed' = Distributed BY DEF Distributed
<1>5. Clustered' BY <1>1, <1>4 DEF Known, Clustered
<1> QED BY <1>1, <1>3, <1>5

(* An entry is put in the index. *)
LEMMA PutTypes ==
  ASSUME TypeOK, NEW e \in Entries, PutEntry(e)
  PROVE  /\ index' \in Seq(Entries) /\ bucket = None /\ bucket' = None
         /\ life' = [life EXCEPT ![e] = "fresh"]
         /\ life' \in [Entries -> {"none", "fresh", "stale"}]
         /\ replaced' \subseteq Entries
         /\ \/ /\ Matching(e.req) = {} /\ replaced' = replaced /\ index' = Append(index, e)
            \/ \E i \in Matching(e.req) :
                 /\ replaced' = replaced \cup {index[i]}
                 /\ index' = [index EXCEPT ![i] = e]
<1>1. /\ bucket = None /\ bucket' = None /\ life' = [life EXCEPT ![e] = "fresh"]
      /\ \/ /\ Matching(e.req) = {} /\ replaced' = replaced /\ index' = Append(index, e)
         \/ \E i \in Matching(e.req) :
              replaced' = replaced \cup {index[i]} /\ index' = [index EXCEPT ![i] = e]
  BY DEF PutEntry
<1>2. life' \in [Entries -> {"none", "fresh", "stale"}] BY <1>1 DEF TypeOK
<1>3. CASE Matching(e.req) = {} /\ replaced' = replaced /\ index' = Append(index, e)
  BY <1>1, <1>2, <1>3 DEF TypeOK
<1>4. ASSUME NEW i \in Matching(e.req),
             replaced' = replaced \cup {index[i]}, index' = [index EXCEPT ![i] = e]
      PROVE  index' \in Seq(Entries) /\ replaced' \subseteq Entries
  BY <1>4 DEF TypeOK, Matching
<1> QED BY <1>1, <1>2, <1>3, <1>4

LEMMA KnownRequest ==
  ASSUME Known, NEW r \in Requests, Bypass(r) \/ Acquire(r)
  PROVE  Known'
<1>1. conf' = conf BY DEF Bypass, Acquire
<1>2. StoreKeys' = StoreKeys /\ Headers' = Headers /\ Distributed' = Distributed
  BY <1>1, SameKeys DEF Distributed
<1>3. PICK h \in [Names -> conf.values] : headers' = [headers EXCEPT ![r] = h]
  BY DEF Bypass, Acquire, Arrive
<1>4. headers' \in [Requests -> Headers]
  <2>1. h \in Headers BY DEF Headers
  <2> QED BY <1>3, <2>1 DEF Known, TypeOK
<1>5. CASE Bypass(r)
  <2>1. TypeOK'
    BY <1>1, <1>2, <1>4, <1>5 DEF Known, TypeOK, Bypass, Goto, fetchVars, indexVars, storeVars,
       cleanVars, Bodies, Places, Answers
  <2>2. Locked' /\ Clustered' /\ PrevKnown'
    BY <1>2, <1>5 DEF Known, TypeOK, Locked, Clustered, PrevKnown, Bypass, Goto
  <2> QED BY <2>1, <2>2 DEF Known
<1>6. CASE Acquire(r)
  <2>1. TypeOK'
    BY <1>1, <1>2, <1>4, <1>6 DEF Known, TypeOK, Acquire, Goto, fetchVars, indexVars, storeVars,
       cleanVars, Places
  <2>2. Locked' /\ Clustered' /\ PrevKnown'
    BY <1>2, <1>6, NoneAssumption DEF Known, TypeOK, Locked, Clustered, PrevKnown, Acquire, Goto
  <2> QED BY <2>1, <2>2 DEF Known
<1> QED BY <1>5, <1>6


(* Then the steps of ServeHTTP ... *)
LEMMA KnownRespondEntry ==
  ASSUME Known, NEW r \in Requests,
         RespondHit(r) \/ RespondStale(r)
  PROVE  Known'
<1> USE DEF fetchVars, indexVars, storeVars, cleanVars, reqVars
<1> DEFINE e == prev[r]
<1>0. PICK from \in {"hit", "stale"}, after \in {AfterMiss, "decide"} :
        /\ RespondEntry(r, from, "hit", after)
        /\ after # "decide" => from = "hit" /\ after = AfterMiss
  BY DEF RespondHit, RespondStale, AfterMiss
<1>1. conf' = conf /\ headers' = headers BY <1>0 DEF RespondEntry
<1>2. StoreKeys' = StoreKeys /\ Headers' = Headers BY <1>1, SameKeys
<1>3. pc[r] = from BY <1>0 DEF RespondEntry, Finish, Goto
<1>4. prev[r] \in Entries BY <1>3 DEF Known, PrevKnown
<1>5. TypeOK /\ GetReader(e) \in Bodies \cup {"nopre", "error"} BY <1>4, ReadTypes DEF Known
<1>6. CASE /\ GetReader(e) # "error"
           /\ Finish(r, from, "hit", e, IF GetReader(e) = "nopre" THEN None ELSE GetReader(e))
           /\ Remember(e)
           /\ UNCHANGED <<away, stray>>
  <2> DEFINE body == IF GetReader(e) = "nopre" THEN None ELSE GetReader(e)
  <2>1. body \in Bodies \cup {None} BY <1>5, <1>6
  <2> HIDE DEF body
  <2>2. /\ Locked' /\ Clustered' /\ PrevKnown' /\ pc' \in [Requests -> Places]
        /\ owner' = None /\ prev' \in [Requests -> Entries \cup {None}]
        /\ code' \in [Requests -> {0, 200, 500}]
        /\ verdict' \in [Requests -> {None, "public", "private", "error"}]
        /\ answer' \in [Requests -> Answers \cup {None}]
    <3>1. Finish(r, from, "hit", e, body) BY <1>6 DEF body
    <3> QED BY <1>1, <1>4, <2>1, <3>1, FinishKnown
  <2>3. TypeOK'
    BY <1>0, <1>1, <1>2, <1>4, <1>5, <1>6, <2>2, RememberTypes DEF TypeOK, RespondEntry
  <2> QED BY <2>2, <2>3 DEF Known
<1>7. CASE /\ Goto(r, from, after) /\ UNCHANGED <<owner, prev, fetchVars, answer>>
           /\ UNCHANGED <<cachedBytes, store>> \/ Remember(e)
           /\ \/ UNCHANGED <<away, stray>>
              \/ /\ away' = away \cup {r}
                 /\ stray' = IF life[e] = "fresh" THEN stray \cup {e.req} ELSE stray
  <2>1. after \in {"probe", "fetch", "decide"} /\ (after = "probe" => Distributed)
    BY <1>0 DEF AfterMiss
  <2>2. Locked' /\ Clustered' /\ pc' \in [Requests -> Places] /\ pc'[r] = after
        /\ \A q \in Requests : q # r => pc'[q] = pc[q]
    BY <1>1, <1>7, <2>1, GotoKnown
  <2>3. PrevKnown' BY <1>7, <2>1, <2>2 DEF Known, PrevKnown
  <2>4. away' \subseteq Requests /\ stray' \subseteq Requests
    BY <1>4, <1>7 DEF Known, TypeOK, Entries
  <2>5. TypeOK'
    BY <1>0, <1>1, <1>2, <1>4, <1>5, <1>7, <2>2, <2>4, RememberTypes DEF TypeOK, RespondEntry
  <2> QED BY <2>2, <2>3, <2>5 DEF Known
<1> QED BY <1>0, <1>6, <1>7 DEF RespondEntry

LEMMA KnownLookups ==
  ASSUME Known, NEW r \in Requests,
         Lookup(r) \/ fetchUpstream(r) \/ LookupStaleEntry(r) \/ setBackend(r)
  PROVE  Known'
<1> USE DEF fetchVars, indexVars, storeVars, cleanVars, reqVars
<1>1. conf' = conf /\ headers' = headers /\ owner' = owner /\ TypeOK
  BY DEF Known, Lookup, fetchUpstream, LookupStaleEntry, setBackend
<1>2. StoreKeys' = StoreKeys /\ Headers' = Headers BY <1>1, SameKeys
<1>3. CASE Lookup(r)
  <2> DEFINE to == IF Get(r, FALSE) = None THEN AfterMiss ELSE "hit"
  <2>1. Get(r, FALSE) \in Entries \cup {None} BY <1>1, GetFinds
  <2>2. to \in {"probe", "fetch", "hit"} /\ (to = "probe" => Distributed) BY DEF AfterMiss
  <2>3. Goto(r, "get", to) BY <1>3 DEF Lookup
  <2>4. prev' = [prev EXCEPT ![r] = Get(r, FALSE)] /\ (to = "hit" => Get(r, FALSE) # None)
    BY <1>3 DEF Lookup, AfterMiss
  <2> HIDE DEF to
  <2>5. Locked' /\ Clustered' /\ pc' \in [Requests -> Places] /\ pc'[r] = to
        /\ \A q \in Requests : q # r => pc'[q] = pc[q]
    BY <1>1, <2>2, <2>3, GotoKnown
  <2>6. PrevKnown' BY <1>1, <2>1, <2>2, <2>4, <2>5 DEF Known, TypeOK, PrevKnown
  <2>7. prev' \in [Requests -> Entries \cup {None}] BY <1>1, <2>1, <2>4 DEF TypeOK
  <2>8. UNCHANGED <<fetchVars, indexVars, closed, storeVars, cleanVars, away, answer>>
    BY <1>3 DEF Lookup
  <2>9. TypeOK' BY <1>1, <1>2, <2>5, <2>7, <2>8 DEF TypeOK
  <2> QED BY <2>5, <2>6, <2>9 DEF Known
<1>4. CASE LookupStaleEntry(r)
  <2> DEFINE e == IF code[r] >= 500 THEN Get(r, TRUE) ELSE None
             to == IF e = None THEN "decide" ELSE "stale"
  <2>1. e \in Entries \cup {None} BY <1>1, GetFinds
  <2>2. to \in {"decide", "stale"} /\ (to = "stale" => e # None) OBVIOUS
  <2>3. Goto(r, "fetched", to) /\ prev' = [prev EXCEPT ![r] = e] BY <1>4 DEF LookupStaleEntry
  <2> HIDE DEF to, e
  <2>5. Locked' /\ Clustered' /\ pc' \in [Requests -> Places] /\ pc'[r] = to
        /\ \A q \in Requests : q # r => pc'[q] = pc[q]
    BY <1>1, <2>2, <2>3, GotoKnown
  <2>6. PrevKnown' BY <1>1, <2>1, <2>2, <2>3, <2>5 DEF Known, TypeOK, PrevKnown
  <2>7. prev' \in [Requests -> Entries \cup {None}] BY <1>1, <2>1, <2>3 DEF TypeOK
  <2>8. UNCHANGED <<fetchVars, indexVars, closed, storeVars, cleanVars, away, answer>>
    BY <1>4 DEF LookupStaleEntry
  <2>9. TypeOK' BY <1>1, <1>2, <2>5, <2>7, <2>8 DEF TypeOK
  <2> QED BY <2>5, <2>6, <2>9 DEF Known
<1>5. CASE fetchUpstream(r)
  <2>1. Goto(r, "fetch", "fetched") BY <1>5 DEF fetchUpstream
  <2>2. Locked' /\ Clustered' /\ pc' \in [Requests -> Places] /\ pc'[r] = "fetched"
        /\ \A q \in Requests : q # r => pc'[q] = pc[q]
    BY <1>1, <2>1, GotoKnown
  <2>3. PrevKnown' BY <1>5, <2>2 DEF Known, PrevKnown, fetchUpstream
  <2>4. /\ code' \in [Requests -> {0, 200, 500}]
        /\ verdict' \in [Requests -> {None, "public", "private", "error"}]
    BY <1>1, <1>5 DEF TypeOK, fetchUpstream
  <2>5. UNCHANGED <<prev, indexVars, closed, storeVars, cleanVars, away, answer>>
    BY <1>5 DEF fetchUpstream
  <2>6. TypeOK' BY <1>1, <1>2, <2>2, <2>4, <2>5 DEF TypeOK
  <2> QED BY <2>2, <2>3, <2>6 DEF Known
<1>6. CASE setBackend(r)
  <2>1. Goto(r, "decide", "put") BY <1>6 DEF setBackend
  <2>2. Locked' /\ Clustered' /\ pc' \in [Requests -> Places] /\ pc'[r] = "put"
        /\ \A q \in Requests : q # r => pc'[q] = pc[q]
    BY <1>1, <2>1, GotoKnown
  <2>3. PrevKnown' BY <1>6, <2>2 DEF Known, PrevKnown, setBackend
  <2>4. TypeOK' BY <1>1, <1>2, <1>6, <2>2, EntryTypes DEF TypeOK, setBackend
  <2> QED BY <2>2, <2>3, <2>4 DEF Known
<1> QED BY <1>3, <1>4, <1>5, <1>6

LEMMA KnownPuts ==
  ASSUME Known, NEW r \in Requests, ProbePut(r) \/ Put(r)
  PROVE  Known'
<1> USE DEF fetchVars, indexVars, storeVars, cleanVars, reqVars
<1>1. conf' = conf /\ headers' = headers /\ owner' = owner /\ prev' = prev /\ TypeOK
  BY DEF Known, ProbePut, Put
<1>2. StoreKeys' = StoreKeys /\ Headers' = Headers BY <1>1, SameKeys
<1>3. CASE ProbePut(r)
  <2> DEFINE to == IF ProbePublic THEN "probed" ELSE "blocked"
  <2>1. to \in {"probed", "blocked"} /\ Distributed
    BY <1>3 DEF Known, Clustered, ProbePut, Goto
  <2>2. Goto(r, "probe", to) BY <1>3 DEF ProbePut
  <2> HIDE DEF to
  <2>3. Locked' /\ Clustered' /\ pc' \in [Requests -> Places] /\ pc'[r] = to
        /\ \A q \in Requests : q # r => pc'[q] = pc[q]
    BY <1>1, <2>1, <2>2, GotoKnown
  <2>4. PrevKnown' BY <1>1, <2>1, <2>3 DEF Known, PrevKnown
  <2>5. /\ index' \in Seq(Entries) /\ bucket' = None /\ replaced' \subseteq Entries
        /\ life' \in [Entries -> {"none", "fresh", "stale"}] /\ closed' \subseteq Entries
    BY <1>1, <1>3, PutTypes, EntryTypes DEF TypeOK, ProbePut
  <2>6. TypeOK' BY <1>1, <1>2, <1>3, <2>3, <2>5 DEF TypeOK, ProbePut
  <2> QED BY <2>3, <2>4, <2>6 DEF Known
<1>4. CASE Put(r)
  <2>1. Goto(r, "put", "respond") BY <1>4 DEF Put
  <2>3. Locked' /\ Clustered' /\ pc' \in [Requests -> Places] /\ pc'[r] = "respond"
        /\ \A q \in Requests : q # r => pc'[q] = pc[q]
    BY <1>1, <2>1, GotoKnown
  <2>4. PrevKnown' BY <1>1, <2>3 DEF Known, PrevKnown
  <2>5. /\ index' \in Seq(Entries) /\ bucket' = None /\ replaced' \subseteq Entries
        /\ life' \in [Entries -> {"none", "fresh", "stale"}]
    BY <1>1, <1>4, PutTypes, EntryTypes DEF Put
  <2>6. TypeOK' BY <1>1, <1>2, <1>4, <2>3, <2>5 DEF TypeOK, Put
  <2> QED BY <2>3, <2>4, <2>6 DEF Known
<1> QED BY <1>3, <1>4

LEMMA KnownAnswers ==
  ASSUME Known, NEW r \in Requests,
         ProbeRespond(r) \/ ReturnError(r) \/ RespondPrivate(r) \/ RespondMiss(r)
  PROVE  Known'
<1> USE DEF fetchVars, indexVars, storeVars, cleanVars, reqVars
<1> DEFINE Done == /\ Locked' /\ Clustered' /\ PrevKnown' /\ pc' \in [Requests -> Places]
                   /\ owner' = None /\ prev' \in [Requests -> Entries \cup {None}]
                   /\ code' \in [Requests -> {0, 200, 500}]
                   /\ verdict' \in [Requests -> {None, "public", "private", "error"}]
                   /\ answer' \in [Requests -> Answers \cup {None}]
<1>1. conf' = conf /\ headers' = headers /\ TypeOK
  BY DEF Known, ProbeRespond, ReturnError, RespondPrivate, RespondMiss
<1>2. StoreKeys' = StoreKeys /\ Headers' = Headers BY <1>1, SameKeys
<1>3. ASSUME NEW from \in {"hit", "probed", "stale", "decide", "respond"},
             NEW status \in {"hit", "miss", "skip", "error"},
             NEW e \in Entries \cup {None}, NEW body \in Bodies \cup {None},
             Finish(r, from, status, e, body)
      PROVE  Done
  BY <1>1, <1>3, FinishKnown
<1>e. EntryOf(r) \in Entries /\ ProbeOf(r) \in Entries BY EntryTypes
<1> HIDE DEF Done
<1>4. CASE ProbeRespond(r)
  <2> DEFINE e == ProbeOf(r)
  <2>1. Kind = "memory"
    <3>1. pc[r] = "probed" BY <1>4 DEF ProbeRespond, Finish, Goto
    <3> QED BY <1>1, <3>1, SiteTypes DEF Known, Clustered
  <2>2. GetReader(e) \in Bodies \cup {"nopre"} BY <1>1, <1>e, <2>1, ReadTypes
  <2>3. CASE /\ GetReader(e) # "nopre" /\ Finish(r, "probed", "hit", e, GetReader(e))
             /\ Remember(e)
    <3>1. Done BY <1>3, <1>e, <2>2, <2>3
    <3>2. TypeOK' BY <1>1, <1>2, <1>4, <1>e, <2>3, <3>1, RememberTypes DEF Done, TypeOK, ProbeRespond
    <3> QED BY <3>1, <3>2 DEF Known, Done
  <2>4. CASE Finish(r, "probed", "error", None, None) /\ UNCHANGED <<cachedBytes, store>>
    <3>1. Done BY <1>3, <2>4
    <3>2. TypeOK' BY <1>1, <1>2, <1>4, <2>4, <3>1 DEF Done, TypeOK, ProbeRespond
    <3> QED BY <3>1, <3>2 DEF Known, Done
  <2>5. CASE /\ Goto(r, "probed", "fetch")
             /\ UNCHANGED <<owner, prev, fetchVars, answer, cachedBytes, store>>
    <3>1. Locked' /\ Clustered' /\ pc' \in [Requests -> Places] /\ pc'[r] = "fetch"
          /\ \A q \in Requests : q # r => pc'[q] = pc[q]
      BY <1>1, <2>5, GotoKnown
    <3>2. PrevKnown' BY <2>5, <3>1 DEF Known, PrevKnown
    <3>3. TypeOK' BY <1>1, <1>2, <1>4, <2>5, <3>1 DEF TypeOK, ProbeRespond
    <3> QED BY <3>1, <3>2, <3>3 DEF Known
  <2> QED BY <1>4, <2>3, <2>4, <2>5 DEF ProbeRespond
<1>5. CASE ReturnError(r)
  <2>1. Done BY <1>3, <1>5 DEF ReturnError
  <2>2. TypeOK' BY <1>1, <1>2, <1>5, <2>1 DEF Done, TypeOK, ReturnError
  <2> QED BY <2>1, <2>2 DEF Known, Done
<1>6. CASE RespondPrivate(r)
  <2>1. PICK w \in BOOLEAN : /\ wrote' = [wrote EXCEPT ![r] = w]
                             /\ Finish(r, "decide", "skip", EntryOf(r), IF w THEN r ELSE None)
    BY <1>6 DEF RespondPrivate
  <2>2. (IF w THEN r ELSE None) \in Bodies \cup {None} BY DEF Bodies
  <2>3. Done BY <1>3, <1>e, <2>1, <2>2
  <2>4. wrote' \in [Requests -> BOOLEAN] BY <1>1, <2>1 DEF TypeOK
  <2>5. TypeOK' BY <1>1, <1>2, <1>6, <2>3, <2>4 DEF Done, TypeOK, RespondPrivate
  <2> QED BY <2>3, <2>5 DEF Known, Done
<1>7. CASE RespondMiss(r)
  <2> DEFINE e == EntryOf(r)
  <2>1. Done BY <1>3, <1>7, <1>e DEF RespondMiss
  <2>2. /\ cachedBytes' \in [Entries -> Bodies \cup {None}]
        /\ store' \in [StoreKeys -> Bodies \cup {None}]
    BY <1>1, <1>7, <1>e, RememberTypes DEF RespondMiss, TypeOK
  <2>3. TypeOK' BY <1>1, <1>2, <1>7, <2>1, <2>2 DEF Done, TypeOK, RespondMiss
  <2> QED BY <2>1, <2>3 DEF Known, Done
<1> QED BY <1>4, <1>5, <1>6, <1>7

(* ... those of the upstream goroutine, the timers, purges and peers. *)
LEMMA KnownOthers ==
  ASSUME Known,
         \/ \E r \in Requests : UpstreamClose(r)
         \/ \E e \in Entries : Expire(e) \/ CleanReplaced(e) \/ CleanEntry(e) \/ CleanEntryBody(e)
         \/ \E k \in StoreKeys : PeerStore(k)
  PROVE  Known'
<1> USE DEF fetchVars, indexVars, storeVars, cleanVars, reqVars
<1>1. /\ conf' = conf /\ headers' = headers /\ pc' = pc /\ owner' = owner /\ prev' = prev
      /\ TypeOK
  BY DEF Known, UpstreamClose, Expire, CleanReplaced, CleanEntry, CleanEntryBody, PeerStore
<1>2. StoreKeys' = StoreKeys /\ Headers' = Headers BY <1>1, SameKeys
<1>3. Locked' /\ Clustered' /\ PrevKnown'
  BY <1>1 DEF Known, Locked, Clustered, PrevKnown, Distributed
<1>4. ASSUME NEW r \in Requests, UpstreamClose(r) PROVE TypeOK'
  <2>1. PICK w \in BOOLEAN : wrote' = [wrote EXCEPT ![r] = w] /\ CloseStore(EntryOf(r), w)
    BY <1>4 DEF UpstreamClose
  <2>2. /\ cachedBytes' \in [Entries -> Bodies \cup {None}]
        /\ store' \in [StoreKeys -> Bodies \cup {None}]
    BY <1>1, <2>1, CloseTypes, EntryTypes
  <2>3. wrote' \in [Requests -> BOOLEAN] BY <1>1, <2>1 DEF TypeOK
  <2>4. closed' \subseteq Entries /\ stray' \subseteq Requests /\ cleaned' \subseteq Entries
    BY <1>1, <1>4, EntryTypes DEF TypeOK, UpstreamClose
  <2> QED BY <1>1, <1>2, <1>4, <2>2, <2>3, <2>4 DEF TypeOK, UpstreamClose
<1>5. ASSUME NEW e \in Entries, Expire(e) PROVE TypeOK'
  <2>1. store' \in [StoreKeys -> Bodies \cup {None}] BY <1>1, <1>5 DEF TypeOK, Expire
  <2>2. life' \in [Entries -> {"none", "fresh", "stale"}] BY <1>1, <1>5 DEF TypeOK, Expire
  <2> QED BY <1>1, <1>2, <1>5, <2>1, <2>2 DEF TypeOK, Expire
<1>6. ASSUME NEW e \in Entries, CleanReplaced(e) PROVE TypeOK'
  <2>1. CleanBody(e) BY <1>6 DEF CleanReplaced
  <2> QED BY <1>1, <1>2, <1>6, <2>1, CleanTypes DEF TypeOK, CleanReplaced
<1>7. ASSUME NEW e \in Entries, CleanEntry(e) PROVE TypeOK'
  <2>1. PICK i \in DOMAIN index : index' = WithoutSlot(i) BY <1>7 DEF CleanEntry
  <2>2. index' \in Seq(Entries) BY <1>1, <2>1 DEF TypeOK, WithoutSlot
  <2> QED BY <1>1, <1>2, <1>7, <2>2 DEF TypeOK, CleanEntry
<1>8. ASSUME NEW e \in Entries, CleanEntryBody(e) PROVE TypeOK'
  <2>1. CASE CleanBody(e)
    BY <1>1, <1>2, <1>8, <2>1, CleanTypes DEF TypeOK, CleanEntryBody
  <2>2. CASE UNCHANGED <<cachedBytes, store, files, cleaned>>
    BY <1>1, <1>2, <1>8, <2>2 DEF TypeOK, CleanEntryBody
  <2> QED BY <1>8, <2>1, <2>2 DEF CleanEntryBody
<1>9. ASSUME NEW k \in StoreKeys, PeerStore(k) PROVE TypeOK'
  <2>1. PICK b \in {Peer, None} : store' = [store EXCEPT ![k] = b] BY <1>9 DEF PeerStore
  <2>2. store' \in [StoreKeys -> Bodies \cup {None}] BY <1>1, <2>1 DEF TypeOK, Bodies
  <2> QED BY <1>1, <1>2, <1>9, <2>2 DEF TypeOK, PeerStore
<1> QED BY <1>3, <1>4, <1>5, <1>6, <1>7, <1>8, <1>9 DEF Known

LEMMA KnownStep == Known /\ [Next]_vars => Known'
<1> SUFFICES ASSUME Known, [Next]_vars PROVE Known' OBVIOUS
<1>1. ASSUME NEW r \in Requests, HandlerStep(r) PROVE Known'
  BY <1>1, KnownRespondEntry, KnownLookups, KnownPuts, KnownAnswers DEF HandlerStep
<1>2. CASE UNCHANGED vars
  <2>1. conf' = conf BY <1>2 DEF vars, reqVars
  <2>2. StoreKeys' = StoreKeys /\ Headers' = Headers BY <2>1, SameKeys
  <2>3. TypeOK'
    BY <1>2, <2>2 DEF vars, fetchVars, indexVars, storeVars, cleanVars, reqVars, Known, TypeOK
  <2> QED BY <1>2, <2>3 DEF vars, reqVars, Known, Locked, Clustered, PrevKnown, Distributed
<1> QED BY <1>1, <1>2, KnownRequest, KnownOthers DEF Next

LEMMA KnownAlways == Spec => []Known
BY KnownInit, KnownStep, PTL DEF Spec

(* The types of the handler's state: what a client is sent is a body or    *)
(* nothing, on every site, through every error of a backend.               *)
THEOREM TypeCorrect == Spec => []TypeOK
BY KnownAlways, PTL DEF Known

-----------------------------------------------------------------------------
(* The index. *)

(* A request that is past a point stays past it, and a step is one of the  *)
(* few that touch the index or the files, or leaves them alone.            *)
Untouched ==
  /\ UNCHANGED <<index, bucket, replaced, files>>
  /\ \A q \in Requests : pc'[q] = "put" => pc[q] = "put"
LEMMA StepsOfIndex ==
  ASSUME Known, [Next]_vars
  PROVE  /\ conf' = conf
         /\ \A q \in Requests : pc[q] \in {"respond", "done"} => pc'[q] \in {"respond", "done"}
         /\ \A q \in Requests : pc[q] \notin {"idle", "get", "hit", "probe"} =>
                                pc'[q] \notin {"idle", "get", "hit", "probe"}
         /\ \/ Untouched
            \/ \E r \in Requests : setBackend(r) \/ ProbePut(r) \/ Put(r)
            \/ \E e \in Entries : CleanReplaced(e) \/ CleanEntry(e) \/ CleanEntryBody(e)
<1> USE DEF fetchVars, indexVars, storeVars, cleanVars, reqVars, Goto
<1>0. pc \in [Requests -> Places] BY DEF Known, TypeOK
<1>1. CASE UNCHANGED vars BY <1>1 DEF vars, Untouched
<1>2. ASSUME NEW r \in Requests, Bypass(r) \/ Acquire(r) \/ Lookup(r) \/ fetchUpstream(r)
                                 \/ LookupStaleEntry(r)
      PROVE  /\ conf' = conf /\ Untouched
             /\ \A q \in Requests : pc[q] \in {"respond", "done"} => pc'[q] \in {"respond", "done"}
             /\ \A q \in Requests : pc[q] \notin {"idle", "get", "hit", "probe"} =>
                                    pc'[q] \notin {"idle", "get", "hit", "probe"}
  <2>1. CASE Bypass(r) \/ Acquire(r) BY <1>0, <2>1 DEF Untouched, Bypass, Acquire
  <2>2. CASE Lookup(r)
    <3>1. \E to \in {"probe", "fetch", "hit"} : Goto(r, "get", to)
      BY <2>2 DEF Lookup, AfterMiss
    <3>2. conf' = conf /\ UNCHANGED <<index, bucket, replaced, files>> BY <2>2 DEF Lookup
    <3> QED BY <1>0, <3>1, <3>2 DEF Untouched
  <2>3. CASE fetchUpstream(r) BY <1>0, <2>3 DEF Untouched, fetchUpstream
  <2>4. CASE LookupStaleEntry(r)
    <3>1. \E to \in {"decide", "stale"} : Goto(r, "fetched", to) BY <2>4 DEF LookupStaleEntry
    <3>2. conf' = conf /\ UNCHANGED <<index, bucket, replaced, files>> BY <2>4 DEF LookupStaleEntry
    <3> QED BY <1>0, <3>1, <3>2 DEF Untouched
  <2> QED BY <1>2, <2>1, <2>2, <2>3, <2>4
<1>3. ASSUME NEW r \in Requests, RespondHit(r) \/ RespondStale(r) \/ ProbeRespond(r)
                                 \/ ReturnError(r) \/ RespondPrivate(r) \/ RespondMiss(r)
      PROVE  /\ conf' = conf /\ Untouched
             /\ \A q \in Requests : pc[q] \in {"respond", "done"} => pc'[q] \in {"respond", "done"}
             /\ \A q \in Requests : pc[q] \notin {"idle", "get", "hit", "probe"} =>
                                    pc'[q] \notin {"idle", "get", "hit", "probe"}
  BY <1>0, <1>3 DEF Untouched, RespondHit, RespondStale, RespondEntry, AfterMiss, ProbeRespond,
     ReturnError, RespondPrivate, RespondMiss, Finish
<1>4. ASSUME NEW r \in Requests, setBackend(r) \/ ProbePut(r) \/ Put(r)
      PROVE  /\ conf' = conf
             /\ \A q \in Requests : pc[q] \in {"respond", "done"} => pc'[q] \in {"respond", "done"}
             /\ \A q \in Requests : pc[q] \notin {"idle", "get", "hit", "probe"} =>
                                    pc'[q] \notin {"idle", "get", "hit", "probe"}
  BY <1>0, <1>4 DEF setBackend, ProbePut, Put
<1>5. ASSUME \/ \E r \in Requests : UpstreamClose(r)
             \/ \E e \in Entries : Expire(e)
             \/ \E k \in StoreKeys : PeerStore(k)
      PROVE  conf' = conf /\ pc' = pc /\ Untouched
  BY <1>5 DEF Untouched, UpstreamClose, Expire, PeerStore
<1>6. ASSUME NEW e \in Entries, CleanReplaced(e) \/ CleanEntry(e) \/ CleanEntryBody(e)
      PROVE  conf' = conf /\ pc' = pc
  BY <1>6 DEF CleanReplaced, CleanEntry, CleanEntryBody
<1> QED BY <1>1, <1>2, <1>3, <1>4, <1>5, <1>6 DEF Next, HandlerStep

LEMMA HasPutStays ==
  ASSUME Known, [Next]_vars, NEW e \in Entries, HasPut(e)
  PROVE  HasPut(e)'
<1>1. e.req \in Requests /\ Distributed' = Distributed
  BY StepsOfIndex DEF Entries, Distributed
<1> QED BY <1>1, StepsOfIndex DEF HasPut

(* The effects of Put and of a removal, slot by slot. *)
LEMMA PutSlots ==
  ASSUME TypeOK, NEW e \in Entries, PutEntry(e)
  PROVE  \/ /\ Matching(e.req) = {} /\ replaced' = replaced
            /\ DOMAIN index' = DOMAIN index \cup {Len(index) + 1}
            /\ Len(index) + 1 \notin DOMAIN index
            /\ index'[Len(index) + 1] = e
            /\ \A i \in DOMAIN index : index'[i] = index[i]
         \/ \E i \in Matching(e.req) :
              /\ i \in DOMAIN index
              /\ replaced' = replaced \cup {index[i]}
              /\ DOMAIN index' = DOMAIN index
              /\ index'[i] = e
              /\ \A j \in DOMAIN index : j # i => index'[j] = index[j]
<1>1. index \in Seq(Entries) BY DEF TypeOK
<1>2. CASE Matching(e.req) = {} /\ replaced' = replaced /\ index' = Append(index, e)
  BY <1>1, <1>2
<1>3. ASSUME NEW i \in Matching(e.req),
             replaced' = replaced \cup {index[i]}, index' = [index EXCEPT ![i] = e]
      PROVE  /\ i \in DOMAIN index /\ DOMAIN index' = DOMAIN index /\ index'[i] = e
             /\ \A j \in DOMAIN index : j # i => index'[j] = index[j]
  BY <1>1, <1>3 DEF Matching
<1> QED BY <1>2, <1>3, PutTypes

LEMMA RemovedSlot ==
  ASSUME TypeOK, NEW e \in Entries, CleanEntry(e)
  PROVE  \E i \in DOMAIN index :
           /\ index[i] = e
           /\ \A j \in DOMAIN index' : j < i => j \in DOMAIN index /\ index'[j] = index[j]
           /\ \A j \in DOMAIN index' : ~(j < i) => j + 1 \in DOMAIN index /\ index'[j] = index[j + 1]
<1>1. index \in Seq(Entries) BY DEF TypeOK
<1>2. PICK i \in DOMAIN index : index[i] = e /\ index' = WithoutSlot(i) BY DEF CleanEntry
<1>3. DOMAIN index = 1 .. Len(index) /\ DOMAIN index' = 1 .. Len(index) - 1 /\ Len(index) \in Nat
  BY <1>1, <1>2 DEF WithoutSlot
<1>4. \A j \in DOMAIN index' : index'[j] = IF j < i THEN index[j] ELSE index[j + 1]
  BY <1>1, <1>2, <1>3 DEF WithoutSlot
<1> QED BY <1>2, <1>3, <1>4

LEMMA TrackedInit == Init => Tracked
<1> SUFFICES ASSUME Init PROVE Tracked OBVIOUS
<1>1. index = <<>> /\ replaced = {} /\ bucket = None BY DEF Init
<1>2. PutBefore BY <1>1, NoneAssumption DEF PutBefore, Indexed, Entries
<1>3. Slots BY <1>1 DEF Slots
<1>4. FilesKept BY <1>1 DEF Init, FilesKept
<1> QED BY <1>2, <1>3, <1>4 DEF Tracked

(* A Put of an entry that was not in the index before. *)
LEMMA TrackedPut ==
  ASSUME Known, Tracked, [Next]_vars, NEW e \in Entries, PutEntry(e), ~HasPut(e), HasPut(e)',
         files' = files, \A q \in Requests : pc'[q] = "put" => pc[q] = "put",
         Kind = "file" => e \in files
  PROVE  Tracked'
<1>0. TypeOK /\ conf' = conf /\ bucket = None /\ bucket' = None
  BY StepsOfIndex, PutTypes DEF Known
<1>1. ~Indexed(e) /\ e \notin replaced BY DEF Tracked, PutBefore
<1>2. \A i \in DOMAIN index : index[i] \in Entries BY <1>0 DEF TypeOK
<1>3. CASE /\ replaced' = replaced
           /\ DOMAIN index' = DOMAIN index \cup {Len(index) + 1}
           /\ Len(index) + 1 \notin DOMAIN index
           /\ index'[Len(index) + 1] = e
           /\ \A i \in DOMAIN index : index'[i] = index[i]
  <2>1. \A f \in Entries : Indexed(f)' => Indexed(f) \/ f = e BY <1>3 DEF Indexed
  <2>2. PutBefore' BY <1>0, <1>3, <2>1, HasPutStays, NoneAssumption DEF Tracked, PutBefore, Entries
  <2>3. Slots' BY <1>0, <1>1, <1>2, <1>3, NoneAssumption DEF Tracked, Slots, Indexed, Entries
  <2>4. FilesKept' BY <1>0, <1>3 DEF Tracked, FilesKept, Kind
  <2> QED BY <2>2, <2>3, <2>4 DEF Tracked
<1>4. ASSUME NEW i \in DOMAIN index, replaced' = replaced \cup {index[i]},
             DOMAIN index' = DOMAIN index, index'[i] = e,
             \A j \in DOMAIN index : j # i => index'[j] = index[j]
      PROVE  Tracked'
  <2>1. \A f \in Entries : Indexed(f)' => Indexed(f) \/ f = e BY <1>4 DEF Indexed
  <2>2. \A f \in Entries : f \in replaced' => f \in replaced \/ Indexed(f) BY <1>4 DEF Indexed
  <2>3. PutBefore' BY <1>0, <2>1, <2>2, HasPutStays, NoneAssumption DEF Tracked, PutBefore, Entries
  <2>4. e # index[i] BY <1>1 DEF Indexed
  <2>5. Slots'
    <3>1. \A j, k \in DOMAIN index : index'[j] = index'[k] => j = k
      BY <1>1, <1>4 DEF Tracked, Slots, Indexed
    <3>2. \A j \in DOMAIN index : index'[j] \notin replaced'
      BY <1>1, <1>4, <2>4 DEF Tracked, Slots
    <3>3. \A j \in DOMAIN index : index'[j] # None
      BY <1>2, <1>4, NoneAssumption DEF Entries
    <3> QED BY <1>0, <1>4, <3>1, <3>2, <3>3 DEF Slots
  <2>6. FilesKept' BY <1>0, <1>4 DEF Tracked, FilesKept, Kind
  <2> QED BY <2>3, <2>5, <2>6 DEF Tracked
<1> QED BY <1>0, <1>3, <1>4, PutSlots

LEMMA TrackedStep == Known /\ Tracked /\ [Next]_vars => Tracked'
<1> SUFFICES ASSUME Known, Tracked, [Next]_vars PROVE Tracked' OBVIOUS
<1> USE DEF indexVars, storeVars, reqVars
<1>0. TypeOK /\ conf' = conf /\ Kind' = Kind /\ PutBefore /\ Slots /\ FilesKept
  BY StepsOfIndex DEF Known, Kind, Tracked
<1>1. CASE Untouched
  <2>1. PutBefore'
    BY <1>0, <1>1, HasPutStays DEF PutBefore, Untouched, Indexed
  <2>2. Slots' /\ FilesKept' BY <1>0, <1>1 DEF Slots, FilesKept, Untouched
  <2> QED BY <2>1, <2>2 DEF Tracked
<1>2. ASSUME NEW r \in Requests, setBackend(r) PROVE Tracked'
  <2>1. PutBefore' BY <1>0, <1>2, HasPutStays DEF PutBefore, setBackend, Indexed
  <2>2. Slots' BY <1>0, <1>2 DEF Slots, setBackend
  <2>3. FilesKept' BY <1>0, <1>2 DEF TypeOK, FilesKept, setBackend, Goto
  <2> QED BY <2>1, <2>2, <2>3 DEF Tracked
<1>3. ASSUME NEW r \in Requests, ProbePut(r) PROVE Tracked'
  <2>1. /\ pc[r] = "probe" /\ pc'[r] \in {"probed", "blocked"} /\ files' = files
        /\ \A q \in Requests : pc'[q] = "put" => pc[q] = "put"
    BY <1>0, <1>3 DEF TypeOK, ProbePut, Goto
  <2>2. Distributed /\ Distributed' = Distributed
    BY <1>0, <2>1 DEF Known, Clustered, Distributed
  <2>3. ~HasPut(ProbeOf(r)) /\ HasPut(ProbeOf(r))'
    BY <2>1, <2>2 DEF HasPut, ProbeOf
  <2>4. Kind # "file" BY <1>0, <2>2, SiteTypes
  <2> QED BY <1>3, <2>1, <2>3, <2>4, EntryTypes, TrackedPut DEF ProbePut
<1>4. ASSUME NEW r \in Requests, Put(r) PROVE Tracked'
  <2>1. /\ pc[r] = "put" /\ pc'[r] = "respond" /\ files' = files
        /\ \A q \in Requests : pc'[q] = "put" => pc[q] = "put"
    BY <1>0, <1>4 DEF TypeOK, Put, Goto
  <2>2. ~HasPut(EntryOf(r)) /\ HasPut(EntryOf(r))'
    BY <2>1 DEF HasPut, EntryOf
  <2>3. Kind = "file" => EntryOf(r) \in files BY <1>0, <2>1 DEF FilesKept
  <2> QED BY <1>4, <2>1, <2>2, <2>3, EntryTypes, TrackedPut DEF Put
<1>5. ASSUME NEW e \in Entries, CleanReplaced(e) PROVE Tracked'
  <2>1. /\ index' = index /\ bucket' = bucket /\ pc' = pc /\ e \in replaced
        /\ replaced' = replaced \ {e} /\ files' = files \ {e}
    BY <1>5 DEF CleanReplaced, CleanBody
  <2>2. PutBefore' BY <1>0, <2>1, HasPutStays DEF PutBefore, Indexed
  <2>3. Slots' BY <1>0, <2>1 DEF Slots
  <2>4. FilesKept'
    <3>1. \A r \in Requests : pc[r] = "put" => EntryOf(r) # e
      BY <1>0, <2>1 DEF PutBefore, HasPut, EntryOf
    <3>2. \A i \in DOMAIN index : index[i] # e BY <1>0, <2>1 DEF Slots
    <3> QED BY <1>0, <2>1, <3>1, <3>2 DEF FilesKept
  <2> QED BY <2>2, <2>3, <2>4 DEF Tracked
<1>6. ASSUME NEW e \in Entries, CleanEntry(e) PROVE Tracked'
  <2>1. PICK i \in DOMAIN index :
          /\ index[i] = e
          /\ \A j \in DOMAIN index' : j < i => j \in DOMAIN index /\ index'[j] = index[j]
          /\ \A j \in DOMAIN index' : ~(j < i) => j + 1 \in DOMAIN index /\ index'[j] = index[j + 1]
    BY <1>0, <1>6, RemovedSlot
  <2>2. /\ bucket = None /\ bucket' = e /\ pc' = pc /\ replaced' = replaced /\ files' = files
    BY <1>6 DEF CleanEntry
  <2>3. DOMAIN index \subseteq Nat /\ DOMAIN index' \subseteq Nat
    <3>1. index' \in Seq(Entries) BY KnownStep DEF Known, TypeOK
    <3> QED BY <1>0, <3>1 DEF TypeOK
  <2>4. \A j \in DOMAIN index' : \E k \in DOMAIN index : k # i /\ index'[j] = index[k]
    BY <2>1, <2>3
  <2>5. PutBefore'
    <3>1. \A f \in Entries : Indexed(f)' => Indexed(f) BY <2>4 DEF Indexed
    <3>2. Indexed(e) BY <2>1 DEF Indexed
    <3> QED BY <1>0, <2>2, <3>1, <3>2, HasPutStays DEF PutBefore
  <2>6. Slots'
    <3>1. \A j, k \in DOMAIN index' : index'[j] = index'[k] => j = k
      BY <1>0, <2>1, <2>3 DEF Slots
    <3>2. \A j \in DOMAIN index' : index'[j] # e /\ index'[j] \notin replaced
      BY <1>0, <2>1, <2>4 DEF Slots
    <3> QED BY <2>2, <3>1, <3>2 DEF Slots
  <2>7. FilesKept' BY <1>0, <2>2, <2>4 DEF FilesKept
  <2> QED BY <2>5, <2>6, <2>7 DEF Tracked
<1>7. ASSUME NEW e \in Entries, CleanEntryBody(e) PROVE Tracked'
  <2>1. /\ index' = index /\ bucket = e /\ bucket' = None /\ pc' = pc /\ replaced' = replaced
        /\ files' = files \ {e} \/ files' = files
    BY <1>7 DEF CleanEntryBody, CleanBody
  <2>2. PutBefore' BY <1>0, <2>1, HasPutStays, NoneAssumption DEF PutBefore, Indexed, Entries
  <2>3. Slots'
    <3>1. \A i \in DOMAIN index : index[i] \in Entries BY <1>0 DEF TypeOK
    <3>2. None \notin Entries BY NoneAssumption DEF Entries
    <3> QED BY <1>0, <2>1, <3>1, <3>2 DEF Slots
  <2>4. FilesKept'
    <3>1. \A r \in Requests : pc[r] = "put" => EntryOf(r) # e
      BY <1>0, <2>1 DEF PutBefore, HasPut, EntryOf
    <3>2. \A i \in DOMAIN index : index[i] # e BY <1>0, <2>1 DEF Slots
    <3> QED BY <1>0, <2>1, <3>1, <3>2 DEF FilesKept
  <2> QED BY <2>2, <2>3, <2>4 DEF Tracked
<1> QED BY <1>1, <1>2, <1>3, <1>4, <1>5, <1>6, <1>7, StepsOfIndex

LEMMA TrackedAlways == Spec => []Tracked
BY KnownAlways, TrackedInit, TrackedStep, PTL DEF Spec

(* Of the steps that change the index only the Put of an entry adds it. *)
LEMMA NeverBackStep == Known /\ [Next]_vars => NeverBack
<1> SUFFICES ASSUME Known, [Next]_vars, NEW f \in Entries, HasPut(f), ~Indexed(f)
             PROVE  ~Indexed(f)'
    BY DEF NeverBack
<1> USE DEF indexVars
<1>0. TypeOK BY DEF Known
<1>1. CASE index' = index BY <1>1 DEF Indexed
<1>2. ASSUME NEW e \in Entries, PutEntry(e), ~HasPut(e) PROVE ~Indexed(f)'
  <2>1. Indexed(f)' => Indexed(f) \/ f = e BY <1>0, <1>2, PutSlots DEF Indexed
  <2> QED BY <1>2, <2>1
<1>3. ASSUME NEW r \in Requests, ProbePut(r) PROVE ~Indexed(f)'
  <2>1. ~HasPut(ProbeOf(r)) BY <1>3 DEF ProbePut, Goto, HasPut, ProbeOf
  <2> QED BY <1>2, <1>3, <2>1, EntryTypes DEF ProbePut
<1>4. ASSUME NEW r \in Requests, Put(r) PROVE ~Indexed(f)'
  <2>1. ~HasPut(EntryOf(r)) BY <1>4 DEF Put, Goto, HasPut, EntryOf
  <2> QED BY <1>2, <1>4, <2>1, EntryTypes DEF Put
<1>5. ASSUME NEW e \in Entries, CleanEntry(e) PROVE ~Indexed(f)'
  <2>1. PICK i \in DOMAIN index :
          /\ \A j \in DOMAIN index' : j < i => j \in DOMAIN index /\ index'[j] = index[j]
          /\ \A j \in DOMAIN index' : ~(j < i) => j + 1 \in DOMAIN index /\ index'[j] = index[j + 1]
    BY <1>0, <1>5, RemovedSlot
  <2> QED BY <2>1 DEF Indexed
<1>6. Untouched => index' = index BY DEF Untouched
<1>7. \A r \in Requests : setBackend(r) => index' = index BY DEF setBackend
<1>8. \A e \in Entries : CleanReplaced(e) \/ CleanEntryBody(e) => index' = index
  BY DEF CleanReplaced, CleanEntryBody
<1> QED BY <1>1, <1>3, <1>4, <1>5, <1>6, <1>7, <1>8, StepsOfIndex

(* An entry is in the index at most once, has been put there by its own    *)
(* request, and has its file for as long as it is there; what has left it, *)
(* replaced or cleaned, does not come back.                                *)
THEOREM IndexTracked == Spec => []Tracked /\ [][NeverBack]_vars
BY KnownAlways, TrackedAlways, NeverBackStep, PTL DEF Spec

-----------------------------------------------------------------------------
(* What is cached is served. *)

(* Whether an entry matches depends on the headers of its own request,     *)
(* which stay what they were once it has arrived.                          *)
HeadersStay == \A q \in Requests : pc[q] # "idle" => headers'[q] = headers[q]
LEMMA SameMatch ==
  ASSUME Known, Tracked, HeadersStay, conf' = conf, NEW e \in Entries, Indexed(e)
  PROVE  /\ \A h : matchVary(h, e)' <=> matchVary(h, e)
         /\ \A r \in Requests : pc[r] # "idle" =>
              (matchVary(headers[r], e)' <=> matchVary(headers[r], e))
<1>1. e.req \in Requests /\ pc[e.req] # "idle"
  BY DEF Tracked, PutBefore, HasPut, Entries
<1>2. headers'[e.req] = headers[e.req] BY <1>1 DEF HeadersStay
<1>3. ASSUME NEW h PROVE matchVary(h, e)' <=> matchVary(h, e)
  BY <1>2 DEF matchVary, Vary
<1>4. ASSUME NEW r \in Requests, pc[r] # "idle"
      PROVE  matchVary(headers[r], e)' <=> matchVary(headers[r], e)
  <2>1. headers'[r] = headers[r] BY <1>4 DEF HeadersStay
  <2> QED BY <1>2, <2>1 DEF matchVary, Vary
<1> QED BY <1>3, <1>4

(* On a uniform site two entries that match the same headers match each    *)
(* other's requests.                                                       *)
LEMMA MatchTransfers ==
  ASSUME Uniform, NEW e \in Entries, NEW f \in Entries, NEW h,
         e.probe \/ f.probe => Distributed,
         matchVary(h, e), matchVary(h, f)
  PROVE  matchVary(headers[e.req], f)
<1>1. CASE Distributed
  <2>1. DOMAIN Vary = {} BY <1>1 DEF Uniform
  <2> QED BY <2>1 DEF matchVary
<1>2. CASE ~Distributed BY <1>2 DEF matchVary
<1> QED BY <1>1, <1>2

(* In a cluster without Vary every entry matches. *)
LEMMA ClusterMatches ==
  ASSUME Uniform, Distributed, NEW e, NEW h
  PROVE  matchVary(h, e)
<1>1. DOMAIN Vary = {} BY DEF Uniform
<1> QED BY <1>1 DEF matchVary

LEMMA OnlyOne ==
  ASSUME Known, NEW r \in Requests, pc[r] \notin {"idle", "done"}
  PROVE  \A q \in Requests : q # r => pc[q] \in {"idle", "done"}
BY DEF Known, Locked

(* Between two lookups: no request has to know anything of the index. *)
LEMMA Quiet ==
  ASSUME OneEach,
         \A q \in Requests : pc[q] \notin {"hit", "probed", "fetch", "fetched", "stale", "decide"}
  PROVE  Served
BY DEF Served, AtHit, AtFetch, AfterProbe, AtStale, AtDecide

(* Get, in terms of the entries. *)
LEMMA GetEntry ==
  ASSUME TypeOK, NEW r \in Requests, NEW stale \in BOOLEAN
  PROVE  \/ /\ Get(r, stale) = None
            /\ \A e \in Entries : ~(Matched(r, e) /\ (life[e] = "fresh" \/ stale))
         \/ /\ Get(r, stale) \in Entries /\ Get(r, stale) # None
            /\ Matched(r, Get(r, stale))
<1>1. CASE /\ Get(r, stale) = None
           /\ \A i \in DOMAIN index :
                ~(matchVary(headers[r], index[i]) /\ (life[index[i]] = "fresh" \/ stale))
  BY <1>1 DEF Matched, Indexed
<1>2. CASE /\ Get(r, stale) \in Entries /\ Get(r, stale) # None
           /\ \E i \in DOMAIN index : index[i] = Get(r, stale) /\ matchVary(headers[r], index[i])
  <2>1. PICK i \in DOMAIN index : index[i] = Get(r, stale) /\ matchVary(headers[r], index[i])
    BY <1>2
  <2>2. Indexed(Get(r, stale)) BY <2>1 DEF Indexed
  <2>3. matchVary(headers[r], Get(r, stale)) BY <2>1
  <2> QED BY <1>2, <2>2, <2>3 DEF Matched
<1> QED BY <1>1, <1>2, GetFinds

(* Steps that put nothing in the index and bring no request further.       *)
LEMMA ServedStays ==
  ASSUME Known, Tracked, Uniform, Served, conf' = conf, headers' = headers, pc' = pc,
         prev' = prev, code' = code, away' = away,
         \A e \in Entries : Indexed(e)' => Indexed(e),
         \A e \in Entries : life'[e] = "fresh" => life[e] = "fresh"
  PROVE  Served'
<1>1. HeadersStay /\ Distributed' = Distributed /\ Headers' = Headers
  BY SameKeys DEF HeadersStay, Distributed
<1>2. OneEach' BY <1>1, SameMatch DEF Served, OneEach
<1>3. \A r \in Requests, e \in Entries : pc[r] # "idle" /\ Matched(r, e)' => Matched(r, e)
  BY <1>1, SameMatch DEF Matched
<1>4. AtHit' BY <1>3 DEF Served, AtHit
<1>5. AtFetch' BY <1>3 DEF Served, AtFetch
<1>6. AfterProbe' BY <1>1 DEF Served, AfterProbe
<1>7. AtStale' BY <1>3 DEF Served, AtStale
<1>8. AtDecide' BY <1>3 DEF Served, AtDecide
<1> QED BY <1>2, <1>4, <1>5, <1>6, <1>7, <1>8 DEF Served

(* Steps of one request that leave the index alone. *)
LEMMA OneEachStays ==
  ASSUME Known, Tracked, Served, HeadersStay, conf' = conf, index' = index
  PROVE  OneEach' /\ \A e \in Entries : Indexed(e)' <=> Indexed(e)
<1>1. Headers' = Headers BY SameKeys
<1>2. \A e \in Entries : Indexed(e)' <=> Indexed(e) BY DEF Indexed
<1> QED BY <1>1, <1>2, SameMatch DEF Served, OneEach

LEMMA SameMatched ==
  ASSUME Known, Tracked, conf' = conf, headers' = headers, index' = index, NEW r \in Requests,
         pc[r] # "idle", NEW e \in Entries
  PROVE  Matched(r, e)' <=> Matched(r, e)
BY DEF Matched, Indexed, matchVary, Vary

(* A request arrives, or passes by the cache. *)
LEMMA ServedRequest ==
  ASSUME Known, Tracked, Uniform, Served, NEW r \in Requests, Bypass(r) \/ Acquire(r)
  PROVE  Served'
<1>1. /\ conf' = conf /\ index' = index /\ life' = life /\ prev' = prev /\ code' = code
      /\ away' = away /\ pc[r] = "idle"
  BY DEF Bypass, Acquire, Goto, reqVars, indexVars, fetchVars
<1>2. /\ pc'[r] \in {"get", "done"} /\ \A q \in Requests : q # r => pc'[q] = pc[q]
  BY DEF Bypass, Acquire, Goto, Known, TypeOK
<1>3. HeadersStay
  BY <1>1 DEF HeadersStay, Bypass, Acquire, Arrive, Known, TypeOK
<1>4. OneEach' /\ \A e \in Entries : Indexed(e)' <=> Indexed(e)
  BY <1>1, <1>3, OneEachStays
<1>5. \A q \in Requests, e \in Entries : pc[q] # "idle" => (Matched(q, e)' <=> Matched(q, e))
  BY <1>1, <1>3, <1>4, SameMatch DEF Matched
<1>6. Distributed' = Distributed BY <1>1 DEF Distributed
<1>7. AtHit' BY <1>1, <1>2, <1>5 DEF Served, AtHit
<1>8. AtFetch' BY <1>1, <1>2, <1>5 DEF Served, AtFetch
<1>9. AfterProbe' BY <1>1, <1>2, <1>4, <1>6 DEF Served, AfterProbe
<1>10. AtStale' BY <1>1, <1>2, <1>5 DEF Served, AtStale
<1>11. AtDecide' BY <1>1, <1>2, <1>5 DEF Served, AtDecide
<1> QED BY <1>4, <1>7, <1>8, <1>9, <1>10, <1>11 DEF Served

(* The one request that holds the lock goes on; what it knows is all there *)
(* is to show.                                                             *)
LEMMA ServedGoto ==
  ASSUME Known, Tracked, Served, NEW r \in Requests, pc[r] \notin {"idle", "done"},
         NEW to \in Places, pc' = [pc EXCEPT ![r] = to], OneEach',
         /\ to = "hit" => \A e \in Entries : Matched(r, e)' /\ life'[e] = "fresh" => e = prev'[r]
         /\ to = "fetch" /\ r \notin away' =>
              \A e \in Entries : Matched(r, e)' /\ life'[e] = "fresh" => e = ProbeOf(r)
         /\ Distributed' /\ to \in {"probed", "fetch", "fetched", "stale"} =>
              \A e \in Entries : Indexed(e)' => e = ProbeOf(r)
         /\ Distributed' /\ to = "stale" => prev'[r] = ProbeOf(r)
         /\ to = "stale" => \A e \in Entries : Matched(r, e)' => e = prev'[r]
         /\ to = "decide" /\ r \notin away' /\ code'[r] >= 500 =>
              \A e \in Entries : ~Matched(r, e)'
  PROVE  Served'
<1>1. pc'[r] = to /\ \A q \in Requests : q # r => pc'[q] \in {"idle", "done"}
  BY OnlyOne DEF Known, TypeOK
<1>2. AtHit' BY <1>1 DEF AtHit
<1>3. AtFetch' BY <1>1 DEF AtFetch
<1>4. AfterProbe' BY <1>1 DEF AfterProbe
<1>5. AtStale' BY <1>1 DEF AtStale
<1>6. AtDecide' BY <1>1 DEF AtDecide
<1> QED BY <1>2, <1>3, <1>4, <1>5, <1>6 DEF Served

LEMMA ServedLookup ==
  ASSUME Known, Tracked, Uniform, Served, NEW r \in Requests, Lookup(r)
  PROVE  Served'
<1>1. /\ conf' = conf /\ headers' = headers /\ index' = index /\ life' = life /\ pc[r] = "get"
      /\ away' = away
  BY DEF Lookup, Goto, reqVars, indexVars
<1>2. OneEach' BY <1>1, OneEachStays DEF HeadersStay
<1>3. \A e \in Entries : Matched(r, e)' <=> Matched(r, e) BY <1>1, SameMatched
<1>4. TypeOK /\ headers[r] \in Headers BY DEF Known, TypeOK
<1>5. prev'[r] = Get(r, FALSE) BY <1>4 DEF Lookup, TypeOK
<1>6. CASE Get(r, FALSE) = None
  <2>1. PICK to \in {"probe", "fetch"} :
          pc' = [pc EXCEPT ![r] = to] /\ (to = "fetch" => ~Distributed)
    BY <1>6 DEF Lookup, Goto, AfterMiss
  <2>2. \A e \in Entries : ~(Matched(r, e) /\ life[e] = "fresh")
    BY <1>4, <1>6, GetEntry
  <2>3. Distributed' = Distributed BY <1>1 DEF Distributed
  <2> QED BY <1>1, <1>2, <1>3, <2>1, <2>2, <2>3, ServedGoto DEF Places
<1>7. CASE Get(r, FALSE) # None
  <2>1. pc' = [pc EXCEPT ![r] = "hit"] BY <1>7 DEF Lookup, Goto
  <2>2. Get(r, FALSE) \in Entries /\ Matched(r, Get(r, FALSE)) BY <1>4, <1>7, GetEntry
  <2>3. \A e \in Entries : Matched(r, e) => e = Get(r, FALSE)
    BY <1>4, <2>2 DEF Served, OneEach, Matched
  <2> QED BY <1>1, <1>2, <1>3, <1>5, <2>1, <2>3, ServedGoto DEF Places
<1> QED BY <1>6, <1>7

(* An entry that cannot be read is no longer in the index: in memory and   *)
(* in files the only cause is a Clean, which comes after the removal, or   *)
(* in a cluster the context of a request that is over.                     *)
LEMMA UnreadableIsOut ==
  ASSUME Known, Tracked, Uniform, NEW e \in Entries, ReadFails(e)
  PROVE  ~Indexed(e) \/ (Distributed /\ ~CtxAlive(e))
<1>1. TypeOK BY DEF Known
<1>2. CASE GetReader(e) = "error"
  <2>1. "error" \notin Bodies BY ErrorsAssumption DEF Bodies
  <2>2. Kind = "file" BY <1>1, <1>2, <2>1, ReadTypes, SiteTypes DEF Uniform
  <2>3. e.req # "error" BY ErrorsAssumption DEF Entries
  <2>4. e \notin files BY <1>2, <2>2, <2>3 DEF GetReader, ReadFile
  <2> QED BY <2>2, <2>4 DEF Tracked, FilesKept, Indexed
<1>3. CASE CallMayFail(e) BY <1>3 DEF CallMayFail
<1> QED BY <1>2, <1>3 DEF ReadFails

LEMMA ServedRespondHit ==
  ASSUME Known, Tracked, Uniform, Served, NEW r \in Requests, RespondHit(r)
  PROVE  Served'
<1>1. /\ conf' = conf /\ headers' = headers /\ index' = index /\ life' = life /\ pc[r] = "hit"
  BY DEF RespondHit, RespondEntry, Finish, Goto, indexVars
<1>2. OneEach' BY <1>1, OneEachStays DEF HeadersStay
<1>3. \A e \in Entries : Matched(r, e)' <=> Matched(r, e) BY <1>1, SameMatched
<1>4. prev[r] \in Entries BY <1>1 DEF Known, PrevKnown
<1>5. Distributed' = Distributed BY <1>1 DEF Distributed
<1>6. CASE pc' = [pc EXCEPT ![r] = "done"]
  BY <1>1, <1>2, <1>6, ServedGoto DEF Places
<1>7. CASE pc' = [pc EXCEPT ![r] = AfterMiss] /\ (ReadFails(prev[r]) \/ r \in away')
  <2>1. CASE Distributed
    BY <1>1, <1>2, <1>7, <2>1, ServedGoto DEF AfterMiss, Places
  <2>2. CASE ~Distributed
    <3>1. r \notin away' => ~Indexed(prev[r]) BY <1>4, <1>7, <2>2, UnreadableIsOut
    <3>2. r \notin away' => \A e \in Entries : ~(Matched(r, e) /\ life[e] = "fresh")
      BY <1>1, <3>1 DEF Served, AtHit, Matched
    <3>3. pc' = [pc EXCEPT ![r] = "fetch"] BY <1>7, <2>2 DEF AfterMiss
    <3> QED BY <1>1, <1>2, <1>3, <1>5, <2>2, <3>2, <3>3, ServedGoto DEF Places
  <2> QED BY <2>1, <2>2
<1> QED BY <1>6, <1>7 DEF RespondHit, RespondEntry, Finish, Goto

LEMMA ServedRespondStale ==
  ASSUME Known, Tracked, Uniform, Served, NEW r \in Requests, RespondStale(r)
  PROVE  Served'
<1>1. /\ conf' = conf /\ headers' = headers /\ index' = index /\ life' = life /\ pc[r] = "stale"
  BY DEF RespondStale, RespondEntry, Finish, Goto, indexVars
<1>2. OneEach' BY <1>1, OneEachStays DEF HeadersStay
<1>3. \A e \in Entries : Matched(r, e)' <=> Matched(r, e) BY <1>1, SameMatched
<1>4. prev[r] \in Entries BY <1>1 DEF Known, PrevKnown
<1>5. CASE pc' = [pc EXCEPT ![r] = "done"]
  BY <1>1, <1>2, <1>5, ServedGoto DEF Places
<1>6. CASE pc' = [pc EXCEPT ![r] = "decide"] /\ away' = away /\ ReadFails(prev[r])
  <2>1. r \notin away => ~Indexed(prev[r])
    <3>0. Distributed => prev[r] = ProbeOf(r) BY <1>1 DEF Served, AfterProbe
    <3>1. Distributed => prev[r].req = r BY <3>0 DEF ProbeOf
    <3> QED BY <1>1, <1>4, <1>6, <3>1, UnreadableIsOut DEF CtxAlive
  <2>2. r \notin away => \A e \in Entries : ~Matched(r, e)
    BY <1>1, <2>1 DEF Served, AtStale, Matched
  <2> QED BY <1>1, <1>2, <1>3, <1>6, <2>2, ServedGoto DEF Places
<1>7. CASE pc' = [pc EXCEPT ![r] = "decide"] /\ r \in away'
  BY <1>1, <1>2, <1>7, ServedGoto DEF Places
<1> QED BY <1>5, <1>6, <1>7 DEF RespondStale, RespondEntry, Finish, Goto

LEMMA ServedLookupStale ==
  ASSUME Known, Tracked, Uniform, Served, NEW r \in Requests, LookupStaleEntry(r)
  PROVE  Served'
<1> DEFINE e == IF code[r] >= 500 THEN Get(r, TRUE) ELSE None
<1>1. /\ conf' = conf /\ headers' = headers /\ index' = index /\ life' = life
      /\ pc[r] = "fetched" /\ away' = away /\ code' = code
  BY DEF LookupStaleEntry, Goto, reqVars, indexVars, fetchVars
<1>2. OneEach' BY <1>1, OneEachStays DEF HeadersStay
<1>3. \A f \in Entries : (Matched(r, f)' <=> Matched(r, f)) /\ (Indexed(f)' <=> Indexed(f))
  BY <1>1, SameMatched DEF Indexed
<1>4. TypeOK /\ headers[r] \in Headers /\ Distributed' = Distributed
  BY <1>1 DEF Known, TypeOK, Distributed
<1>5. prev'[r] = e BY <1>4 DEF LookupStaleEntry, TypeOK
<1>6. CASE e = None
  <2>1. pc' = [pc EXCEPT ![r] = "decide"] BY <1>6 DEF LookupStaleEntry, Goto
  <2>2. code[r] >= 500 => \A f \in Entries : ~Matched(r, f)
    BY <1>4, <1>6, GetEntry
  <2> QED BY <1>1, <1>2, <1>3, <2>1, <2>2, ServedGoto DEF Places
<1>7. CASE e # None
  <2>1. pc' = [pc EXCEPT ![r] = "stale"] BY <1>7 DEF LookupStaleEntry, Goto
  <2>2. e \in Entries /\ Matched(r, e) BY <1>4, <1>7, GetEntry
  <2>3. \A f \in Entries : Matched(r, f) => f = e
    BY <1>4, <2>2 DEF Served, OneEach, Matched
  <2>4. Distributed => \A f \in Entries : Indexed(f) => f = ProbeOf(r)
    BY <1>1 DEF Served, AfterProbe
  <2>5. Distributed => e = ProbeOf(r) BY <2>2, <2>4 DEF Matched
  <2> HIDE DEF e
  <2> QED BY <1>1, <1>2, <1>3, <1>4, <1>5, <2>1, <2>3, <2>4, <2>5, ServedGoto DEF Places
<1> QED BY <1>6, <1>7

LEMMA ServedAnswers ==
  ASSUME Known, Tracked, Uniform, Served, NEW r \in Requests,
         \/ ProbeRespond(r) \/ fetchUpstream(r) \/ ReturnError(r) \/ RespondPrivate(r)
         \/ setBackend(r) \/ RespondMiss(r)
  PROVE  Served'
<1>1. /\ conf' = conf /\ headers' = headers /\ index' = index /\ life' = life
      /\ pc[r] \in {"probed", "fetch", "decide", "respond"} /\ away' = away
  BY DEF ProbeRespond, fetchUpstream, ReturnError, RespondPrivate, setBackend, RespondMiss, Finish,
         Goto, reqVars, indexVars
<1>2. OneEach' BY <1>1, OneEachStays DEF HeadersStay
<1>3. \A e \in Entries : (Matched(r, e)' <=> Matched(r, e)) /\ (Indexed(e)' <=> Indexed(e))
  BY <1>1, SameMatched DEF Indexed
<1>4. Distributed' = Distributed BY <1>1 DEF Distributed
<1>5. CASE pc' = [pc EXCEPT ![r] = "done"] \/ pc' = [pc EXCEPT ![r] = "put"]
  BY <1>1, <1>2, <1>5, ServedGoto DEF Places
<1>6. CASE pc[r] = "probed" /\ pc' = [pc EXCEPT ![r] = "fetch"]
  <2>1. Distributed BY <1>6 DEF Known, Clustered
  <2>2. \A e \in Entries : Indexed(e) => e = ProbeOf(r) BY <1>6, <2>1 DEF Served, AfterProbe
  <2> QED BY <1>1, <1>2, <1>3, <1>6, <2>2, ServedGoto DEF Places, Matched
<1>7. CASE pc[r] = "fetch" /\ pc' = [pc EXCEPT ![r] = "fetched"]
  <2>1. Distributed => \A e \in Entries : Indexed(e) => e = ProbeOf(r)
    BY <1>7 DEF Served, AfterProbe
  <2> QED BY <1>1, <1>2, <1>3, <1>4, <1>7, <2>1, ServedGoto DEF Places
<1> QED BY <1>5, <1>6, <1>7 DEF ProbeRespond, fetchUpstream, ReturnError, RespondPrivate, setBackend,
        RespondMiss, Finish, Goto

(* Put leaves the new entry as the only one that matches what it matches.  *)
LEMMA PutOnlyMatch ==
  ASSUME Known, Tracked, Uniform, Served, conf' = conf, headers' = headers,
         NEW e \in Entries, PutEntry(e), e.probe => Distributed, pc[e.req] # "idle"
  PROVE  /\ OneEach'
         /\ \A f \in Entries : Indexed(f)' => f = e \/ (Indexed(f) /\ ~matchVary(headers[e.req], f))
<1>0. TypeOK /\ e.req \in Requests /\ headers[e.req] \in Headers /\ Headers' = Headers
  BY SameKeys DEF Known, TypeOK, Entries
<1>1. \A f \in Entries : Indexed(f)' => f = e \/ (Indexed(f) /\ ~matchVary(headers[e.req], f))
  <2>1. CASE /\ Matching(e.req) = {}
             /\ DOMAIN index' = DOMAIN index \cup {Len(index) + 1}
             /\ index'[Len(index) + 1] = e
             /\ \A i \in DOMAIN index : index'[i] = index[i]
    BY <2>1 DEF Indexed, Matching
  <2>2. ASSUME NEW i \in Matching(e.req), i \in DOMAIN index, DOMAIN index' = DOMAIN index,
               index'[i] = e, \A j \in DOMAIN index : j # i => index'[j] = index[j],
               NEW f \in Entries, Indexed(f)', f # e
        PROVE  Indexed(f) /\ ~matchVary(headers[e.req], f)
    <3>1. PICK j \in DOMAIN index : j # i /\ index[j] = f BY <2>2 DEF Indexed
    <3>2. Indexed(f) /\ Indexed(index[i]) BY <2>2, <3>1 DEF Indexed
    <3>3. index[i] \in Entries /\ index[i] # f /\ matchVary(headers[e.req], index[i])
      BY <1>0, <2>2, <3>1 DEF TypeOK, Tracked, Slots, Matching
    <3> QED BY <1>0, <3>2, <3>3 DEF Served, OneEach
  <2> QED BY <1>0, <2>1, <2>2, PutSlots
<1>2. ASSUME NEW h \in Headers, NEW f \in Entries, Indexed(f), matchVary(h, e), matchVary(h, f)
      PROVE  matchVary(headers[e.req], f)
  <2>1. f.probe => Distributed BY <1>2 DEF Tracked, PutBefore, HasPut
  <2> QED BY <1>2, <2>1, MatchTransfers
<1>3. \A f \in Entries : \A h : matchVary(h, f)' <=> matchVary(h, f)
  BY DEF matchVary, Vary
<1>4. OneEach' BY <1>0, <1>1, <1>2, <1>3 DEF Served, OneEach
<1> QED BY <1>1, <1>4

LEMMA ServedPuts ==
  ASSUME Known, Tracked, Uniform, Served, NEW r \in Requests, ProbePut(r) \/ Put(r)
  PROVE  Served'
<1>1. conf' = conf /\ headers' = headers BY DEF ProbePut, Put, reqVars
<1>2. CASE ProbePut(r)
  <2>1. pc[r] = "probe" /\ PutEntry(ProbeOf(r)) BY <1>2 DEF ProbePut, Goto
  <2>2. Distributed BY <2>1 DEF Known, Clustered
  <2>3. ProbeOf(r) \in Entries /\ ProbeOf(r).req = r BY DEF ProbeOf, Entries
  <2>4. /\ OneEach'
        /\ \A f \in Entries : Indexed(f)' => f = ProbeOf(r) \/ ~matchVary(headers[r], f)
    BY <1>1, <2>1, <2>2, <2>3, PutOnlyMatch
  <2>5. \A f \in Entries : Indexed(f)' => f = ProbeOf(r) BY <2>2, <2>4, ClusterMatches
  <2>6. PICK to \in {"probed", "blocked"} : pc' = [pc EXCEPT ![r] = to]
    BY <1>2 DEF ProbePut, Goto
  <2> QED BY <2>1, <2>4, <2>5, <2>6, ServedGoto DEF Places
<1>3. CASE Put(r)
  <2>1. pc[r] = "put" /\ PutEntry(EntryOf(r)) /\ pc' = [pc EXCEPT ![r] = "respond"]
    BY <1>3 DEF Put, Goto
  <2>2. EntryOf(r) \in Entries /\ EntryOf(r).req = r /\ ~EntryOf(r).probe BY DEF EntryOf, Entries
  <2>3. OneEach' BY <1>1, <2>1, <2>2, PutOnlyMatch
  <2> QED BY <2>1, <2>3, ServedGoto DEF Places
<1> QED BY <1>2, <1>3

LEMMA ServedOthers ==
  ASSUME Known, Tracked, Uniform, Served,
         \/ \E r \in Requests : UpstreamClose(r)
         \/ \E e \in Entries : Expire(e) \/ CleanReplaced(e) \/ CleanEntry(e) \/ CleanEntryBody(e)
         \/ \E k \in StoreKeys : PeerStore(k)
  PROVE  Served'
<1>1. /\ conf' = conf /\ headers' = headers /\ pc' = pc /\ prev' = prev /\ code' = code
      /\ away' = away
  BY DEF UpstreamClose, Expire, CleanReplaced, CleanEntry, CleanEntryBody, PeerStore, reqVars,
         fetchVars
<1>2. \A e \in Entries : life'[e] = "fresh" => life[e] = "fresh"
  BY DEF UpstreamClose, Expire, CleanReplaced, CleanEntry, CleanEntryBody, PeerStore, indexVars,
         Known, TypeOK
<1>3. \A f \in Entries : Indexed(f)' => Indexed(f)
  <2>1. ASSUME NEW e \in Entries, CleanEntry(e), NEW f \in Entries, Indexed(f)'
        PROVE  Indexed(f)
    BY <2>1, RemovedSlot DEF Indexed, Known
  <2>2. CASE index' = index BY <2>2 DEF Indexed
  <2> QED BY <2>1, <2>2 DEF UpstreamClose, Expire, CleanReplaced, CleanEntryBody, PeerStore, indexVars
<1> QED BY <1>1, <1>2, <1>3, ServedStays

LEMMA ServedInit == Init => Served
<1> SUFFICES ASSUME Init PROVE Served OBVIOUS
<1>1. OneEach BY DEF Init, OneEach, Indexed
<1>2. \A q \in Requests : pc[q] = "idle" BY DEF Init
<1> QED BY <1>1, <1>2, Quiet

LEMMA ServedStep ==
  Known /\ Tracked /\ (Uniform => Served) /\ [Next]_vars => (Uniform => Served)'
<1> SUFFICES ASSUME Known, Tracked, Uniform => Served, [Next]_vars, Uniform'
             PROVE  Served'
    OBVIOUS
<1>1. Uniform /\ Served BY StepsOfIndex DEF Uniform, Kind, Distributed, Vary
<1>2. ASSUME NEW r \in Requests, HandlerStep(r) PROVE Served'
  BY <1>1, <1>2, ServedLookup, ServedRespondHit, ServedRespondStale, ServedLookupStale,
     ServedAnswers, ServedPuts DEF HandlerStep
<1>3. CASE UNCHANGED vars
  BY <1>1, <1>3, ServedStays DEF vars, reqVars, indexVars, fetchVars, Indexed
<1> QED BY <1>1, <1>2, <1>3, ServedRequest, ServedOthers DEF Next

LEMMA ServedAlways == Spec => [](Uniform => Served)
<1>1. Init => (Uniform => Served) BY ServedInit
<1> QED BY <1>1, ServedStep, KnownAlways, TrackedAlways, PTL DEF Spec

(* The upstream is asked only when the index has no fresh entry for the    *)
(* request, or its client left: neither requests that wait for each other  *)
(* nor a cleanEntry between Get and GetReader lead to a second fetch of    *)
(* what is cached.                                                         *)
THEOREM CachedIsServed == Spec => [](Uniform => HitServed)
<1>1. Known /\ (Uniform => Served) => (Uniform => HitServed)
  <2> SUFFICES ASSUME Known, Uniform, Served, NEW r \in Requests \ away, pc[r] = "fetch"
               PROVE  Get(r, FALSE) \in {None, ProbeOf(r)}
      BY DEF HitServed
  <2>1. TypeOK BY DEF Known
  <2>2. ASSUME Get(r, FALSE) # None PROVE Get(r, FALSE) = ProbeOf(r)
    <3>1. PICK i \in DOMAIN index :
            /\ index[i] = Get(r, FALSE) /\ matchVary(headers[r], index[i])
            /\ life[index[i]] = "fresh"
      BY <2>1, <2>2, GetFinds
    <3>2. index[i] \in Entries BY <2>1 DEF TypeOK
    <3>3. Matched(r, index[i]) BY <3>1 DEF Matched, Indexed
    <3> QED BY <3>1, <3>2, <3>3 DEF Served, AtFetch
  <2> QED BY <2>2
<1> QED BY <1>1, KnownAlways, ServedAlways, PTL

(* An entry, expired or not, answers for a 5xx of the upstream, unless the *)
(* client left (readme.org, stale_max_age).                                *)
THEOREM StaleAnswers == Spec => [](Uniform => StaleUsed)
<1>1. Known /\ (Uniform => Served) => (Uniform => StaleUsed)
  <2> SUFFICES ASSUME Known, Uniform, Served, NEW r \in Requests \ away, pc[r] = "decide",
                      code[r] >= 500
               PROVE  Get(r, TRUE) = None
      BY DEF StaleUsed
  <2>1. TypeOK BY DEF Known
  <2>2. \A e \in Entries : ~Matched(r, e) BY DEF Served, AtDecide
  <2> QED BY <2>1, <2>2, GetEntry
<1> QED BY <1>1, KnownAlways, ServedAlways, PTL
-----------------------------------------------------------------------------
(* Whose body a client is answered with. *)

(* A request keeps its headers, an entry that was put has been alive, and  *)
(* only a lookup finds an entry.                                           *)
LEMMA StepsOfRequests ==
  ASSUME Known, [Next]_vars
  PROVE  /\ HeadersStay
         /\ \A q \in Requests : pc[q] # "idle" => pc'[q] # "idle"
         /\ \A q \in Requests : pc[q] = "done" => pc'[q] = "done"
         /\ \A e \in Entries : life'[e] = "none" => life[e] = "none"
         /\ \A r \in Requests :
              pc'[r] \in {"hit", "stale"} =>
                \/ pc'[r] = pc[r] /\ prev'[r] = prev[r]
                \/ Lookup(r) \/ LookupStaleEntry(r)
<1> USE DEF fetchVars, indexVars, storeVars, cleanVars, reqVars, Goto
<1>0. /\ pc \in [Requests -> Places] /\ prev \in [Requests -> Entries \cup {None}]
      /\ headers \in [Requests -> Headers] /\ life \in [Entries -> {"none", "fresh", "stale"}]
  BY DEF Known, TypeOK
<1> DEFINE Stays ==
       /\ \A q \in Requests : pc[q] # "idle" => pc'[q] # "idle"
       /\ \A q \in Requests : pc[q] = "done" => pc'[q] = "done"
<1> DEFINE Keeps ==
       \A q \in Requests :
         pc'[q] \in {"hit", "stale"} => pc'[q] = pc[q] /\ prev'[q] = prev[q]
<1>1. CASE UNCHANGED vars BY <1>1 DEF vars, HeadersStay
<1>2. ASSUME NEW r \in Requests, Bypass(r) \/ Acquire(r)
      PROVE  HeadersStay /\ Stays /\ Keeps /\ life' = life
  BY <1>0, <1>2 DEF Bypass, Acquire, Arrive, HeadersStay
<1>3. ASSUME NEW r \in Requests, Lookup(r) \/ LookupStaleEntry(r)
      PROVE  /\ headers' = headers /\ Stays /\ life' = life
             /\ \A q \in Requests \ {r} : pc'[q] = pc[q] /\ prev'[q] = prev[q]
  <2>1. \E from \in {"get", "fetched"}, to \in {"probe", "fetch", "hit", "decide", "stale"} :
          pc[r] = from /\ pc' = [pc EXCEPT ![r] = to]
    BY <1>3 DEF Lookup, LookupStaleEntry, AfterMiss
  <2>2. headers' = headers /\ life' = life /\ \E e : prev' = [prev EXCEPT ![r] = e]
    BY <1>3 DEF Lookup, LookupStaleEntry
  <2> QED BY <1>0, <2>1, <2>2
<1>4. ASSUME NEW r \in Requests, RespondHit(r) \/ RespondStale(r)
      PROVE  headers' = headers /\ Stays /\ Keeps /\ life' = life
  BY <1>0, <1>4 DEF RespondHit, RespondStale, RespondEntry, AfterMiss, Finish
<1>5. ASSUME NEW r \in Requests, ProbeRespond(r) \/ ReturnError(r) \/ RespondPrivate(r)
                                 \/ RespondMiss(r) \/ fetchUpstream(r) \/ setBackend(r)
      PROVE  headers' = headers /\ Stays /\ Keeps /\ life' = life
  BY <1>0, <1>5 DEF ProbeRespond, ReturnError, RespondPrivate, RespondMiss, fetchUpstream,
     setBackend, Finish
<1>6. ASSUME NEW r \in Requests, ProbePut(r) \/ Put(r)
      PROVE  /\ headers' = headers /\ Stays /\ Keeps
             /\ \A e \in Entries : life'[e] = "none" => life[e] = "none"
  BY <1>0, <1>6 DEF ProbePut, Put, PutEntry
<1>7. ASSUME \/ \E r \in Requests : UpstreamClose(r)
             \/ \E e \in Entries : Expire(e) \/ CleanReplaced(e) \/ CleanEntry(e) \/ CleanEntryBody(e)
             \/ \E k \in StoreKeys : PeerStore(k)
      PROVE  /\ headers' = headers /\ pc' = pc /\ prev' = prev
             /\ \A e \in Entries : life'[e] = "none" => life[e] = "none"
  BY <1>0, <1>7 DEF UpstreamClose, Expire, CleanReplaced, CleanEntry, CleanEntryBody, PeerStore
<1> QED BY <1>1, <1>2, <1>3, <1>4, <1>5, <1>6, <1>7 DEF Next, HandlerStep, HeadersStay

(* What is put in the index. *)
LEMMA StepsOfEntries ==
  ASSUME Known, [Next]_vars
  PROVE  /\ \A f \in Entries : Indexed(f)' => Indexed(f) \/ life'[f] = "fresh"
<1>1. ASSUME NEW e \in Entries, PutEntry(e), NEW f \in Entries, Indexed(f)'
      PROVE  Indexed(f) \/ life'[f] = "fresh"
  <2>1. TypeOK /\ life' = [life EXCEPT ![e] = "fresh"] BY <1>1 DEF Known, PutEntry
  <2>2. Indexed(f) \/ f = e BY <1>1, <2>1, PutSlots DEF Indexed
  <2> QED BY <2>1, <2>2 DEF TypeOK
<1>2. ASSUME NEW e \in Entries, CleanEntry(e), NEW f \in Entries, Indexed(f)'
      PROVE  Indexed(f)
  BY <1>2, RemovedSlot DEF Indexed, Known
<1>3. ASSUME NEW r \in Requests, setBackend(r) \/ ProbePut(r) \/ Put(r), NEW f \in Entries, Indexed(f)'
      PROVE  Indexed(f) \/ life'[f] = "fresh"
  BY <1>1, <1>3, EntryTypes DEF setBackend, ProbePut, Put, Indexed, indexVars
<1>4. ASSUME NEW e \in Entries, CleanReplaced(e) \/ CleanEntryBody(e), NEW f \in Entries, Indexed(f)'
      PROVE  Indexed(f)
  BY <1>4 DEF CleanReplaced, CleanEntryBody, Indexed
<1>5. ASSUME Untouched, NEW f \in Entries, Indexed(f)' PROVE Indexed(f)
  BY <1>5 DEF Untouched, Indexed
<1> QED BY <1>2, <1>3, <1>4, <1>5, StepsOfIndex

LEMMA FoundStep == Known /\ Tracked /\ Found /\ [Next]_vars => Found'
<1> SUFFICES ASSUME Known, Tracked, Found, [Next]_vars PROVE Found' OBVIOUS
<1>0. TypeOK /\ conf' = conf BY StepsOfIndex DEF Known
<1>1. ASSUME NEW e \in Entries, Indexed(e)' PROVE life'[e] # "none"
  BY <1>1, StepsOfEntries, StepsOfRequests DEF Found
<1>2. ASSUME NEW r \in Requests, NEW e \in Entries, pc'[r] \in {"hit", "stale"}, prev'[r] = e
      PROVE  HasPut(e)' /\ matchVary(headers[r], e)' /\ life'[e] # "none"
  <2>1. HasPut(e) /\ matchVary(headers[r], e) /\ life[e] # "none" /\ pc[r] # "idle"
    <3>1. CASE pc'[r] = pc[r] /\ prev'[r] = prev[r] BY <1>2, <3>1 DEF Found
    <3>2. CASE Lookup(r) \/ LookupStaleEntry(r)
      <4>1. PICK stale \in BOOLEAN : e = Get(r, stale) \/ e = None
        BY <1>0, <1>2, <3>2 DEF Lookup, LookupStaleEntry, TypeOK
      <4>2. e # None BY NoneAssumption DEF Entries
      <4>3. Matched(r, e) BY <1>0, <4>1, <4>2, GetEntry
      <4>4. pc[r] # "idle" BY <3>2 DEF Lookup, LookupStaleEntry, Goto
      <4> QED BY <4>3, <4>4 DEF Matched, Tracked, PutBefore, Found
    <3> QED BY <1>2, <3>1, <3>2, StepsOfRequests
  <2>2. pc[e.req] # "idle" /\ e.req \in Requests BY <2>1 DEF HasPut, Entries
  <2>3. headers'[r] = headers[r] /\ headers'[e.req] = headers[e.req]
    BY <2>1, <2>2, StepsOfRequests DEF HeadersStay
  <2>4. matchVary(headers[r], e)' BY <1>0, <2>1, <2>3 DEF matchVary, Vary
  <2> QED BY <2>1, <2>4, HasPutStays, StepsOfRequests
<1> QED BY <1>1, <1>2 DEF Found

LEMMA FoundAlways == Spec => []Found
<1>1. Init => Found
  BY NoneAssumption DEF Init, Found, Indexed, Entries
<1> QED BY <1>1, FoundStep, KnownAlways, TrackedAlways, PTL DEF Spec

(* A body that is read, by a request that responds with an entry. *)
ReadBy(r, e) ==
  \/ pc[r] \in {"hit", "stale"} /\ e = prev[r] /\ e \in closed
  \/ pc[r] = "probed" /\ e = ProbeOf(r)
  \/ pc[r] = "respond" /\ e = EntryOf(r) /\ e \in closed

LEMMA ReadersEntry ==
  ASSUME Known, Found, NEW r \in Requests, NEW e, ReadBy(r, e)
  PROVE  e \in Entries /\ pc[e.req] # "idle" /\ (e.probe => Distributed)
<1>1. CASE pc[r] \in {"hit", "stale"} /\ e = prev[r]
  <2>1. e \in Entries BY <1>1 DEF Known, PrevKnown
  <2>2. HasPut(e) BY <1>1, <2>1 DEF Found
  <2> QED BY <2>1, <2>2 DEF HasPut
<1>2. CASE pc[r] = "probed" /\ e = ProbeOf(r)
  BY <1>2, EntryTypes DEF Known, Clustered, ProbeOf
<1>3. CASE pc[r] = "respond" /\ e = EntryOf(r)
  BY <1>3, EntryTypes DEF EntryOf
<1> QED BY <1>1, <1>2, <1>3 DEF ReadBy

(* The steps that change what is stored. *)
LEMMA StepsOfStore ==
  ASSUME Known, [Next]_vars
  PROVE  \/ \E r \in Requests : UpstreamClose(r)
         \/ \E r \in Requests : \E e : ReadBy(r, e) /\ Remember(e)
         \/ /\ cachedBytes' = cachedBytes
            /\ store' = store \/ \E k \in StoreKeys, b \in {None, Peer} :
                                   store' = [store EXCEPT ![k] = b] /\ (b = Peer => Distributed)
<1> USE DEF storeVars
<1>0. TypeOK BY DEF Known
<1>1. CASE UNCHANGED vars BY <1>1 DEF vars
<1>2. ASSUME NEW r \in Requests, Bypass(r) \/ Acquire(r) \/ Lookup(r) \/ fetchUpstream(r)
                                 \/ LookupStaleEntry(r) \/ ReturnError(r) \/ RespondPrivate(r)
                                 \/ setBackend(r) \/ ProbePut(r) \/ Put(r)
      PROVE  cachedBytes' = cachedBytes /\ store' = store
  BY <1>2 DEF Bypass, Acquire, Lookup, fetchUpstream, LookupStaleEntry, ReturnError,
     RespondPrivate, setBackend, ProbePut, Put
<1>3. ASSUME NEW r \in Requests, RespondHit(r) \/ RespondStale(r) \/ ProbeRespond(r) \/ RespondMiss(r)
      PROVE  \/ cachedBytes' = cachedBytes /\ store' = store
             \/ \E e : ReadBy(r, e) /\ Remember(e)
  BY <1>3 DEF RespondHit, RespondStale, RespondEntry, ProbeRespond, RespondMiss, Finish, Goto, ReadBy
<1>4. ASSUME NEW e \in Entries, CleanBody(e)
      PROVE  /\ cachedBytes' = cachedBytes
             /\ store' = store \/ \E k \in StoreKeys : store' = [store EXCEPT ![k] = None]
  <2>1. store' \in {store, Removed(e)}
    <3>1. CASE Kind = "memory" BY <1>4, <3>1 DEF CleanBody, CleanMemory
    <3>2. CASE Kind = "redis" BY <1>4, <3>2 DEF CleanBody, CleanRedis
    <3>3. CASE Kind = "file" BY <1>4, <3>3 DEF CleanBody
    <3> QED BY <1>0, <3>1, <3>2, <3>3, SiteTypes
  <2> QED BY <1>0, <1>4, <2>1, KeyTypes DEF CleanBody, Removed
<1>5. ASSUME NEW e \in Entries, Expire(e)
      PROVE  /\ cachedBytes' = cachedBytes
             /\ store' = store \/ \E k \in StoreKeys : store' = [store EXCEPT ![k] = None]
  BY <1>0, <1>5, KeyTypes DEF Expire
<1>6. ASSUME NEW k \in StoreKeys, PeerStore(k)
      PROVE  /\ cachedBytes' = cachedBytes /\ Distributed
             /\ \E b \in {None, Peer} : store' = [store EXCEPT ![k] = b]
  BY <1>6 DEF PeerStore
<1>7. ASSUME NEW e \in Entries, CleanReplaced(e) \/ CleanEntry(e) \/ CleanEntryBody(e)
      PROVE  CleanBody(e) \/ (cachedBytes' = cachedBytes /\ store' = store)
  BY <1>7 DEF CleanReplaced, CleanEntry, CleanEntryBody
<1>8. Peer # None BY NoneAssumption
<1> QED BY <1>1, <1>2, <1>3, <1>4, <1>5, <1>6, <1>7, <1>8 DEF Next, HandlerStep

(* What clients are answered. *)
LEMMA StepsOfAnswers ==
  ASSUME Known, [Next]_vars, NEW r \in Requests
  PROVE  \/ answer'[r] = answer[r]
         \/ /\ pc'[r] = "done" /\ pc[r] # "done"
            /\ \E status, entry, body :
                 /\ answer'[r] = [status |-> status, entry |-> entry, body |-> body]
                 /\ \/ entry = None /\ body \in {None, r}
                    \/ /\ entry = EntryOf(r) /\ pc[r] = "decide"
                       /\ body = r \/ (body = None /\ ~wrote'[r])
                    \/ /\ ReadBy(r, entry)
                       /\ \/ body = GetReader(entry) /\ body \in Bodies
                          \/ body = None /\ GetReader(entry) = "nopre"
<1> USE DEF Goto
<1>0. /\ TypeOK /\ pc \in [Requests -> Places] /\ answer \in [Requests -> Answers \cup {None}]
      /\ wrote \in [Requests -> BOOLEAN]
  BY DEF Known, TypeOK
<1>1. ASSUME NEW q \in Requests, NEW from, NEW status, NEW e, NEW body, Finish(q, from, status, e, body)
      PROVE  /\ answer'[q] = [status |-> status, entry |-> e, body |-> body]
             /\ \A p \in Requests : p # q => answer'[p] = answer[p]
             /\ pc[q] = from /\ pc'[q] = "done"
  BY <1>0, <1>1 DEF Finish
<1>2. CASE Bypass(r)
  <2>1. /\ answer'[r] = [status |-> "bypass", entry |-> None, body |-> r]
        /\ pc'[r] = "done" /\ pc[r] # "done"
    BY <1>0, <1>2 DEF Bypass
  <2> QED BY <2>1
<1>3. CASE RespondHit(r) \/ RespondStale(r)
  <2>1. PICK from \in {"hit", "stale"}, after \in {AfterMiss, "decide"} :
          RespondEntry(r, from, "hit", after)
    BY <1>3 DEF RespondHit, RespondStale
  <2>2. CASE answer' = answer BY <2>2
  <2>3. CASE /\ GetReader(prev[r]) # "error"
             /\ Finish(r, from, "hit", prev[r],
                       IF GetReader(prev[r]) = "nopre" THEN None ELSE GetReader(prev[r]))
    <3>1. prev[r] \in Entries BY <2>3 DEF Finish, Known, PrevKnown
    <3>2. GetReader(prev[r]) \in Bodies \cup {"nopre"} BY <1>0, <2>3, <3>1, ReadTypes
    <3>3. ReadBy(r, prev[r]) BY <2>1, <2>3 DEF RespondEntry, Finish, ReadBy
    <3>4. "nopre" \notin Bodies BY ErrorsAssumption DEF Bodies
    <3> DEFINE b == IF GetReader(prev[r]) = "nopre" THEN None ELSE GetReader(prev[r])
    <3>5. /\ answer'[r] = [status |-> "hit", entry |-> prev[r], body |-> b]
          /\ pc[r] = from /\ pc'[r] = "done"
      BY <1>1, <2>3
    <3> QED BY <3>2, <3>3, <3>4, <3>5
  <2> QED BY <2>1, <2>2, <2>3 DEF RespondEntry
<1>4. CASE ProbeRespond(r)
  <2>1. CASE answer' = answer BY <2>1
  <2>2. CASE /\ GetReader(ProbeOf(r)) # "nopre"
             /\ Finish(r, "probed", "hit", ProbeOf(r), GetReader(ProbeOf(r)))
    <3>1. pc[r] = "probed" BY <2>2 DEF Finish
    <3>2. Kind = "memory" BY <1>0, <3>1, SiteTypes DEF Known, Clustered
    <3>3. GetReader(ProbeOf(r)) \in Bodies BY <1>0, <2>2, <3>2, EntryTypes, ReadTypes
    <3>4. ReadBy(r, ProbeOf(r)) BY <3>1 DEF ReadBy
    <3>5. /\ answer'[r] = [status |-> "hit", entry |-> ProbeOf(r), body |-> GetReader(ProbeOf(r))]
          /\ pc'[r] = "done"
      BY <1>1, <2>2
    <3> QED BY <3>1, <3>3, <3>4, <3>5
  <2>3. CASE Finish(r, "probed", "error", None, None)
    <3>1. /\ answer'[r] = [status |-> "error", entry |-> None, body |-> None]
          /\ pc[r] = "probed" /\ pc'[r] = "done"
      BY <1>1, <2>3
    <3> QED BY <3>1
  <2> QED BY <1>4, <2>1, <2>2, <2>3 DEF ProbeRespond
<1>5. CASE ReturnError(r)
  <2>1. /\ answer'[r] = [status |-> "error", entry |-> None, body |-> None]
        /\ pc[r] = "decide" /\ pc'[r] = "done"
    BY <1>1, <1>5 DEF ReturnError
  <2> QED BY <2>1
<1>6. CASE RespondPrivate(r)
  <2>1. PICK w \in BOOLEAN :
          /\ wrote' = [wrote EXCEPT ![r] = w]
          /\ Finish(r, "decide", "skip", EntryOf(r), IF w THEN r ELSE None)
    BY <1>6 DEF RespondPrivate
  <2>2. wrote'[r] = w BY <1>0, <2>1
  <2>3. /\ answer'[r] = [status |-> "skip", entry |-> EntryOf(r), body |-> IF w THEN r ELSE None]
        /\ pc[r] = "decide" /\ pc'[r] = "done"
    BY <1>1, <2>1
  <2> QED BY <2>2, <2>3
<1>7. CASE RespondMiss(r)
  <2>1. CASE /\ GetReader(EntryOf(r)) \in Bodies
             /\ Finish(r, "respond", "miss", EntryOf(r), GetReader(EntryOf(r)))
    <3>1. /\ answer'[r] = [status |-> "miss", entry |-> EntryOf(r), body |-> GetReader(EntryOf(r))]
          /\ pc[r] = "respond" /\ pc'[r] = "done"
      BY <1>1, <2>1
    <3>2. ReadBy(r, EntryOf(r)) BY <1>7, <3>1 DEF ReadBy, RespondMiss
    <3> QED BY <2>1, <3>1, <3>2
  <2>2. CASE Finish(r, "respond", "error", None, None)
    <3>1. /\ answer'[r] = [status |-> "error", entry |-> None, body |-> None]
          /\ pc[r] = "respond" /\ pc'[r] = "done"
      BY <1>1, <2>2
    <3> QED BY <3>1
  <2> QED BY <1>7, <2>1, <2>2 DEF RespondMiss
<1>8. ASSUME NEW q \in Requests, q # r, Bypass(q) \/ HandlerStep(q)
      PROVE  answer'[r] = answer[r]
  <2>1. \/ answer' = answer \/ \E x : answer' = [answer EXCEPT ![q] = x]
    BY <1>8 DEF HandlerStep, Bypass, Lookup, RespondHit, RespondStale, RespondEntry, ProbePut,
       ProbeRespond, fetchUpstream, LookupStaleEntry, ReturnError, RespondPrivate, setBackend, Put,
       RespondMiss, Finish
  <2> QED BY <1>0, <1>8, <2>1
<1>9. ASSUME \/ UNCHANGED vars
             \/ Lookup(r) \/ ProbePut(r) \/ fetchUpstream(r) \/ LookupStaleEntry(r)
             \/ setBackend(r) \/ Put(r)
             \/ \E q \in Requests : Acquire(q) \/ UpstreamClose(q)
             \/ \E e \in Entries : Expire(e) \/ CleanReplaced(e) \/ CleanEntry(e) \/ CleanEntryBody(e)
             \/ \E k \in StoreKeys : PeerStore(k)
      PROVE  answer'[r] = answer[r]
  BY <1>9 DEF vars, Lookup, ProbePut, fetchUpstream, LookupStaleEntry, setBackend, Put, Acquire,
     UpstreamClose, Expire, CleanReplaced, CleanEntry, CleanEntryBody, PeerStore
<1> QED BY <1>2, <1>3, <1>4, <1>5, <1>6, <1>7, <1>8, <1>9 DEF Next, HandlerStep

(* Headers that agree have the same storage key, which stays the same. *)
LEMMA AgreeSameKey ==
  ASSUME NEW h, NEW g, Agree(h, g)
  PROVE  VaryValues(h) = VaryValues(g)
BY DEF Agree, VaryValues

LEMMA SameFiled ==
  ASSUME Known, [Next]_vars, NEW k, NEW b \in Requests, Filed(k, b)
  PROVE  Filed(k, b)'
<1>1. conf' = conf /\ headers'[b] = headers[b] /\ pc'[b] # "idle"
  BY StepsOfIndex, StepsOfRequests DEF Filed, HeadersStay
<1> QED BY <1>1 DEF Filed, VaryValues, Vary

LEMMA SameKey ==
  ASSUME Known, [Next]_vars, NEW e \in Entries, pc[e.req] # "idle"
  PROVE  keyWithRespectVary(e)' = keyWithRespectVary(e) /\ pc'[e.req] # "idle"
<1>1. conf' = conf /\ headers'[e.req] = headers[e.req] /\ pc'[e.req] # "idle"
  BY StepsOfIndex, StepsOfRequests DEF HeadersStay, Entries
<1> QED BY <1>1 DEF keyWithRespectVary, VaryValues, Vary

LEMMA OwnKey ==
  ASSUME NEW e, ~e.probe, pc[e.req] # "idle"
  PROVE  Filed(keyWithRespectVary(e), e.req)
BY DEF Filed, keyWithRespectVary

(* A body that GetReader returns is one of the entry's storage key. *)
LEMMA ReadKeyed ==
  ASSUME Known, Keyed, NEW e \in Entries, pc[e.req] # "idle", e.probe => Distributed,
         NEW b \in Requests, GetReader(e) = b
  PROVE  Filed(keyWithRespectVary(e), b) /\ (Kind = "file" => b = e.req)
<1>0. TypeOK /\ keyWithRespectVary(e) \in StoreKeys /\ b \notin {None, "nopre", "error"}
  BY KeyTypes, NoneAssumption, ErrorsAssumption DEF Known
<1>1. CASE Kind = "memory"
  <2>1. cachedBytes[e] = b \/ store[keyWithRespectVary(e)] = b \/ (~e.probe /\ b = e.req)
    BY <1>0, <1>1 DEF GetReader, ReadMemory, GroupGet
  <2> QED BY <1>0, <1>1, <2>1, OwnKey DEF Keyed
<1>2. CASE Kind = "redis"
  <2>1. store[keyWithRespectVary(e)] = b BY <1>0, <1>2 DEF GetReader, ReadRedis
  <2> QED BY <1>0, <1>2, <2>1 DEF Keyed
<1>3. CASE Kind = "file"
  <2>1. b = e.req BY <1>0, <1>3 DEF GetReader, ReadFile
  <2>2. ~e.probe BY <1>0, <1>3, SiteTypes
  <2> QED BY <2>1, <2>2, OwnKey
<1> QED BY <1>0, <1>1, <1>2, <1>3, SiteTypes

LEMMA KeyedStep == Known /\ Found /\ Keyed /\ [Next]_vars => Keyed'
<1> SUFFICES ASSUME Known, Found, Keyed, [Next]_vars PROVE Keyed' OBVIOUS
<1>0. /\ TypeOK /\ conf' = conf /\ StoreKeys' = StoreKeys /\ cachedBytes \in [Entries -> Bodies \cup {None}]
      /\ store \in [StoreKeys -> Bodies \cup {None}]
  BY StepsOfIndex, SameKeys DEF Known, TypeOK
<1>1. SUFFICES /\ \A k \in StoreKeys, b \in Requests : store'[k] = b => store[k] = b \/ Filed(k, b)
               /\ \A f \in Entries, b \in Requests :
                    cachedBytes'[f] = b =>
                      cachedBytes[f] = b \/ (pc[f.req] # "idle" /\ Filed(keyWithRespectVary(f), b))
  BY <1>0, SameFiled, SameKey DEF Keyed
<1>2. ASSUME NEW r \in Requests, UpstreamClose(r)
      PROVE  /\ \A k \in StoreKeys, b \in Requests : store'[k] = b => store[k] = b \/ Filed(k, b)
             /\ \A f \in Entries, b \in Requests :
                  cachedBytes'[f] = b =>
                    cachedBytes[f] = b \/ (pc[f.req] # "idle" /\ Filed(keyWithRespectVary(f), b))
  <2> DEFINE e == EntryOf(r)
  <2>1. e \in Entries /\ e.req = r /\ ~e.probe /\ pc[r] # "idle"
    BY <1>2, EntryTypes DEF UpstreamClose, EntryOf
  <2>2. Filed(keyWithRespectVary(e), r) /\ keyWithRespectVary(e) \in StoreKeys
    BY <1>0, <2>1, KeyTypes, OwnKey
  <2>3. PICK w \in BOOLEAN : CloseStore(e, w) BY <1>2 DEF UpstreamClose
  <2> HIDE DEF e
  <2>4. CASE Kind = "memory"
    <3>1. GroupGet(keyWithRespectVary(e), r) \in {r, store[keyWithRespectVary(e)]} BY DEF GroupGet
    <3>2. /\ store' = store \/ store' = [store EXCEPT ![keyWithRespectVary(e)] = GroupGet(keyWithRespectVary(e), r)]
          /\ \/ cachedBytes' = cachedBytes
             \/ cachedBytes' = [cachedBytes EXCEPT ![e] = GroupGet(keyWithRespectVary(e), r)]
      BY <2>1, <2>3, <2>4 DEF CloseStore, CloseMemory
    <3> QED BY <1>0, <2>1, <2>2, <3>1, <3>2 DEF Keyed
  <2>5. CASE Kind = "redis"
    BY <1>0, <2>1, <2>2, <2>3, <2>5 DEF CloseStore, CloseRedis
  <2>6. CASE Kind = "file" BY <2>3, <2>6 DEF CloseStore
  <2> QED BY <1>0, <2>4, <2>5, <2>6, SiteTypes
<1>3. ASSUME NEW r \in Requests, NEW e, ReadBy(r, e), Remember(e)
      PROVE  /\ \A k \in StoreKeys, b \in Requests : store'[k] = b => store[k] = b \/ Filed(k, b)
             /\ \A f \in Entries, b \in Requests :
                  cachedBytes'[f] = b =>
                    cachedBytes[f] = b \/ (pc[f.req] # "idle" /\ Filed(keyWithRespectVary(f), b))
  <2>1. e \in Entries /\ pc[e.req] # "idle" /\ (e.probe => Distributed) BY <1>3, ReadersEntry
  <2>2. \A b \in Requests : GetReader(e) = b => Filed(keyWithRespectVary(e), b)
    BY <2>1, ReadKeyed
  <2>3. /\ store' = store \/ store' = [store EXCEPT ![keyWithRespectVary(e)] = GetReader(e)]
        /\ cachedBytes' = cachedBytes \/ cachedBytes' = [cachedBytes EXCEPT ![e] = GetReader(e)]
    BY <1>3 DEF Remember
  <2> QED BY <1>0, <2>1, <2>2, <2>3
<1>4. CASE /\ cachedBytes' = cachedBytes
           /\ store' = store \/ \E k \in StoreKeys, b \in {None, Peer} : store' = [store EXCEPT ![k] = b]
  BY <1>0, <1>4, NoneAssumption
<1> QED BY <1>2, <1>3, <1>4, StepsOfStore

LEMMA KeyedAlways == Spec => []Keyed
<1>1. Init => Keyed
  BY NoneAssumption DEF Init, Keyed
<1> QED BY <1>1, KeyedStep, KnownAlways, FoundAlways, PTL DEF Spec

LEMMA SameSite ==
  ASSUME conf' = conf
  PROVE  (KeysApart' <=> KeysApart) /\ (Separate' <=> Separate)
<1>1. Vary' = Vary /\ Kind' = Kind /\ Distributed' = Distributed BY DEF Vary, Kind, Distributed
<1>2. Headers' = Headers BY SameKeys
<1>3. ASSUME NEW h, NEW g
      PROVE  VaryValues(h)' = VaryValues(h) /\ (Agree(h, g)' <=> Agree(h, g))
  BY <1>1 DEF VaryValues, Agree
<1>4. KeysApart' <=> KeysApart BY <1>2, <1>3 DEF KeysApart
<1> QED BY <1>1, <1>4 DEF Separate

(* A request responds with an entry that agrees with it. *)
LEMMA ReadersAgree ==
  ASSUME Known, Found, NEW r \in Requests, NEW e, ReadBy(r, e), ~Distributed
  PROVE  Agree(headers[r], headers[e.req])
<1>1. e \in Entries /\ ~e.probe BY ReadersEntry
<1>2. CASE pc[r] \in {"hit", "stale"} /\ e = prev[r]
  <2>1. matchVary(headers[r], e) BY <1>1, <1>2 DEF Found
  <2> QED BY <1>1, <2>1 DEF matchVary, Agree
<1>3. CASE pc[r] = "probed" BY <1>3 DEF Known, Clustered
<1>4. CASE e = EntryOf(r) BY <1>4 DEF EntryOf, Agree
<1> QED BY <1>2, <1>3, <1>4 DEF ReadBy

LEMMA VariantsStep == Known /\ Found /\ Keyed /\ Variants /\ [Next]_vars => Variants'
<1> SUFFICES ASSUME Known, Found, Keyed, Variants, [Next]_vars PROVE Variants' OBVIOUS
<1>s. Separate' <=> Separate BY SameSite, StepsOfIndex
<1> SUFFICES ASSUME NEW r \in Requests, NEW b \in Requests, answer'[r] # None, answer'[r].body = b
             PROVE  /\ pc'[r] = "done" /\ pc'[b] # "idle"
                    /\ Separate => Agree(headers[r], headers[b])'
  BY <1>s DEF Variants
<1>0. TypeOK /\ conf' = conf /\ b # None BY StepsOfIndex, NoneAssumption DEF Known
<1>1. SUFFICES /\ pc'[r] = "done"
               /\ \/ r = b
                  \/ /\ pc[r] # "idle" /\ pc[b] # "idle"
                     /\ Separate => Agree(headers[r], headers[b])
  <2>1. CASE r = b BY <1>1, <2>1 DEF Agree
  <2>2. CASE pc[r] # "idle" /\ pc[b] # "idle" /\ (Separate => Agree(headers[r], headers[b]))
    <3>1. headers'[r] = headers[r] /\ headers'[b] = headers[b] /\ pc'[b] # "idle"
      BY <2>2, StepsOfRequests DEF HeadersStay
    <3>2. Agree(headers[r], headers[b])' <=> Agree(headers[r], headers[b])
      BY <1>0, <3>1 DEF Agree, Vary
    <3> QED BY <1>1, <2>2, <3>1, <3>2
  <2> QED BY <1>1, <2>1, <2>2
<1>2. CASE answer'[r] = answer[r]
  <2>1. pc[r] = "done" /\ pc[b] # "idle" /\ (Separate => Agree(headers[r], headers[b]))
    BY <1>2 DEF Variants
  <2> QED BY <2>1, StepsOfRequests
<1>3. ASSUME NEW e, ReadBy(r, e), GetReader(e) = b
      PROVE  pc[r] # "idle" /\ pc[b] # "idle" /\ (Separate => Agree(headers[r], headers[b]))
  <2>1. e \in Entries /\ pc[e.req] # "idle" /\ (e.probe => Distributed) BY <1>3, ReadersEntry
  <2>2. Filed(keyWithRespectVary(e), b) /\ (Kind = "file" => b = e.req) BY <1>3, <2>1, ReadKeyed
  <2>3. pc[r] # "idle" BY <1>3 DEF ReadBy
  <2>4. ASSUME Separate PROVE Agree(headers[r], headers[b])
    <3>1. CASE Vary = <<>> BY <3>1 DEF Agree
    <3>2. CASE ~Distributed /\ Kind = "file" BY <1>3, <2>2, <3>2, ReadersAgree
    <3>3. CASE ~Distributed /\ KeysApart
      <4>1. Agree(headers[r], headers[e.req]) BY <1>3, <3>3, ReadersAgree
      <4>2. VaryValues(headers[b]) = VaryValues(headers[e.req])
        BY <2>1, <2>2, <3>3 DEF Filed, keyWithRespectVary
      <4>3. headers[b] \in Headers /\ headers[e.req] \in Headers BY <1>0, <2>1 DEF TypeOK, Entries
      <4>4. Agree(headers[b], headers[e.req]) BY <3>3, <4>2, <4>3 DEF KeysApart
      <4> QED BY <4>1, <4>4 DEF Agree
    <3> QED BY <2>4, <3>1, <3>2, <3>3 DEF Separate
  <2> QED BY <2>2, <2>3, <2>4 DEF Filed
<1>4. CASE answer'[r] # answer[r]
  <2>1. PICK status, entry, body :
          /\ answer'[r] = [status |-> status, entry |-> entry, body |-> body]
          /\ \/ body \in {None, r}
             \/ ReadBy(r, entry) /\ body \in {GetReader(entry), None}
    BY <1>4, StepsOfAnswers
  <2>2. r = b \/ (ReadBy(r, entry) /\ GetReader(entry) = b) BY <1>0, <2>1
  <2>3. pc'[r] = "done" BY <1>4, StepsOfAnswers
  <2> QED BY <1>3, <2>2, <2>3
<1> QED BY <1>2, <1>4

LEMMA VariantsAlways == Spec => []Variants
<1>1. Init => Variants BY DEF Init, Variants
<1> QED BY <1>1, VariantsStep, KnownAlways, FoundAlways, KeyedAlways, PTL DEF Spec

(* One variant never answers for another, through purges, replacements and *)
(* expiry, with any backend whose storage keys tell variants apart         *)
(* (matchVary, keyWithRespectVary), outside of clusters with a Vary header.*)
THEOREM VariantsApart == Spec => [](Separate => VariantServed)
<1>1. Variants => (Separate => VariantServed)
  BY DEF Variants, VariantServed, Agree
<1> QED BY <1>1, VariantsAlways, PTL

(* What is closed, written or strayed stays so, and how requests go on. *)
LEMMA OwnEntry ==
  ASSUME NEW e \in Entries, ~e.probe
  PROVE  e = EntryOf(e.req) /\ e.req \in Requests
BY DEF Entries, EntryOf

LEMMA StepsOfPlaces ==
  ASSUME Known, [Next]_vars, NEW q \in Requests
  PROVE  /\ pc'[q] \in Asking => pc[q] \in Asking \/ pc[q] = "probed" \/ Lookup(q) \/ RespondHit(q)
         /\ pc[q] \in {"put", "respond", "done"} => pc'[q] \in {"put", "respond", "done"}
         /\ pc[q] = "put" => pc'[q] = "put" \/ Put(q)
         /\ pc'[q] = "respond" => pc[q] = "respond" \/ Put(q)
<1> USE DEF Goto, Asking
<1>0. pc \in [Requests -> Places] BY DEF Known, TypeOK
<1>1. CASE pc'[q] = pc[q] BY <1>1
<1>2. CASE Bypass(q) \/ Acquire(q) BY <1>0, <1>2 DEF Bypass, Acquire
<1>3. CASE Lookup(q) BY <1>0, <1>3 DEF Lookup, AfterMiss
<1>4. CASE RespondHit(q) BY <1>0, <1>4 DEF RespondHit, RespondEntry, Finish, AfterMiss
<1>5. CASE ProbePut(q) \/ ProbeRespond(q) \/ fetchUpstream(q) \/ LookupStaleEntry(q)
  <2>1. CASE ProbePut(q) BY <1>0, <2>1 DEF ProbePut
  <2>2. CASE ProbeRespond(q) BY <1>0, <2>2 DEF ProbeRespond, Finish
  <2>3. CASE fetchUpstream(q) BY <1>0, <2>3 DEF fetchUpstream
  <2>4. CASE LookupStaleEntry(q)
    <3>1. pc[q] = "fetched" /\ \E to \in {"decide", "stale"} : pc' = [pc EXCEPT ![q] = to]
      BY <2>4 DEF LookupStaleEntry
    <3> QED BY <1>0, <3>1
  <2> QED BY <1>5, <2>1, <2>2, <2>3, <2>4
<1>6. CASE RespondStale(q) \/ ReturnError(q) \/ RespondPrivate(q) \/ setBackend(q) \/ RespondMiss(q)
  BY <1>0, <1>6 DEF RespondStale, RespondEntry, ReturnError, RespondPrivate, setBackend,
     RespondMiss, Finish
<1>7. CASE Put(q) BY <1>0, <1>7 DEF Put
<1>8. ASSUME NEW r \in Requests, r # q, Bypass(r) \/ Acquire(r) \/ HandlerStep(r)
      PROVE  pc'[q] = pc[q]
  <2>1. \E to : pc' = [pc EXCEPT ![r] = to]
    <3>1. CASE Bypass(r) \/ Acquire(r) BY <3>1 DEF Bypass, Acquire
    <3>2. CASE Lookup(r) BY <3>2 DEF Lookup
    <3>3. CASE LookupStaleEntry(r) BY <3>3 DEF LookupStaleEntry
    <3>4. CASE RespondHit(r) \/ RespondStale(r)
      BY <3>4 DEF RespondHit, RespondStale, RespondEntry, Finish
    <3>5. CASE ProbePut(r) \/ fetchUpstream(r) \/ setBackend(r) \/ Put(r)
      BY <3>5 DEF ProbePut, fetchUpstream, setBackend, Put
    <3>6. CASE ProbeRespond(r) \/ ReturnError(r) \/ RespondPrivate(r) \/ RespondMiss(r)
      BY <3>6 DEF ProbeRespond, ReturnError, RespondPrivate, RespondMiss, Finish
    <3> QED BY <1>8, <3>1, <3>2, <3>3, <3>4, <3>5, <3>6 DEF HandlerStep
  <2> QED BY <1>0, <1>8, <2>1
<1>9. ASSUME \/ UNCHANGED vars
             \/ \E r \in Requests : UpstreamClose(r)
             \/ \E e \in Entries : Expire(e) \/ CleanReplaced(e) \/ CleanEntry(e) \/ CleanEntryBody(e)
             \/ \E k \in StoreKeys : PeerStore(k)
      PROVE  pc' = pc
  BY <1>9 DEF vars, UpstreamClose, Expire, CleanReplaced, CleanEntry, CleanEntryBody, PeerStore
<1> QED BY <1>1, <1>2, <1>3, <1>4, <1>5, <1>6, <1>7, <1>8, <1>9 DEF Next, HandlerStep

LEMMA StepsOfBodies ==
  ASSUME Known, [Next]_vars
  PROVE  /\ stray \subseteq stray' /\ closed \subseteq closed'
         /\ \A r \in Requests : EntryOf(r) \in closed' => EntryOf(r) \in closed \/ UpstreamClose(r)
         /\ \A r \in Requests : wrote'[r] = wrote[r] \/ UpstreamClose(r) \/ RespondPrivate(r)
         /\ \A e \in Entries : life'[e] = "stale" => life[e] = "stale" \/ Expire(e)
         /\ \A r \in Requests : EntryOf(r) \in cleaned => EntryOf(r) \in cleaned' \/ UpstreamClose(r)
<1> USE DEF indexVars, storeVars, cleanVars, reqVars, fetchVars
<1>0. /\ wrote \in [Requests -> BOOLEAN] /\ life \in [Entries -> {"none", "fresh", "stale"}]
  BY DEF Known, TypeOK
<1>1. \A r, q \in Requests : (EntryOf(r) = EntryOf(q) => r = q) /\ EntryOf(r) # ProbeOf(q)
  <2>1. \A r, q \in Requests : EntryOf(r).req = r /\ EntryOf(r).probe = FALSE /\ ProbeOf(q).probe = TRUE
    BY DEF EntryOf, ProbeOf
  <2> QED BY <2>1
<1>2. CASE UNCHANGED vars BY <1>2 DEF vars
<1>3. ASSUME NEW q \in Requests,
             \/ Bypass(q) \/ Acquire(q) \/ Lookup(q) \/ RespondHit(q) \/ ProbeRespond(q)
             \/ fetchUpstream(q) \/ LookupStaleEntry(q) \/ RespondStale(q) \/ ReturnError(q)
             \/ setBackend(q) \/ RespondMiss(q)
      PROVE  stray \subseteq stray' /\ UNCHANGED <<closed, wrote, life, cleaned>>
  BY <1>3 DEF Bypass, Acquire, Lookup, RespondHit, ProbeRespond, fetchUpstream, LookupStaleEntry,
     RespondStale, RespondEntry, ReturnError, setBackend, RespondMiss
<1>4. ASSUME NEW q \in Requests, ProbePut(q) \/ Put(q)
      PROVE  /\ UNCHANGED <<stray, wrote, cleaned>> /\ closed' \in {closed, closed \cup {ProbeOf(q)}}
             /\ \A e \in Entries : life'[e] = "stale" => life[e] = "stale"
  BY <1>0, <1>4 DEF ProbePut, Put, PutEntry
<1>5. ASSUME NEW q \in Requests, RespondPrivate(q)
      PROVE  /\ UNCHANGED <<stray, closed, life, cleaned>>
             /\ \A r \in Requests : r # q => wrote'[r] = wrote[r]
  BY <1>0, <1>5 DEF RespondPrivate
<1>6. ASSUME NEW q \in Requests, UpstreamClose(q)
      PROVE  /\ stray \subseteq stray' /\ closed' = closed \cup {EntryOf(q)} /\ life' = life
             /\ cleaned' = cleaned \ {EntryOf(q)}
             /\ \A r \in Requests : r # q => wrote'[r] = wrote[r]
  BY <1>0, <1>6 DEF UpstreamClose
<1>7. ASSUME NEW e \in Entries, Expire(e)
      PROVE  /\ UNCHANGED <<stray, closed, wrote, cleaned>>
             /\ \A f \in Entries : f # e => life'[f] = life[f]
  BY <1>0, <1>7 DEF Expire
<1>8. ASSUME NEW e \in Entries, CleanReplaced(e) \/ CleanEntry(e) \/ CleanEntryBody(e)
      PROVE  UNCHANGED <<stray, closed, wrote, life>> /\ cleaned \subseteq cleaned'
  BY <1>8 DEF CleanReplaced, CleanEntry, CleanEntryBody, CleanBody
<1>9. ASSUME NEW k \in StoreKeys, PeerStore(k)
      PROVE  UNCHANGED <<stray, closed, wrote, life, cleaned>>
  BY <1>9 DEF PeerStore
<1>10. ASSUME NEW q \in Requests, ProbePut(q) \/ Put(q) \/ UpstreamClose(q)
       PROVE  \A r \in Requests : EntryOf(r) \in closed' => EntryOf(r) \in closed \/ UpstreamClose(r)
  BY <1>1, <1>4, <1>6, <1>10
<1>11. ASSUME NEW q \in Requests, UpstreamClose(q)
       PROVE  \A r \in Requests : EntryOf(r) \in cleaned => EntryOf(r) \in cleaned' \/ UpstreamClose(r)
  BY <1>1, <1>6, <1>11
<1> QED BY <1>2, <1>3, <1>4, <1>5, <1>6, <1>7, <1>8, <1>9, <1>10, <1>11 DEF Next, HandlerStep

(* How an entry leaves the index, and what becomes of it. *)
LEMMA StepsOfRemoval ==
  ASSUME Known, [Next]_vars, NEW e \in Entries, ~Distributed
  PROVE  /\ Indexed(e) => \/ Indexed(e)' \/ bucket' = e
                          \/ \E r \in Requests : Put(r) /\ matchVary(headers[r], e)
         /\ bucket = e => bucket' = e \/ CleanEntryBody(e)
         /\ \A r \in Requests : Put(r) => Indexed(EntryOf(r))'
<1>0. TypeOK BY DEF Known
<1>1. ASSUME NEW r \in Requests, Put(r)
      PROVE  /\ Indexed(e) => Indexed(e)' \/ matchVary(headers[r], e)
             /\ bucket = None /\ Indexed(EntryOf(r))'
  <2>1. EntryOf(r) \in Entries /\ EntryOf(r).req = r /\ PutEntry(EntryOf(r))
    BY <1>1, EntryTypes DEF Put, EntryOf
  <2>2. bucket = None BY <2>1 DEF PutEntry
  <2>3. Indexed(EntryOf(r))' BY <1>0, <2>1, PutSlots DEF Indexed
  <2>4. ASSUME Indexed(e) PROVE Indexed(e)' \/ matchVary(headers[r], e)
    BY <1>0, <2>1, <2>4, PutSlots DEF Indexed, Matching
  <2> QED BY <2>2, <2>3, <2>4
<1>2. ASSUME NEW r \in Requests, ProbePut(r) PROVE FALSE
  BY <1>2 DEF ProbePut, Goto, Known, Clustered
<1>3. ASSUME NEW f \in Entries, CleanEntry(f)
      PROVE  /\ Indexed(e) => Indexed(e)' \/ bucket' = e
             /\ bucket = None
  <2>1. bucket = None /\ bucket' = f BY <1>3 DEF CleanEntry
  <2>2. ASSUME Indexed(e), e # f PROVE Indexed(e)'
    <3>1. PICK i \in DOMAIN index : index[i] = f /\ index' = WithoutSlot(i) BY <1>3 DEF CleanEntry
    <3>2. PICK j \in DOMAIN index : index[j] = e BY <2>2 DEF Indexed
    <3>3. index \in Seq(Entries) BY <1>0 DEF TypeOK
    <3>4. i \in 1 .. Len(index) /\ j \in 1 .. Len(index) /\ Len(index) \in Nat /\ i # j
      BY <2>2, <3>1, <3>2, <3>3
    <3>5. DOMAIN index' = 1 .. Len(index) - 1
      BY <3>1, <3>3, <3>4 DEF WithoutSlot
    <3>6. CASE j < i
      <4>1. j \in DOMAIN index' BY <3>4, <3>5, <3>6
      <4>2. index'[j] = e BY <3>1, <3>2, <3>4, <3>5, <3>6, <4>1 DEF WithoutSlot
      <4> QED BY <4>1, <4>2 DEF Indexed
    <3>7. CASE ~(j < i)
      <4>1. j - 1 \in DOMAIN index' /\ ~(j - 1 < i) /\ (j - 1) + 1 = j BY <3>4, <3>5, <3>7
      <4>2. index'[j - 1] = e BY <3>1, <3>2, <3>4, <3>5, <3>7, <4>1 DEF WithoutSlot
      <4> QED BY <4>1, <4>2 DEF Indexed
    <3> QED BY <3>6, <3>7
  <2> QED BY <2>1, <2>2
<1>4. ASSUME \/ Untouched
             \/ \E r \in Requests : setBackend(r)
             \/ \E f \in Entries : CleanReplaced(f)
      PROVE  index' = index /\ bucket' = bucket
  BY <1>4 DEF Untouched, setBackend, CleanReplaced, indexVars
<1>5. ASSUME NEW f \in Entries, CleanEntryBody(f)
      PROVE  index' = index /\ bucket = f
  BY <1>5 DEF CleanEntryBody
<1>6. index' = index => (Indexed(e)' <=> Indexed(e)) BY DEF Indexed
<1>7. e # None BY NoneAssumption DEF Entries
<1> QED BY <1>1, <1>2, <1>3, <1>4, <1>5, <1>6, <1>7, StepsOfIndex

LEMMA ClosedAtStep == Known /\ ClosedAt /\ [Next]_vars => ClosedAt'
<1> SUFFICES ASSUME Known, ClosedAt, [Next]_vars, NEW r \in Requests, EntryOf(r) \in closed'
             PROVE  pc'[r] \in {"put", "respond", "done"}
  BY DEF ClosedAt
<1>1. pc[r] \in {"put", "respond", "done"} BY StepsOfBodies DEF ClosedAt, UpstreamClose
<1> QED BY <1>1, StepsOfPlaces

(* Once an entry is final, what its upstream wrote is. *)
LEMMA WroteFinal ==
  ASSUME Known, ClosedAt, [Next]_vars, NEW e \in Entries, ~e.probe, Final(e)
  PROVE  wrote'[e.req] = wrote[e.req]
<1>1. e = EntryOf(e.req) /\ e.req \in Requests BY OwnEntry
<1>2. ~UpstreamClose(e.req) BY <1>1 DEF UpstreamClose, Final
<1>3. ~RespondPrivate(e.req) BY <1>1 DEF RespondPrivate, Finish, Goto, Final, ClosedAt
<1> QED BY <1>1, <1>2, <1>3, StepsOfBodies

LEMMA AnsweredStep == Known /\ ClosedAt /\ Answered /\ [Next]_vars => Answered'
<1> SUFFICES ASSUME Known, ClosedAt, Answered, [Next]_vars, NEW r \in Requests, NEW e \in Entries,
                    answer'[r] # None, answer'[r].entry = e, ~e.probe
             PROVE  Final(e)'
  BY DEF Answered
<1>0. e = EntryOf(e.req) /\ e.req \in Requests /\ e # None
  BY OwnEntry, NoneAssumption DEF Entries
<1>1. CASE answer'[r] = answer[r]
  <2>1. Final(e) BY <1>1 DEF Answered
  <2> QED BY <1>0, <2>1, StepsOfBodies, StepsOfRequests DEF Final
<1>2. CASE answer'[r] # answer[r]
  <2>0. PICK status, entry, body :
          /\ answer'[r] = [status |-> status, entry |-> entry, body |-> body]
          /\ entry = None \/ entry = EntryOf(r) \/ ReadBy(r, entry)
    BY <1>2, StepsOfAnswers
  <2>1. pc'[r] = "done" /\ (e = EntryOf(r) \/ ReadBy(r, e))
    <3>1. e = entry BY <2>0
    <3> QED BY <1>0, <1>2, <2>0, <3>1, StepsOfAnswers
  <2>2. e = EntryOf(r) => e.req = r BY DEF EntryOf
  <2>3. ReadBy(r, e) => e \in closed BY DEF ReadBy, ProbeOf
  <2> QED BY <2>1, <2>2, <2>3, StepsOfBodies DEF Final
<1> QED BY <1>1, <1>2

LEMMA AnsweredAlways == Spec => [](ClosedAt /\ Answered)
<1>1. Init => ClosedAt /\ Answered BY DEF Init, ClosedAt, Answered
<1> QED BY <1>1, ClosedAtStep, AnsweredStep, KnownAlways, PTL DEF Spec

(* On a shelf GetReader returns the entry's own body or a stray one, and   *)
(* nothing only if nothing was written.                                    *)
LEMMA ReadOwn ==
  ASSUME Known, Found, Keyed, ClosedAt, Shelf, Shelved, NEW r \in Requests, NEW e, ReadBy(r, e)
  PROVE  /\ e \in Entries /\ ~e.probe /\ e \in closed
         /\ GetReader(e) \in Requests \cup {"nopre"}
         /\ GetReader(e) \in Requests => GetReader(e) = e.req \/ GetReader(e) \in stray
         /\ GetReader(e) = "nopre" => ~wrote[e.req]
         /\ cachedBytes[e] = None => GetReader(e) \in {"nopre", store[keyWithRespectVary(e)]}
<1>0. TypeOK /\ ~Distributed /\ Kind = "memory" BY DEF Known, Shelf
<1>1. e \in Entries /\ ~e.probe /\ pc[e.req] # "idle" BY <1>0, ReadersEntry
<1>2. e = EntryOf(e.req) /\ e.req \in Requests BY <1>1, OwnEntry
<1>3. e \in closed BY <1>0 DEF ReadBy, Known, Clustered
<1> DEFINE k == keyWithRespectVary(e)
<1>4. k \in StoreKeys /\ store[k] \in Bodies \cup {None} /\ cachedBytes[e] \in Bodies \cup {None}
  BY <1>0, <1>1, KeyTypes DEF TypeOK
<1>5. "nopre" \notin Requests BY ErrorsAssumption
<1>6. CASE cachedBytes[e] # None
  <2>1. GetReader(e) = cachedBytes[e] BY <1>0, <1>6 DEF GetReader, ReadMemory
  <2>2. cachedBytes[e] \in Requests BY <1>1, <1>4, <1>6 DEF Shelved, NoPeer, Bodies
  <2>3. cachedBytes[e] = e.req \/ cachedBytes[e] \in stray
    BY <1>2, <2>2 DEF Shelved, CachedOwn
  <2> QED BY <1>1, <1>3, <1>5, <1>6, <2>1, <2>2, <2>3
<1>7. CASE cachedBytes[e] = None
  <2>1. ~wrote[e.req] BY <1>2, <1>3, <1>7 DEF Shelved, WroteCached
  <2>2. GetReader(e) = IF store[k] # None THEN store[k] ELSE "nopre"
    BY <1>0, <1>7, <2>1 DEF GetReader, ReadMemory, GroupGet
  <2>3. ASSUME NEW b \in Requests, store[k] = b PROVE b = e.req \/ b \in stray
    <3>1. Agree(headers[r], headers[e.req]) BY <1>0, ReadersAgree
    <3>2. VaryValues(headers[r]) = k BY <1>1, <3>1, AgreeSameKey DEF keyWithRespectVary
    <3>3. /\ pc[r] \in Asking => b = r \/ b \in stray
          /\ pc[r] = "hit" => prev[r] = EntryOf(b) \/ b \in stray
      BY <1>4, <2>3, <3>2 DEF Shelved, Clear
    <3>4. EntryOf(b) \in closed BY <1>4, <2>3 DEF Shelved, StoreHeld
    <3>5. CASE pc[r] = "hit" /\ e = prev[r] BY <3>3, <3>5 DEF EntryOf
    <3>6. CASE pc[r] = "stale"
      <4>1. b # r BY <3>4, <3>6 DEF ClosedAt
      <4> QED BY <3>3, <3>6, <4>1 DEF Asking
    <3>7. CASE pc[r] = "respond" /\ e = EntryOf(r) BY <3>3, <3>7 DEF Asking, EntryOf
    <3> QED BY <1>0, <3>5, <3>6, <3>7 DEF ReadBy, Known, Clustered
  <2>4. store[k] # None => store[k] \in Requests BY <1>4 DEF Shelved, NoPeer, Bodies
  <2> QED BY <1>1, <1>3, <1>5, <2>1, <2>2, <2>3, <2>4
<1> QED BY <1>6, <1>7

LEMMA RememberOwn ==
  ASSUME Known, Found, Keyed, ClosedAt, Shelf, Shelved, NEW r \in Requests, NEW e, ReadBy(r, e),
         Remember(e)
  PROVE  /\ store' = store
         /\ \A f \in Entries :
              \/ cachedBytes'[f] = cachedBytes[f]
              \/ /\ cachedBytes'[f] \in Requests
                 /\ cachedBytes'[f] = f.req \/ cachedBytes'[f] \in stray
<1>0. /\ cachedBytes \in [Entries -> Bodies \cup {None}] /\ store \in [StoreKeys -> Bodies \cup {None}]
      /\ TypeOK
  BY DEF Known, TypeOK
<1>1. /\ e \in Entries /\ GetReader(e) \in Requests \cup {"nopre"}
      /\ GetReader(e) \in Requests => GetReader(e) = e.req \/ GetReader(e) \in stray
      /\ cachedBytes[e] = None => GetReader(e) \in {"nopre", store[keyWithRespectVary(e)]}
  BY ReadOwn
<1>2. "nopre" \notin Bodies BY ErrorsAssumption DEF Bodies
<1>3. keyWithRespectVary(e) \in StoreKeys BY <1>0, <1>1, KeyTypes
<1>4. CASE cachedBytes' = cachedBytes /\ store' = store BY <1>4
<1>5. CASE /\ cachedBytes[e] = None /\ GetReader(e) \in Bodies
           /\ cachedBytes' = [cachedBytes EXCEPT ![e] = GetReader(e)]
           /\ store' = store \/ store' = [store EXCEPT ![keyWithRespectVary(e)] = GetReader(e)]
  <2>1. GetReader(e) \in Requests /\ GetReader(e) = store[keyWithRespectVary(e)]
    BY <1>1, <1>2, <1>5
  <2>2. store' = store BY <1>0, <1>3, <1>5, <2>1
  <2> QED BY <1>0, <1>1, <1>5, <2>1, <2>2
<1> QED BY <1>4, <1>5 DEF Remember

(* Close on a shelf. *)
LEMMA CloseOwn ==
  ASSUME Known, Shelf, Shelved, NEW r \in Requests, UpstreamClose(r)
  PROVE  LET e == EntryOf(r)
             k == keyWithRespectVary(e)
             b == GroupGet(k, r)
         IN  /\ e \in Entries /\ k \in StoreKeys /\ k = VaryValues(headers[r])
             /\ b = r \/ (b = store[k] /\ b \in stray)
             /\ b \in Requests
             /\ cachedBytes' = IF wrote'[r] THEN [cachedBytes EXCEPT ![e] = b] ELSE cachedBytes
             /\ \/ store' = store
                \/ store' = [store EXCEPT ![k] = b] /\ life[e] # "stale"
<1> DEFINE e == EntryOf(r)
           k == keyWithRespectVary(e)
           b == GroupGet(k, r)
<1>0. TypeOK /\ ~Distributed /\ Kind = "memory" BY DEF Known, Shelf
<1>1. e \in Entries /\ e.req = r /\ ~e.probe BY EntryTypes DEF EntryOf
<1>2. k \in StoreKeys /\ k = VaryValues(headers[r])
  BY <1>0, <1>1, KeyTypes DEF keyWithRespectVary
<1>3. store[k] \in Requests \cup {None}
  BY <1>0, <1>2 DEF TypeOK, Shelved, NoPeer, Bodies
<1>4. pc[r] \in Asking BY DEF UpstreamClose, Asking
<1>5. store[k] # None => store[k] = r \/ store[k] \in stray
  BY <1>2, <1>3, <1>4 DEF Shelved, Clear
<1>6. b \in Requests /\ (b = r \/ (b = store[k] /\ b \in stray))
  BY <1>3, <1>5 DEF GroupGet
<1>7. PICK w \in BOOLEAN : wrote' = [wrote EXCEPT ![r] = w] /\ CloseStore(e, w)
  BY DEF UpstreamClose
<1>8. wrote'[r] = w BY <1>0, <1>7 DEF TypeOK
<1>9. ~CallMayFail(e) BY <1>0 DEF CallMayFail
<1>10. /\ cachedBytes' = IF w THEN [cachedBytes EXCEPT ![e] = b] ELSE cachedBytes
       /\ store' = store \/ (store' = [store EXCEPT ![k] = b] /\ life[e] # "stale")
  <2>1. CloseMemory(e, w) BY <1>0, <1>7 DEF CloseStore
  <2> QED BY <1>1, <1>9, <2>1 DEF CloseMemory
<1> QED BY <1>1, <1>2, <1>6, <1>8, <1>10

(* The parts of Shelved, one by one. *)
LEMMA NoPeerStep ==
  ASSUME Known, Found, Keyed, ClosedAt, Shelf, Shelved, [Next]_vars
  PROVE  NoPeer'
<1>0. /\ cachedBytes \in [Entries -> Bodies \cup {None}] /\ store \in [StoreKeys -> Bodies \cup {None}]
      /\ StoreKeys' = StoreKeys /\ ~Distributed /\ NoPeer /\ Peer # None /\ Peer \notin Requests
  BY StepsOfIndex, SameKeys, NoneAssumption DEF Known, TypeOK, Shelf, Shelved
<1>1. ASSUME NEW r \in Requests, UpstreamClose(r) PROVE NoPeer'
  <2> DEFINE e == EntryOf(r)
             k == keyWithRespectVary(e)
             b == GroupGet(k, r)
  <2>1. /\ e \in Entries /\ k \in StoreKeys /\ b \in Requests
        /\ cachedBytes' = cachedBytes \/ cachedBytes' = [cachedBytes EXCEPT ![e] = b]
        /\ store' = store \/ store' = [store EXCEPT ![k] = b]
    BY <1>1, CloseOwn
  <2> HIDE DEF e, k, b
  <2> QED BY <1>0, <2>1 DEF NoPeer
<1>2. ASSUME NEW r \in Requests, NEW e, ReadBy(r, e), Remember(e) PROVE NoPeer'
  <2>1. store' = store /\ \A f \in Entries : cachedBytes'[f] \in Requests \cup {cachedBytes[f]}
    BY <1>2, RememberOwn
  <2> QED BY <1>0, <2>1 DEF NoPeer
<1>3. CASE /\ cachedBytes' = cachedBytes
           /\ store' = store \/ \E k \in StoreKeys : store' = [store EXCEPT ![k] = None]
  BY <1>0, <1>3 DEF NoPeer
<1> QED BY <1>0, <1>1, <1>2, <1>3, StepsOfStore

LEMMA CachedStep ==
  ASSUME Known, Found, Keyed, ClosedAt, Shelf, Shelved, [Next]_vars
  PROVE  CachedOwn' /\ WroteCached'
<1>0. /\ cachedBytes \in [Entries -> Bodies \cup {None}]
      /\ stray \subseteq stray' /\ CachedOwn /\ WroteCached /\ None \notin Requests
  BY StepsOfBodies, NoneAssumption DEF Known, TypeOK, Shelved
<1>1. ASSUME NEW r \in Requests
      PROVE  EntryOf(r) \in Entries /\ EntryOf(r).req = r /\ ~EntryOf(r).probe
  <2>1. EntryOf(r) \in Entries BY EntryTypes
  <2> QED BY <2>1 DEF EntryOf
<1>2. \A r, q \in Requests : EntryOf(r) = EntryOf(q) => r = q BY <1>1
<1>3. ASSUME NEW q \in Requests, EntryOf(q) \in closed', wrote'[q], ~UpstreamClose(q)
      PROVE  cachedBytes[EntryOf(q)] # None
  <2>1. EntryOf(q) \in closed BY <1>3, StepsOfBodies
  <2>2. wrote'[q] = wrote[q] BY <1>1, <2>1, WroteFinal DEF Final
  <2> QED BY <1>0, <1>3, <2>1, <2>2 DEF WroteCached
<1>4. ASSUME NEW r \in Requests, UpstreamClose(r) PROVE CachedOwn' /\ WroteCached'
  <2> DEFINE e == EntryOf(r)
             b == GroupGet(keyWithRespectVary(e), r)
  <2>1. /\ e \in Entries /\ b \in Requests /\ (b = r \/ b \in stray)
        /\ cachedBytes' = IF wrote'[r] THEN [cachedBytes EXCEPT ![e] = b] ELSE cachedBytes
    BY <1>4, CloseOwn
  <2> HIDE DEF b
  <2>2. \A q \in Requests : q # r => cachedBytes'[EntryOf(q)] = cachedBytes[EntryOf(q)]
    BY <1>0, <1>1, <1>2, <2>1
  <2>3. cachedBytes'[EntryOf(r)] = IF wrote'[r] THEN b ELSE cachedBytes[EntryOf(r)]
    BY <1>0, <2>1
  <2>4. CachedOwn' BY <1>0, <2>1, <2>2, <2>3 DEF CachedOwn
  <2>5. \A q \in Requests : q # r => ~UpstreamClose(q)
    BY <1>4 DEF Known, Locked, UpstreamClose
  <2>6. WroteCached' BY <1>0, <1>3, <2>1, <2>2, <2>3, <2>5 DEF WroteCached
  <2> QED BY <2>4, <2>6
<1>5. ASSUME \A q \in Requests : \/ cachedBytes'[EntryOf(q)] = cachedBytes[EntryOf(q)]
                                 \/ /\ cachedBytes'[EntryOf(q)] \in Requests
                                    /\ \/ cachedBytes'[EntryOf(q)] = q
                                       \/ cachedBytes'[EntryOf(q)] \in stray,
             ~ \E q \in Requests : UpstreamClose(q)
      PROVE  CachedOwn' /\ WroteCached'
  <2>1. CachedOwn' BY <1>0, <1>5 DEF CachedOwn
  <2>2. WroteCached' BY <1>0, <1>3, <1>5 DEF WroteCached
  <2> QED BY <2>1, <2>2
<1>6. ASSUME NEW r \in Requests, NEW e, ReadBy(r, e), Remember(e),
             ~ \E q \in Requests : UpstreamClose(q)
      PROVE  CachedOwn' /\ WroteCached'
  <2>1. \A f \in Entries : \/ cachedBytes'[f] = cachedBytes[f]
                           \/ /\ cachedBytes'[f] \in Requests
                              /\ cachedBytes'[f] = f.req \/ cachedBytes'[f] \in stray
    BY <1>6, RememberOwn
  <2> QED BY <1>1, <1>5, <1>6, <2>1
<1> QED BY <1>4, <1>5, <1>6, StepsOfStore

(* Clean on a shelf removes what the store has under the entry's key. *)
LEMMA CleanOwn ==
  ASSUME Known, Shelf, NEW e \in Entries, CleanEntryBody(e)
  PROVE  store' = Removed(e) /\ cleaned' = cleaned \cup ({e} \ closed)
<1>1. ~Distributed /\ Kind = "memory" BY DEF Shelf
<1>2. CleanBody(e) BY <1>1 DEF CleanEntryBody
<1>3. ~CallMayFail(e) BY <1>1 DEF CallMayFail
<1> QED BY <1>1, <1>2, <1>3 DEF CleanBody, CleanMemory

LEMMA AwaitedStep ==
  ASSUME Known, Shelf, Shelved, [Next]_vars
  PROVE  Awaited'
<1> SUFFICES ASSUME NEW r \in Requests, pc'[r] = "respond", EntryOf(r) \notin closed'
             PROVE  Indexed(EntryOf(r))' \/ bucket' = EntryOf(r) \/ EntryOf(r) \in cleaned'
  BY DEF Awaited
<1>0. ~Distributed /\ EntryOf(r) \in Entries BY EntryTypes DEF Shelf
<1>1. CASE Put(r) BY <1>0, <1>1, StepsOfRemoval
<1>2. CASE pc[r] = "respond"
  <2>1. EntryOf(r) \notin closed BY StepsOfBodies
  <2>2. ~UpstreamClose(r) BY DEF UpstreamClose
  <2>3. \A q \in Requests : ~Put(q) BY <1>2 DEF Put, Goto, Known, Locked
  <2>4. CASE Indexed(EntryOf(r)) BY <1>0, <2>3, <2>4, StepsOfRemoval
  <2>5. CASE bucket = EntryOf(r)
    <3>1. CleanEntryBody(EntryOf(r)) => EntryOf(r) \in cleaned' BY <1>0, <2>1, CleanOwn
    <3> QED BY <1>0, <2>5, <3>1, StepsOfRemoval
  <2>6. CASE EntryOf(r) \in cleaned BY <2>2, <2>6, StepsOfBodies
  <2> QED BY <1>2, <2>1, <2>4, <2>5, <2>6 DEF Shelved, Awaited
<1> QED BY <1>1, <1>2, StepsOfPlaces

(* What a step adds to the store. *)
LEMMA StoredBy ==
  ASSUME Known, Found, Keyed, ClosedAt, Shelf, Shelved, [Next]_vars,
         NEW k \in StoreKeys, NEW b \in Requests, store'[k] = b
  PROVE  \/ store[k] = b
         \/ UpstreamClose(b) /\ k = VaryValues(headers[b]) /\ life[EntryOf(b)] # "stale"
<1>0. store \in [StoreKeys -> Bodies \cup {None}] /\ None \notin Requests /\ ~Distributed
  BY NoneAssumption DEF Known, TypeOK, Shelf
<1>1. ASSUME NEW r \in Requests, UpstreamClose(r), store[k] # b
      PROVE  b = r /\ k = VaryValues(headers[r]) /\ life[EntryOf(r)] # "stale"
  <2> DEFINE j == keyWithRespectVary(EntryOf(r))
             c == GroupGet(j, r)
  <2>1. /\ j \in StoreKeys /\ j = VaryValues(headers[r]) /\ (c = r \/ c = store[j])
        /\ store' = store \/ (store' = [store EXCEPT ![j] = c] /\ life[EntryOf(r)] # "stale")
    BY <1>1, CloseOwn
  <2> HIDE DEF j, c
  <2> QED BY <1>0, <1>1, <2>1
<1>2. ASSUME NEW r \in Requests, NEW e, ReadBy(r, e), Remember(e) PROVE store[k] = b
  BY <1>2, RememberOwn
<1>3. CASE store' = store \/ \E j \in StoreKeys : store' = [store EXCEPT ![j] = None]
  BY <1>0, <1>3
<1> QED BY <1>0, <1>1, <1>2, <1>3, StepsOfStore

LEMMA StoreHeldStep ==
  ASSUME Known, Tracked, Found, Keyed, ClosedAt, Shelf, Shelved, [Next]_vars
  PROVE  StoreHeld'
<1> SUFFICES ASSUME NEW k \in StoreKeys, NEW b \in Requests, store'[k] = b
             PROVE  /\ EntryOf(b) \in closed' /\ life'[EntryOf(b)] # "stale"
                    /\ b \in stray' \/ Indexed(EntryOf(b))' \/ bucket' = EntryOf(b) \/ pc'[b] = "put"
  <2>1. StoreKeys' = StoreKeys BY StepsOfIndex, SameKeys
  <2> QED BY <2>1 DEF StoreHeld
<1> DEFINE e == EntryOf(b)
<1>0. /\ TypeOK /\ e \in Entries /\ e.req = b /\ ~e.probe /\ ~Distributed
      /\ keyWithRespectVary(e) = VaryValues(headers[b]) /\ None \notin Requests
  BY EntryTypes, NoneAssumption DEF EntryOf, Shelf, Known, keyWithRespectVary
<1>1. CASE UpstreamClose(b) /\ store[k] # b
  <2>1. life[e] # "stale" BY <1>1, StoredBy
  <2>2. /\ e \in closed' /\ e \notin closed /\ life' = life /\ pc' = pc /\ index' = index
        /\ bucket' = bucket /\ (e \in cleaned => b \in stray') /\ pc[b] \in {"put", "respond"}
    BY <1>1 DEF UpstreamClose, indexVars
  <2>3. pc[b] = "respond" => Indexed(e) \/ bucket = e \/ e \in cleaned
    BY <2>2 DEF Shelved, Awaited
  <2> QED BY <2>1, <2>2, <2>3 DEF Indexed
<1>2. CASE store[k] = b
  <2>1. /\ e \in closed /\ life[e] # "stale" /\ k = VaryValues(headers[b])
        /\ b \in stray \/ Indexed(e) \/ bucket = e \/ pc[b] = "put"
    BY <1>2 DEF Shelved, StoreHeld, Keyed, Filed
  <2>2. ~Expire(e)
    BY <1>0, <1>2, <2>1 DEF Expire, TypeOK
  <2>3. e \in closed' /\ life'[e] # "stale" BY <1>0, <2>1, <2>2, StepsOfBodies
  <2>4. CASE b \in stray BY <2>3, <2>4, StepsOfBodies
  <2>5. CASE Indexed(e)
    <3>1. ASSUME NEW r \in Requests, Put(r), matchVary(headers[r], e)
          PROVE  b \in stray' \/ Indexed(e)'
      <4>1. Agree(headers[r], headers[b]) BY <1>0, <3>1 DEF matchVary, Agree
      <4>2. VaryValues(headers[r]) = k BY <2>1, <4>1, AgreeSameKey
      <4>3. pc[r] \in Asking BY <3>1 DEF Put, Goto, Asking
      <4>4. b = r \/ b \in stray BY <1>2, <4>2, <4>3 DEF Shelved, Clear
      <4> QED BY <1>0, <3>1, <4>4, StepsOfBodies, StepsOfRemoval
    <3> QED BY <1>0, <2>3, <2>5, <3>1, StepsOfRemoval
  <2>6. CASE bucket = e
    <3>1. ~CleanEntryBody(e) BY <1>0, <1>2, <2>1, CleanOwn DEF Removed, TypeOK
    <3> QED BY <1>0, <2>3, <2>6, <3>1, StepsOfRemoval
  <2>7. CASE pc[b] = "put" BY <1>0, <2>3, <2>7, StepsOfPlaces, StepsOfRemoval
  <2> QED BY <2>1, <2>4, <2>5, <2>6, <2>7
<1> QED BY <1>1, <1>2, StoredBy

(* A lookup that misses, or whose client leaves, leaves nothing in the     *)
(* store that is not a stray.                                              *)
LEMMA ClearLookup ==
  ASSUME Known, Tracked, Uniform, Served, Found, Keyed, Shelf, Shelved, NEW q \in Requests,
         NEW b \in Requests, NEW k \in StoreKeys, store[k] = b, VaryValues(headers[q]) = k,
         Lookup(q)
  PROVE  b \in stray \/ Get(q, FALSE) = EntryOf(b)
<1> DEFINE e == EntryOf(b)
<1>0. /\ TypeOK /\ e \in Entries /\ e.req = b /\ ~e.probe /\ e # None
      /\ headers[q] \in Headers /\ headers[b] \in Headers
  BY EntryTypes, NoneAssumption DEF EntryOf, Known, TypeOK, Entries
<1>1. pc[q] = "get" /\ bucket = None BY DEF Lookup, Goto
<1>2. /\ life[e] # "stale" /\ VaryValues(headers[b]) = k
      /\ b \in stray \/ Indexed(e) \/ bucket = e \/ pc[b] = "put"
  BY DEF Shelved, StoreHeld, Keyed, Filed
<1>3. pc[b] # "put" BY <1>1 DEF Known, Locked
<1>4. CASE Indexed(e)
  <2>1. life[e] = "fresh" BY <1>0, <1>2, <1>4 DEF Found, TypeOK
  <2>2. Agree(headers[q], headers[b]) BY <1>0, <1>2 DEF Shelf, KeysApart
  <2>3. Matched(q, e) BY <1>0, <1>4, <2>2 DEF Matched, matchVary, Agree
  <2>4. Get(q, FALSE) \in Entries /\ Matched(q, Get(q, FALSE)) BY <1>0, <2>1, <2>3, GetEntry
  <2> QED BY <1>0, <2>3, <2>4 DEF Served, OneEach, Matched
<1> QED BY <1>0, <1>1, <1>2, <1>3, <1>4

LEMMA ClearStep ==
  ASSUME Known, Tracked, Uniform, Served, Found, Keyed, ClosedAt, Shelf, Shelved, [Next]_vars
  PROVE  Clear'
<1> SUFFICES ASSUME NEW q \in Requests, NEW b \in Requests, NEW k \in StoreKeys, store'[k] = b,
                    VaryValues(headers[q])' = k, pc'[q] \in Asking \cup {"hit"}
             PROVE  /\ pc'[q] \in Asking => b = q \/ b \in stray'
                    /\ pc'[q] = "hit" => prev'[q] = EntryOf(b) \/ b \in stray'
  <2>1. StoreKeys' = StoreKeys BY StepsOfIndex, SameKeys
  <2> QED BY <2>1 DEF Clear
<1>0. /\ TypeOK /\ conf' = conf /\ ~Distributed /\ stray \subseteq stray'
      /\ prev \in [Requests -> Entries \cup {None}] /\ pc \in [Requests -> Places]
  BY StepsOfIndex, StepsOfBodies DEF Known, TypeOK, Shelf
<1>1. pc[q] # "idle"
  <2>1. pc[q] \in Asking \/ pc[q] = "probed" \/ pc[q] = "hit" \/ Lookup(q) \/ RespondHit(q)
        \/ LookupStaleEntry(q)
    BY StepsOfPlaces, StepsOfRequests
  <2> QED BY <2>1 DEF Asking, Lookup, RespondHit, RespondEntry, Finish, LookupStaleEntry, Goto
<1>2. VaryValues(headers[q]) = k
  <2>1. headers'[q] = headers[q] BY <1>1, StepsOfRequests DEF HeadersStay
  <2> QED BY <1>0, <2>1 DEF VaryValues, Vary
<1>3. CASE UpstreamClose(b)
  <2>1. pc' = pc /\ pc[b] \in {"put", "respond"} BY <1>3 DEF UpstreamClose
  <2>2. q = b BY <2>1 DEF Known, Locked, Asking
  <2> QED BY <2>1, <2>2
<1>4. CASE store[k] = b
  <2>1. CASE Lookup(q)
    <3>1. b \in stray \/ Get(q, FALSE) = EntryOf(b) BY <1>2, <1>4, <2>1, ClearLookup
    <3>2. /\ prev'[q] = Get(q, FALSE)
          /\ pc'[q] = IF Get(q, FALSE) = None THEN AfterMiss ELSE "hit"
      BY <1>0, <2>1 DEF Lookup, Goto
    <3>3. EntryOf(b) # None BY EntryTypes, NoneAssumption DEF Entries
    <3> QED BY <1>0, <3>1, <3>2, <3>3 DEF Asking
  <2>2. CASE RespondHit(q)
    <3>1. pc[q] = "hit" /\ prev[q] \in Entries
      BY <2>2 DEF RespondHit, RespondEntry, Finish, Goto, Known, PrevKnown
    <3>2. prev[q] = EntryOf(b) \/ b \in stray BY <1>2, <1>4, <3>1 DEF Shelved, Clear
    <3>3. pc'[q] \in {"done", "fetch"}
      BY <1>0, <2>2 DEF RespondHit, RespondEntry, Finish, Goto, AfterMiss
    <3>4. ASSUME prev[q] = EntryOf(b), pc'[q] = "fetch" PROVE b \in stray'
      <4>1. ~ReadFails(prev[q])
        <5>1. GetReader(prev[q]) # "error"
          BY <1>0, <3>1, ReadTypes, ErrorsAssumption DEF Shelf, Bodies
        <5> QED BY <1>0, <5>1 DEF ReadFails, CallMayFail
      <4>2. stray' = IF life[prev[q]] = "fresh" THEN stray \cup {prev[q].req} ELSE stray
        BY <1>0, <2>2, <3>4, <4>1 DEF RespondHit, RespondEntry, Finish, Goto
      <4>3. life[prev[q]] # "stale" BY <1>4, <3>4 DEF Shelved, StoreHeld
      <4>4. life[prev[q]] # "none" BY <3>1 DEF Found
      <4>5. life[prev[q]] = "fresh" BY <1>0, <3>1, <4>3, <4>4 DEF TypeOK
      <4> QED BY <3>4, <4>2, <4>5 DEF EntryOf
    <3> QED BY <1>0, <3>2, <3>3, <3>4 DEF Asking
  <2>3. CASE pc'[q] \in Asking /\ pc[q] \in Asking
    BY <1>0, <1>2, <1>4, <2>3 DEF Shelved, Clear, Asking
  <2>4. CASE pc'[q] = "hit" /\ pc[q] = "hit" /\ prev'[q] = prev[q]
    BY <1>0, <1>2, <1>4, <2>4 DEF Shelved, Clear, Asking
  <2>5. pc[q] # "probed" BY <1>0 DEF Known, Clustered
  <2>6. LookupStaleEntry(q) => pc'[q] # "hit" BY <1>0 DEF LookupStaleEntry, Goto
  <2> QED BY <2>1, <2>2, <2>3, <2>4, <2>5, <2>6, StepsOfPlaces, StepsOfRequests
<1> QED BY <1>3, <1>4, StoredBy

LEMMA ShelvedAlways == Spec => [](Shelf => Shelved)
<1>1. Init => (Shelf => Shelved)
  <2> SUFFICES ASSUME Init PROVE Shelved OBVIOUS
  <2>1. /\ \A r \in Requests : pc[r] = "idle"
        /\ \A k \in StoreKeys : store[k] = None
        /\ \A e \in Entries : cachedBytes[e] = None
        /\ closed = {}
    BY DEF Init
  <2>2. StoreHeld /\ NoPeer /\ Clear BY <2>1, NoneAssumption DEF StoreHeld, NoPeer, Clear
  <2>3. Awaited /\ WroteCached BY <2>1 DEF Awaited, WroteCached
  <2>4. CachedOwn BY <2>1, EntryTypes, NoneAssumption DEF CachedOwn
  <2> QED BY <2>2, <2>3, <2>4 DEF Shelved
<1>2. Known /\ Tracked /\ (Uniform => Served) /\ Found /\ Keyed /\ ClosedAt /\ Answered
      /\ (Shelf => Shelved) /\ [Next]_vars => (Shelf => Shelved)'
  <2> SUFFICES ASSUME Known, Tracked, Uniform => Served, Found, Keyed, ClosedAt, Shelf => Shelved,
                      [Next]_vars, Shelf'
               PROVE  Shelved'
    OBVIOUS
  <2>1. Shelf BY StepsOfIndex, SameSite DEF Shelf, Kind, Distributed
  <2>2. Shelved /\ Uniform BY <2>1 DEF Shelf, Uniform
  <2> QED BY <2>1, <2>2, NoPeerStep, CachedStep, AwaitedStep, StoreHeldStep, ClearStep DEF Shelved
<1> QED BY <1>1, <1>2, KnownAlways, TrackedAlways, ServedAlways, FoundAlways, KeyedAlways,
        AnsweredAlways, PTL DEF Spec

(* The body a new answer has. *)
LEMMA NewOwn ==
  ASSUME Known, Found, Keyed, ClosedAt, Shelf => Shelved, Own, ~Distributed, [Next]_vars,
         NEW r \in Requests, NEW e \in Entries, NEW b, ~e.probe, ReadBy(r, e),
         \/ b = GetReader(e) /\ b \in Bodies
         \/ b = None /\ GetReader(e) = "nopre"
  PROVE  b = e.req \/ (b = None /\ ~wrote'[e.req]) \/ b \in stray
<1>0. TypeOK /\ "nopre" \notin Bodies /\ "error" \notin Bodies
  BY ErrorsAssumption DEF Known, Bodies
<1>1. CASE Kind = "file"
  <2>1. GetReader(e) \in {e.req, "error"} BY <1>1 DEF GetReader, ReadFile
  <2>2. e.req \in Bodies BY DEF Entries, Bodies
  <2> QED BY <1>0, <2>1, <2>2
<1>2. CASE Shelf
  <2>1. Shelved BY <1>2
  <2>2. /\ e \in closed /\ GetReader(e) \in Requests \cup {"nopre"}
        /\ GetReader(e) \in Requests => GetReader(e) = e.req \/ GetReader(e) \in stray
        /\ GetReader(e) = "nopre" => ~wrote[e.req]
    BY <1>2, <2>1, ReadOwn
  <2>3. wrote'[e.req] = wrote[e.req] BY <2>2, WroteFinal DEF Final
  <2> QED BY <1>0, <2>2, <2>3
<1> QED BY <1>0, <1>1, <1>2, SiteTypes DEF Own, Shelf

LEMMA OwnStep ==
  Known /\ Found /\ Keyed /\ ClosedAt /\ Answered /\ (Shelf => Shelved)
    /\ (Own => OwnBody) /\ [Next]_vars => (Own => OwnBody)'
<1> SUFFICES ASSUME Known, Found, Keyed, ClosedAt, Answered, Shelf => Shelved, Own => OwnBody,
                    [Next]_vars, Own'
             PROVE  OwnBody'
  OBVIOUS
<1>0. /\ Own /\ Distributed' = Distributed
  BY StepsOfIndex, SameSite DEF Own, Kind, Distributed
<1> SUFFICES ASSUME NEW r \in Requests, answer'[r] # None, ~Distributed
             PROVE  RightBody(answer[r])' \/ answer'[r].body \in stray'
  BY <1>0 DEF OwnBody
<1>1. stray \subseteq stray' /\ None \notin Entries BY StepsOfBodies, NoneAssumption DEF Entries
<1>2. CASE answer'[r] = answer[r]
  <2>1. RightBody(answer[r]) \/ answer[r].body \in stray BY <1>0, <1>2 DEF OwnBody
  <2>2. ASSUME answer[r].entry \in Entries, ~answer[r].entry.probe
        PROVE  wrote'[answer[r].entry.req] = wrote[answer[r].entry.req]
    <3>1. PICK e \in Entries : answer[r].entry = e BY <2>2
    <3>2. ~e.probe /\ Final(e) BY <1>2, <2>2, <3>1 DEF Answered
    <3> QED BY <3>1, <3>2, WroteFinal
  <2> QED BY <1>1, <1>2, <2>1, <2>2 DEF RightBody
<1>3. CASE answer'[r] # answer[r]
  <2>1. PICK status, entry, body :
          /\ answer'[r] = [status |-> status, entry |-> entry, body |-> body]
          /\ \/ entry = None
             \/ entry = EntryOf(r) /\ (body = r \/ (body = None /\ ~wrote'[r]))
             \/ /\ ReadBy(r, entry)
                /\ \/ body = GetReader(entry) /\ body \in Bodies
                   \/ body = None /\ GetReader(entry) = "nopre"
    BY <1>3, StepsOfAnswers
  <2>2. answer'[r].entry = entry /\ answer'[r].body = body BY <2>1
  <2>3. ASSUME entry \in Entries, ~entry.probe
        PROVE  body = entry.req \/ (body = None /\ ~wrote'[entry.req]) \/ body \in stray
    <3>1. CASE entry = EntryOf(r) /\ (body = r \/ (body = None /\ ~wrote'[r]))
      <4>1. entry.req = r BY <3>1 DEF EntryOf
      <4> QED BY <3>1, <4>1
    <3>2. CASE /\ ReadBy(r, entry)
               /\ \/ body = GetReader(entry) /\ body \in Bodies
                  \/ body = None /\ GetReader(entry) = "nopre"
      BY <1>0, <2>3, <3>2, NewOwn
    <3> QED BY <1>1, <2>1, <2>3, <3>1, <3>2
  <2> QED BY <1>1, <2>2, <2>3 DEF RightBody
<1> QED BY <1>2, <1>3

(* The memory backend, where storage keys tell variants apart, the file    *)
(* backend, and trivially a cluster, answer a request with the body of the *)
(* entry it is answered with, whatever is purged, replaced, expired or     *)
(* closed meanwhile (memory.go, Close, GetReader and Clean; ServeHTTP).    *)
THEOREM OwnBodies == Spec => [](Own => OwnBody)
<1>1. Init => (Own => OwnBody) BY DEF Init, OwnBody
<1> QED BY <1>1, OwnStep, KnownAlways, FoundAlways, KeyedAlways, AnsweredAlways, ShelvedAlways,
        PTL DEF Spec

(* Storage keys tell variants apart where responses vary by nothing, or by *)
(* one header with no blank before its name: its values are the key.       *)
LEMMA OneFlat ==
  ASSUME NEW x
  PROVE  FlattenSeq([i \in 1 .. 1 |-> x]) = x
<1> DEFINE s == [i \in 1 .. 1 |-> x]
           Body(f) == [i \in 1 .. Len(s) |-> IF i = 1 THEN s[i] ELSE f[i - 1] \o s[i]]
<1>1. Len(s) = 1 /\ 1 .. Len(s) = {1} /\ s[1] = x OBVIOUS
<1>2. ASSUME NEW f PROVE Body(f) = s BY <1>1
<1>3. \E f : f = Body(f) BY <1>2
<1>4. (CHOOSE f : f = Body(f)) = s BY <1>2, <1>3
<1>5. FlattenSeq(s) = (CHOOSE f : f = Body(f))[Len(s)] BY <1>1 DEF FlattenSeq
<1> QED BY <1>1, <1>4, <1>5

LEMMA KeysApartIf ==
  ASSUME TypeOK, Vary = <<>> \/ (Len(Vary) = 1 /\ ~Vary[1].blank)
  PROVE  KeysApart
<1>1. CASE Vary = <<>> BY <1>1 DEF KeysApart, Agree
<1>2. CASE Len(Vary) = 1 /\ ~Vary[1].blank
  <2>1. DOMAIN Vary = 1 .. 1 /\ DOMAIN Vary = {1}
    <3>1. Vary \in Seq([name : Names, blank : BOOLEAN]) BY SitesAssumption DEF TypeOK, Vary
    <3> QED BY <1>2, <3>1
  <2>2. ASSUME NEW h PROVE VaryValues(h) = h[Vary[1].name]
    <3>1. [i \in DOMAIN Vary |-> IF Vary[i].blank THEN <<>> ELSE h[Vary[i].name]]
            = [i \in 1 .. 1 |-> h[Vary[1].name]]
      BY <1>2, <2>1
    <3> QED BY <3>1, OneFlat DEF VaryValues
  <2> QED BY <2>1, <2>2 DEF KeysApart, Agree
<1> QED BY <1>1, <1>2

=============================================================================
