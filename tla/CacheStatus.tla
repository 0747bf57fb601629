---------------------------- MODULE CacheStatus ----------------------------
(***************************************************************************)
(* Whether a response may be cached, and until when (cache.go,             *)
(* getCacheStatus with judgeResponseShouldCacheOrNot and expirationObject).*)
(* A response is reduced to what these functions look at; what the         *)
(* cacheobject library makes of the Cache-Control directives is one flag.  *)
(* Instants and durations count ticks.  The code reads the clock several   *)
(* times, so a little time may pass between the reading the expiration is  *)
(* computed from and the one it is compared with.                          *)
(***************************************************************************)
EXTENDS Integers, Sequences

CONSTANTS
  Second,        \* ticks of a second
  DefaultMaxAge, \* the configured default, in ticks
  LockTimeout,
  Ages,          \* values of s-maxage and max-age, in seconds; -1: absent
  Dates,         \* values of the Expires and Date headers, in ticks
  Delays,        \* ticks between the two readings of the clock
  Zero,          \* time.Time{}, what an Expires that is no date parses to
  Absent

ASSUME SecondAssumption == Second \in Nat \ {0}
ASSUME ConfigAssumption == DefaultMaxAge \in Nat \ {0} /\ LockTimeout \in Nat
ASSUME AgesAssumption == Ages \subseteq Nat \cup {-1}
ASSUME DatesAssumption == Dates \subseteq Int /\ Delays \subseteq Nat
ASSUME AbsentAssumption == Absent \notin Int /\ Zero \notin Int

Received == 0  \* obj.NowUTC

Responses ==
  [code : {200, 206, 304},
   contentRange : BOOLEAN,
   malformed : BOOLEAN,       \* Cache-Control, Date or Last-Modified
   reasons : BOOLEAN,         \* cacheobject found a reason not to cache
   vary : {"", "*", "names"},
   rules : SUBSET BOOLEAN,    \* what the configured rule matchers say
   sMaxAge : Ages, maxAge : Ages,
   expires : Dates \cup {Absent, Zero}, date : Dates \cup {Absent}]

VARIABLES
  response,
  entry     \* Absent, or NewEntry's isPublic, expiration and its second clock

statusVars == <<response, entry>>

-----------------------------------------------------------------------------
(* Mutant: max-age comes before s-maxage. *)
maxAgeFirst(r) ==
  CASE r.maxAge # -1 -> Received + Second * r.maxAge
    [] r.maxAge = -1 /\ r.sMaxAge # -1 -> Received + Second * r.sMaxAge
    [] OTHER -> Received

(* expirationObject, for a shared cache. *)
expirationObject(r) ==
  CASE r.sMaxAge # -1 -> Received + Second * r.sMaxAge
    [] r.sMaxAge = -1 /\ r.maxAge # -1 -> Received + Second * r.maxAge
    [] r.sMaxAge = -1 /\ r.maxAge = -1 /\ r.expires \notin {Absent, Zero} ->
         Received + (r.expires - (IF r.date = Absent THEN Received ELSE r.date))
    [] OTHER -> Received

private(expiration) == [isPublic |-> FALSE, expiration |-> expiration]

(* Mutant: an expiration that has passed is kept. *)
keepExpired(r, now) ==
  IF r.code # 200 \/ r.contentRange \/ r.malformed \/ r.reasons \/ r.vary = "*" \/ FALSE \in r.rules
  THEN private(now)
  ELSE [isPublic |-> TRUE, expiration |-> expirationObject(r)]

(* Mutant: a response is private only when no rule matches. *)
anyRule(r, now) ==
  IF r.code # 200 \/ r.contentRange \/ r.malformed \/ r.reasons \/ r.vary = "*" \/ r.rules = {FALSE}
  THEN private(now)
  ELSE [isPublic |-> TRUE, expiration |-> now + DefaultMaxAge]

getCacheStatus(r, now) ==
  LET expiration == expirationObject(r) IN
  CASE r.code = 206 \/ r.contentRange -> private(now + LockTimeout)
    [] r.code = 304 /\ ~r.contentRange -> private(now)
    [] r.code = 200 /\ ~r.contentRange ->
         IF r.malformed THEN private(Zero)
         ELSE IF r.reasons \/ r.vary = "*" THEN private(now + LockTimeout)
         ELSE IF FALSE \in r.rules THEN private(now)
         ELSE [isPublic |-> TRUE,
               expiration |-> IF now > expiration - Second
                              THEN now + DefaultMaxAge ELSE expiration]

(* NewEntry *)
NewEntry(delay) ==
  /\ entry = Absent
  /\ entry' = [status |-> getCacheStatus(response, Received + delay),
               now |-> Received + delay]
  /\ UNCHANGED response

StatusInit == response \in Responses /\ entry = Absent
StatusNext == \E delay \in Delays : NewEntry(delay)
StatusSpec == StatusInit /\ [][StatusNext]_statusVars

-----------------------------------------------------------------------------
(* The reference: RFC 7234, section 4.2.1, as the comment in               *)
(* expirationObject quotes it.  The first lifetime given counts.           *)
Lifetimes(r) ==
  <<IF r.sMaxAge = -1 THEN Absent ELSE Second * r.sMaxAge,
    IF r.maxAge = -1 THEN Absent ELSE Second * r.maxAge,
    IF r.expires = Absent THEN Absent
    ELSE IF r.expires = Zero THEN 0
    ELSE IF r.date = Absent THEN r.expires - Received
    ELSE r.expires - r.date>>

FirstGiven(r, i) == Lifetimes(r)[i] # Absent /\ \A j \in 1 .. 3 : j < i => Lifetimes(r)[j] = Absent

Cachable(r) ==
  /\ r.code \notin {206, 304} /\ ~r.contentRange
  /\ ~r.malformed /\ ~r.reasons /\ r.vary # "*"
  /\ r.rules \subseteq {TRUE}

(* A response is shared exactly when it is complete, understood,           *)
(* cacheable, does not vary on everything and matches every rule.          *)
PublicIffCachable == entry # Absent => (entry.status.isPublic <=> Cachable(response))

(* A response that goes into the cache is fresh when it does: it can       *)
(* answer the requests that queue behind it on its URL lock.               *)
StoredFresh ==
  (entry # Absent /\ entry.status.isPublic) =>
    entry.status.expiration >= entry.now +
      (IF DefaultMaxAge < Second THEN DefaultMaxAge ELSE Second)

(* An explicit lifetime of more than a second and the time spent judging   *)
(* it is honoured to the tick, in the order of precedence of the RFC.      *)
LifetimeHonoured ==
  (entry # Absent /\ entry.status.isPublic) =>
    \A i \in 1 .. 3 :
      FirstGiven(response, i) /\ Lifetimes(response)[i] >= Second + entry.now - Received =>
        entry.status.expiration = Received + Lifetimes(response)[i]
=============================================================================
