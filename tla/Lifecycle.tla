----------------------------- MODULE Lifecycle -----------------------------
(***************************************************************************)
(* What survives a reload: the package's globals under Provision and       *)
(* Cleanup (handler.go), NewHTTPCache (cache.go), InitGroupCacheRes and    *)
(* ReleaseGroupCacheRes (backends/memory.go) and the registration of a     *)
(* node (extends/distributed/register.go); and the admin endpoint that     *)
(* works on those globals, purge requests with their one shared replacer   *)
(* among them (endpoint.go).                                               *)
(*                                                                         *)
(* Configurations are loaded one after the other, each with one handler or *)
(* several.  Caddy provisions the handlers of the new one first, one after *)
(* the other, and cleans the old ones up when the new one is in use; what  *)
(* cannot be loaded is cleaned up, and the old one stays.                  *)
(***************************************************************************)
EXTENDS Naturals, FiniteSets

CONSTANTS
  MaxGens,  \* bound: how many handlers are provisioned
  Configs,  \* the handlers' configurations: records of a type, a number of buckets and
            \* whether they are distributed
  Hosts, Paths, Keys, \* keys, and the parts of them that purge requests name
  Hash,     \* crc32 of a key
  Purges, Cond, \* purge requests and the payload of each
  AnyPath,  \* a path that is a pattern for all of them
  Sites,    \* what to look at: how many handlers there are, the configurations
            \* to choose from, and the purge requests
  None

Conds == Hosts \X (Paths \cup {AnyPath})
Gens == 1 .. MaxGens

ASSUME GensAssumption == MaxGens \in Nat \ {0} /\ None \notin Gens
ASSUME ConfigsAssumption ==
  Configs \subseteq [type : {"memory", "file", "redis"}, buckets : Nat \ {0}, distributed : BOOLEAN]
ASSUME KeysAssumption ==
  Keys \subseteq Hosts \X Paths /\ AnyPath \notin Paths /\ Hash \in [Keys -> Nat]
ASSUME CondAssumption == Cond \in [Purges -> Conds]
ASSUME SitesAssumption ==
  \A s \in Sites : s.gens \subseteq Gens /\ s.configs \subseteq Configs /\ s.purges \subseteq Purges

VARIABLES
  site,            \* what there is of handlers, configurations and purges
  phase, conf,     \* where a handler is, and its configuration; handlers are
                   \* numbered in the order of their Provision
  cache, config,   \* the globals: the handler they come from
  entries, array,  \* the global array of buckets, named after the handler
                   \* that made it, and the one a handler's HTTPCache has
  index,           \* what is in the buckets
  srv, server, errChan, \* the global server of the group, what became of each,
                   \* and the channel its start is awaited on
  services,        \* the ids registered at Consul
  ppc, repl, conds, todo, \* purge requests, the global replacer, and what a
                   \* request has made of it and has still to delete
  deleted,         \* history: what a request has deleted
  mixed,           \* history: requests that met in the replacer
  raced, refused   \* history: that a server was made before the goroutine of
                   \* another had started its own; that one failed although
                   \* no other had the port

cacheVars == <<cache, entries, array>>
serverVars == <<srv, server, errChan, raced, refused>>
purgeVars == <<ppc, repl, conds, todo, deleted, mixed>>
vars == <<site, phase, conf, config, cacheVars, index, serverVars, services, purgeVars>>

Init ==
  /\ site \in Sites
  /\ phase = [g \in Gens |-> "none"] /\ conf = [g \in Gens |-> None]
  /\ cache = None /\ config = None /\ entries = None
  /\ array = [g \in Gens |-> None] /\ index = {}
  /\ srv = None /\ server = [g \in Gens |-> "none"] /\ errChan = [g \in Gens |-> None]
  /\ services = {} /\ raced = FALSE /\ refused = FALSE
  /\ ppc = [p \in Purges |-> "idle"] /\ repl = [host |-> None, path |-> None]
  /\ conds = [p \in Purges |-> None] /\ todo = [p \in Purges |-> {}]
  /\ deleted = [p \in Purges |-> {}] /\ mixed = {}

Goto(g, from, to) == phase[g] = from /\ phase' = [phase EXCEPT ![g] = to]
Running == {g \in Gens : phase[g] = "live"}

(* A Provision that fails takes those of its configuration with it. *)
Fail(g, from) ==
  /\ phase[g] = from
  /\ phase' = [h \in Gens |-> IF h = g \/ phase[h] = "ready" THEN "failed" ELSE phase[h]]

-----------------------------------------------------------------------------
(* Mutant: a new array for every configuration. *)
MakeEntries(g) == g

(* NewHTTPCache: the array is made once. *)
NewHTTPCache(g) == IF entries = None THEN g ELSE entries

(* Loads do not overlap: what is not in use, or gone, is of the            *)
(* configuration that is being loaded, and ready.                          *)
Turn(g) == \A h \in Gens : h < g => phase[h] \in {"ready", "live", "gone"}

(* Provision, of the next configuration or of one more handler of this. *)
Provision(g, c) ==
  /\ Goto(g, "none", CASE c.type = "memory" -> "init" [] c.type = "redis" -> "redis"
                       [] c.type = "file" -> "distributed")
  /\ Turn(g)
  /\ conf' = [conf EXCEPT ![g] = c]
  /\ entries' = NewHTTPCache(g)
  /\ array' = [array EXCEPT ![g] = NewHTTPCache(g)]
  /\ cache' = g
  /\ UNCHANGED <<config, index, serverVars, services, purgeVars>>

(* A rule of the configuration cannot be read. *)
provisionRuleMatchers(g, c) ==
  /\ Fail(g, "none")
  /\ Turn(g)
  /\ conf' = [conf EXCEPT ![g] = c]
  /\ UNCHANGED <<config, cacheVars, index, serverVars, services, purgeVars>>

(* InitGroupCacheRes: unless the node's address is not to be found, a new  *)
(* server takes the place of the old one in srv and starts in a goroutine. *)
InitGroupCacheRes(g) ==
  /\ \/ /\ Goto(g, "init", "send")
        /\ srv' = g
        /\ server' = [server EXCEPT ![g] = "starting"]
        /\ raced' = (raced \/ \E h \in Gens : server[h] \in {"starting", "closed"})
     \/ Fail(g, "init") /\ UNCHANGED <<srv, server, raced>>
  /\ UNCHANGED <<conf, config, cacheVars, index, errChan, refused, services, purgeVars>>

(* The goroutine has the server listen, unless it was shut down before.    *)
(* That fails when another one has the port, or for any other reason, at   *)
(* once or later on.  (In a race it may be the other server that listens,  *)
(* as the goroutine reads srv when it gets to run.)                        *)
ListenAndServe(g) ==
  LET taken == \E h \in Gens \ {g} : server[h] = "up" IN
  /\ \/ server[g] = "starting" /\ ~taken /\ server' = [server EXCEPT ![g] = "up"] /\ UNCHANGED refused
     \/ /\ server[g] \in {"starting", "up"} /\ server' = [server EXCEPT ![g] = "error"]
        /\ refused' = (refused \/ ~taken)
     \/ server[g] = "closed" /\ server' = [server EXCEPT ![g] = "down"] /\ UNCHANGED refused
  /\ UNCHANGED <<phase, conf, config, cacheVars, index, srv, errChan, raced, services, purgeVars>>

(* Its error goes into the channel when there is room. *)
SendError(g) ==
  /\ server[g] = "error" /\ server' = [server EXCEPT ![g] = "down"]
  /\ errChan[g] = None /\ errChan' = [errChan EXCEPT ![g] = "error"]
  /\ UNCHANGED <<phase, conf, config, cacheVars, index, srv, raced, refused, services, purgeVars>>

(* The main goroutine sends a nil and receives it, never the error: when   *)
(* that is first there is no room for the nil, and it waits for ever.      *)
SendNil(g) ==
  /\ Goto(g, "send", "receive")
  /\ errChan[g] = None /\ errChan' = [errChan EXCEPT ![g] = "nil"]
  /\ UNCHANGED <<conf, config, cacheVars, index, srv, server, raced, refused, services, purgeVars>>

Receive(g) ==
  /\ Goto(g, "receive", "distributed")
  /\ errChan' = [errChan EXCEPT ![g] = None]
  /\ UNCHANGED <<conf, config, cacheVars, index, srv, server, raced, refused, services, purgeVars>>

(* Mutant: the id is made of the service's name and the address alone. *)
nameAndAddress(g) == 1

(* genServiceID: unique, as it has a uuid. *)
genServiceID(g) == g

(* ConsulService: Provision registers the node, Cleanup deregisters it, or *)
(* fails to.                                                               *)
ServiceRegister(g) == services \cup {genServiceID(g)}
ServiceDeregister(g) == {services, services \ {genServiceID(g)}}

(* The cluster's module is provisioned.  It fails before the node is       *)
(* registered or after it.                                                 *)
provisionDistributed(g) ==
  /\ \/ Goto(g, "distributed", "config")
        /\ services' = IF conf[g].distributed THEN ServiceRegister(g) ELSE services
     \/ /\ Fail(g, "distributed") /\ conf[g].distributed
        /\ services' \in {services, ServiceRegister(g)}
  /\ UNCHANGED <<conf, config, cacheVars, index, serverVars, purgeVars>>

(* Mutant: the global config is set once, as the buckets are. *)
SetConfigOnce(g) ==
  /\ Goto(g, "config", "ready")
  /\ config' = IF config = None THEN g ELSE config
  /\ UNCHANGED <<conf, cacheVars, index, serverVars, services, purgeVars>>

SetConfig(g) ==
  /\ Goto(g, "config", "ready")
  /\ config' = g
  /\ UNCHANGED <<conf, cacheVars, index, serverVars, services, purgeVars>>

(* With Redis, Provision ends before the global config is set. *)
provisionRedisCache(g) ==
  /\ Goto(g, "redis", "ready") \/ Fail(g, "redis")
  /\ UNCHANGED <<conf, config, cacheVars, index, serverVars, services, purgeVars>>

(* All handlers of the new configuration are ready: it is in use, and what *)
(* was in use is to be cleaned up.  Or another part of it fails.           *)
Loaded ==
  /\ \A g \in Gens : phase[g] \in {"none", "ready", "live", "gone"}
  /\ \E g \in Gens : phase[g] = "ready"

InUse ==
  /\ Loaded
  /\ phase' = [h \in Gens |-> IF phase[h] = "ready" THEN "live" ELSE IF phase[h] = "live" THEN "old" ELSE phase[h]]
  /\ UNCHANGED <<conf, config, cacheVars, index, serverVars, services, purgeVars>>

LoadFails ==
  /\ Loaded
  /\ phase' = [h \in Gens |-> IF phase[h] = "ready" THEN "failed" ELSE phase[h]]
  /\ UNCHANGED <<conf, config, cacheVars, index, serverVars, services, purgeVars>>

(* Mutant: a handler shuts the server down that it has started. *)
ReleaseOwn(g) ==
  [server EXCEPT ![g] = CASE @ = "up" -> "down" [] @ = "starting" -> "closed" [] OTHER -> @]

(* ReleaseGroupCacheRes: the server that srv names by now is shut down. *)
ReleaseGroupCacheRes(g) ==
  IF srv = None THEN server
  ELSE [server EXCEPT ![srv] = CASE @ = "up" -> "down" [] @ = "starting" -> "closed" [] OTHER -> @]

(* Cleanup of a handler and of its cluster module. *)
Cleanup(g) ==
  /\ Goto(g, "old", "gone") \/ Goto(g, "failed", "gone")
  /\ server' = IF conf[g].type = "memory" THEN ReleaseGroupCacheRes(g) ELSE server
  /\ services' \in ServiceDeregister(g)
  /\ UNCHANGED <<conf, config, cacheVars, index, srv, errChan, raced, refused, purgeVars>>

-----------------------------------------------------------------------------
(* Requests, of the handler in use and of one that still has some, and the *)
(* timers of entries.  An index out of range is a panic.                   *)
getBucketIndexForKey(g, k) == Hash[k] % conf[g].buckets
InRange(g, k) == getBucketIndexForKey(g, k) < conf[array[g]].buckets
Slot(g, k) == [key |-> k, bucket |-> getBucketIndexForKey(g, k), array |-> array[g]]

Put(g, k) ==
  /\ phase[g] \in {"live", "old"} /\ InRange(g, k)
  /\ index' = index \cup {Slot(g, k)}
  /\ UNCHANGED <<phase, conf, config, cacheVars, serverVars, services, purgeVars>>

cleanEntry(e) ==
  /\ e \in index /\ index' = index \ {e}
  /\ UNCHANGED <<phase, conf, config, cacheVars, serverVars, services, purgeVars>>

-----------------------------------------------------------------------------
(* handlePurge.  The replacer's fields are set one after the other ... *)
PGoto(p, from, to) == ppc[p] = from /\ ppc' = [ppc EXCEPT ![p] = to]
Replacing == {p \in Purges : ppc[p] \in {"path", "replace"}}

(* Mutant: a field that has a value is not set again. *)
SetHostOnce(p) ==
  /\ PGoto(p, "idle", "path")
  /\ repl' = [repl EXCEPT !.host = IF @ = None THEN Cond[p][1] ELSE @]
  /\ mixed' = IF Replacing = {} THEN mixed ELSE mixed \cup Replacing \cup {p}
  /\ UNCHANGED <<phase, conf, config, cacheVars, index, serverVars, services, conds, todo, deleted>>

SetHost(p) ==
  /\ PGoto(p, "idle", "path")
  /\ repl' = [repl EXCEPT !.host = Cond[p][1]]
  /\ mixed' = IF Replacing = {} THEN mixed ELSE mixed \cup Replacing \cup {p}
  /\ UNCHANGED <<phase, conf, config, cacheVars, index, serverVars, services, conds, todo, deleted>>

SetPath(p) ==
  /\ PGoto(p, "path", "replace")
  /\ repl' = [repl EXCEPT !.path = Cond[p][2]]
  /\ UNCHANGED <<phase, conf, config, cacheVars, index, serverVars, services, conds, todo, deleted, mixed>>

(* ... and put in the template, of the global config.  Without a config or *)
(* a cache the request panics.                                             *)
ReplaceKnown(p) ==
  /\ PGoto(p, "replace", IF config = None THEN "panic" ELSE "keys")
  /\ conds' = IF config = None THEN conds ELSE [conds EXCEPT ![p] = <<repl.host, repl.path>>]
  /\ UNCHANGED <<phase, conf, config, cacheVars, index, serverVars, services, repl, todo, deleted, mixed>>

(* Purge: the keys in the buckets of the global cache that match ... *)
MatchString(c, k) == k[1] = c[1] /\ c[2] \in {k[2], AnyPath}

ListKeys(p) ==
  /\ PGoto(p, "keys", "del")
  /\ todo' = [todo EXCEPT ![p] = {e.key : e \in {f \in index : f.array = array[cache] /\ MatchString(conds[p], f.key)}}]
  /\ UNCHANGED <<phase, conf, config, cacheVars, index, serverVars, services, repl, conds, deleted, mixed>>

(* ... are deleted from the one it is at each turn, until one fails. *)
Del(p, k) ==
  /\ k \in todo[p]
  /\ \E to \in IF InRange(cache, k) THEN {"del", "done"} ELSE {"panic"} : PGoto(p, "del", to)
  /\ todo' = [todo EXCEPT ![p] = @ \ {k}]
  /\ index' = IF InRange(cache, k) THEN index \ {Slot(cache, k)} ELSE index
  /\ deleted' = [deleted EXCEPT ![p] = @ \cup {k}]
  /\ UNCHANGED <<phase, conf, config, cacheVars, serverVars, services, repl, conds, mixed>>

PurgeReturn(p) ==
  /\ todo[p] = {} /\ PGoto(p, "del", "done")
  /\ UNCHANGED <<phase, conf, config, cacheVars, index, serverVars, services, repl, conds, todo, deleted, mixed>>

-----------------------------------------------------------------------------
ProvisionStep(g) ==
  \/ (\E c \in site.configs : Provision(g, c) \/ provisionRuleMatchers(g, c)) \/ InitGroupCacheRes(g) \/ SendNil(g) \/ Receive(g)
  \/ provisionDistributed(g) \/ SetConfig(g) \/ provisionRedisCache(g) \/ Cleanup(g)

PurgeStep(p) ==
  \/ SetHost(p) \/ SetPath(p) \/ ReplaceKnown(p) \/ ListKeys(p) \/ PurgeReturn(p)
  \/ \E k \in todo[p] : Del(p, k)

Next ==
  /\ \/ InUse \/ LoadFails
     \/ \E g \in site.gens : ProvisionStep(g) \/ ListenAndServe(g) \/ SendError(g) \/ \E k \in Keys : Put(g, k)
     \/ \E e \in index : cleanEntry(e)
     \/ \E p \in site.purges : PurgeStep(p)
  /\ UNCHANGED site

Spec == Init /\ [][Next]_vars

-----------------------------------------------------------------------------
(* Types. *)
TypeOK ==
  /\ site \in Sites
  /\ phase \in [Gens -> {"none", "init", "send", "receive", "distributed", "config", "redis",
                         "ready", "live", "old", "failed", "gone"}]
  /\ conf \in [Gens -> Configs \cup {None}]
  /\ {cache, config, entries, srv} \subseteq Gens \cup {None}
  /\ array \in [Gens -> Gens \cup {None}]
  /\ index \subseteq [key : Keys, bucket : Nat, array : Gens]
  /\ server \in [Gens -> {"none", "starting", "up", "error", "closed", "down"}]
  /\ errChan \in [Gens -> {None, "nil", "error"}] /\ services \subseteq Gens
  /\ ppc \in [Purges -> {"idle", "path", "replace", "keys", "del", "done", "panic"}]
  /\ repl \in [host : Hosts \cup {None}, path : Paths \cup {AnyPath, None}]
  /\ conds \in [Purges -> Conds \cup {None}]
  /\ todo \in [Purges -> SUBSET Keys] /\ deleted \in [Purges -> SUBSET Keys]
  /\ mixed \subseteq Purges /\ raced \in BOOLEAN /\ refused \in BOOLEAN

(* A reload loses nothing: what any handler has put, of this configuration *)
(* or of one before it, is where the handler in use and the admin endpoint *)
(* look for it, as long as no configuration changed the number of buckets  *)
(* (NewHTTPCache).                                                         *)
EntriesKept ==
  \A e \in index, g \in Running \cup ({cache} \ {None}) :
    \/ e = Slot(g, e.key)
    \/ \E h, i \in Gens : None \notin {array[h], array[i]} /\ conf[h].buckets # conf[i].buckets

(* While a handler with the memory backend is in use a server of the group *)
(* is up or about to be, although all of them are started on one port and  *)
(* every Cleanup shuts one down, however many handlers a configuration     *)
(* has.  Excepted are a server that was made while the goroutine of        *)
(* another had yet to run, one that failed for a reason of its own, which  *)
(* Provision does not notice, and a handler that failed before it had a    *)
(* server of its own, whose Cleanup shuts another one's down               *)
(* (InitGroupCacheRes, ReleaseGroupCacheRes).                              *)
GroupServed ==
  \A g \in Running :
    \/ conf[g].type # "memory" \/ raced \/ refused
    \/ \E h \in Gens : server[h] \in {"up", "starting"}
    \/ \E h \in Gens : phase[h] = "gone" /\ conf[h].type = "memory" /\ server[h] = "none"

(* A node with a distributed handler in use has not been deregistered,     *)
(* also when the handlers before it were cleaned up (ConsulService.Cleanup *)
(* and Provision).  With Redis it is not registered in the first place, as *)
(* Provision returns before it loads the cluster's module; and Consul may  *)
(* itself deregister what is critical for too long                         *)
(* (DeregisterCriticalServiceAfter), which is not modelled.                *)
Registered ==
  \A g \in Running : conf[g].distributed /\ conf[g].type # "redis" => genServiceID(g) \in services

(* Between loads, the globals that the admin endpoint uses are of a        *)
(* handler in use, the last one of its configuration to be provisioned,    *)
(* unless a load has failed since; the config is that of the last one      *)
(* without Redis (Provision).                                              *)
GlobalsInUse ==
  (\A g \in Gens : phase[g] \in {"none", "live", "gone"}) =>
    \A g \in Running :
      \/ /\ cache \in Running /\ g <= cache
         /\ conf[g].type # "redis" => config \in Running /\ g <= config
      \/ \E h \in Gens : h > g /\ phase[h] = "gone" /\ array[h] # None

(* A purge request deletes only what its own payload names, unless another *)
(* one was at the replacer at the same time (handlePurge).                 *)
PurgesOwnKeys == \A p \in Purges \ mixed : \A k \in deleted[p] : MatchString(Cond[p], k)
=============================================================================
