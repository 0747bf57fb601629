-------------------------- MODULE LifecycleProofs --------------------------
(***************************************************************************)
(* For any number of reloads, configurations, keys and purge requests:     *)
(* what the package's globals keep across reloads, and what a purge        *)
(* request deletes.                                                        *)
(***************************************************************************)
EXTENDS Lifecycle, TLAPS

Steps == {"init", "send", "receive", "distributed", "config", "redis"}

(* Handlers are provisioned one after the other, those of a configuration  *)
(* are ready, in use, failed or old together, and older ones are cleaned   *)
(* up before newer ones are provisioned.                                   *)
InOrder ==
  \A g, h \in Gens : h < g =>
    /\ phase[h] \in Steps \cup {"none"} => phase[g] = "none"
    /\ phase[h] = "ready" => phase[g] \in Steps \cup {"ready", "none"}
    /\ phase[h] = "failed" => phase[g] \in {"failed", "gone", "none"}
    /\ phase[h] = "live" => phase[g] # "old"
    /\ phase[h] = "old" => phase[g] \in {"old", "live", "gone", "none"}

Configured ==
  \A g \in Gens :
    /\ phase[g] # "none" => conf[g] \in Configs
    /\ phase[g] = "none" => array[g] = None
    /\ phase[g] \in {"init", "send", "receive", "distributed", "config", "redis", "ready", "live", "old"} =>
         array[g] # None
    /\ phase[g] \in {"init", "send", "receive"} => conf[g].type = "memory"
    /\ phase[g] \in {"distributed", "config"} => conf[g].type # "redis"
    /\ phase[g] = "redis" => conf[g].type = "redis"
    /\ array[g] # None => conf[g] \in Configs

(* There is one array of buckets, and each entry is where the hash of some *)
(* configuration put it.                                                   *)
OneArray ==
  /\ \A g \in Gens : array[g] # None => array[g] = entries
  /\ \A e \in index : \E g \in Gens : array[g] # None /\ e = Slot(g, e.key)

(* The global cache is the newest, the global config no older than any     *)
(* handler that is ready or in use.                                        *)
Newest ==
  /\ \A g \in Gens : array[g] # None => cache \in Gens /\ g <= cache
  /\ cache # None => array[cache] # None
ConfigOf ==
  /\ config # None => array[config] # None /\ phase[config] \in {"ready", "live", "old", "failed", "gone"}
  /\ \A g \in Gens : phase[g] \in {"ready", "live"} /\ conf[g].type # "redis" => config \in Gens /\ g <= config

(* A node is registered from Provision to Cleanup. *)
RegisteredInv ==
  \A g \in Gens :
    phase[g] \in {"config", "ready", "live", "old"} /\ conf[g].distributed /\ conf[g].type # "redis" =>
      g \in services

(* A purge request that met no other has its own payload in the replacer.  *)
Alone ==
  \A p, q \in Purges : p # q /\ p \in Replacing /\ q \in Replacing => p \in mixed
OwnPayload ==
  \A p \in Purges \ mixed :
    /\ ppc[p] \in {"path", "replace"} => repl.host = Cond[p][1]
    /\ ppc[p] = "replace" => repl.path = Cond[p][2]
    /\ ppc[p] = "keys" => conds[p] = Cond[p]
    /\ \A k \in todo[p] : MatchString(Cond[p], k)

(* The replacer's fields have a value when the template is filled in. *)
Filled ==
  \A p \in Purges :
    /\ ppc[p] \in {"path", "replace"} => repl.host \in Hosts
    /\ ppc[p] = "replace" => repl.path \in Paths \cup {AnyPath}

LoadInv == InOrder /\ Configured
GlobalInv == OneArray /\ Newest /\ ConfigOf /\ RegisteredInv
PurgeInv == Alone /\ Filled /\ OwnPayload /\ PurgesOwnKeys
IndInv == TypeOK /\ LoadInv /\ GlobalInv /\ PurgeInv

USE DEF Gens, Goto, Fail, Turn, PGoto, cacheVars, serverVars, purgeVars

(* Before the first configuration is loaded.                               *)
LEMMA InitInd == Init => IndInv
<1> USE GensAssumption DEF Init
<1> SUFFICES ASSUME Init PROVE IndInv
  OBVIOUS
<1>1. TypeOK
  BY DEF TypeOK
<1>2. LoadInv
  BY DEF LoadInv, InOrder, Configured, Steps
<1>3. GlobalInv
  BY DEF GlobalInv, OneArray, Newest, ConfigOf, RegisteredInv
<1>4. PurgeInv
  BY DEF PurgeInv, Alone, Filled, OwnPayload, PurgesOwnKeys, Replacing
<1>. QED BY <1>1, <1>2, <1>3, <1>4 DEF IndInv

(* What InitGroupCacheRes does to the handler, the history left aside.     *)
LEMMA InitGroupEffect ==
  ASSUME NEW g \in Gens, InitGroupCacheRes(g)
  PROVE  /\ phase[g] = "init"
         /\ \/ /\ phase' = [phase EXCEPT ![g] = "send"]
               /\ srv' = g /\ server' = [server EXCEPT ![g] = "starting"]
               /\ ~raced' => ~raced /\ \A h \in Gens : server[h] # "starting"
            \/ Fail(g, "init") /\ UNCHANGED <<srv, server, raced>>
         /\ UNCHANGED <<conf, config, cache, entries, array, index, errChan, refused, services, purgeVars>>
  BY Zenon DEF InitGroupCacheRes

(* What ListenAndServe does to the servers, the history left aside.        *)
LEMMA ListenEffect ==
  ASSUME NEW g \in Gens, ListenAndServe(g)
  PROVE  /\ UNCHANGED <<phase, conf, config, cacheVars, index, srv, errChan, raced, services, purgeVars>>
         /\ \/ /\ server[g] = "starting" /\ server' = [server EXCEPT ![g] = "up"]
               /\ ~ \E h \in Gens \ {g} : server[h] = "up"
            \/ /\ server[g] \in {"starting", "up"} /\ server' = [server EXCEPT ![g] = "error"]
               /\ ~refused' => ~refused /\ \E h \in Gens \ {g} : server[h] = "up"
            \/ server[g] = "closed" /\ server' = [server EXCEPT ![g] = "down"]
         /\ refused => refused'
<1> DEFINE taken == \E h \in Gens \ {g} : server[h] = "up"
<1>1. CASE server[g] = "starting" /\ ~taken /\ server' = [server EXCEPT ![g] = "up"] /\ UNCHANGED refused
  BY <1>1, Zenon DEF ListenAndServe
<1>2. CASE /\ server[g] \in {"starting", "up"} /\ server' = [server EXCEPT ![g] = "error"]
           /\ refused' = (refused \/ ~taken)
  <2>1. (~refused' => ~refused /\ taken) /\ (refused => refused')
    BY <1>2, Zenon
  <2> HIDE DEF taken
  <2>2. UNCHANGED <<phase, conf, config, cacheVars, index, srv, errChan, raced, services, purgeVars>>
    BY Zenon DEF ListenAndServe
  <2>. QED BY <1>2, <2>1, <2>2, Zenon DEF taken
<1>3. CASE server[g] = "closed" /\ server' = [server EXCEPT ![g] = "down"] /\ UNCHANGED refused
  BY <1>3, Zenon DEF ListenAndServe
<1>. QED BY <1>1, <1>2, <1>3, Zenon DEF ListenAndServe

(* Every step keeps the types.                                             *)
LEMMA NextType == IndInv /\ [Next]_vars => TypeOK'
<1> USE GensAssumption, ConfigsAssumption, KeysAssumption, CondAssumption
    DEF IndInv, TypeOK, LoadInv, Steps, Configured, Slot, getBucketIndexForKey, InRange, GlobalInv, Newest,
         OneArray, ConfigOf
<1> SUFFICES ASSUME IndInv, [Next]_vars PROVE TypeOK'
  OBVIOUS
<1>1. ASSUME NEW g \in Gens, NEW c \in Configs, Provision(g, c), site' = site PROVE TypeOK'
  BY <1>1 DEF Provision, NewHTTPCache
<1>2. ASSUME NEW g \in Gens, NEW c \in Configs, provisionRuleMatchers(g, c), site' = site PROVE TypeOK'
  BY <1>2 DEF provisionRuleMatchers
<1>3. ASSUME NEW g \in Gens, InitGroupCacheRes(g), site' = site PROVE TypeOK'
  <2>1. raced' \in BOOLEAN
    BY <1>3, Zenon DEF InitGroupCacheRes
  <2>2. phase' \in [Gens -> Steps \cup {"none", "ready", "live", "old", "failed", "gone"}]
    <3>1. phase' = [phase EXCEPT ![g] = "send"] \/ Fail(g, "init")
      BY <1>3, InitGroupEffect, Zenon
    <3>2. CASE phase' = [phase EXCEPT ![g] = "send"]
      BY <3>2
    <3>3. CASE Fail(g, "init")
      BY <3>3
    <3>. QED BY <3>1, <3>2, <3>3
  <2>3. srv' \in Gens \cup {None} /\ server' \in [Gens -> {"none", "starting", "up", "error", "closed", "down"}]
    BY <1>3, InitGroupEffect
  <2>4. UNCHANGED <<conf, config, cache, entries, array, index, errChan, refused, services, purgeVars>>
    BY <1>3, InitGroupEffect, Zenon
  <2>. QED BY <1>3, <2>1, <2>2, <2>3, <2>4
<1>4. ASSUME NEW g \in Gens, SendNil(g), site' = site PROVE TypeOK'
  BY <1>4 DEF SendNil
<1>5. ASSUME NEW g \in Gens, Receive(g), site' = site PROVE TypeOK'
  BY <1>5 DEF Receive
<1>6. ASSUME NEW g \in Gens, provisionDistributed(g), site' = site PROVE TypeOK'
  <2>1. phase' \in [Gens -> Steps \cup {"none", "ready", "live", "old", "failed", "gone"}]
    <3>1. CASE phase' = [phase EXCEPT ![g] = "config"]
      BY <3>1
    <3>2. CASE Fail(g, "distributed")
      BY <3>2
    <3>. QED BY <1>6, <3>1, <3>2 DEF provisionDistributed
  <2>2. services' \in {services, services \cup {g}}
    BY <1>6 DEF provisionDistributed, ServiceRegister, genServiceID
  <2>. QED BY <1>6, <2>1, <2>2 DEF provisionDistributed
<1>7. ASSUME NEW g \in Gens, SetConfig(g), site' = site PROVE TypeOK'
  BY <1>7 DEF SetConfig
<1>8. ASSUME NEW g \in Gens, provisionRedisCache(g), site' = site PROVE TypeOK'
  BY <1>8 DEF provisionRedisCache
<1>9. ASSUME LoadFails, site' = site PROVE TypeOK'
  BY <1>9 DEF LoadFails, Loaded
<1>10. ASSUME NEW g \in Gens, Cleanup(g), site' = site PROVE TypeOK'
  BY <1>10 DEF Cleanup, ReleaseGroupCacheRes, ServiceDeregister, genServiceID
<1>11. ASSUME NEW g \in Gens, ListenAndServe(g), site' = site PROVE TypeOK'
  <2>1. /\ server' \in {[server EXCEPT ![g] = "up"], [server EXCEPT ![g] = "error"], [server EXCEPT ![g] = "down"]}
        /\ UNCHANGED <<phase, conf, config, cacheVars, index, srv, errChan, raced, services, purgeVars>>
    BY <1>11, ListenEffect, Zenon
  <2>2. refused' \in BOOLEAN
    BY <1>11, Zenon DEF ListenAndServe
  <2>3. server' \in [Gens -> {"none", "starting", "up", "error", "closed", "down"}]
    BY <2>1
  <2>. QED BY <1>11, <2>1, <2>2, <2>3
<1>12. ASSUME NEW g \in Gens, NEW k \in Keys, Put(g, k), site' = site PROVE TypeOK'
  BY <1>12 DEF Put
<1>13. ASSUME NEW e \in index, cleanEntry(e), site' = site PROVE TypeOK'
  BY <1>13 DEF cleanEntry
<1>14. ASSUME NEW p \in Purges, SetHost(p), site' = site PROVE TypeOK'
  <2>1. Cond[p] \in Conds
    OBVIOUS
  <2>2. repl' \in [host : Hosts \cup {None}, path : Paths \cup {AnyPath, None}]
    BY <1>14, <2>1 DEF SetHost, Conds
  <2>. QED BY <1>14, <2>2 DEF SetHost, Replacing
<1>15. ASSUME NEW p \in Purges, SetPath(p), site' = site PROVE TypeOK'
  <2>1. Cond[p] \in Conds
    OBVIOUS
  <2>2. repl' \in [host : Hosts \cup {None}, path : Paths \cup {AnyPath, None}]
    BY <1>15, <2>1 DEF SetPath, Conds
  <2>. QED BY <1>15, <2>2 DEF SetPath
<1>16. ASSUME NEW p \in Purges, ReplaceKnown(p), site' = site PROVE TypeOK'
  <2>1. <<repl.host, repl.path>> \in Conds
    BY <1>16 DEF ReplaceKnown, Conds, PurgeInv, Filled
  <2>2. conds' \in [Purges -> Conds \cup {None}]
    BY <1>16, <2>1 DEF ReplaceKnown
  <2>. QED BY <1>16, <2>2 DEF ReplaceKnown
<1>17. ASSUME NEW p \in Purges, ListKeys(p), site' = site PROVE TypeOK'
  BY <1>17 DEF ListKeys
<1>18. ASSUME NEW p \in Purges, PurgeReturn(p), site' = site PROVE TypeOK'
  BY <1>18 DEF PurgeReturn
<1>19. ASSUME NEW p \in Purges, NEW k \in Keys, Del(p, k), site' = site PROVE TypeOK'
  BY <1>19 DEF Del
<1>20. CASE UNCHANGED <<site, phase, conf, config, cacheVars, index, serverVars, services, purgeVars>>
  BY <1>20
<1>21. ASSUME InUse, site' = site PROVE TypeOK'
  BY <1>21 DEF InUse, Loaded
<1>22. ASSUME NEW g \in Gens, SendError(g), site' = site PROVE TypeOK'
  BY <1>22 DEF SendError
<1>23. site.configs \subseteq Configs /\ site.purges \subseteq Purges /\ site.gens \subseteq Gens
  BY SitesAssumption DEF IndInv, TypeOK
<1>. QED BY <1>1, <1>2, <1>3, <1>4, <1>5, <1>6, <1>7, <1>8, <1>9, <1>10, <1>11, <1>12, <1>13, <1>14,
     <1>15, <1>16, <1>17, <1>18, <1>19, <1>20, <1>21, <1>22, <1>23 DEF Next, ProvisionStep, PurgeStep, vars

(* While a handler is provisioned, those after it are not, and those       *)
(* before it are ready, in use or gone.                                    *)
LEMMA OneAtATime ==
  ASSUME IndInv, NEW g \in Gens, phase[g] \in Steps
  PROVE  /\ \A i \in Gens : i > g => phase[i] = "none"
         /\ \A h \in Gens : h < g => phase[h] \in {"ready", "live", "gone"}
<1>1. InOrder /\ phase \in [Gens -> Steps \cup {"none", "ready", "live", "old", "failed", "gone"}]
  BY DEF IndInv, LoadInv, TypeOK, Steps
<1>2. ASSUME NEW h \in Gens, h < g PROVE phase[h] \in {"ready", "live", "gone"}
  <2>1. phase[h] \notin Steps \cup {"none"} /\ phase[h] # "failed" /\ phase[h] # "old"
    BY <1>1, <1>2 DEF InOrder, Steps
  <2>. QED BY <1>1, <2>1
<1>. QED BY <1>1, <1>2, GensAssumption DEF InOrder

(* So provisioning goes on, or fails, in order.                            *)
LEMMA OrderGoto ==
  ASSUME IndInv, NEW g \in Gens, phase[g] \in Steps, NEW to \in Steps \cup {"ready"},
         phase' = [phase EXCEPT ![g] = to]
  PROVE  InOrder'
<1> USE GensAssumption DEF IndInv, TypeOK, LoadInv, InOrder, Steps
<1>1. /\ \A i \in Gens : i > g => phase[i] = "none"
      /\ \A h \in Gens : h < g => phase[h] \in {"ready", "live", "gone"}
  BY OneAtATime
<1>2. \A h \in Gens : phase'[h] = IF h = g THEN to ELSE phase[h]
  OBVIOUS
<1>. QED BY <1>1, <1>2

(* A failure takes what is ready with it, and leaves the rest in order.    *)
LEMMA OrderFail ==
  ASSUME IndInv, NEW g \in Gens, NEW from \in Steps \cup {"none"}, Fail(g, from), from = "none" => Turn(g)
  PROVE  InOrder'
<1> USE GensAssumption DEF IndInv, TypeOK, LoadInv, InOrder
<1>1. /\ \A i \in Gens : i > g => phase[i] = "none"
      /\ \A h \in Gens : h < g => phase[h] \in {"ready", "live", "gone"}
  <2>1. CASE from = "none"
    BY <2>1
  <2>2. CASE from \in Steps
    BY <2>2, OneAtATime
  <2>. QED BY <2>1, <2>2
<1>2. \A h \in Gens : phase'[h] = IF h = g \/ phase[h] = "ready" THEN "failed" ELSE phase[h]
  OBVIOUS
<1>. QED BY <1>1, <1>2 DEF Steps

(* Configurations stay in order: one is loaded when nothing else is under  *)
(* way.                                                                    *)
LEMMA NextOrder == IndInv /\ [Next]_vars => InOrder'
<1> USE GensAssumption, ConfigsAssumption, KeysAssumption, CondAssumption
    DEF IndInv, TypeOK, LoadInv, InOrder, Steps
<1> SUFFICES ASSUME IndInv, [Next]_vars PROVE InOrder'
  OBVIOUS
<1>1. ASSUME NEW g \in Gens, NEW c \in Configs, Provision(g, c) PROVE InOrder'
  BY <1>1 DEF Provision, NewHTTPCache
<1>2. ASSUME NEW g \in Gens, NEW c \in Configs, provisionRuleMatchers(g, c) PROVE InOrder'
  BY <1>2, OrderFail DEF provisionRuleMatchers
<1>3. ASSUME NEW g \in Gens, InitGroupCacheRes(g) PROVE InOrder'
  <2>0. /\ phase[g] = "init"
        /\ phase' = [phase EXCEPT ![g] = "send"] \/ Fail(g, "init")
        /\ UNCHANGED <<conf, config, cache, entries, array, services>>
    BY <1>3, InitGroupEffect, Zenon
  <2>1. CASE phase' = [phase EXCEPT ![g] = "send"]
    BY <2>0, <2>1, OrderGoto
  <2>2. CASE Fail(g, "init")
    BY <2>2, OrderFail
  <2>. QED BY <2>0, <2>1, <2>2
<1>4. ASSUME NEW g \in Gens, SendNil(g) PROVE InOrder'
  BY <1>4, OrderGoto DEF SendNil
<1>5. ASSUME NEW g \in Gens, Receive(g) PROVE InOrder'
  BY <1>5, OrderGoto DEF Receive
<1>6. ASSUME NEW g \in Gens, provisionDistributed(g) PROVE InOrder'
  <2>1. CASE Goto(g, "distributed", "config")
    BY <2>1, OrderGoto
  <2>2. CASE Fail(g, "distributed")
    <3>1. "distributed" \in Steps \cup {"none"} /\ "distributed" # "none"
      OBVIOUS
    <3> HIDE DEF Steps, InOrder, IndInv, TypeOK, LoadInv, Fail
    <3>. QED BY <2>2, <3>1, OrderFail
  <2>. QED BY <1>6, <2>1, <2>2 DEF provisionDistributed
<1>7. ASSUME NEW g \in Gens, SetConfig(g) PROVE InOrder'
  BY <1>7, OrderGoto DEF SetConfig
<1>8. ASSUME NEW g \in Gens, provisionRedisCache(g) PROVE InOrder'
  <2>1. CASE Goto(g, "redis", "ready")
    BY <2>1, OrderGoto
  <2>2. CASE Fail(g, "redis")
    BY <2>2, OrderFail
  <2>. QED BY <1>8, <2>1, <2>2 DEF provisionRedisCache
<1>9. ASSUME LoadFails PROVE InOrder'
  <2>1. /\ \A h \in Gens : phase[h] \in {"none", "ready", "live", "gone"}
        /\ \A h \in Gens : phase'[h] = IF phase[h] = "ready" THEN "failed" ELSE phase[h]
    BY <1>9 DEF LoadFails, Loaded
  <2>. QED BY <2>1
<1>10. ASSUME NEW g \in Gens, Cleanup(g) PROVE InOrder'
  <2>1. phase[g] \in {"old", "failed"} /\ \A h \in Gens : phase'[h] = IF h = g THEN "gone" ELSE phase[h]
    BY <1>10 DEF Cleanup
  <2> SUFFICES ASSUME NEW i \in Gens, NEW h \in Gens, h < i
               PROVE  /\ phase'[h] \in Steps \cup {"none"} => phase'[i] = "none"
                      /\ phase'[h] = "ready" => phase'[i] \in Steps \cup {"ready", "none"}
                      /\ phase'[h] = "failed" => phase'[i] \in {"failed", "gone", "none"}
                      /\ phase'[h] = "live" => phase'[i] # "old"
                      /\ phase'[h] = "old" => phase'[i] \in {"old", "live", "gone", "none"}
    BY DEF InOrder
  <2>2. CASE i = g
    BY <2>1, <2>2
  <2>3. CASE i # g
    BY <2>1, <2>3
  <2>. QED BY <2>2, <2>3
<1>11. CASE UNCHANGED <<phase>>
  BY <1>11
<1>12. ASSUME InUse PROVE InOrder'
  BY <1>12 DEF InUse, Loaded
<1>13. site.configs \subseteq Configs /\ site.purges \subseteq Purges /\ site.gens \subseteq Gens
  BY SitesAssumption DEF IndInv, TypeOK
<1>. QED BY <1>1, <1>2, <1>3, <1>4, <1>5, <1>6, <1>7, <1>8, <1>9, <1>10, <1>11, <1>12, <1>13 DEF Next,
     ProvisionStep, PurgeStep, vars, ListenAndServe, SendError, Put, cleanEntry, SetHost, SetPath, ReplaceKnown,
     ListKeys, PurgeReturn, Del

(* What a handler has at each stage of its life.                           *)
LEMMA NextConfigured == IndInv /\ [Next]_vars => Configured'
<1> USE GensAssumption, ConfigsAssumption, KeysAssumption, CondAssumption
    DEF IndInv, TypeOK, LoadInv, Configured, GlobalInv
<1> SUFFICES ASSUME IndInv, [Next]_vars PROVE Configured'
  OBVIOUS
<1>1. ASSUME NEW g \in Gens, NEW c \in Configs, Provision(g, c) PROVE Configured'
  BY <1>1 DEF Provision, NewHTTPCache
<1>2. ASSUME NEW g \in Gens, NEW c \in Configs, provisionRuleMatchers(g, c) PROVE Configured'
  BY <1>2 DEF provisionRuleMatchers
<1>3. ASSUME NEW g \in Gens, InitGroupCacheRes(g) PROVE Configured'
  <2>0. /\ phase[g] = "init"
        /\ phase' = [phase EXCEPT ![g] = "send"] \/ Fail(g, "init")
        /\ UNCHANGED <<conf, config, cache, entries, array, services>>
    BY <1>3, InitGroupEffect, Zenon
  <2>1. CASE phase' = [phase EXCEPT ![g] = "send"]
    BY <2>0, <2>1
  <2>2. CASE Fail(g, "init")
    BY <2>0, <2>2
  <2>. QED BY <2>0, <2>1, <2>2
<1>4. ASSUME NEW g \in Gens, SendNil(g) PROVE Configured'
  BY <1>4 DEF SendNil
<1>5. ASSUME NEW g \in Gens, Receive(g) PROVE Configured'
  BY <1>5 DEF Receive
<1>6. ASSUME NEW g \in Gens, provisionDistributed(g) PROVE Configured'
  BY <1>6 DEF provisionDistributed, ServiceRegister, genServiceID
<1>7. ASSUME NEW g \in Gens, SetConfig(g) PROVE Configured'
  BY <1>7 DEF SetConfig
<1>8. ASSUME NEW g \in Gens, provisionRedisCache(g) PROVE Configured'
  BY <1>8 DEF provisionRedisCache
<1>9. ASSUME LoadFails PROVE Configured'
  BY <1>9 DEF LoadFails, Loaded
<1>10. ASSUME NEW g \in Gens, Cleanup(g) PROVE Configured'
  BY <1>10 DEF Cleanup, ReleaseGroupCacheRes, ServiceDeregister, genServiceID
<1>11. CASE UNCHANGED <<phase, conf, array>>
  BY <1>11
<1>12. ASSUME InUse PROVE Configured'
  BY <1>12 DEF InUse, Loaded
<1>13. site.configs \subseteq Configs /\ site.purges \subseteq Purges /\ site.gens \subseteq Gens
  BY SitesAssumption DEF IndInv, TypeOK
<1>. QED BY <1>1, <1>2, <1>3, <1>4, <1>5, <1>6, <1>7, <1>8, <1>9, <1>10, <1>11, <1>12, <1>13 DEF Next,
     ProvisionStep, PurgeStep, vars, ListenAndServe, SendError, Put, cleanEntry, SetHost, SetPath, ReplaceKnown,
     ListKeys, PurgeReturn, Del

(* The array of buckets stays the one that was made first.                 *)
LEMMA NextArray == IndInv /\ [Next]_vars => OneArray'
<1> USE GensAssumption, ConfigsAssumption, KeysAssumption, CondAssumption
    DEF IndInv, TypeOK, LoadInv, Configured, GlobalInv, OneArray, Slot, getBucketIndexForKey
<1> SUFFICES ASSUME IndInv, [Next]_vars PROVE OneArray'
  OBVIOUS
<1>1. ASSUME NEW g \in Gens, NEW c \in Configs, Provision(g, c) \/ provisionRuleMatchers(g, c) PROVE OneArray'
  <2>1. array[g] = None /\ index' = index /\ \A h \in Gens \ {g} : array'[h] = array[h] /\ conf'[h] = conf[h]
    BY <1>1 DEF Provision, provisionRuleMatchers
  <2>2. /\ array'[g] \in {None, entries'}
        /\ (\E h \in Gens : array[h] # None) => entries' = entries
    <3>1. (\E h \in Gens : array[h] # None) => entries # None
      OBVIOUS
    <3>. QED BY <1>1, <2>1, <3>1 DEF Provision, provisionRuleMatchers, NewHTTPCache
  <2>3. \A h \in Gens : array'[h] # None => array'[h] = entries'
    BY <2>1, <2>2
  <2>4. ASSUME NEW e \in index PROVE \E h \in Gens : array'[h] # None /\ e = Slot(h, e.key)'
    <3>1. PICK h \in Gens : array[h] # None /\ e = Slot(h, e.key)
      OBVIOUS
    <3>2. h # g /\ array'[h] = array[h] /\ conf'[h] = conf[h]
      BY <2>1, <3>1
    <3>. QED BY <3>1, <3>2
  <2>. QED BY <2>1, <2>3, <2>4
<1>3. ASSUME NEW g \in Gens, NEW k \in Keys, Put(g, k) PROVE OneArray'
  BY <1>3 DEF Put
<1>4. ASSUME NEW e \in index, cleanEntry(e) PROVE OneArray'
  BY <1>4 DEF cleanEntry
<1>5. ASSUME NEW p \in Purges, NEW k \in Keys, Del(p, k) PROVE OneArray'
  BY <1>5 DEF Del
<1>6. CASE UNCHANGED <<conf, array, entries, index>>
  BY <1>6
<1>7. ASSUME InUse PROVE OneArray'
  BY <1>7 DEF InUse, Loaded
<1>8. site.configs \subseteq Configs /\ site.purges \subseteq Purges /\ site.gens \subseteq Gens
  BY SitesAssumption DEF IndInv, TypeOK
<1>. QED BY <1>1, <1>3, <1>4, <1>5, <1>6, <1>7, <1>8 DEF Next, ProvisionStep, PurgeStep, vars,
     InitGroupCacheRes, SendNil, Receive, provisionDistributed, SetConfig, provisionRedisCache,
     LoadFails, Cleanup, ListenAndServe, SendError, SetHost, SetPath, ReplaceKnown, ListKeys, PurgeReturn

(* The globals and the registrations follow the loads.                     *)
LEMMA NextNewest == IndInv /\ [Next]_vars => Newest' /\ ConfigOf' /\ RegisteredInv'
<1> USE GensAssumption, ConfigsAssumption, KeysAssumption, CondAssumption
    DEF IndInv, TypeOK, LoadInv, InOrder, Configured, GlobalInv, Newest, ConfigOf, RegisteredInv, Steps
<1> SUFFICES ASSUME IndInv, [Next]_vars PROVE Newest' /\ ConfigOf' /\ RegisteredInv'
  OBVIOUS
<1>1. ASSUME NEW g \in Gens, NEW c \in Configs, Provision(g, c) PROVE Newest' /\ ConfigOf' /\ RegisteredInv'
  BY <1>1 DEF Provision, NewHTTPCache
<1>2. ASSUME NEW g \in Gens, NEW c \in Configs, provisionRuleMatchers(g, c) PROVE Newest' /\ ConfigOf' /\ RegisteredInv'
  BY <1>2 DEF provisionRuleMatchers
<1>3. ASSUME NEW g \in Gens, InitGroupCacheRes(g) PROVE Newest' /\ ConfigOf' /\ RegisteredInv'
  <2>0. /\ phase[g] = "init"
        /\ phase' = [phase EXCEPT ![g] = "send"] \/ Fail(g, "init")
        /\ UNCHANGED <<conf, config, cache, entries, array, services>>
    BY <1>3, InitGroupEffect, Zenon
  <2>1. Newest'
    BY <2>0
  <2>2. ConfigOf'
    <3>1. \A h \in Gens : phase[h] \in {"failed", "gone"} => phase'[h] = phase[h]
      BY <2>0
    <3>2. \A h \in Gens : phase'[h] = "live" => phase[h] = "live"
      BY <2>0
    <3>. QED BY <2>0, <3>1, <3>2
  <2>3. RegisteredInv'
    BY <2>0
  <2>. QED BY <2>1, <2>2, <2>3
<1>4. ASSUME NEW g \in Gens, SendNil(g) PROVE Newest' /\ ConfigOf' /\ RegisteredInv'
  BY <1>4 DEF SendNil
<1>5. ASSUME NEW g \in Gens, Receive(g) PROVE Newest' /\ ConfigOf' /\ RegisteredInv'
  <2>1. Newest' /\ RegisteredInv'
    BY <1>5 DEF Receive
  <2>2. ConfigOf'
    BY <1>5 DEF Receive
  <2>. QED BY <2>1, <2>2
<1>6. ASSUME NEW g \in Gens, provisionDistributed(g) PROVE Newest' /\ ConfigOf' /\ RegisteredInv'
  BY <1>6 DEF provisionDistributed, ServiceRegister, genServiceID
<1>7. ASSUME NEW g \in Gens, SetConfig(g) PROVE Newest' /\ ConfigOf' /\ RegisteredInv'
  BY <1>7 DEF SetConfig
<1>8. ASSUME NEW g \in Gens, provisionRedisCache(g) PROVE Newest' /\ ConfigOf' /\ RegisteredInv'
  BY <1>8 DEF provisionRedisCache
<1>9. ASSUME LoadFails PROVE Newest' /\ ConfigOf' /\ RegisteredInv'
  BY <1>9 DEF LoadFails, Loaded
<1>10. ASSUME NEW g \in Gens, Cleanup(g) PROVE Newest' /\ ConfigOf' /\ RegisteredInv'
  <2>1. phase[g] \in {"old", "failed"} /\ phase' = [phase EXCEPT ![g] = "gone"]
    BY <1>10 DEF Cleanup
  <2>2. services' \in {services, services \ {g}} /\ UNCHANGED <<conf, config, cache, array>>
    BY <1>10 DEF Cleanup, ServiceDeregister, genServiceID
  <2>3. Newest'
    BY <2>2
  <2>4. ConfigOf'
    BY <2>1, <2>2
  <2>5. RegisteredInv'
    BY <2>1, <2>2
  <2>. QED BY <2>3, <2>4, <2>5
<1>11. CASE UNCHANGED <<phase, conf, array, cache, config, services>>
  BY <1>11
<1>12. ASSUME InUse PROVE Newest' /\ ConfigOf' /\ RegisteredInv'
  BY <1>12 DEF InUse, Loaded
<1>13. site.configs \subseteq Configs /\ site.purges \subseteq Purges /\ site.gens \subseteq Gens
  BY SitesAssumption DEF IndInv, TypeOK
<1>. QED BY <1>1, <1>2, <1>3, <1>4, <1>5, <1>6, <1>7, <1>8, <1>9, <1>10, <1>11, <1>12, <1>13 DEF Next,
     ProvisionStep, PurgeStep, vars, ListenAndServe, SendError, Put, cleanEntry, SetHost, SetPath, ReplaceKnown,
     ListKeys, PurgeReturn, Del

(* The replacer serves one request at a time, or the requests are marked.  *)
LEMMA NextPurge == IndInv /\ [Next]_vars => PurgeInv'
<1> USE GensAssumption, ConfigsAssumption, KeysAssumption, CondAssumption
    DEF IndInv, TypeOK, PurgeInv, Alone, Filled, OwnPayload, PurgesOwnKeys, Replacing, MatchString, Conds
<1> SUFFICES ASSUME IndInv, [Next]_vars PROVE PurgeInv'
  OBVIOUS
<1>1. ASSUME NEW p \in Purges, SetHost(p) PROVE PurgeInv'
  BY <1>1 DEF SetHost
<1>2. ASSUME NEW p \in Purges, SetPath(p) PROVE PurgeInv'
  BY <1>2 DEF SetPath
<1>3. ASSUME NEW p \in Purges, ReplaceKnown(p) PROVE PurgeInv'
  BY <1>3 DEF ReplaceKnown
<1>4. ASSUME NEW p \in Purges, ListKeys(p) PROVE PurgeInv'
  BY <1>4 DEF ListKeys
<1>5. ASSUME NEW p \in Purges, PurgeReturn(p) PROVE PurgeInv'
  BY <1>5 DEF PurgeReturn
<1>6. ASSUME NEW p \in Purges, NEW k \in Keys, Del(p, k) PROVE PurgeInv'
  BY <1>6 DEF Del
<1>7. CASE UNCHANGED <<purgeVars>>
  BY <1>7
<1>8. ASSUME InUse PROVE PurgeInv'
  BY <1>8 DEF InUse, Loaded
<1>9. site.configs \subseteq Configs /\ site.purges \subseteq Purges /\ site.gens \subseteq Gens
  BY SitesAssumption DEF IndInv, TypeOK
<1>. QED BY <1>1, <1>2, <1>3, <1>4, <1>5, <1>6, <1>7, <1>8, <1>9 DEF Next, ProvisionStep, PurgeStep, vars,
     Provision, provisionRuleMatchers, InitGroupCacheRes, SendNil, Receive, provisionDistributed,
     SetConfig, provisionRedisCache, LoadFails, Cleanup, ListenAndServe, SendError, Put, cleanEntry

(* The inductive invariant.                                                *)
LEMMA Induction == Spec => []IndInv
<1>1. IndInv /\ [Next]_vars => IndInv'
  BY NextType, NextOrder, NextConfigured, NextArray, NextNewest, NextPurge DEF IndInv, LoadInv, GlobalInv
<1>. QED BY InitInd, <1>1, PTL DEF Spec

(* The types are kept.                                                     *)
THEOREM TypeCorrect == Spec => []TypeOK
<1>1. IndInv => TypeOK
  BY DEF IndInv
<1>. QED BY Induction, <1>1, PTL

(* A reload loses no entry, for any sequence of configurations that agree  *)
(* on the number of buckets: all handlers share the array that the first   *)
(* NewHTTPCache made.                                                      *)
THEOREM ReloadKeepsEntries == Spec => []EntriesKept
<1>1. IndInv => EntriesKept
  <2> SUFFICES ASSUME IndInv, NEW e \in index, NEW g \in Running \cup ({cache} \ {None}),
                      ~ \E h, i \in Gens : None \notin {array[h], array[i]} /\ conf[h].buckets # conf[i].buckets
               PROVE  e = Slot(g, e.key)
    BY DEF EntriesKept
  <2>1. g \in Gens /\ array[g] # None
    BY DEF IndInv, TypeOK, LoadInv, Configured, GlobalInv, Newest, Running
  <2>2. PICK h \in Gens : array[h] # None /\ e = Slot(h, e.key)
    BY DEF IndInv, GlobalInv, OneArray
  <2>3. array[g] = array[h]
    BY <2>1, <2>2 DEF IndInv, GlobalInv, OneArray
  <2>4. conf[g].buckets = conf[h].buckets
    BY <2>1, <2>2
  <2>. QED BY <2>2, <2>3, <2>4 DEF Slot, getBucketIndexForKey
<1>. QED BY Induction, <1>1, PTL

(* A node stays registered over any sequence of reloads, as the id a       *)
(* Cleanup removes is its own handler's.                                   *)
THEOREM StaysRegistered == Spec => []Registered
<1>1. IndInv => Registered
  BY DEF IndInv, GlobalInv, RegisteredInv, Registered, Running, genServiceID
<1>. QED BY Induction, <1>1, PTL

(* Between loads that did not fail, the admin endpoint works on the last   *)
(* handler of the configuration in use, however many it has.               *)
THEOREM GlobalsFollow == Spec => []GlobalsInUse
<1>1. IndInv => GlobalsInUse
  <2> SUFFICES ASSUME IndInv, \A g \in Gens : phase[g] \in {"none", "live", "gone"},
                      NEW g \in Running, ~ \E h \in Gens : h > g /\ phase[h] = "gone" /\ array[h] # None
               PROVE  /\ cache \in Running /\ g <= cache
                      /\ conf[g].type # "redis" => config \in Running /\ g <= config
    BY DEF GlobalsInUse
  <2>1. g \in Gens /\ phase[g] = "live" /\ array[g] # None
    BY DEF Running, IndInv, LoadInv, Configured
  <2>2. ASSUME NEW h \in Gens, g <= h, array[h] # None PROVE h \in Running
    <3>1. phase[h] # "none"
      BY <2>2 DEF IndInv, LoadInv, Configured
    <3>2. h = g \/ h > g
      BY <2>1, <2>2, GensAssumption
    <3>. QED BY <2>1, <2>2, <3>1, <3>2 DEF Running
  <2>3. cache \in Gens /\ g <= cache /\ array[cache] # None
    BY <2>1, GensAssumption DEF IndInv, GlobalInv, Newest
  <2>4. conf[g].type # "redis" => config \in Gens /\ g <= config /\ array[config] # None
    BY <2>1, GensAssumption DEF IndInv, GlobalInv, ConfigOf
  <2>. QED BY <2>2, <2>3, <2>4
<1>. QED BY Induction, <1>1, PTL

(* Whatever the other requests are, a purge request that had the replacer  *)
(* for itself deletes only what its payload names.                         *)
THEOREM PurgeDeletesOwn == Spec => []PurgesOwnKeys
<1>1. IndInv => PurgesOwnKeys
  BY DEF IndInv, PurgeInv
<1>. QED BY Induction, <1>1, PTL

-----------------------------------------------------------------------------
(* Servers of the group.  A handler of the memory backend has started one, *)
(* and another one than srv's serves it when a Cleanup is to come.         *)
Memory(g) == conf[g] \in Configs /\ conf[g].type = "memory"
Busy == Steps \cup {"ready", "failed", "old"}
Served == \E h \in Gens : server[h] \in {"up", "starting"}
Kept == \E h \in Gens : h # srv /\ server[h] = "up"
Unmade == \E h \in Gens : phase[h] = "gone" /\ Memory(h) /\ server[h] = "none"

ServerMade ==
  \A g \in Gens :
    /\ Memory(g) /\ phase[g] \in {"send", "receive", "distributed", "config", "ready", "live", "old"} =>
         server[g] # "none"
    /\ phase[g] \in {"none", "init"} => server[g] = "none"

OneUp == \A g, h \in Gens : server[g] = "up" /\ server[h] = "up" => g = h

ServesAll ==
  \A g \in Gens :
    Memory(g) /\ phase[g] \in {"send", "receive", "distributed", "config", "ready", "live"} => Served
KeepsOne ==
  \A g, u \in Gens :
    g # u /\ Memory(g) /\ phase[g] = "live" /\ Memory(u) /\ phase[u] \in Busy /\ server[u] # "none" => Kept
ServedInv == ~raced /\ ~refused /\ ~Unmade => ServesAll /\ KeepsOne

(* What Cleanup finds: nothing is being loaded, and the other ones that    *)
(* are not in use or gone are to be cleaned up too.                        *)
LEMMA NothingLoads ==
  ASSUME IndInv, NEW g \in Gens, phase[g] \in {"old", "failed"}
  PROVE  \A h \in Gens : phase[h] \notin Steps \cup {"ready"}
<1>1. InOrder
  BY DEF IndInv, LoadInv
<1>2. ASSUME NEW h \in Gens, phase[h] \in Steps \cup {"ready"} PROVE FALSE
  <2>1. h # g
    BY <1>2 DEF Steps
  <2>2. CASE h < g
    BY <1>1, <1>2, <2>2 DEF InOrder, Steps
  <2>3. CASE g < h
    BY <1>1, <1>2, <2>3 DEF InOrder, Steps
  <2>. QED BY <2>1, <2>2, <2>3, GensAssumption
<1>. QED BY <1>2

(* A handler of the memory backend has started its server.                 *)
LEMMA NextMade == IndInv /\ ServerMade /\ [Next]_vars => ServerMade'
<1> USE GensAssumption, ConfigsAssumption, KeysAssumption, CondAssumption
    DEF IndInv, TypeOK, LoadInv, Configured, ServerMade, Memory
<1> SUFFICES ASSUME IndInv /\ ServerMade, [Next]_vars PROVE ServerMade'
  OBVIOUS
<1>1. ASSUME NEW g \in Gens, NEW c \in Configs, Provision(g, c) PROVE ServerMade'
  BY <1>1 DEF Provision, NewHTTPCache
<1>2. ASSUME NEW g \in Gens, NEW c \in Configs, provisionRuleMatchers(g, c) PROVE ServerMade'
  BY <1>2 DEF provisionRuleMatchers
<1>3. ASSUME NEW g \in Gens, InitGroupCacheRes(g) PROVE ServerMade'
  <2>0. /\ phase[g] = "init" /\ UNCHANGED conf
        /\ \/ phase' = [phase EXCEPT ![g] = "send"] /\ server' = [server EXCEPT ![g] = "starting"]
           \/ Fail(g, "init") /\ UNCHANGED server
    BY <1>3, InitGroupEffect, Zenon
  <2>1. CASE phase' = [phase EXCEPT ![g] = "send"] /\ server' = [server EXCEPT ![g] = "starting"]
    BY <2>0, <2>1
  <2>2. CASE Fail(g, "init") /\ UNCHANGED server
    BY <2>0, <2>2
  <2>. QED BY <2>0, <2>1, <2>2
<1>4. ASSUME NEW g \in Gens, SendNil(g) PROVE ServerMade'
  BY <1>4 DEF SendNil
<1>5. ASSUME NEW g \in Gens, Receive(g) PROVE ServerMade'
  BY <1>5 DEF Receive
<1>6. ASSUME NEW g \in Gens, provisionDistributed(g) PROVE ServerMade'
  BY <1>6 DEF provisionDistributed, ServiceRegister, genServiceID
<1>7. ASSUME NEW g \in Gens, SetConfig(g) PROVE ServerMade'
  BY <1>7 DEF SetConfig
<1>8. ASSUME NEW g \in Gens, provisionRedisCache(g) PROVE ServerMade'
  BY <1>8 DEF provisionRedisCache
<1>9. ASSUME LoadFails PROVE ServerMade'
  BY <1>9 DEF LoadFails, Loaded
<1>10. ASSUME NEW g \in Gens, Cleanup(g) PROVE ServerMade'
  BY <1>10 DEF Cleanup, ReleaseGroupCacheRes, ServiceDeregister, genServiceID
<1>11. ASSUME NEW g \in Gens, ListenAndServe(g) PROVE ServerMade'
  <2>1. /\ server[g] # "none" /\ UNCHANGED <<phase, conf>>
        /\ server' \in {[server EXCEPT ![g] = "up"], [server EXCEPT ![g] = "error"], [server EXCEPT ![g] = "down"]}
    BY <1>11, ListenEffect, Zenon
  <2>2. \A h \in Gens : server[h] = "none" <=> server'[h] = "none"
    BY <2>1
  <2>. QED BY <2>1, <2>2
<1>12. CASE UNCHANGED <<phase, conf, server>>
  BY <1>12
<1>13. ASSUME InUse PROVE ServerMade'
  BY <1>13 DEF InUse, Loaded
<1>15. ASSUME NEW g \in Gens, SendError(g) PROVE ServerMade'
  BY <1>15 DEF SendError
<1>14. site.configs \subseteq Configs /\ site.purges \subseteq Purges /\ site.gens \subseteq Gens
  BY SitesAssumption DEF IndInv, TypeOK
<1>. QED BY <1>1, <1>2, <1>3, <1>4, <1>5, <1>6, <1>7, <1>8, <1>9, <1>10, <1>11, <1>12, <1>13, <1>14, <1>15 DEF Next,
     ProvisionStep, PurgeStep, vars, Put, cleanEntry, SetHost, SetPath, ReplaceKnown, ListKeys,
     PurgeReturn, Del

(* Only one server has the port.                                           *)
LEMMA NextOneUp == IndInv /\ OneUp /\ [Next]_vars => OneUp'
<1> USE GensAssumption DEF OneUp, TypeOK
<1> SUFFICES ASSUME IndInv, OneUp, [Next]_vars PROVE OneUp'
  OBVIOUS
<1>1. TypeOK /\ site.configs \subseteq Configs /\ site.purges \subseteq Purges /\ site.gens \subseteq Gens
  BY SitesAssumption DEF IndInv
<1>2. ASSUME NEW g \in Gens, InitGroupCacheRes(g) PROVE OneUp'
  <2>1. server' \in {server, [server EXCEPT ![g] = "starting"]}
    BY <1>2, InitGroupEffect, Zenon
  <2>. QED BY <1>1, <2>1
<1>3. ASSUME NEW g \in Gens, Cleanup(g) PROVE OneUp'
  <2>1. \A h \in Gens : server'[h] = "up" => server[h] = "up"
    BY <1>1, <1>3 DEF Cleanup, ReleaseGroupCacheRes
  <2>. QED BY <2>1
<1>4. ASSUME NEW g \in Gens, ListenAndServe(g) PROVE OneUp'
  <2>1. CASE server' = [server EXCEPT ![g] = "up"] /\ ~ \E h \in Gens \ {g} : server[h] = "up"
    BY <1>1, <2>1
  <2>2. CASE server' \in {[server EXCEPT ![g] = "error"], [server EXCEPT ![g] = "down"]}
    BY <1>1, <2>2
  <2>. QED BY <1>4, <2>1, <2>2, ListenEffect, Zenon
<1>5. ASSUME NEW g \in Gens, SendError(g) PROVE OneUp'
  BY <1>1, <1>5 DEF SendError
<1>6. CASE UNCHANGED server
  BY <1>6
<1>. QED BY <1>1, <1>2, <1>3, <1>4, <1>5, <1>6 DEF Next, ProvisionStep, PurgeStep, vars, Provision,
     provisionRuleMatchers, SendNil, Receive, provisionDistributed, SetConfig, provisionRedisCache, LoadFails, InUse,
     Put, cleanEntry, SetHost, SetPath, ReplaceKnown, ListKeys, PurgeReturn, Del

(* History only grows: a race, a server that failed, and one that was      *)
(* never made remain.                                                      *)
LEMMA HistoryKept ==
  IndInv /\ ServerMade /\ [Next]_vars => (raced => raced') /\ (refused => refused') /\ (Unmade => Unmade')
<1> USE GensAssumption, ConfigsAssumption DEF IndInv, TypeOK
<1> SUFFICES ASSUME IndInv, ServerMade, [Next]_vars
             PROVE  (raced => raced') /\ (refused => refused') /\ (Unmade => Unmade')
  OBVIOUS
<1>0. site.configs \subseteq Configs /\ site.purges \subseteq Purges /\ site.gens \subseteq Gens
  BY SitesAssumption
<1>1. (raced => raced') /\ (refused => refused')
  <2>1. ASSUME NEW g \in Gens, InitGroupCacheRes(g) PROVE (raced => raced') /\ (refused => refused')
    BY <2>1, Zenon DEF InitGroupCacheRes
  <2>2. ASSUME NEW g \in Gens, ListenAndServe(g) PROVE (raced => raced') /\ (refused => refused')
    BY <2>2, ListenEffect, Zenon
  <2>. QED BY <1>0, <2>1, <2>2 DEF Next, ProvisionStep, PurgeStep, vars, Provision, provisionRuleMatchers,
       SendNil, Receive, provisionDistributed, SetConfig, provisionRedisCache, LoadFails, InUse, Cleanup,
       SendError, Put, cleanEntry, SetHost, SetPath, ReplaceKnown, ListKeys, PurgeReturn, Del
<1>2. ASSUME NEW h \in Gens, phase[h] = "gone", Memory(h), server[h] = "none"
      PROVE  phase'[h] = "gone" /\ Memory(h)' /\ server'[h] = "none"
  <2> USE <1>2 DEF Memory
  <2>1. ASSUME NEW g \in Gens, NEW c \in Configs, Provision(g, c) \/ provisionRuleMatchers(g, c)
        PROVE  phase'[h] = "gone" /\ Memory(h)' /\ server'[h] = "none"
    <3>1. g # h /\ server' = server /\ conf'[h] = conf[h]
      BY <2>1 DEF Provision, provisionRuleMatchers
    <3>2. phase'[h] = phase[h]
      BY <2>1, <3>1 DEF Provision, provisionRuleMatchers
    <3>. QED BY <3>1, <3>2
  <2>2. ASSUME NEW g \in Gens, InitGroupCacheRes(g) PROVE phase'[h] = "gone" /\ Memory(h)' /\ server'[h] = "none"
    <3>1. phase[g] = "init" /\ UNCHANGED conf
      BY <2>2, InitGroupEffect, Zenon
    <3>2. phase' = [phase EXCEPT ![g] = "send"] \/ Fail(g, "init")
      BY <2>2, InitGroupEffect, Zenon
    <3>3. server' \in {server, [server EXCEPT ![g] = "starting"]}
      BY <2>2, InitGroupEffect, Zenon
    <3>. QED BY <3>1, <3>2, <3>3
  <2>3. ASSUME NEW g \in Gens, SendNil(g) \/ Receive(g) \/ provisionDistributed(g) \/ SetConfig(g) \/ provisionRedisCache(g)
        PROVE  phase'[h] = "gone" /\ Memory(h)' /\ server'[h] = "none"
    BY <2>3 DEF SendNil, Receive, provisionDistributed, SetConfig, provisionRedisCache
  <2>4. ASSUME InUse \/ LoadFails PROVE phase'[h] = "gone" /\ Memory(h)' /\ server'[h] = "none"
    BY <2>4 DEF InUse, LoadFails
  <2>5. ASSUME NEW g \in Gens, Cleanup(g) PROVE phase'[h] = "gone" /\ Memory(h)' /\ server'[h] = "none"
    BY <2>5 DEF Cleanup, ReleaseGroupCacheRes
  <2>6. ASSUME NEW g \in Gens, ListenAndServe(g) PROVE phase'[h] = "gone" /\ Memory(h)' /\ server'[h] = "none"
    <3>1. /\ server[g] # "none" /\ UNCHANGED <<phase, conf>>
          /\ server' \in {[server EXCEPT ![g] = "up"], [server EXCEPT ![g] = "error"], [server EXCEPT ![g] = "down"]}
      BY <2>6, ListenEffect, Zenon
    <3>. QED BY <3>1
  <2>7. ASSUME NEW g \in Gens, SendError(g) PROVE phase'[h] = "gone" /\ Memory(h)' /\ server'[h] = "none"
    BY <2>7 DEF SendError
  <2>8. CASE UNCHANGED <<phase, conf, server>>
    BY <2>8
  <2>. QED BY <1>0, <2>1, <2>2, <2>3, <2>4, <2>5, <2>6, <2>7, <2>8
           DEF Next, ProvisionStep, PurgeStep, vars, Put, cleanEntry, SetHost, SetPath, ReplaceKnown, ListKeys,
                PurgeReturn, Del
<1>. QED BY <1>1, <1>2 DEF Unmade

(* The server that serves the handler in use outlives every Cleanup: a new *)
(* one has taken the old one's place in srv.                               *)
LEMMA NextServed == IndInv /\ ServerMade /\ OneUp /\ ServedInv /\ [Next]_vars => ServedInv'
<1> SUFFICES ASSUME IndInv, ServerMade, OneUp, ServedInv, [Next]_vars, ~raced', ~refused', ~Unmade'
             PROVE  ServesAll' /\ KeepsOne'
  BY Zenon DEF ServedInv
<1>1. ServesAll /\ KeepsOne /\ ~raced /\ ~refused /\ ~Unmade
  BY HistoryKept, Zenon DEF ServedInv
<1>2. TypeOK /\ Configured
  BY DEF IndInv, LoadInv
<1>3. site.configs \subseteq Configs /\ site.purges \subseteq Purges /\ site.gens \subseteq Gens
  BY <1>2, SitesAssumption DEF TypeOK
<1> USE GensAssumption, ConfigsAssumption, <1>1, <1>2 DEF TypeOK, Memory, Busy, Steps
<1>4. ASSUME NEW g \in Gens, NEW c \in Configs, Provision(g, c) \/ provisionRuleMatchers(g, c)
      PROVE  ServesAll' /\ KeepsOne'
  <2>1. server' = server /\ srv' = srv /\ server[g] = "none" /\ phase[g] = "none"
    BY <1>4 DEF Provision, provisionRuleMatchers, ServerMade
  <2>2. \A h \in Gens \ {g} : conf'[h] = conf[h] /\ (phase'[h] = phase[h] \/ (phase[h] = "ready" /\ phase'[h] = "failed"))
    BY <1>4 DEF Provision, provisionRuleMatchers
  <2>3. phase'[g] \in {"init", "redis", "distributed", "failed"} /\ (phase'[g] = "distributed" => conf'[g].type = "file")
    BY <1>4 DEF Provision, provisionRuleMatchers
  <2>4. ServesAll'
    BY <2>1, <2>2, <2>3 DEF ServesAll, Served
  <2>5. KeepsOne'
    BY <2>1, <2>2, <2>3 DEF KeepsOne, Kept
  <2>. QED BY <2>4, <2>5
<1>5. ASSUME NEW g \in Gens, InitGroupCacheRes(g) PROVE ServesAll' /\ KeepsOne'
  <2>0. phase[g] = "init" /\ UNCHANGED conf /\ server[g] = "none"
    BY <1>5, InitGroupEffect, Zenon DEF ServerMade
  <2>1. CASE /\ phase' = [phase EXCEPT ![g] = "send"]
             /\ srv' = g /\ server' = [server EXCEPT ![g] = "starting"]
             /\ \A h \in Gens : server[h] # "starting"
    <3>1. Served'
      BY <2>1 DEF Served
    <3>2. ASSUME NEW l \in Gens, Memory(l), phase[l] = "live" PROVE Kept'
      <4>1. PICK h \in Gens : server[h] = "up"
        BY <3>2, <2>1 DEF ServesAll, Served
      <4>. QED BY <4>1, <2>0, <2>1 DEF Kept
    <3>3. \A l \in Gens : phase'[l] = "live" /\ Memory(l)' => phase[l] = "live" /\ Memory(l)
      BY <2>0, <2>1
    <3>. QED BY <3>1, <3>2, <3>3 DEF ServesAll, KeepsOne
  <2>2. CASE Fail(g, "init") /\ UNCHANGED <<srv, server>>
    <3>1. \A h \in Gens : phase'[h] = phase[h] \/ (phase[h] \in {"init", "ready"} /\ phase'[h] = "failed")
      BY <2>2
    <3>2. ServesAll'
      BY <2>0, <2>2, <3>1 DEF ServesAll, Served
    <3>3. KeepsOne'
      BY <2>0, <2>2, <3>1 DEF KeepsOne, Kept
    <3>. QED BY <3>2, <3>3
  <2>. QED BY <1>5, <2>1, <2>2, InitGroupEffect, Zenon
<1>6. ASSUME NEW g \in Gens, SendNil(g) \/ Receive(g) \/ provisionDistributed(g) \/ SetConfig(g) \/ provisionRedisCache(g)
      PROVE  ServesAll' /\ KeepsOne'
  <2>1. UNCHANGED <<srv, server, conf>>
    BY <1>6 DEF SendNil, Receive, provisionDistributed, SetConfig, provisionRedisCache
  <2>2. phase[g] \in {"send", "receive", "distributed", "config"} \/ (phase[g] = "redis" /\ conf[g].type = "redis")
    BY <1>6 DEF SendNil, Receive, provisionDistributed, SetConfig, provisionRedisCache, Configured
  <2>3. \A h \in Gens \ {g} : phase'[h] = phase[h] \/ (phase[h] = "ready" /\ phase'[h] = "failed")
    BY <1>6 DEF SendNil, Receive, provisionDistributed, SetConfig, provisionRedisCache
  <2>4. phase'[g] \in {"receive", "distributed", "config", "ready", "failed"}
    BY <1>6 DEF SendNil, Receive, provisionDistributed, SetConfig, provisionRedisCache
  <2>5. ServesAll'
    BY <2>1, <2>2, <2>3 DEF ServesAll, Served
  <2>6. KeepsOne'
    BY <2>1, <2>2, <2>3, <2>4 DEF KeepsOne, Kept
  <2>. QED BY <2>5, <2>6
<1>7. ASSUME InUse PROVE ServesAll' /\ KeepsOne'
  <2>1. UNCHANGED <<srv, server, conf>> /\ \A h \in Gens : phase[h] \in {"none", "ready", "live", "gone"}
    BY <1>7 DEF InUse, Loaded
  <2>2. \A h \in Gens : phase'[h] = IF phase[h] = "ready" THEN "live" ELSE IF phase[h] = "live" THEN "old" ELSE phase[h]
    BY <1>7 DEF InUse
  <2>3. ServesAll'
    BY <2>1, <2>2 DEF ServesAll, Served
  <2>4. KeepsOne'
    <3> SUFFICES ASSUME NEW l \in Gens, NEW u \in Gens, Memory(l)', phase'[l] = "live", Memory(u)', phase'[u] \in Busy
                 PROVE  Kept'
      BY DEF KeepsOne
    <3>1. phase[l] = "ready" /\ phase[u] = "live" /\ l # u /\ Memory(l) /\ Memory(u)
      BY <2>1, <2>2
    <3>2. server[l] # "none"
      BY <3>1 DEF ServerMade
    <3>3. Kept
      BY <3>1, <3>2 DEF KeepsOne
    <3>. QED BY <2>1, <3>3 DEF Kept
  <2>. QED BY <2>3, <2>4
<1>8. ASSUME LoadFails PROVE ServesAll' /\ KeepsOne'
  <2>1. /\ UNCHANGED <<conf, srv, server>>
        /\ \A h \in Gens : phase'[h] = IF phase[h] = "ready" THEN "failed" ELSE phase[h]
    BY <1>8 DEF LoadFails
  <2>2. ServesAll'
    BY <2>1 DEF ServesAll, Served
  <2>3. KeepsOne'
    BY <2>1 DEF KeepsOne, Kept
  <2>. QED BY <2>2, <2>3
<1>9. ASSUME NEW g \in Gens, Cleanup(g) PROVE ServesAll' /\ KeepsOne'
  <2>1. phase[g] \in {"old", "failed"} /\ phase' = [phase EXCEPT ![g] = "gone"] /\ UNCHANGED <<conf, srv>>
    BY <1>9 DEF Cleanup
  <2>2. \A h \in Gens : phase[h] \notin Steps \cup {"ready"}
    BY <2>1, NothingLoads
  <2>3. CASE ~Memory(g)
    <3>1. server' = server
      BY <1>9, <2>1, <2>3 DEF Cleanup, Configured
    <3>2. ServesAll'
      BY <2>1, <3>1 DEF ServesAll, Served
    <3>3. KeepsOne'
      BY <2>1, <3>1 DEF KeepsOne, Kept
    <3>. QED BY <3>2, <3>3
  <2>4. CASE Memory(g)
    <3>1. \A h \in Gens : h # srv => server'[h] = server[h]
      BY <1>9 DEF Cleanup, ReleaseGroupCacheRes
    <3>2. server[g] # "none"
      <4>1. server[g] = "none" => server'[g] = "none"
        BY <1>9 DEF Cleanup, ReleaseGroupCacheRes
      <4>. QED BY <2>1, <2>4, <4>1 DEF Unmade
    <3>3. ASSUME NEW l \in Gens, Memory(l), phase[l] = "live" PROVE Served' /\ Kept'
      <4>1. Kept
        BY <2>1, <2>4, <3>2, <3>3 DEF KeepsOne
      <4>. QED BY <2>1, <3>1, <4>1 DEF Kept, Served
    <3>4. \A l \in Gens : phase'[l] \in {"send", "receive", "distributed", "config", "ready", "live"} => phase[l] = "live"
      BY <2>1, <2>2
    <3>5. \A l \in Gens : Memory(l)' => Memory(l)
      BY <2>1
    <3>6. ServesAll'
      BY <3>3, <3>4, <3>5 DEF ServesAll
    <3>7. KeepsOne'
      BY <3>3, <3>4, <3>5 DEF KeepsOne
    <3>. QED BY <3>6, <3>7
  <2>. QED BY <2>3, <2>4
<1>10. ASSUME NEW g \in Gens, ListenAndServe(g) PROVE ServesAll' /\ KeepsOne'
  <2>1. UNCHANGED <<phase, conf, srv>>
    BY <1>10, ListenEffect, Zenon
  <2>2. CASE server[g] = "starting" /\ server' = [server EXCEPT ![g] = "up"] /\ ~ \E h \in Gens \ {g} : server[h] = "up"
    <3>1. Served' /\ ~Kept
      BY <2>2 DEF Served, Kept
    <3>2. \A h \in Gens : server'[h] # "none" => server[h] # "none"
      BY <2>2
    <3>. QED BY <2>1, <3>1, <3>2 DEF ServesAll, KeepsOne
  <2>3. CASE /\ server[g] \in {"starting", "up"} /\ server' = [server EXCEPT ![g] = "error"]
             /\ \E h \in Gens \ {g} : server[h] = "up"
    <3>1. Served'
      BY <2>3 DEF Served
    <3>2. KeepsOne'
      <4>1. CASE server[g] = "starting"
        <5>1. Kept => Kept'
          BY <2>1, <2>3, <4>1 DEF Kept
        <5>2. \A h \in Gens : server'[h] # "none" => server[h] # "none"
          BY <2>3, <4>1
        <5>. QED BY <2>1, <5>1, <5>2 DEF KeepsOne
      <4>2. CASE server[g] = "up"
        BY <2>3, <4>2 DEF OneUp
      <4>. QED BY <2>3, <4>1, <4>2
    <3>. QED BY <2>1, <3>1, <3>2 DEF ServesAll
  <2>4. CASE server[g] = "closed" /\ server' = [server EXCEPT ![g] = "down"]
    <3>1. (Served => Served') /\ (Kept => Kept')
      BY <2>1, <2>4 DEF Served, Kept
    <3>2. \A h \in Gens : server'[h] # "none" => server[h] # "none"
      BY <2>4
    <3>. QED BY <2>1, <3>1, <3>2 DEF ServesAll, KeepsOne
  <2>5. ~refused'
    OBVIOUS
  <2>. QED BY <1>10, <2>2, <2>3, <2>4, <2>5, ListenEffect, Zenon
<1>11. ASSUME NEW g \in Gens, SendError(g) PROVE ServesAll' /\ KeepsOne'
  <2>1. UNCHANGED <<phase, conf, srv>> /\ server[g] = "error" /\ server' = [server EXCEPT ![g] = "down"]
    BY <1>11 DEF SendError
  <2>2. (Served => Served') /\ (Kept => Kept')
    BY <2>1 DEF Served, Kept
  <2>3. \A h \in Gens : server'[h] # "none" => server[h] # "none"
    BY <2>1
  <2>. QED BY <2>1, <2>2, <2>3 DEF ServesAll, KeepsOne
<1>12. CASE UNCHANGED <<phase, conf, srv, server>>
  BY <1>12 DEF ServesAll, KeepsOne, Served, Kept
<1>. QED BY <1>3, <1>4, <1>5, <1>6, <1>7, <1>8, <1>9, <1>10, <1>11, <1>12
         DEF Next, ProvisionStep, PurgeStep, vars, Put, cleanEntry, SetHost, SetPath, ReplaceKnown,
             ListKeys, PurgeReturn, Del

(* While the memory backend is in use its group is served, however often   *)
(* the configuration is reloaded and however many handlers it has, but for *)
(* a server made before the one before it was started, one that failed for *)
(* a reason of its own, and a load that failed before it had a server.     *)
THEOREM GroupStaysServed == Spec => []GroupServed
<1>1. Init => ServerMade /\ OneUp /\ ServedInv
  BY GensAssumption DEF Init, ServerMade, OneUp, ServedInv, ServesAll, KeepsOne, Memory
<1>2. IndInv /\ ServerMade /\ ServedInv => GroupServed
  <2> SUFFICES ASSUME IndInv, ServedInv, NEW g \in Running, conf[g].type = "memory", ~raced, ~refused, ~Unmade
               PROVE  \E h \in Gens : server[h] \in {"up", "starting"}
    BY DEF GroupServed, Unmade, Memory
  <2>1. g \in Gens /\ phase[g] = "live" /\ Memory(g)
    BY ConfigsAssumption DEF Running, Memory, IndInv, TypeOK, LoadInv, Configured
  <2>. QED BY <2>1 DEF ServedInv, ServesAll, Served
<1>. QED BY Induction, NextMade, NextOneUp, NextServed, <1>1, <1>2, PTL DEF Spec
=============================================================================
