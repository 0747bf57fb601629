---------------------------- MODULE MCLifecycle ----------------------------
(* Handlers with and without a server of the group, in a cluster or not,   *)
(* with one bucket or two; the second bucket is the key's.                 *)
EXTENDS Lifecycle, TLC

CONSTANTS p1, p2

Group == [type |-> "memory", buckets |-> 1, distributed |-> TRUE]
Files == [type |-> "file", buckets |-> 2, distributed |-> FALSE]
Redis == [type |-> "redis", buckets |-> 1, distributed |-> FALSE]
MCConfigs == {Group, Files, Redis}
MCKeys == {<<"h1", "x">>}
MCHash == [k \in Keys |-> 1]
MCCond == p1 :> <<"h1", "x">> @@ p2 :> <<"h2", AnyPath>>

(* Reloads of all kinds, of several handlers of the group, and of one      *)
(* while purge requests run.                                               *)
Reloads == [gens |-> 1 .. 3, configs |-> MCConfigs, purges |-> {}]
Groups == [gens |-> 1 .. 4, configs |-> {Group}, purges |-> {}]
Purging == [gens |-> 1 .. 2, configs |-> MCConfigs, purges |-> Purges]
MCSites == {Reloads, Groups, Purging}
=============================================================================
