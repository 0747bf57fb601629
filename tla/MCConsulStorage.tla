-------------------------- MODULE MCConsulStorage --------------------------
(* Two processes, one of them with two callers. *)
EXTENDS ConsulStorage, TLC

CONSTANTS s1, s2, a, b, c

MCStorageOf == a :> s1 @@ b :> s1 @@ c :> s2
=============================================================================
