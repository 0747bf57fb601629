----------------------------- MODULE MCHandler -----------------------------
(* Header values are sequences of characters, the empty one included; the *)
(* Vary line names one header.  In a cluster there are two requests.      *)
EXTENDS Handler, TLC

MCValues == {<<>>, <<"x">>}
OneName == <<[name |-> "A", blank |-> FALSE]>>
MCSites ==
  {[type |-> "memory", distributed |-> FALSE, vary |-> OneName, requests |-> 3, values |-> MCValues],
   [type |-> "file", distributed |-> FALSE, vary |-> OneName, requests |-> 3, values |-> {<<>>}],
   [type |-> "memory", distributed |-> TRUE, vary |-> <<>>, requests |-> 2, values |-> {<<>>}]}
RedisSite == {[type |-> "redis", distributed |-> FALSE, vary |-> <<>>, requests |-> 2, values |-> {<<>>}]}
Sym == Permutations(Requests)
=============================================================================
