----------------------------- MODULE MCCluster -----------------------------
(* Two nodes and a few responses.                                          *)
EXTENDS Cluster, TLC

CONSTANTS n1, n2
G == <<"G", "h", "a">>
P == <<"P", "k">>
A == <<"a">> \o G
MCChars == Cutset \cup {"G", "P"}
MCKeys == {G, P, A}
MCBucketOf == [k \in MCKeys |-> IF k = P THEN 1 ELSE 0]

(* Responses: variants with a body or without, and what has no Vary.       *)
Entry(n, k, r, vary, body, ages, id) ==
  [node |-> n, key |-> k, request |-> r, vary |-> vary, body |-> body, ages |-> ages, id |-> id]
V(n, k, r) == Entry(n, k, r, TRUE, TRUE, FALSE, 1)
Empty(n, k, r) == Entry(n, k, r, TRUE, FALSE, FALSE, 1)

(* Two variants, of which the node that is told makes one again; a third   *)
(* variant; a probe and a response that is fetched after it; two keys, and *)
(* one that begins with a letter of the prefix.                            *)
Again == [entries |-> {V(n1, G, 1), Empty(n2, G, 1), Empty(n2, G, 2), Entry(n2, G, 1, TRUE, FALSE, FALSE, 2)}, jobs |-> {n1} \X Locals]
Three == [entries |-> {Empty(n1, G, 1), Empty(n2, G, 1), Empty(n2, G, 2), Empty(n2, G, 3)}, jobs |-> {n1} \X Locals]
Probe == [entries |-> {Entry(n1, G, 1, FALSE, TRUE, FALSE, 1), Entry(n2, G, 1, FALSE, FALSE, FALSE, 1), Entry(n2, G, 1, FALSE, TRUE, FALSE, 1)}, jobs |-> Nodes \X Locals]
Both == [entries |-> {Empty(n1, G, 1), Empty(n2, G, 1), Empty(n1, P, 1), Empty(n2, P, 1)}, jobs |-> Nodes \X Locals]
Trim == [entries |-> {Empty(n1, G, 1), Empty(n2, G, 1), Empty(n1, A, 1), Empty(n2, A, 1)}, jobs |-> {n1} \X Locals]
Aging == [entries |-> {Entry(n1, G, 1, TRUE, TRUE, TRUE, 1), Entry(n2, G, 1, TRUE, TRUE, TRUE, 1)}, jobs |-> Nodes \X Locals]
Bodies == [entries |-> {V(n1, G, 1), V(n2, G, 1), V(n2, G, 2)}, jobs |-> {n1} \X Locals]
MCSites == {Again, Three, Probe, Both, Trim, Aging, Bodies}
MCEntries == UNION {s.entries : s \in MCSites}
=============================================================================
