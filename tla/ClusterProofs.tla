--------------------------- MODULE ClusterProofs ---------------------------
(***************************************************************************)
(* For any nodes, keys and entries: the key of a lock is found again in    *)
(* its name, no announced purge is forgotten, and no body is left without  *)
(* an entry or somebody to clean it.                                       *)
(***************************************************************************)
EXTENDS Cluster, SequenceTheorems, TLAPS

(* An array holds entries of its node and key up to a length. *)
EntriesOf(n, k) == {e \in Entries : e.node = n /\ e.key = k}
Filled(n, k, c, l) == \A j \in 1 .. l : heap[n][k][c][j] \in EntriesOf(n, k)

SliceOK == \A n \in Nodes, k \in Keys :
  slice[n][k].len <= slice[n][k].cap /\ Filled(n, k, slice[n][k].cap, slice[n][k].len)
WalkOK == \A a \in Actors : walk[a].len > 0 =>
  /\ walk[a].key \in Keys /\ walk[a].len <= walk[a].cap
  /\ Filled(NodeOf(a), walk[a].key, walk[a].cap, walk[a].len)
JobsOK == \A a \in Actors :
  /\ pc[a] \in Holding \cup {"clean"} => entry[a] # None
  /\ a[2] = "watch" /\ pc[a] # "idle" => walk[a].key \in Keys

(* What is still announced is fresh and in the index, and a Del that has   *)
(* nothing to excuse it has it still before it.                            *)
DueIndexed == \A e \in due : Indexed(e) /\ IsFresh(e)
InReach(e) ==
  LET w == <<e.node, "watch">> IN
  \/ pc[w] = "clean" /\ entry[w] = e
  \/ \E j \in walk[w].next .. walk[w].len : heap[e.node][e.key][walk[w].cap][j] = e
WillGo(e) == Deleting(e.node, e.key) /\ (e.node \in unsure \/ InReach(e))
Ann(e) ==
  \/ e.node \in changed /\ kv[e.key] \notin {None, e.node}
  \/ lockKey(e.key) \in work[e.node]
  \/ WillGo(e)
Announced == \A e \in due : Plain(e.key) => Ann(e)
SureShort == \A n \in Nodes, k \in Keys :
  Deleting(n, k) /\ n \notin unsure => slice[n][k].len <= 2

IndexOK == TypeOK /\ SliceOK /\ WalkOK /\ JobsOK
IndInv == IndexOK /\ DueIndexed /\ Announced /\ SureShort /\ BodiesIndexed

(* Whatever lock a watch shows, handleDeleteKey finds the key it is for if *)
(* that is a plain one.                                                    *)
LEMMA TrimBack == ASSUME NEW k \in Keys, Plain(k) PROVE trimmed(lockKey(k)) = k
<1> DEFINE p == Keyprefix \o <<"/">>
           s == p \o k
           kept == {i \in DOMAIN s : s[i] \notin Cutset}
<1>1. k \in Seq(Chars) /\ Len(k) \in Nat /\ Len(k) > 0 /\ k[1] \notin Cutset
  BY KeysAssumption, EmptySeq DEF Plain
<1>2. /\ Keyprefix \in Seq(Chars) /\ Len(Keyprefix) \in Nat /\ <<"/">> \in Seq(Chars)
      /\ \A i \in 1 .. Len(Keyprefix) : Keyprefix[i] \in Cutset
  BY CharsAssumption DEF Cutset
<1>3. /\ p \in Seq(Chars) /\ Len(p) = Len(Keyprefix) + 1
      /\ \A i \in 1 .. Len(p) :
           p[i] \in Cutset /\ (i <= Len(Keyprefix) => p[i] = Keyprefix[i])
  <2>1. \A i \in 1 .. Len(Keyprefix) + 1 :
          p[i] = IF i <= Len(Keyprefix) THEN Keyprefix[i] ELSE "/"
    BY <1>2, ConcatProperties
  <2>2. p \in Seq(Chars) /\ Len(p) = Len(Keyprefix) + 1
    BY <1>2, ConcatProperties
  <2>. QED BY <1>2, <2>1, <2>2 DEF Cutset
<1> HIDE DEF p
<1>4. /\ s \in Seq(Chars) /\ Len(s) = Len(p) + Len(k)
      /\ \A i \in 1 .. Len(s) : s[i] = IF i <= Len(p) THEN p[i] ELSE k[i - Len(p)]
  <2>1. \A i \in 1 .. Len(p) + Len(k) : s[i] = IF i <= Len(p) THEN p[i] ELSE k[i - Len(p)]
    BY <1>1, <1>3, ConcatProperties
  <2>2. s \in Seq(Chars) /\ Len(s) = Len(p) + Len(k)
    BY <1>1, <1>3, ConcatProperties
  <2>. QED BY <2>1, <2>2
<1>5. s = lockKey(k)
  BY DEF p, lockKey
<1> HIDE DEF s
<1>6. HasPrefix(s, Keyprefix)
  BY <1>1, <1>2, <1>3, <1>4 DEF HasPrefix
<1>7. Len(p) + 1 \in kept /\ \A i \in kept : i \in Nat /\ Len(p) + 1 <= i
  BY <1>1, <1>2, <1>3, <1>4
<1>8. Min(kept) = Len(p) + 1
  BY <1>2, <1>3, <1>7 DEF Min
<1>9. SubSeq(s, Len(p) + 1, Len(s)) = k
  BY <1>1, <1>2, <1>3, <1>4
<1>. QED BY <1>5, <1>6, <1>7, <1>8, <1>9 DEF trimmed, TrimLeft

-----------------------------------------------------------------------------
(* What the three ways to change a slice do to the arrays.                 *)

(* Every slot keeps its entry or gets another one of the same key; other   *)
(* keys' arrays stay as they are.                                          *)
Overwrites(n, k) ==
  /\ heap' \in [Nodes -> [Keys -> [Slots -> [Slots -> Entries \cup {None}]]]]
  /\ slice' \in [Nodes -> [Keys -> [cap : 0 .. MaxCap, len : 0 .. MaxCap]]]
  /\ \A m \in Nodes, q \in Keys : (m # n \/ q # k) => heap'[m][q] = heap[m][q] /\ slice'[m][q] = slice[m][q]
  /\ \A c, j \in Slots : heap'[n][k][c][j] = heap[n][k][c][j] \/ heap'[n][k][c][j] \in EntriesOf(n, k)

(* append keeps the entries there are and adds one.                        *)
LEMMA AppendEffect ==
  ASSUME IndexOK, NEW n \in Nodes, NEW k \in Keys, NEW e \in EntriesOf(n, k), AppendEntry(n, k, e)
  PROVE  /\ Overwrites(n, k)
         /\ slice'[n][k].len = slice[n][k].len + 1 /\ slice'[n][k].len <= slice'[n][k].cap
         /\ \A i \in 1 .. slice[n][k].len : At(n, k, i)' = At(n, k, i)
         /\ \A i \in Slots : i = slice[n][k].len + 1 => At(n, k, i)' = e
<1> DEFINE s == slice[n][k]
           c == IF s.len < s.cap THEN s.cap ELSE IF s.cap = 0 THEN 1 ELSE 2 * s.cap
           new == [i \in Slots |-> IF i <= s.len THEN At(n, k, i) ELSE IF i = s.len + 1 THEN e ELSE heap[n][k][c][i]]
<1>1. /\ s.cap \in 0 .. MaxCap /\ s.len \in 0 .. MaxCap /\ s.len <= s.cap /\ MaxCap \in Nat
      /\ heap[n][k] \in [Slots -> [Slots -> Entries \cup {None}]]
      /\ \A i \in 1 .. s.len : At(n, k, i) \in EntriesOf(n, k)
  BY CapAssumption DEF IndexOK, TypeOK, SliceOK, Filled, At
<1>2. c <= MaxCap /\ c \in 1 .. MaxCap /\ s.len < c
  <2>1. c <= MaxCap
    BY DEF AppendEntry
  <2>. QED BY <1>1, <2>1
<1>3. heap' = [heap EXCEPT ![n][k][c] = new]
  BY DEF AppendEntry
<1>4. slice' = [slice EXCEPT ![n][k] = [cap |-> c, len |-> s.len + 1]]
  BY DEF AppendEntry
<1> HIDE DEF c
<1>5. c \in Slots /\ s.len + 1 \in Slots
  BY <1>1, <1>2 DEF Slots
<1>6. /\ new \in [Slots -> Entries \cup {None}]
      /\ \A i \in Slots : new[i] = heap[n][k][c][i] \/ new[i] \in EntriesOf(n, k)
      /\ \A i \in 1 .. s.len : new[i] = At(n, k, i)
      /\ new[s.len + 1] = e
  BY <1>1, <1>5 DEF Slots, EntriesOf
<1> HIDE DEF new
<1>7. /\ heap'[n][k][c] = new
      /\ \A d \in Slots : d # c => heap'[n][k][d] = heap[n][k][d]
      /\ \A m \in Nodes, q \in Keys : (m # n \/ q # k) => heap'[m][q] = heap[m][q]
      /\ heap' \in [Nodes -> [Keys -> [Slots -> [Slots -> Entries \cup {None}]]]]
  BY <1>3, <1>5, <1>6 DEF IndexOK, TypeOK
<1>8. /\ slice'[n][k] = [cap |-> c, len |-> s.len + 1]
      /\ \A m \in Nodes, q \in Keys : (m # n \/ q # k) => slice'[m][q] = slice[m][q]
      /\ slice' \in [Nodes -> [Keys -> [cap : 0 .. MaxCap, len : 0 .. MaxCap]]]
  BY <1>1, <1>2, <1>4 DEF IndexOK, TypeOK
<1>9. Overwrites(n, k)
  BY <1>6, <1>7, <1>8 DEF Overwrites
<1>10. \A i \in Slots : At(n, k, i)' = new[i]
  BY <1>7, <1>8 DEF At
<1>. QED BY <1>1, <1>2, <1>5, <1>6, <1>8, <1>9, <1>10 DEF Slots

(* Replace changes one slot.                                               *)
LEMMA ReplaceEffect ==
  ASSUME IndexOK, NEW n \in Nodes, NEW k \in Keys, NEW e \in EntriesOf(n, k),
         NEW i \in 1 .. slice[n][k].len, Replace(n, k, i, e)
  PROVE  /\ Overwrites(n, k) /\ slice' = slice
         /\ At(n, k, i)' = e
         /\ \A c, j \in Slots : heap[n][k][c][j] # At(n, k, i) => heap'[n][k][c][j] = heap[n][k][c][j]
<1> DEFINE s == slice[n][k]
<1>1. /\ s.cap \in Slots /\ s.len \in Slots /\ s.len <= s.cap /\ i \in Slots
      /\ heap \in [Nodes -> [Keys -> [Slots -> [Slots -> Entries \cup {None}]]]]
  BY CapAssumption DEF IndexOK, TypeOK, SliceOK, Slots
<1>2. heap' = [heap EXCEPT ![n][k][s.cap][i] = e] /\ slice' = slice
  BY DEF Replace
<1>3. slice' \in [Nodes -> [Keys -> [cap : 0 .. MaxCap, len : 0 .. MaxCap]]]
  BY <1>2 DEF IndexOK, TypeOK
<1>4. e \in Entries /\ e \in EntriesOf(n, k)
  BY DEF EntriesOf
<1>5. /\ heap'[n][k][s.cap][i] = e
      /\ \A c, j \in Slots : (c # s.cap \/ j # i) => heap'[n][k][c][j] = heap[n][k][c][j]
      /\ \A m \in Nodes, q \in Keys : (m # n \/ q # k) => heap'[m][q] = heap[m][q]
      /\ heap' \in [Nodes -> [Keys -> [Slots -> [Slots -> Entries \cup {None}]]]]
  BY <1>1, <1>2, <1>4
<1>. QED BY <1>1, <1>2, <1>3, <1>4, <1>5 DEF Overwrites, At

(* cleanEntry takes one entry out and keeps the others; in a slice of at   *)
(* most two entries no other entry leaves its slot.                        *)
LEMMA RemoveEffect ==
  ASSUME IndexOK, NEW n \in Nodes, NEW k \in Keys, NEW i \in 1 .. slice[n][k].len, Remove(n, k, i)
  PROVE  /\ Overwrites(n, k)
         /\ slice'[n][k].len = slice[n][k].len - 1 /\ slice'[n][k].cap = slice[n][k].cap
         /\ \A j \in 1 .. slice[n][k].len - 1 : At(n, k, j)' = IF i <= j THEN At(n, k, j + 1) ELSE At(n, k, j)
         /\ slice[n][k].len <= 2 =>
              \A c, j \in Slots : heap[n][k][c][j] # At(n, k, i) => heap'[n][k][c][j] = heap[n][k][c][j]
<1> DEFINE s == slice[n][k]
           old == heap[n][k][s.cap]
           new == [j \in Slots |-> IF i <= j /\ j < s.len THEN old[j + 1] ELSE old[j]]
<1>1. /\ s.cap \in 1 .. MaxCap /\ s.len \in 1 .. MaxCap /\ s.len <= s.cap /\ i \in Slots /\ MaxCap \in Nat
      /\ old \in [Slots -> Entries \cup {None}]
      /\ \A j \in 1 .. s.len : old[j] \in EntriesOf(n, k)
  BY CapAssumption DEF IndexOK, TypeOK, SliceOK, Filled, Slots
<1>2. heap' = [heap EXCEPT ![n][k][s.cap] = new]
  BY DEF Remove
<1>3. slice' = [slice EXCEPT ![n][k] = [cap |-> s.cap, len |-> s.len - 1]]
  BY DEF Remove
<1>4. /\ new \in [Slots -> Entries \cup {None}]
      /\ \A j \in Slots : new[j] = old[j] \/ new[j] \in EntriesOf(n, k)
      /\ \A j \in 1 .. s.len - 1 : new[j] = IF i <= j THEN old[j + 1] ELSE old[j]
      /\ s.len <= 2 => \A j \in Slots : old[j] # old[i] => new[j] = old[j]
  <2>1. \A j \in Slots : new[j] = IF i <= j /\ j < s.len THEN old[j + 1] ELSE old[j]
    OBVIOUS
  <2>2. \A j \in Slots : i <= j /\ j < s.len => j + 1 \in 1 .. s.len /\ j + 1 \in Slots
    BY <1>1 DEF Slots
  <2>3. s.len <= 2 => \A j \in Slots : i <= j /\ j < s.len => j = i
    BY <1>1 DEF Slots
  <2>4. \A j \in Slots : new[j] \in Entries \cup {None}
    BY <1>1, <2>1, <2>2
  <2>5. 1 .. s.len - 1 \subseteq Slots /\ \A j \in 1 .. s.len - 1 : j < s.len
    BY <1>1 DEF Slots
  <2>. QED BY <1>1, <2>1, <2>2, <2>3, <2>4, <2>5
<1> HIDE DEF new
<1>5. /\ heap'[n][k][s.cap] = new
      /\ \A d \in Slots : d # s.cap => heap'[n][k][d] = heap[n][k][d]
      /\ \A m \in Nodes, q \in Keys : (m # n \/ q # k) => heap'[m][q] = heap[m][q]
      /\ heap' \in [Nodes -> [Keys -> [Slots -> [Slots -> Entries \cup {None}]]]]
  BY <1>1, <1>2, <1>4 DEF IndexOK, TypeOK, Slots
<1>6. /\ slice'[n][k].cap = s.cap /\ slice'[n][k].len = s.len - 1
      /\ \A m \in Nodes, q \in Keys : (m # n \/ q # k) => slice'[m][q] = slice[m][q]
      /\ slice' \in [Nodes -> [Keys -> [cap : 0 .. MaxCap, len : 0 .. MaxCap]]]
  BY <1>1, <1>3 DEF IndexOK, TypeOK
<1>7. Overwrites(n, k)
  BY <1>4, <1>5, <1>6 DEF Overwrites
<1>8. \A j \in 1 .. s.len - 1 : At(n, k, j)' = IF i <= j THEN At(n, k, j + 1) ELSE At(n, k, j)
  BY <1>4, <1>5, <1>6 DEF At
<1>. QED BY <1>4, <1>5, <1>6, <1>7, <1>8 DEF At

(* Arrays stay filled.                                                     *)
LEMMA FilledKept ==
  ASSUME IndexOK, NEW n \in Nodes, NEW k \in Keys, Overwrites(n, k),
         NEW m \in Nodes, NEW q \in Keys, NEW c \in Slots, NEW l \in 0 .. MaxCap, Filled(m, q, c, l)
  PROVE  Filled(m, q, c, l)'
<1>1. 1 .. l \subseteq Slots
  BY CapAssumption DEF Slots
<1>. QED BY <1>1 DEF Filled, Overwrites

(* So what a Del walks over is entries of its key.                         *)
LEMMA WalkKept ==
  ASSUME IndexOK, NEW n \in Nodes, NEW k \in Keys, Overwrites(n, k), walk' = walk
  PROVE  WalkOK'
<1> SUFFICES ASSUME NEW a \in Actors, walk[a].len > 0
             PROVE  /\ walk[a].key \in Keys /\ walk[a].len <= walk[a].cap
                    /\ Filled(NodeOf(a), walk[a].key, walk[a].cap, walk[a].len)'
  BY DEF WalkOK, Filled
<1>1. /\ walk[a].key \in Keys /\ walk[a].len <= walk[a].cap
      /\ Filled(NodeOf(a), walk[a].key, walk[a].cap, walk[a].len)
  BY DEF IndexOK, WalkOK
<1>2. NodeOf(a) \in Nodes /\ walk[a].cap \in Slots /\ walk[a].len \in 0 .. MaxCap
  BY <1>1, CapAssumption DEF IndexOK, TypeOK, Actors, NodeOf, Slots
<1>3. ASSUME NEW m, NEW q, NEW c, NEW l, m = NodeOf(a), q = walk[a].key, c = walk[a].cap, l = walk[a].len
      PROVE  Filled(m, q, c, l)'
  BY <1>1, <1>2, <1>3, FilledKept
<1>. QED BY <1>1, <1>3 DEF Filled

(* Put adds its entry; what it replaces is to be cleaned.                  *)
LEMMA PutEffect ==
  ASSUME IndexOK, NEW e \in Entries, Put(e)
  PROVE  /\ Overwrites(e.node, e.key) /\ SliceOK' /\ Indexed(e)'
         /\ replaced \subseteq replaced' /\ replaced' \subseteq Entries
         /\ due' \subseteq due /\ unsure \subseteq unsure' /\ unsure' \subseteq unsure \cup {e.node}
         /\ \A f \in Entries : Indexed(f) => Indexed(f)' \/ (f \in replaced' /\ f \notin due')
         /\ \/ Deleting(e.node, e.key) => e.node \in unsure'
            \/ /\ slice' = slice
               /\ \A f \in due', c, j \in Slots :
                    heap[e.node][e.key][c][j] = f => heap'[e.node][e.key][c][j] = f
<1> DEFINE n == e.node
           k == e.key
<1>1. n \in Nodes /\ k \in Keys /\ e \in EntriesOf(n, k)
  BY EntriesAssumption DEF EntriesOf
<1>2. /\ slice[n][k].len \in 0 .. MaxCap /\ slice[n][k].cap \in 0 .. MaxCap
      /\ slice[n][k].len <= slice[n][k].cap /\ MaxCap \in Nat
      /\ \A i \in 1 .. slice[n][k].len : At(n, k, i) \in EntriesOf(n, k)
  BY <1>1, CapAssumption DEF IndexOK, TypeOK, SliceOK, Filled, At
<1>3. \A f \in Entries : Indexed(f) =>
        \E i \in 1 .. slice[f.node][f.key].len : At(f.node, f.key, i) = f
  BY DEF Indexed, InSlice
<1>4. ASSUME NEW f \in Entries, NEW i \in 1 .. slice'[f.node][f.key].len, At(f.node, f.key, i)' = f
      PROVE  Indexed(f)'
  BY <1>4 DEF Indexed, InSlice
<1>5. ASSUME Overwrites(n, k), NEW m \in Nodes, NEW q \in Keys, m # n \/ q # k
      PROVE  slice'[m][q] = slice[m][q] /\ \A i : At(m, q, i)' = At(m, q, i)
  BY <1>5 DEF Overwrites, At
<1>6. CASE AppendEntry(n, k, e)
  <2>1. /\ Overwrites(n, k)
        /\ slice'[n][k].len = slice[n][k].len + 1 /\ slice'[n][k].len <= slice'[n][k].cap
        /\ \A i \in 1 .. slice[n][k].len : At(n, k, i)' = At(n, k, i)
        /\ \A i \in Slots : i = slice[n][k].len + 1 => At(n, k, i)' = e
    BY <1>1, <1>6, AppendEffect
  <2>2. slice'[n][k].len \in Slots /\ slice'[n][k].cap \in 0 .. MaxCap
    BY <1>1, <1>2, <2>1 DEF Overwrites, Slots
  <2>3. Indexed(e)'
    BY <1>2, <2>1, <2>2, <1>4
  <2>4. ASSUME NEW f \in Entries, Indexed(f) PROVE Indexed(f)'
    <3>1. f.node \in Nodes /\ f.key \in Keys
      BY EntriesAssumption
    <3>2. PICK i \in 1 .. slice[f.node][f.key].len : At(f.node, f.key, i) = f
      BY <2>4, <1>3
    <3>3. CASE f.node = n /\ f.key = k
      BY <1>2, <2>1, <3>2, <3>3, <1>4
    <3>4. CASE f.node # n \/ f.key # k
      BY <1>5, <2>1, <3>1, <3>2, <3>4, <1>4
    <3>. QED BY <3>3, <3>4
  <2>5. SliceOK'
    <3> SUFFICES ASSUME NEW m \in Nodes, NEW q \in Keys
                 PROVE  /\ slice'[m][q].len <= slice'[m][q].cap
                        /\ \A j \in 1 .. slice'[m][q].len : At(m, q, j)' \in EntriesOf(m, q)
      BY DEF SliceOK, Filled, At
    <3>1. CASE m = n /\ q = k
      <4>1. \A j \in 1 .. slice'[n][k].len : j \in 1 .. slice[n][k].len \/ (j \in Slots /\ j = slice[n][k].len + 1)
        BY <1>2, <2>1, <2>2 DEF Slots
      <4>. QED BY <1>1, <1>2, <2>1, <3>1, <4>1
    <3>2. CASE m # n \/ q # k
      <4>1. /\ slice[m][q].len <= slice[m][q].cap
            /\ \A j \in 1 .. slice[m][q].len : At(m, q, j) \in EntriesOf(m, q)
        BY DEF IndexOK, SliceOK, Filled, At
      <4>. QED BY <1>5, <2>1, <3>2, <4>1
    <3>. QED BY <3>1, <3>2
  <2>6. replaced' = replaced /\ due' = due /\ unsure' = IF Deleting(n, k) THEN unsure \cup {n} ELSE unsure
    BY <1>6 DEF AppendEntry
  <2>. QED BY <2>1, <2>3, <2>4, <2>5, <2>6 DEF IndexOK, TypeOK
<1>7. CASE \E i \in 1 .. slice[n][k].len : Replace(n, k, i, e)
  <2>1. PICK i \in 1 .. slice[n][k].len : Replace(n, k, i, e)
    BY <1>7
  <2>2. /\ Overwrites(n, k) /\ slice' = slice
        /\ At(n, k, i)' = e
        /\ \A c, j \in Slots : heap[n][k][c][j] # At(n, k, i) => heap'[n][k][c][j] = heap[n][k][c][j]
    BY <1>1, <2>1, ReplaceEffect
  <2>3. replaced' = replaced \cup {At(n, k, i)} /\ due' = due \ {At(n, k, i)} /\ unsure' = unsure
    BY <2>1 DEF Replace
  <2>4. Indexed(e)'
    BY <2>2, <1>4
  <2>5. \A j \in 1 .. slice[n][k].len : At(n, k, j) # At(n, k, i) => At(n, k, j)' = At(n, k, j)
    <3>1. \A j \in 1 .. slice[n][k].len : j \in Slots /\ slice[n][k].cap \in Slots
      BY <1>2 DEF Slots
    <3>. QED BY <2>2, <3>1 DEF At
  <2>6. ASSUME NEW f \in Entries, Indexed(f), f # At(n, k, i) PROVE Indexed(f)'
    <3>1. f.node \in Nodes /\ f.key \in Keys
      BY EntriesAssumption
    <3>2. PICK j \in 1 .. slice[f.node][f.key].len : At(f.node, f.key, j) = f
      BY <2>6, <1>3
    <3>3. CASE f.node = n /\ f.key = k
      BY <2>2, <2>5, <2>6, <3>2, <3>3, <1>4
    <3>4. CASE f.node # n \/ f.key # k
      BY <1>5, <2>2, <3>1, <3>2, <3>4, <1>4
    <3>. QED BY <3>3, <3>4
  <2>7. SliceOK'
    <3> SUFFICES ASSUME NEW m \in Nodes, NEW q \in Keys
                 PROVE  /\ slice'[m][q].len <= slice'[m][q].cap
                        /\ \A j \in 1 .. slice'[m][q].len : At(m, q, j)' \in EntriesOf(m, q)
      BY DEF SliceOK, Filled, At
    <3>1. /\ slice[m][q].len <= slice[m][q].cap
          /\ \A j \in 1 .. slice[m][q].len : At(m, q, j) \in EntriesOf(m, q)
          /\ slice[m][q].len \in 0 .. MaxCap /\ slice[m][q].cap \in 0 .. MaxCap
      BY DEF IndexOK, TypeOK, SliceOK, Filled, At
    <3>2. \A j \in 1 .. slice[m][q].len : j \in Slots /\ slice[m][q].cap \in Slots
      BY <3>1, CapAssumption DEF Slots
    <3>3. \A j \in 1 .. slice[m][q].len : At(m, q, j)' = At(m, q, j) \/ At(m, q, j)' \in EntriesOf(m, q)
      BY <1>1, <2>2, <3>2 DEF Overwrites, At
    <3>. QED BY <2>2, <3>1, <3>3
  <2>8. At(n, k, i) \in Entries
    BY <1>2 DEF EntriesOf
  <2>. QED BY <2>2, <2>3, <2>4, <2>6, <2>7, <2>8 DEF IndexOK, TypeOK
<1>. QED BY <1>6, <1>7 DEF Put

(* cleanEntry takes its entry out, or does not find it.                    *)
LEMMA RemoveKeeps ==
  ASSUME IndexOK, NEW e \in Entries,
         NEW i \in 1 .. slice[e.node][e.key].len, At(e.node, e.key, i) = e, Remove(e.node, e.key, i)
  PROVE  /\ Overwrites(e.node, e.key) /\ SliceOK'
         /\ slice'[e.node][e.key].len = slice[e.node][e.key].len - 1
         /\ \A f \in Entries : Indexed(f) /\ f # e => Indexed(f)'
         /\ slice[e.node][e.key].len <= 2 => \A f \in Entries \ {e}, c, j \in Slots :
              heap[e.node][e.key][c][j] = f => heap'[e.node][e.key][c][j] = f
<1> DEFINE n == e.node
           k == e.key
           l == slice[n][k].len
<1>1. n \in Nodes /\ k \in Keys
  BY EntriesAssumption
<1>2. /\ l \in 0 .. MaxCap /\ slice[n][k].cap \in 0 .. MaxCap
      /\ l <= slice[n][k].cap /\ MaxCap \in Nat
      /\ \A j \in 1 .. l : At(n, k, j) \in EntriesOf(n, k)
  BY <1>1, CapAssumption DEF IndexOK, TypeOK, SliceOK, Filled, At
<1>3. /\ Overwrites(n, k)
      /\ slice'[n][k].len = l - 1 /\ slice'[n][k].cap = slice[n][k].cap
      /\ \A j \in 1 .. l - 1 : At(n, k, j)' = IF i <= j THEN At(n, k, j + 1) ELSE At(n, k, j)
      /\ l <= 2 => \A c, j \in Slots : heap[n][k][c][j] # At(n, k, i) => heap'[n][k][c][j] = heap[n][k][c][j]
  BY <1>1, RemoveEffect
<1>4. ASSUME NEW m \in Nodes, NEW q \in Keys, m # n \/ q # k
      PROVE  slice'[m][q] = slice[m][q] /\ \A j : At(m, q, j)' = At(m, q, j)
  BY <1>3, <1>4 DEF Overwrites, At
<1>5. ASSUME NEW f \in Entries, Indexed(f), f # e PROVE Indexed(f)'
  <2>1. f.node \in Nodes /\ f.key \in Keys
    BY EntriesAssumption
  <2>2. PICK j \in 1 .. slice[f.node][f.key].len : At(f.node, f.key, j) = f
    BY <1>5 DEF Indexed, InSlice
  <2>3. CASE f.node = n /\ f.key = k
    <3>1. \E h \in 1 .. l - 1 : At(n, k, h)' = f
      <4>1. CASE j < i
        BY <1>2, <1>3, <2>2, <2>3, <4>1
      <4>2. CASE j > i
        <5>1. j - 1 \in 1 .. l - 1 /\ i <= j - 1 /\ (j - 1) + 1 = j
          BY <1>2, <2>2, <2>3, <4>2
        <5>. QED BY <1>3, <2>2, <2>3, <5>1
      <4>3. CASE j = i
        BY <1>5, <2>2, <2>3, <4>3
      <4>. QED BY <1>2, <2>2, <2>3, <4>1, <4>2, <4>3
    <3>. QED BY <1>3, <2>3, <3>1 DEF Indexed, InSlice
  <2>4. CASE f.node # n \/ f.key # k
    BY <1>4, <2>1, <2>2, <2>4 DEF Indexed, InSlice
  <2>. QED BY <2>3, <2>4
<1>6. SliceOK'
  <2> SUFFICES ASSUME NEW m \in Nodes, NEW q \in Keys
               PROVE  /\ slice'[m][q].len <= slice'[m][q].cap
                      /\ \A j \in 1 .. slice'[m][q].len : At(m, q, j)' \in EntriesOf(m, q)
    BY DEF SliceOK, Filled, At
  <2>1. CASE m = n /\ q = k
    <3>1. \A j \in 1 .. l - 1 : j \in 1 .. l /\ j + 1 \in 1 .. l
      BY <1>2
    <3>2. \A j \in 1 .. l - 1 : At(n, k, j)' \in EntriesOf(n, k)
      BY <1>2, <1>3, <3>1
    <3>3. l - 1 <= slice[n][k].cap
      BY <1>2
    <3>. QED BY <1>3, <2>1, <3>2, <3>3
  <2>2. CASE m # n \/ q # k
    <3>1. /\ slice[m][q].len <= slice[m][q].cap
          /\ \A j \in 1 .. slice[m][q].len : At(m, q, j) \in EntriesOf(m, q)
      BY DEF IndexOK, SliceOK, Filled, At
    <3>. QED BY <1>4, <2>2, <3>1
  <2>. QED BY <2>1, <2>2
<1>. QED BY <1>3, <1>5, <1>6

-----------------------------------------------------------------------------
(* Every step keeps the invariant, one conjunct at a time.                 *)

(* A walk goes on over the same array.                                     *)
LEMMA TurnFields ==
  ASSUME NEW w, NEW l, NEW x
  PROVE  Turn(w, l, x).key = w.key /\ Turn(w, l, x).cap = w.cap /\ Turn(w, l, x).len = l /\ Turn(w, l, x).next = x
  BY DEF Turn

(* Del and the end of distributedClean, as far as types go.                *)
LEMMA DelTypes ==
  ASSUME IndInv, NEW a \in Actors, NEW k, Del(a, k), entry' = entry, UNCHANGED index
  PROVE  /\ pc' \in [Actors -> {"idle", "walk", "clean"} \cup Holding]
         /\ walk' \in [Actors -> [key : Keys \cup {None}, cap : 0 .. MaxCap, len : 0 .. MaxCap, next : 1 .. MaxCap + 1]]
         /\ unsure' \subseteq Nodes /\ unsure \subseteq unsure' /\ JobsOK' /\ WalkOK'
         /\ \A b \in Actors \ {a} : pc'[b] = pc[b] /\ walk'[b] = walk[b]
<1> USE NoneAssumption, CapAssumption DEF IndInv, IndexOK, TypeOK, JobsOK, Actors, NodeOf
<1>1. CASE UNCHANGED <<pc, walk, unsure>>
  BY <1>1 DEF WalkOK, Filled, index
<1> DEFINE s == slice[NodeOf(a)][k]
           w == [key |-> k, cap |-> s.cap, len |-> s.len, next |-> 1]
<1>2. CASE /\ k \in Keys /\ Goto(a, "idle", "walk") /\ walk' = [walk EXCEPT ![a] = w]
           /\ unsure' = IF a[2] = "watch" /\ s.len > 2 THEN unsure \cup {NodeOf(a)} ELSE unsure
  <2>1. /\ k \in Keys /\ Goto(a, "idle", "walk") /\ walk' = [walk EXCEPT ![a] = w]
        /\ unsure' = IF a[2] = "watch" /\ s.len > 2 THEN unsure \cup {NodeOf(a)} ELSE unsure
    BY <1>2
  <2>2. NodeOf(a) \in Nodes /\ s.cap \in 0 .. MaxCap /\ s.len \in 0 .. MaxCap
    BY <2>1
  <2>3. w \in [key : Keys \cup {None}, cap : 0 .. MaxCap, len : 0 .. MaxCap, next : 1 .. MaxCap + 1]
    BY <2>1, <2>2
  <2>4. s.len <= s.cap /\ Filled(NodeOf(a), k, s.cap, s.len)
    BY <2>1, <2>2 DEF SliceOK
  <2>5. WalkOK'
    <3>1. \A b \in Actors : walk'[b] = IF b = a THEN w ELSE walk[b]
      BY <2>1
    <3>. QED BY <2>1, <2>4, <3>1 DEF WalkOK, Filled, index
  <2> HIDE DEF w
  <2>6. \A b \in Actors : walk'[b] = IF b = a THEN w ELSE walk[b]
    BY <2>1
  <2>7. w.key \in Keys
    BY <2>1 DEF w
  <2>8. \A b \in Actors : pc'[b] = IF b = a THEN "walk" ELSE pc[b]
    BY <2>1 DEF Goto
  <2>9. JobsOK'
    BY <2>6, <2>7, <2>8 DEF Holding
  <2>10. pc' \in [Actors -> {"idle", "walk", "clean"} \cup Holding]
    BY <2>1 DEF Goto
  <2>11. unsure' \subseteq Nodes /\ unsure \subseteq unsure'
    BY <2>1, <2>2
  <2>. QED BY <2>1, <2>3, <2>5, <2>6, <2>8, <2>9, <2>10, <2>11
<1>. QED BY <1>1, <1>2 DEF Del

(* distributedClean returns: only its actor changes.                       *)
LEMMA DoneTypes ==
  ASSUME IndInv, NEW a \in Actors, NEW from, from # "idle", NEW err, Done(a, from, err), UNCHANGED index
  PROVE  /\ pc' \in [Actors -> {"idle", "walk", "clean"} \cup Holding]
         /\ walk' \in [Actors -> [key : Keys \cup {None}, cap : 0 .. MaxCap, len : 0 .. MaxCap, next : 1 .. MaxCap + 1]]
         /\ entry' \in [Actors -> Entries \cup {None}]
         /\ unsure' \subseteq Nodes /\ unsure \subseteq unsure' /\ JobsOK' /\ WalkOK'
         /\ pc[a] = from /\ pc'[a] = "walk"
         /\ \A b \in Actors \ {a} : pc'[b] = pc[b] /\ walk'[b] = walk[b] /\ entry'[b] = entry[b]
<1> USE NoneAssumption, CapAssumption DEF IndInv, IndexOK, TypeOK, JobsOK, Actors, NodeOf, Done, Goto
<1>1. \A b \in Actors : walk'[b] = walk[b] \/ (b = a /\ walk'[b] = Turn(walk[b], 0, walk[b].next))
  <2>1. CASE err
    BY <2>1
  <2>2. CASE ~err
    BY <2>2
  <2>. QED BY <2>1, <2>2
<1>2. walk' \in [Actors -> [key : Keys \cup {None}, cap : 0 .. MaxCap, len : 0 .. MaxCap, next : 1 .. MaxCap + 1]]
  <2>1. CASE err
    BY <2>1 DEF Turn
  <2>2. CASE ~err
    BY <2>2
  <2>. QED BY <2>1, <2>2
<1>3. WalkOK'
  BY <1>1 DEF WalkOK, Filled, index, Turn
<1>4. unsure' \subseteq Nodes /\ unsure \subseteq unsure'
  OBVIOUS
<1>5. \A b \in Actors : walk'[b].key = walk[b].key
  BY <1>1 DEF Turn
<1>6. JobsOK'
  BY <1>5 DEF Holding
<1>. QED BY <1>1, <1>2, <1>3, <1>4, <1>6

(* A step keeps the types, and what actors have to do.                     *)
LEMMA NextType == IndInv /\ [Next]_vars => TypeOK' /\ JobsOK'
<1> USE EntriesAssumption, NoneAssumption, LocalsAssumption, CapAssumption
    DEF IndInv, IndexOK, TypeOK, JobsOK, Actors, NodeOf, Goto, Holding, index, entryVars, jobVars, watchVars, history
<1> SUFFICES ASSUME IndInv, [Next]_vars PROVE TypeOK' /\ JobsOK'
  OBVIOUS
<1>1. ASSUME NEW a \in Actors, NEW k \in Keys, Purge(a, k), site' = site PROVE TypeOK' /\ JobsOK'
  BY <1>1, DelTypes DEF Purge
<1>2. ASSUME NEW a \in Actors, Visit(a), site' = site PROVE TypeOK' /\ JobsOK'
  <2> DEFINE w == walk[a]
             f == heap[NodeOf(a)][w.key][w.cap][w.next]
  <2>1. /\ w.next <= w.len /\ walk' = [walk EXCEPT ![a] = Turn(w, w.len, w.next + 1)] /\ pc[a] = "walk"
        /\ UNCHANGED <<index, entryVars, group, kv, watchVars, history>>
    BY <1>2 DEF Visit
  <2>2. w.len \in 0 .. MaxCap /\ w.next \in 1 .. MaxCap + 1 /\ w.cap \in 0 .. MaxCap
    OBVIOUS
  <2>3. w.next \in 1 .. w.len /\ w.len > 0 /\ w.next + 1 \in 1 .. MaxCap + 1
    BY <2>1, <2>2
  <2>4. f \in Entries
    BY <2>3 DEF WalkOK, Filled, EntriesOf
  <2> HIDE DEF f
  <2>5. /\ walk' \in [Actors -> [key : Keys \cup {None}, cap : 0 .. MaxCap, len : 0 .. MaxCap, next : 1 .. MaxCap + 1]]
        /\ \A b \in Actors : walk'[b].key = walk[b].key
    BY <2>1, <2>2, <2>3 DEF Turn
  <2>6. \/ pc' = [pc EXCEPT ![a] = "clean"] /\ entry' = [entry EXCEPT ![a] = f]
        \/ pc' = [pc EXCEPT ![a] = "walk"] /\ entry' = entry
    BY <1>2 DEF Visit, f
  <2>7. entry' \in [Actors -> Entries \cup {None}]
    BY <2>4, <2>6
  <2>9. pc' \in [Actors -> {"idle", "walk", "clean"} \cup Holding]
    BY <2>6
  <2>8. JobsOK'
    BY <2>1, <2>4, <2>5, <2>6
  <2>. QED BY <1>2, <2>1, <2>5, <2>7, <2>8, <2>9
<1>3. ASSUME NEW a \in Actors, Return(a), site' = site PROVE TypeOK' /\ JobsOK'
  BY <1>3 DEF Return, NoWalk
<1>4. ASSUME NEW a \in Actors, CleanEntry(a), site' = site PROVE TypeOK' /\ JobsOK'
  <2>1. /\ pc[a] = "clean" /\ entry[a] \in Entries /\ site' = site
        /\ UNCHANGED <<put, closed, stale, replaced, group, walk, kv, changed, work, unsure, orphans>>
    BY <1>4 DEF CleanEntry
  <2>2. CASE UNCHANGED <<heap, slice, due>>
    BY <1>4, <2>1, <2>2 DEF CleanEntry
  <2>3. CASE /\ pc' = [pc EXCEPT ![a] = "lock"] /\ entry' = entry /\ due' = due \ {entry[a]}
             /\ \E i \in 1 .. slice[entry[a].node][entry[a].key].len :
                  At(entry[a].node, entry[a].key, i) = entry[a] /\ Remove(entry[a].node, entry[a].key, i)
    <3>1. Overwrites(entry[a].node, entry[a].key)
      BY <2>1, <2>3, RemoveKeeps
    <3>. QED BY <2>1, <2>3, <3>1 DEF Overwrites
  <2>. QED BY <1>4, <2>2, <2>3 DEF CleanEntry
<1>5. ASSUME NEW a \in Actors, LockFails(a), site' = site PROVE TypeOK' /\ JobsOK'
  <2>1. PICK from \in {"lock", "sleep", "failed"}, err \in BOOLEAN : Done(a, from, err)
    BY <1>5 DEF LockFails
  <2>. QED BY <1>5, <2>1, DoneTypes DEF LockFails
<1>6. ASSUME NEW a \in Actors, Elected(a), site' = site PROVE TypeOK' /\ JobsOK'
  BY <1>6 DEF Elected
<1>7. ASSUME NEW a \in Actors, NotElected(a), site' = site PROVE TypeOK' /\ JobsOK'
  <2>1. PICK from \in {"lock", "sleep", "failed"}, err \in BOOLEAN : Done(a, from, err)
    BY <1>7 DEF NotElected
  <2>. QED BY <1>7, <2>1, DoneTypes DEF NotElected
<1>8. ASSUME NEW a \in Actors, Clean(a), site' = site PROVE TypeOK' /\ JobsOK'
  BY <1>8 DEF Clean
<1>9. ASSUME NEW a \in Actors, Unlock(a), site' = site PROVE TypeOK' /\ JobsOK'
  <2>1. PICK from \in {"lock", "sleep", "failed"}, err \in BOOLEAN : Done(a, from, err)
    BY <1>9 DEF Unlock
  <2>2. UNCHANGED <<index, entryVars, group, orphans>>
    BY <1>9 DEF Unlock
  <2>3. kv' \in [Keys -> Nodes \cup {None}] /\ changed' \subseteq Nodes /\ due' \subseteq due /\ work' = work
    BY <1>9 DEF Unlock, Gone
  <2>. QED BY <1>9, <2>1, <2>2, <2>3, DoneTypes
<1>10. ASSUME NEW e \in Entries, Put(e), site' = site PROVE TypeOK' /\ JobsOK'
  BY <1>10, PutEffect DEF Put, Overwrites
<1>11. ASSUME NEW e \in Entries, Close(e), site' = site PROVE TypeOK' /\ JobsOK'
  BY <1>11 DEF Close
<1>12. ASSUME NEW e \in Entries, Expire(e), site' = site PROVE TypeOK' /\ JobsOK'
  BY <1>12 DEF Expire
<1>13. ASSUME NEW e \in Entries, CleanReplaced(e), site' = site PROVE TypeOK' /\ JobsOK'
  BY <1>13 DEF CleanReplaced
<1>14. ASSUME NEW e \in Entries, NEW s, s = Store(e), Evict(s), site' = site PROVE TypeOK' /\ JobsOK'
  BY <1>14 DEF Evict
<1>15. ASSUME NEW e \in Entries, NEW a \in Actors, Wake(a, e), site' = site PROVE TypeOK' /\ JobsOK'
  BY <1>15 DEF Wake
<1>16. ASSUME NEW n \in Nodes, Fetch(n), site' = site PROVE TypeOK' /\ JobsOK'
  BY <1>16 DEF Fetch
<1>17. ASSUME NEW n \in Nodes, NEW s \in work[n], handleDeleteKey(n, s), site' = site PROVE TypeOK' /\ JobsOK'
  BY <1>17, DelTypes DEF handleDeleteKey
<1>18. ASSUME NEW k \in Keys, SessionLost(k), site' = site PROVE TypeOK' /\ JobsOK'
  BY <1>18 DEF SessionLost, Gone
<1>19. CASE UNCHANGED vars
  BY <1>19 DEF vars, index, entryVars, jobVars, watchVars, history
<1>20. site.entries \subseteq Entries
  BY EntriesAssumption DEF IndInv, IndexOK, TypeOK
<1>. QED BY <1>1, <1>2, <1>3, <1>4, <1>5, <1>6, <1>7, <1>8, <1>9, <1>10, <1>11, <1>12, <1>13, <1>14, <1>15, <1>16, <1>17, <1>18, <1>19, <1>20 DEF Next, Step, Life, Watch

(* A step keeps slices and walks full of entries.                          *)
LEMMA NextIndex == IndInv /\ [Next]_vars => SliceOK' /\ WalkOK'
<1> USE EntriesAssumption DEF index, entryVars, jobVars, watchVars, history
<1> SUFFICES ASSUME IndInv, [Next]_vars PROVE SliceOK' /\ WalkOK'
  OBVIOUS
<1>1. ASSUME NEW a \in Actors, NEW k \in Keys, Purge(a, k), site' = site PROVE SliceOK' /\ WalkOK'
  BY <1>1, DelTypes DEF Purge, IndInv, IndexOK, SliceOK, Filled
<1>2. ASSUME NEW a \in Actors, Visit(a), site' = site PROVE SliceOK' /\ WalkOK'
  <2>1. /\ \A b \in Actors : walk'[b] = walk[b] \/ (b = a /\ walk'[b] = Turn(walk[b], walk[b].len, walk[b].next + 1))
        /\ UNCHANGED <<heap, slice>>
    BY <1>2 DEF Visit, IndInv, IndexOK, TypeOK
  <2>2. \A b \in Actors : walk'[b].key = walk[b].key /\ walk'[b].cap = walk[b].cap /\ walk'[b].len = walk[b].len
    BY <2>1, TurnFields
  <2>. QED BY <2>1, <2>2 DEF IndInv, IndexOK, SliceOK, WalkOK, Filled
<1>3. ASSUME NEW a \in Actors, Return(a), site' = site PROVE SliceOK' /\ WalkOK'
  <2>1. (\A b \in Actors : walk'[b] = walk[b] \/ walk'[b] = NoWalk) /\ UNCHANGED <<heap, slice>>
    BY <1>3 DEF Return, IndInv, IndexOK, TypeOK
  <2>2. NoWalk.len = 0
    BY DEF NoWalk
  <2>. QED BY <2>1, <2>2 DEF IndInv, IndexOK, SliceOK, WalkOK, Filled
<1>4. ASSUME NEW a \in Actors, CleanEntry(a), site' = site PROVE SliceOK' /\ WalkOK'
  <2>1. pc[a] = "clean" /\ entry[a] \in Entries /\ walk' = walk
    BY <1>4 DEF CleanEntry, IndInv, IndexOK, TypeOK, JobsOK
  <2>2. CASE UNCHANGED <<heap, slice>>
    BY <2>1, <2>2 DEF IndInv, IndexOK, SliceOK, WalkOK, Filled
  <2>3. CASE \E i \in 1 .. slice[entry[a].node][entry[a].key].len :
               At(entry[a].node, entry[a].key, i) = entry[a] /\ Remove(entry[a].node, entry[a].key, i)
    <3>1. Overwrites(entry[a].node, entry[a].key) /\ SliceOK'
      BY <2>1, <2>3, RemoveKeeps DEF IndInv
    <3>. QED BY <2>1, <3>1, WalkKept DEF IndInv
  <2>. QED BY <1>4, <2>2, <2>3 DEF CleanEntry
<1>5. ASSUME NEW a \in Actors, LockFails(a), site' = site PROVE SliceOK' /\ WalkOK'
  <2>1. PICK from \in {"lock", "sleep", "failed"}, err \in BOOLEAN : Done(a, from, err)
    BY <1>5 DEF LockFails
  <2>. QED BY <1>5, <2>1, DoneTypes DEF LockFails, IndInv, IndexOK, SliceOK, Filled
<1>6. ASSUME NEW a \in Actors, Elected(a), site' = site PROVE SliceOK' /\ WalkOK'
  BY <1>6 DEF Elected, IndInv, IndexOK, SliceOK, WalkOK, Filled
<1>7. ASSUME NEW a \in Actors, NotElected(a), site' = site PROVE SliceOK' /\ WalkOK'
  <2>1. PICK from \in {"lock", "sleep", "failed"}, err \in BOOLEAN : Done(a, from, err)
    BY <1>7 DEF NotElected
  <2>. QED BY <1>7, <2>1, DoneTypes DEF NotElected, IndInv, IndexOK, SliceOK, Filled
<1>8. ASSUME NEW a \in Actors, Clean(a), site' = site PROVE SliceOK' /\ WalkOK'
  BY <1>8 DEF Clean, IndInv, IndexOK, SliceOK, WalkOK, Filled
<1>9. ASSUME NEW a \in Actors, Unlock(a), site' = site PROVE SliceOK' /\ WalkOK'
  <2>1. PICK from \in {"lock", "sleep", "failed"}, err \in BOOLEAN : Done(a, from, err)
    BY <1>9 DEF Unlock, Gone
  <2>. QED BY <1>9, <2>1, DoneTypes DEF Unlock, Gone, IndInv, IndexOK, SliceOK, Filled
<1>10. ASSUME NEW e \in Entries, Put(e), site' = site PROVE SliceOK' /\ WalkOK'
  BY <1>10, PutEffect, WalkKept DEF Put, IndInv
<1>11. ASSUME NEW e \in Entries, Close(e), site' = site PROVE SliceOK' /\ WalkOK'
  BY <1>11 DEF Close, IndInv, IndexOK, SliceOK, WalkOK, Filled
<1>12. ASSUME NEW e \in Entries, Expire(e), site' = site PROVE SliceOK' /\ WalkOK'
  BY <1>12 DEF Expire, IndInv, IndexOK, SliceOK, WalkOK, Filled
<1>13. ASSUME NEW e \in Entries, CleanReplaced(e), site' = site PROVE SliceOK' /\ WalkOK'
  BY <1>13 DEF CleanReplaced, IndInv, IndexOK, SliceOK, WalkOK, Filled
<1>14. ASSUME NEW e \in Entries, NEW s, s = Store(e), Evict(s), site' = site PROVE SliceOK' /\ WalkOK'
  BY <1>14 DEF Evict, IndInv, IndexOK, SliceOK, WalkOK, Filled
<1>15. ASSUME NEW e \in Entries, NEW a \in Actors, Wake(a, e), site' = site PROVE SliceOK' /\ WalkOK'
  BY <1>15 DEF Wake, IndInv, IndexOK, SliceOK, WalkOK, Filled
<1>16. ASSUME NEW n \in Nodes, Fetch(n), site' = site PROVE SliceOK' /\ WalkOK'
  BY <1>16 DEF Fetch, IndInv, IndexOK, SliceOK, WalkOK, Filled
<1>17. ASSUME NEW n \in Nodes, NEW s \in work[n], handleDeleteKey(n, s), site' = site PROVE SliceOK' /\ WalkOK'
  <2>1. <<n, "watch">> \in Actors
    BY DEF Actors
  <2>. QED BY <1>17, <2>1, DelTypes DEF handleDeleteKey, IndInv, IndexOK, SliceOK, Filled
<1>18. ASSUME NEW k \in Keys, SessionLost(k), site' = site PROVE SliceOK' /\ WalkOK'
  BY <1>18 DEF SessionLost, Gone, IndInv, IndexOK, SliceOK, WalkOK, Filled
<1>19. CASE UNCHANGED vars
  BY <1>19 DEF vars, index, entryVars, jobVars, watchVars, history, IndInv, IndexOK, SliceOK, WalkOK, Filled
<1>20. site.entries \subseteq Entries
  BY EntriesAssumption DEF IndInv, IndexOK, TypeOK
<1>. QED BY <1>1, <1>2, <1>3, <1>4, <1>5, <1>6, <1>7, <1>8, <1>9, <1>10, <1>11, <1>12, <1>13, <1>14, <1>15, <1>16, <1>17, <1>18, <1>19, <1>20 DEF Next, Step, Life, Watch

(* Whoever takes an entry out of the index has followed its announcement.  *)
LEMMA NextDue == IndInv /\ [Next]_vars => DueIndexed'
<1> USE EntriesAssumption DEF index, entryVars, jobVars, watchVars, history
<1> SUFFICES ASSUME IndInv, [Next]_vars PROVE DueIndexed'
  OBVIOUS
<1>1. ASSUME NEW a \in Actors, NEW k \in Keys, Purge(a, k), site' = site PROVE DueIndexed'
  <2>1. UNCHANGED <<heap, slice, stale>> /\ due' \subseteq due
    BY <1>1 DEF Purge, Del
  <2>. QED BY <2>1 DEF IndInv, DueIndexed, Indexed, InSlice, At, IsFresh
<1>2. ASSUME NEW a \in Actors, Visit(a), site' = site PROVE DueIndexed'
  <2>1. UNCHANGED <<heap, slice, stale>> /\ due' \subseteq due
    BY <1>2 DEF Visit, Done
  <2>. QED BY <2>1 DEF IndInv, DueIndexed, Indexed, InSlice, At, IsFresh
<1>3. ASSUME NEW a \in Actors, Return(a), site' = site PROVE DueIndexed'
  <2>1. UNCHANGED <<heap, slice, stale>> /\ due' \subseteq due
    BY <1>3 DEF Return, Done
  <2>. QED BY <2>1 DEF IndInv, DueIndexed, Indexed, InSlice, At, IsFresh
<1>4. ASSUME NEW a \in Actors, CleanEntry(a), site' = site PROVE DueIndexed'
  <2>1. pc[a] = "clean" /\ entry[a] \in Entries /\ stale' = stale
    BY <1>4, NoneAssumption DEF CleanEntry, IndInv, IndexOK, TypeOK, JobsOK
  <2>2. CASE UNCHANGED <<heap, slice, due>>
    BY <2>1, <2>2 DEF IndInv, DueIndexed, Indexed, InSlice, At, IsFresh
  <2>3. CASE /\ due' = due \ {entry[a]}
             /\ \E i \in 1 .. slice[entry[a].node][entry[a].key].len :
                  At(entry[a].node, entry[a].key, i) = entry[a] /\ Remove(entry[a].node, entry[a].key, i)
    <3>1. \A f \in Entries : Indexed(f) /\ f # entry[a] => Indexed(f)'
      BY <2>1, <2>3, RemoveKeeps DEF IndInv
    <3>. QED BY <2>1, <2>3, <3>1 DEF IndInv, IndexOK, TypeOK, DueIndexed, IsFresh
  <2>. QED BY <1>4, <2>2, <2>3 DEF CleanEntry
<1>5. ASSUME NEW a \in Actors, LockFails(a), site' = site PROVE DueIndexed'
  <2>1. UNCHANGED <<heap, slice, stale>> /\ due' \subseteq due
    BY <1>5 DEF LockFails, Done
  <2>. QED BY <2>1 DEF IndInv, DueIndexed, Indexed, InSlice, At, IsFresh
<1>6. ASSUME NEW a \in Actors, Elected(a), site' = site PROVE DueIndexed'
  BY <1>6 DEF Elected, IndInv, DueIndexed, Indexed, InSlice, At, IsFresh
<1>7. ASSUME NEW a \in Actors, NotElected(a), site' = site PROVE DueIndexed'
  <2>1. UNCHANGED <<heap, slice, stale>> /\ due' \subseteq due
    BY <1>7 DEF NotElected, Done
  <2>. QED BY <2>1 DEF IndInv, DueIndexed, Indexed, InSlice, At, IsFresh
<1>8. ASSUME NEW a \in Actors, Clean(a), site' = site PROVE DueIndexed'
  <2>1. UNCHANGED <<heap, slice, stale>> /\ due' \subseteq due
    BY <1>8 DEF Clean, Done
  <2>. QED BY <2>1 DEF IndInv, DueIndexed, Indexed, InSlice, At, IsFresh
<1>9. ASSUME NEW a \in Actors, Unlock(a), site' = site PROVE DueIndexed'
  <2>1. UNCHANGED <<heap, slice, stale>> /\ due' \subseteq due
    BY <1>9 DEF Unlock, Gone, Done
  <2>. QED BY <2>1 DEF IndInv, DueIndexed, Indexed, InSlice, At, IsFresh
<1>10. ASSUME NEW e \in Entries, Put(e), site' = site PROVE DueIndexed'
  <2>1. /\ due' \subseteq due /\ stale' = stale
        /\ \A f \in Entries : Indexed(f) => Indexed(f)' \/ (f \in replaced' /\ f \notin due')
    BY <1>10, PutEffect DEF IndInv, Put
  <2>. QED BY <2>1 DEF IndInv, IndexOK, TypeOK, DueIndexed, IsFresh
<1>11. ASSUME NEW e \in Entries, Close(e), site' = site PROVE DueIndexed'
  <2>1. UNCHANGED <<heap, slice, stale>> /\ due' \subseteq due
    BY <1>11 DEF Close, Done
  <2>. QED BY <2>1 DEF IndInv, DueIndexed, Indexed, InSlice, At, IsFresh
<1>12. ASSUME NEW e \in Entries, Expire(e), site' = site PROVE DueIndexed'
  BY <1>12 DEF Expire, IndInv, DueIndexed, Indexed, InSlice, At, IsFresh
<1>13. ASSUME NEW e \in Entries, CleanReplaced(e), site' = site PROVE DueIndexed'
  <2>1. UNCHANGED <<heap, slice, stale>> /\ due' \subseteq due
    BY <1>13 DEF CleanReplaced, Done
  <2>. QED BY <2>1 DEF IndInv, DueIndexed, Indexed, InSlice, At, IsFresh
<1>14. ASSUME NEW e \in Entries, NEW s, s = Store(e), Evict(s), site' = site PROVE DueIndexed'
  <2>1. UNCHANGED <<heap, slice, stale>> /\ due' \subseteq due
    BY <1>14 DEF Evict, Done
  <2>. QED BY <2>1 DEF IndInv, DueIndexed, Indexed, InSlice, At, IsFresh
<1>15. ASSUME NEW e \in Entries, NEW a \in Actors, Wake(a, e), site' = site PROVE DueIndexed'
  <2>1. UNCHANGED <<heap, slice, stale>> /\ due' \subseteq due
    BY <1>15 DEF Wake, Done
  <2>. QED BY <2>1 DEF IndInv, DueIndexed, Indexed, InSlice, At, IsFresh
<1>16. ASSUME NEW n \in Nodes, Fetch(n), site' = site PROVE DueIndexed'
  <2>1. UNCHANGED <<heap, slice, stale>> /\ due' \subseteq due
    BY <1>16 DEF Fetch, Done
  <2>. QED BY <2>1 DEF IndInv, DueIndexed, Indexed, InSlice, At, IsFresh
<1>17. ASSUME NEW n \in Nodes, NEW s \in work[n], handleDeleteKey(n, s), site' = site PROVE DueIndexed'
  <2>1. UNCHANGED <<heap, slice, stale>> /\ due' \subseteq due
    BY <1>17 DEF handleDeleteKey, Del
  <2>. QED BY <2>1 DEF IndInv, DueIndexed, Indexed, InSlice, At, IsFresh
<1>18. ASSUME NEW k \in Keys, SessionLost(k), site' = site PROVE DueIndexed'
  <2>1. UNCHANGED <<heap, slice, stale>> /\ due' \subseteq due
    BY <1>18 DEF SessionLost, Gone, Done
  <2>. QED BY <2>1 DEF IndInv, DueIndexed, Indexed, InSlice, At, IsFresh
<1>19. CASE UNCHANGED vars
  BY <1>19 DEF vars, index, entryVars, jobVars, watchVars, history, IndInv, DueIndexed, Indexed, InSlice, At, IsFresh
<1>20. site.entries \subseteq Entries
  BY EntriesAssumption DEF IndInv, IndexOK, TypeOK
<1>. QED BY <1>1, <1>2, <1>3, <1>4, <1>5, <1>6, <1>7, <1>8, <1>9, <1>10, <1>11, <1>12, <1>13, <1>14, <1>15, <1>16, <1>17, <1>18, <1>19, <1>20 DEF Next, Step, Life, Watch

(* A Del with nothing to excuse it has a slice of at most two entries.     *)
LEMMA NextSure == IndInv /\ [Next]_vars => SureShort'
<1> USE EntriesAssumption, LocalsAssumption DEF index, entryVars, jobVars, watchVars, history
<1> SUFFICES ASSUME IndInv, [Next]_vars PROVE SureShort'
  OBVIOUS
<1>1. ASSUME NEW a \in Actors, NEW k \in Keys, Purge(a, k), site' = site PROVE SureShort'
  <2>1. slice' = slice /\ unsure \subseteq unsure' /\ a[2] # "watch"
    BY <1>1 DEF Purge, Del
  <2>2. \A b \in Actors \ {a} : pc'[b] = pc[b] /\ walk'[b] = walk[b]
    BY <1>1, DelTypes DEF Purge
  <2>3. \A m \in Nodes, q \in Keys : Deleting(m, q)' => Deleting(m, q)
    BY <2>1, <2>2 DEF Deleting, Actors
  <2>. QED BY <2>1, <2>3 DEF IndInv, SureShort
<1>2. ASSUME NEW a \in Actors, Visit(a), site' = site PROVE SureShort'
  <2>1. slice' = slice /\ unsure' = unsure /\ pc[a] = "walk"
    BY <1>2 DEF Visit, Goto
  <2>2. \A b \in Actors : walk'[b].key = walk[b].key
    <3>1. \A b \in Actors : walk'[b] = walk[b] \/ walk'[b] = Turn(walk[b], walk[b].len, walk[b].next + 1)
      BY <1>2 DEF Visit, IndInv, IndexOK, TypeOK
    <3>. QED BY <3>1, TurnFields
  <2>3. \A m \in Nodes, q \in Keys : Deleting(m, q)' => Deleting(m, q)
    BY <1>2, <2>1, <2>2 DEF Visit, Goto, Deleting, IndInv, IndexOK, TypeOK, Actors
  <2>. QED BY <2>1, <2>3 DEF IndInv, SureShort
<1>3. ASSUME NEW a \in Actors, Return(a), site' = site PROVE SureShort'
  <2>1. slice' = slice /\ pc' = [pc EXCEPT ![a] = "idle"] /\ walk' = [walk EXCEPT ![a] = NoWalk]
    BY <1>3 DEF Return, Goto
  <2>2. \A m \in Nodes : m \in unsure /\ m \notin unsure' => a = <<m, "watch">>
    BY <1>3 DEF Return, Actors, NodeOf
  <2>3. \A m \in Nodes, q \in Keys : Deleting(m, q)' => Deleting(m, q) /\ a # <<m, "watch">>
    BY <2>1 DEF Deleting, Actors, IndInv, IndexOK, TypeOK
  <2>. QED BY <2>1, <2>2, <2>3 DEF IndInv, SureShort
<1>4. ASSUME NEW a \in Actors, CleanEntry(a), site' = site PROVE SureShort'
  <2>1. pc[a] = "clean" /\ pc'[a] # "idle" /\ entry[a] \in Entries /\ UNCHANGED <<walk, unsure>>
    BY <1>4, NoneAssumption DEF CleanEntry, IndInv, IndexOK, TypeOK, JobsOK, Goto
  <2>2. \A m \in Nodes, q \in Keys : Deleting(m, q)' => Deleting(m, q)
    BY <1>4, <2>1 DEF CleanEntry, Goto, Deleting, IndInv, IndexOK, TypeOK, Actors
  <2>3. \A m \in Nodes, q \in Keys : slice'[m][q].len <= slice[m][q].len
    <3>1. \A m \in Nodes, q \in Keys : slice[m][q].len \in Nat
      BY CapAssumption DEF IndInv, IndexOK, TypeOK
    <3>2. CASE UNCHANGED slice
      BY <3>1, <3>2
    <3>3. CASE \E i \in 1 .. slice[entry[a].node][entry[a].key].len :
                 At(entry[a].node, entry[a].key, i) = entry[a] /\ Remove(entry[a].node, entry[a].key, i)
      <4>1. /\ Overwrites(entry[a].node, entry[a].key)
            /\ slice'[entry[a].node][entry[a].key].len = slice[entry[a].node][entry[a].key].len - 1
        BY <2>1, <3>3, RemoveKeeps DEF IndInv
      <4>2. entry[a].node \in Nodes /\ entry[a].key \in Keys
        BY <2>1
      <4>3. \A m \in Nodes, q \in Keys : (m # entry[a].node \/ q # entry[a].key) => slice'[m][q] = slice[m][q]
        BY <4>1 DEF Overwrites
      <4>4. slice'[entry[a].node][entry[a].key].len <= slice[entry[a].node][entry[a].key].len
        BY <3>1, <4>1, <4>2
      <4>5. \A m \in Nodes, q \in Keys : slice[m][q].len <= slice[m][q].len
        BY <3>1
      <4>. QED BY <4>3, <4>4, <4>5
    <3>. QED BY <1>4, <3>2, <3>3 DEF CleanEntry
  <2>4. \A m \in Nodes, q \in Keys : slice'[m][q].len \in Nat /\ slice[m][q].len \in Nat
    BY NextType, CapAssumption DEF IndInv, IndexOK, TypeOK
  <2>. QED BY <2>1, <2>2, <2>3, <2>4 DEF IndInv, SureShort
<1>5. ASSUME NEW a \in Actors, LockFails(a), site' = site PROVE SureShort'
  <2>1. PICK from \in {"lock", "sleep", "failed"}, err \in BOOLEAN : Done(a, from, err)
    BY <1>5 DEF LockFails
  <2>2. UNCHANGED index
    BY <1>5 DEF LockFails
  <2>3. unsure \subseteq unsure' /\ pc[a] # "idle" /\ \A b \in Actors \ {a} : pc'[b] = pc[b] /\ walk'[b] = walk[b]
    BY <2>1, <2>2, DoneTypes
  <2>4. walk'[a].key = walk[a].key
    BY <2>1, TurnFields DEF Done, IndInv, IndexOK, TypeOK
  <2>5. \A m \in Nodes, q \in Keys : Deleting(m, q)' => Deleting(m, q)
    BY <2>3, <2>4 DEF Deleting, Actors
  <2>. QED BY <2>2, <2>3, <2>5 DEF IndInv, SureShort
<1>6. ASSUME NEW a \in Actors, Elected(a), site' = site PROVE SureShort'
  <2>1. slice' = slice /\ unsure \subseteq unsure'
    BY <1>6 DEF Elected
  <2>2. \A m \in Nodes, q \in Keys : Deleting(m, q)' => Deleting(m, q)
    BY <1>6 DEF Elected, Deleting, IndInv, IndexOK, TypeOK, Actors, Goto
  <2>. QED BY <2>1, <2>2 DEF IndInv, SureShort
<1>7. ASSUME NEW a \in Actors, NotElected(a), site' = site PROVE SureShort'
  <2>1. PICK from \in {"lock", "sleep", "failed"}, err \in BOOLEAN : Done(a, from, err)
    BY <1>7 DEF NotElected
  <2>2. UNCHANGED index
    BY <1>7 DEF NotElected
  <2>3. unsure \subseteq unsure' /\ pc[a] # "idle" /\ \A b \in Actors \ {a} : pc'[b] = pc[b] /\ walk'[b] = walk[b]
    BY <2>1, <2>2, DoneTypes
  <2>4. walk'[a].key = walk[a].key
    BY <2>1, TurnFields DEF Done, IndInv, IndexOK, TypeOK
  <2>5. \A m \in Nodes, q \in Keys : Deleting(m, q)' => Deleting(m, q)
    BY <2>3, <2>4 DEF Deleting, Actors
  <2>. QED BY <2>2, <2>3, <2>5 DEF IndInv, SureShort
<1>8. ASSUME NEW a \in Actors, Clean(a), site' = site PROVE SureShort'
  <2>1. slice' = slice /\ unsure \subseteq unsure'
    BY <1>8 DEF Clean
  <2>2. \A m \in Nodes, q \in Keys : Deleting(m, q)' => Deleting(m, q)
    BY <1>8 DEF Clean, Deleting, IndInv, IndexOK, TypeOK, Actors, Goto
  <2>. QED BY <2>1, <2>2 DEF IndInv, SureShort
<1>9. ASSUME NEW a \in Actors, Unlock(a), site' = site PROVE SureShort'
  <2>1. PICK from \in {"lock", "sleep", "failed"}, err \in BOOLEAN : Done(a, from, err)
    BY <1>9 DEF Unlock, Gone
  <2>2. UNCHANGED index
    BY <1>9 DEF Unlock, Gone
  <2>3. unsure \subseteq unsure' /\ pc[a] # "idle" /\ \A b \in Actors \ {a} : pc'[b] = pc[b] /\ walk'[b] = walk[b]
    BY <2>1, <2>2, DoneTypes
  <2>4. walk'[a].key = walk[a].key
    BY <2>1, TurnFields DEF Done, IndInv, IndexOK, TypeOK
  <2>5. \A m \in Nodes, q \in Keys : Deleting(m, q)' => Deleting(m, q)
    BY <2>3, <2>4 DEF Deleting, Actors
  <2>. QED BY <2>2, <2>3, <2>5 DEF IndInv, SureShort
<1>10. ASSUME NEW e \in Entries, Put(e), site' = site PROVE SureShort'
  <2>1. /\ Overwrites(e.node, e.key) /\ unsure \subseteq unsure' /\ UNCHANGED <<pc, walk>>
        /\ (Deleting(e.node, e.key) => e.node \in unsure') \/ slice' = slice
    BY <1>10, PutEffect DEF IndInv, Put
  <2>2. \A m \in Nodes, q \in Keys : Deleting(m, q)' => Deleting(m, q)
    BY <2>1 DEF Deleting
  <2>3. \A m \in Nodes, q \in Keys : (m # e.node \/ q # e.key) => slice'[m][q] = slice[m][q]
    BY <2>1 DEF Overwrites
  <2>. QED BY <2>1, <2>2, <2>3 DEF IndInv, SureShort
<1>11. ASSUME NEW e \in Entries, Close(e), site' = site PROVE SureShort'
  <2>1. slice' = slice /\ unsure \subseteq unsure'
    BY <1>11 DEF Close
  <2>2. \A m \in Nodes, q \in Keys : Deleting(m, q)' => Deleting(m, q)
    BY <1>11 DEF Close, Deleting, IndInv, IndexOK, TypeOK, Actors, Goto
  <2>. QED BY <2>1, <2>2 DEF IndInv, SureShort
<1>12. ASSUME NEW e \in Entries, Expire(e), site' = site PROVE SureShort'
  <2>1. slice' = slice /\ unsure \subseteq unsure'
    BY <1>12 DEF Expire
  <2>2. \A m \in Nodes, q \in Keys : Deleting(m, q)' => Deleting(m, q)
    BY <1>12 DEF Expire, Deleting, IndInv, IndexOK, TypeOK, Actors, Goto
  <2>. QED BY <2>1, <2>2 DEF IndInv, SureShort
<1>13. ASSUME NEW e \in Entries, CleanReplaced(e), site' = site PROVE SureShort'
  <2>1. slice' = slice /\ unsure \subseteq unsure'
    BY <1>13 DEF CleanReplaced
  <2>2. \A m \in Nodes, q \in Keys : Deleting(m, q)' => Deleting(m, q)
    BY <1>13 DEF CleanReplaced, Deleting, IndInv, IndexOK, TypeOK, Actors, Goto
  <2>. QED BY <2>1, <2>2 DEF IndInv, SureShort
<1>14. ASSUME NEW e \in Entries, NEW s, s = Store(e), Evict(s), site' = site PROVE SureShort'
  <2>1. slice' = slice /\ unsure \subseteq unsure'
    BY <1>14 DEF Evict
  <2>2. \A m \in Nodes, q \in Keys : Deleting(m, q)' => Deleting(m, q)
    BY <1>14 DEF Evict, Deleting, IndInv, IndexOK, TypeOK, Actors, Goto
  <2>. QED BY <2>1, <2>2 DEF IndInv, SureShort
<1>15. ASSUME NEW e \in Entries, NEW a \in Actors, Wake(a, e), site' = site PROVE SureShort'
  <2>1. slice' = slice /\ unsure \subseteq unsure'
    BY <1>15 DEF Wake
  <2>2. \A m \in Nodes, q \in Keys : Deleting(m, q)' => Deleting(m, q)
    BY <1>15 DEF Wake, Deleting, IndInv, IndexOK, TypeOK, Actors, Goto
  <2>. QED BY <2>1, <2>2 DEF IndInv, SureShort
<1>16. ASSUME NEW n \in Nodes, Fetch(n), site' = site PROVE SureShort'
  <2>1. slice' = slice /\ unsure \subseteq unsure'
    BY <1>16 DEF Fetch
  <2>2. \A m \in Nodes, q \in Keys : Deleting(m, q)' => Deleting(m, q)
    BY <1>16 DEF Fetch, Deleting, IndInv, IndexOK, TypeOK, Actors, Goto
  <2>. QED BY <2>1, <2>2 DEF IndInv, SureShort
<1>17. ASSUME NEW n \in Nodes, NEW s \in work[n], handleDeleteKey(n, s), site' = site PROVE SureShort'
  <2> DEFINE w == <<n, "watch">>
             q == trimmed(s)
  <2>1. w \in Actors /\ NodeOf(w) = n /\ slice' = slice
    BY <1>17 DEF handleDeleteKey, Actors, NodeOf
  <2>2. unsure \subseteq unsure' /\ \A b \in Actors \ {w} : pc'[b] = pc[b] /\ walk'[b] = walk[b]
    BY <1>17, <2>1, DelTypes DEF handleDeleteKey
  <2>3. \A m \in Nodes \ {n}, p \in Keys : Deleting(m, p)' => Deleting(m, p)
    BY <2>2 DEF Deleting, Actors
  <2>4. \A p \in Keys : Deleting(n, p)' => n \in unsure' \/ slice[n][p].len <= 2
    <3>1. CASE UNCHANGED <<pc, walk>> /\ pc[w] = "idle"
      BY <3>1 DEF Deleting
    <3>2. CASE /\ walk' = [walk EXCEPT ![w] = [key |-> q, cap |-> slice[n][q].cap, len |-> slice[n][q].len, next |-> 1]]
               /\ unsure' = IF w[2] = "watch" /\ slice[n][q].len > 2 THEN unsure \cup {n} ELSE unsure
      <4>1. walk'[w].key = q
        BY <2>1, <3>2 DEF IndInv, IndexOK, TypeOK
      <4>2. \A p \in Keys : slice[n][p].len \in Nat
        BY CapAssumption DEF IndInv, IndexOK, TypeOK
      <4>. QED BY <3>2, <4>1, <4>2 DEF Deleting
    <3>. QED BY <1>17, <2>1, <3>1, <3>2 DEF handleDeleteKey, Del
  <2>. QED BY <2>1, <2>2, <2>3, <2>4 DEF IndInv, SureShort
<1>18. ASSUME NEW k \in Keys, SessionLost(k), site' = site PROVE SureShort'
  <2>1. slice' = slice /\ unsure \subseteq unsure'
    BY <1>18 DEF SessionLost, Gone
  <2>2. \A m \in Nodes, q \in Keys : Deleting(m, q)' => Deleting(m, q)
    BY <1>18 DEF SessionLost, Gone, Deleting, IndInv, IndexOK, TypeOK, Actors, Goto
  <2>. QED BY <2>1, <2>2 DEF IndInv, SureShort
<1>19. CASE UNCHANGED vars
  BY <1>19 DEF vars, index, entryVars, jobVars, watchVars, history, IndInv, SureShort, Deleting
<1>20. site.entries \subseteq Entries
  BY EntriesAssumption DEF IndInv, IndexOK, TypeOK
<1>. QED BY <1>1, <1>2, <1>3, <1>4, <1>5, <1>6, <1>7, <1>8, <1>9, <1>10, <1>11, <1>12, <1>13, <1>14, <1>15, <1>16, <1>17, <1>18, <1>19, <1>20 DEF Next, Step, Life, Watch

(* Whatever does not concern a node's watch leaves what it will delete     *)
(* where it is.                                                            *)
LEMMA WillGoKept ==
  ASSUME IndInv, NEW e \in Entries, NEW w \in Actors, w = <<e.node, "watch">>,
         pc'[w] = pc[w], walk'[w] = walk[w], entry'[w] = entry[w], unsure \subseteq unsure',
         \/ e.node \in unsure'
         \/ \A c, j \in Slots : heap[e.node][e.key][c][j] = e => heap'[e.node][e.key][c][j] = e
  PROVE  WillGo(e) => WillGo(e)'
<1> SUFFICES ASSUME WillGo(e) PROVE WillGo(e)'
  OBVIOUS
<1>1. Deleting(e.node, e.key)'
  BY DEF WillGo, Deleting
<1>2. CASE e.node \in unsure'
  BY <1>1, <1>2 DEF WillGo
<1>3. CASE e.node \notin unsure'
  <2>1. \A c, j \in Slots : heap[e.node][e.key][c][j] = e => heap'[e.node][e.key][c][j] = e
    BY <1>3
  <2>2. InReach(e)
    BY <1>3 DEF WillGo
  <2>3. CASE pc[w] = "clean" /\ entry[w] = e
    BY <1>1, <2>3 DEF WillGo, InReach
  <2>4. CASE \E j \in walk[w].next .. walk[w].len : heap[e.node][e.key][walk[w].cap][j] = e
    <3>1. PICK j \in walk[w].next .. walk[w].len : heap[e.node][e.key][walk[w].cap][j] = e
      BY <2>4
    <3>2. /\ walk[w].next \in 1 .. MaxCap + 1 /\ walk[w].len \in 0 .. MaxCap /\ walk[w].cap \in 0 .. MaxCap
          /\ walk[w].len > 0 => walk[w].len <= walk[w].cap
      BY DEF IndInv, IndexOK, TypeOK, WalkOK
    <3>3. j \in Slots /\ walk[w].cap \in Slots
      BY <3>1, <3>2, CapAssumption DEF Slots
    <3>. QED BY <1>1, <2>1, <3>1, <3>3 DEF WillGo, InReach
  <2>. QED BY <2>2, <2>3, <2>4 DEF InReach
<1>. QED BY <1>2, <1>3

(* The end of distributedClean does so too: with an error the Del is       *)
(* excused.                                                                *)
LEMMA WillGoDone ==
  ASSUME IndInv, NEW a \in Actors, NEW from \in {"lock", "sleep", "failed"}, NEW err, Done(a, from, err),
         UNCHANGED index, NEW e \in Entries
  PROVE  WillGo(e) => WillGo(e)'
<1> DEFINE w == <<e.node, "watch">>
<1>1. w \in Actors /\ a \in Actors /\ NodeOf(w) = e.node
  BY EntriesAssumption DEF Actors, NodeOf
<1>2. /\ unsure \subseteq unsure' /\ pc[a] = from /\ pc'[a] = "walk"
      /\ \A b \in Actors \ {a} : pc'[b] = pc[b] /\ walk'[b] = walk[b] /\ entry'[b] = entry[b]
  BY DoneTypes
<1>3. CASE a # w
  BY <1>1, <1>2, <1>3, WillGoKept DEF index
<1>4. CASE a = w
  <2>1. walk'[w].key = walk[w].key
    BY <1>4, TurnFields DEF Done, IndInv, IndexOK, TypeOK
  <2>2. Deleting(e.node, e.key) => Deleting(e.node, e.key)'
    BY <1>2, <1>4, <2>1 DEF Deleting
  <2>3. CASE err
    <3>1. e.node \in unsure'
      BY <1>1, <1>4, <2>3 DEF Done
    <3>. QED BY <2>2, <3>1 DEF WillGo
  <2>4. CASE ~err
    <3>1. walk' = walk
      BY <2>4 DEF Done
    <3>2. pc[w] # "clean"
      BY <1>2, <1>4
    <3>3. InReach(e) => InReach(e)'
      BY <3>1, <3>2 DEF InReach, index
    <3>. QED BY <1>2, <2>2, <3>3 DEF WillGo
  <2>. QED BY <2>3, <2>4
<1>. QED BY <1>3, <1>4

(* A step keeps every announcement in the watch's sight, its handler's     *)
(* list or before its Del.  Unlock waits for the watches that are idle,    *)
(* Fetch lists every lock there is, and handleDeleteKey finds the lock's   *)
(* key.                                                                    *)
LEMMA NextPurge == IndInv /\ [Next]_vars => Announced'
<1> USE EntriesAssumption, LocalsAssumption DEF index, entryVars, watchVars, history
<1> SUFFICES ASSUME IndInv, [Next]_vars PROVE Announced'
  OBVIOUS
<1>1. ASSUME NEW a \in Actors, NEW k \in Keys, Purge(a, k), site' = site PROVE Announced'
  <2> SUFFICES ASSUME NEW f \in due', Plain(f.key) PROVE Ann(f)'
    BY DEF Announced
  <2> DEFINE w == <<f.node, "watch">>
  <2>1. f \in Entries /\ f.node \in Nodes /\ f.key \in Keys /\ w \in Actors /\ Ann(f)
    <3>1. f \in due
      BY <1>1 DEF Purge, Del
    <3>. QED BY <3>1 DEF IndInv, IndexOK, TypeOK, Announced, Actors
  <2>2. WillGo(f) => WillGo(f)'
    <3>1. a # w /\ UNCHANGED <<heap, slice, entry>>
      BY <1>1, <2>1 DEF Purge
    <3>2. unsure \subseteq unsure' /\ pc'[w] = pc[w] /\ walk'[w] = walk[w]
      BY <1>1, <2>1, <3>1, DelTypes DEF Purge
    <3>. QED BY <2>1, <3>1, <3>2, WillGoKept
  <2>. QED BY <1>1, <2>1, <2>2 DEF Purge, Ann
<1>2. ASSUME NEW a \in Actors, Visit(a), site' = site PROVE Announced'
  <2> SUFFICES ASSUME NEW f \in due', Plain(f.key) PROVE Ann(f)'
    BY DEF Announced
  <2> DEFINE w == <<f.node, "watch">>
  <2>1. f \in Entries /\ f.node \in Nodes /\ f.key \in Keys /\ w \in Actors /\ Ann(f)
    <3>1. f \in due
      BY <1>2 DEF Visit
    <3>. QED BY <3>1 DEF IndInv, IndexOK, TypeOK, Announced, Actors
  <2>2. WillGo(f) => WillGo(f)'
    <3>1. pc[a] = "walk" /\ UNCHANGED <<heap, unsure>>
      BY <1>2 DEF Visit, Goto
    <3>2. CASE a # w
      <4>1. pc'[w] = pc[w] /\ walk'[w] = walk[w] /\ entry'[w] = entry[w]
        BY <1>2, <2>1, <3>2 DEF Visit, Goto, IndInv, IndexOK, TypeOK
      <4>. QED BY <2>1, <3>1, <4>1, WillGoKept
    <3>3. CASE a = w
      <4> DEFINE x == heap[f.node][walk[w].key][walk[w].cap][walk[w].next]
      <4>1. /\ walk'[w] = Turn(walk[w], walk[w].len, walk[w].next + 1)
            /\ (IsFresh(x) /\ pc'[w] = "clean" /\ entry'[w] = x) \/ (~IsFresh(x) /\ pc'[w] = "walk")
        BY <1>2, <2>1, <3>3 DEF Visit, Goto, NodeOf, IndInv, IndexOK, TypeOK
      <4>2. IsFresh(f)
        BY <1>2 DEF Visit, IndInv, DueIndexed
      <4>3. /\ walk'[w].key = walk[w].key /\ walk'[w].cap = walk[w].cap
            /\ walk'[w].len = walk[w].len /\ walk'[w].next = walk[w].next + 1
        BY <4>1, TurnFields
      <4>4. Deleting(f.node, f.key) => Deleting(f.node, f.key)' /\ walk[w].key = f.key
        BY <4>1, <4>3 DEF Deleting
      <4>5. Deleting(f.node, f.key) /\ InReach(f) => InReach(f)'
        <5> SUFFICES ASSUME Deleting(f.node, f.key), InReach(f) PROVE InReach(f)'
          OBVIOUS
        <5>1. PICK j \in walk[w].next .. walk[w].len : heap[f.node][f.key][walk[w].cap][j] = f
          BY <3>1, <3>3 DEF InReach
        <5>2. walk[w].next \in Nat /\ walk[w].len \in Nat
          BY <2>1, CapAssumption DEF IndInv, IndexOK, TypeOK
        <5>3. CASE j = walk[w].next
          BY <4>1, <4>2, <4>4, <5>1, <5>3 DEF InReach
        <5>4. CASE j # walk[w].next
          <6>1. j \in walk'[w].next .. walk'[w].len
            BY <4>3, <5>1, <5>2, <5>4
          <6>. QED BY <3>1, <4>3, <5>1, <6>1 DEF InReach
        <5>. QED BY <5>3, <5>4
      <4>. QED BY <3>1, <4>4, <4>5 DEF WillGo
    <3>. QED BY <3>2, <3>3
  <2>. QED BY <1>2, <2>1, <2>2 DEF Visit, Ann
<1>3. ASSUME NEW a \in Actors, Return(a), site' = site PROVE Announced'
  <2> SUFFICES ASSUME NEW f \in due', Plain(f.key) PROVE Ann(f)'
    BY DEF Announced
  <2> DEFINE w == <<f.node, "watch">>
  <2>1. f \in Entries /\ f.node \in Nodes /\ f.key \in Keys /\ w \in Actors /\ Ann(f)
    <3>1. f \in due
      BY <1>3 DEF Return
    <3>. QED BY <3>1 DEF IndInv, IndexOK, TypeOK, Announced, Actors
  <2>2. UNCHANGED <<heap, entry, changed, work, kv>>
    BY <1>3 DEF Return
  <2>3. CASE a # w
    <3>1. pc'[w] = pc[w] /\ walk'[w] = walk[w] /\ (f.node \in unsure => f.node \in unsure')
      BY <1>3, <2>1, <2>3 DEF Return, Goto, Actors, NodeOf, IndInv, IndexOK, TypeOK
    <3>2. WillGo(f) => WillGo(f)'
      BY <2>2, <3>1 DEF WillGo, Deleting, InReach
    <3>. QED BY <2>1, <2>2, <3>2 DEF Ann
  <2>4. CASE a = w
    <3>1. pc[w] = "walk" /\ walk[w].next > walk[w].len
      BY <1>3, <2>4 DEF Return, Goto
    <3>2. walk[w].next \in Nat /\ walk[w].len \in Nat
      BY <2>1, CapAssumption DEF IndInv, IndexOK, TypeOK
    <3>3. ~InReach(f)
      BY <3>1, <3>2 DEF InReach
    <3>4. Deleting(f.node, f.key) /\ f.node \in unsure => f \notin due'
      BY <1>3, <2>4 DEF Return, Deleting, NodeOf
    <3>. QED BY <2>1, <2>2, <3>3, <3>4 DEF Ann, WillGo
  <2>. QED BY <2>3, <2>4
<1>4. ASSUME NEW a \in Actors, CleanEntry(a), site' = site PROVE Announced'
  <2> SUFFICES ASSUME NEW f \in due', Plain(f.key) PROVE Ann(f)'
    BY DEF Announced
  <2> DEFINE w == <<f.node, "watch">>
  <2>1. f \in Entries /\ f.node \in Nodes /\ f.key \in Keys /\ w \in Actors /\ Ann(f)
    <3>1. f \in due
      BY <1>4 DEF CleanEntry
    <3>. QED BY <3>1 DEF IndInv, IndexOK, TypeOK, Announced, Actors
  <2>2. pc[a] = "clean" /\ entry[a] \in Entries /\ UNCHANGED <<walk, unsure, changed, work, kv>>
    BY <1>4, NoneAssumption DEF CleanEntry, IndInv, IndexOK, TypeOK, JobsOK
  <2>3. \/ f.node \in unsure'
        \/ Deleting(f.node, f.key) =>
             \A c, j \in Slots : heap[f.node][f.key][c][j] = f => heap'[f.node][f.key][c][j] = f
    <3>1. CASE UNCHANGED heap
      BY <3>1
    <3>2. CASE /\ due' = due \ {entry[a]}
               /\ \E i \in 1 .. slice[entry[a].node][entry[a].key].len :
                    At(entry[a].node, entry[a].key, i) = entry[a] /\ Remove(entry[a].node, entry[a].key, i)
      <4>1. /\ Overwrites(entry[a].node, entry[a].key)
            /\ slice[entry[a].node][entry[a].key].len <= 2 => \A g \in Entries \ {entry[a]}, c, j \in Slots :
                 heap[entry[a].node][entry[a].key][c][j] = g => heap'[entry[a].node][entry[a].key][c][j] = g
        BY <2>2, <3>2, RemoveKeeps DEF IndInv
      <4>2. f # entry[a]
        BY <3>2
      <4>3. CASE f.node = entry[a].node /\ f.key = entry[a].key
        <5>1. Deleting(f.node, f.key) /\ f.node \notin unsure => slice[f.node][f.key].len <= 2
          BY <2>1 DEF IndInv, SureShort
        <5>. QED BY <2>1, <2>2, <4>1, <4>2, <4>3, <5>1
      <4>4. CASE f.node # entry[a].node \/ f.key # entry[a].key
        BY <2>1, <4>1, <4>4 DEF Overwrites
      <4>. QED BY <4>3, <4>4
    <3>. QED BY <1>4, <3>1, <3>2 DEF CleanEntry
  <2>4. WillGo(f) => WillGo(f)'
    <3>1. CASE a # w
      <4>1. pc'[w] = pc[w] /\ entry'[w] = entry[w]
        BY <1>4, <2>1, <3>1 DEF CleanEntry, Goto, IndInv, IndexOK, TypeOK
      <4>. QED BY <2>1, <2>2, <2>3, <4>1, WillGoKept DEF WillGo
    <3>2. CASE a = w
      <4>1. f # entry[w]
        <5>1. CASE Indexed(entry[a])
          BY <1>4, <3>2, <5>1 DEF CleanEntry
        <5>2. CASE ~Indexed(entry[a])
          <6>1. f \in due
            BY <1>4 DEF CleanEntry
          <6>. QED BY <3>2, <5>2, <6>1 DEF IndInv, DueIndexed
        <5>. QED BY <5>1, <5>2
      <4>2. Deleting(f.node, f.key) => Deleting(f.node, f.key)'
        BY <1>4, <2>2, <3>2 DEF CleanEntry, Goto, Deleting, IndInv, IndexOK, TypeOK
      <4>3. InReach(f) => \E j \in walk[w].next .. walk[w].len : heap[f.node][f.key][walk[w].cap][j] = f
        BY <4>1 DEF InReach
      <4>4. ASSUME NEW j \in walk[w].next .. walk[w].len PROVE j \in Slots /\ walk[w].cap \in Slots
        <5>1. /\ walk[w].next \in 1 .. MaxCap + 1 /\ walk[w].len \in 0 .. MaxCap /\ walk[w].cap \in 0 .. MaxCap
              /\ walk[w].len > 0 => walk[w].len <= walk[w].cap
          BY <2>1 DEF IndInv, IndexOK, TypeOK, WalkOK
        <5>. QED BY <5>1, CapAssumption DEF Slots
      <4>5. Deleting(f.node, f.key) /\ InReach(f) => f.node \in unsure' \/ InReach(f)'
        BY <2>2, <2>3, <4>3, <4>4 DEF InReach
      <4>. QED BY <2>2, <4>2, <4>5 DEF WillGo
    <3>. QED BY <3>1, <3>2
  <2>. QED BY <2>1, <2>2, <2>4 DEF Ann
<1>5. ASSUME NEW a \in Actors, LockFails(a), site' = site PROVE Announced'
  <2> SUFFICES ASSUME NEW f \in due', Plain(f.key) PROVE Ann(f)'
    BY DEF Announced
  <2> DEFINE w == <<f.node, "watch">>
  <2>1. f \in Entries /\ f.node \in Nodes /\ f.key \in Keys /\ w \in Actors /\ Ann(f)
    <3>1. f \in due
      BY <1>5 DEF LockFails
    <3>. QED BY <3>1 DEF IndInv, IndexOK, TypeOK, Announced, Actors
  <2>2. WillGo(f) => WillGo(f)'
    <3>1. PICK from \in {"lock", "sleep", "failed"}, err \in BOOLEAN : Done(a, from, err)
      BY <1>5 DEF LockFails
    <3>2. UNCHANGED index
      BY <1>5 DEF LockFails
    <3>. QED BY <2>1, <3>1, <3>2, WillGoDone
  <2>. QED BY <1>5, <2>1, <2>2 DEF LockFails, Ann
<1>6. ASSUME NEW a \in Actors, Elected(a), site' = site PROVE Announced'
  <2> SUFFICES ASSUME NEW f \in due', Plain(f.key) PROVE Ann(f)'
    BY DEF Announced
  <2> DEFINE w == <<f.node, "watch">>
  <2>1. f \in Entries /\ f.node \in Nodes /\ f.key \in Keys /\ w \in Actors
    BY <1>6 DEF Elected, IndInv, IndexOK, TypeOK, Actors
  <2>2. /\ entry[a] \in Entries /\ entry[a].key \in Keys /\ NodeOf(a) \in Nodes /\ changed' = Nodes /\ kv[entry[a].key] = None
        /\ kv' = [kv EXCEPT ![entry[a].key] = NodeOf(a)] /\ UNCHANGED <<heap, walk, entry, work, unsure>>
    BY <1>6, NoneAssumption DEF Elected, Goto, Holding, IndInv, IndexOK, TypeOK, JobsOK, Actors, NodeOf
  <2>3. CASE f.key = entry[a].key /\ f.node # NodeOf(a)
    BY <2>1, <2>2, <2>3, NoneAssumption DEF Ann, IndInv, IndexOK, TypeOK
  <2>4. CASE f.key # entry[a].key \/ f.node = NodeOf(a)
    <3>1. f \in due /\ Ann(f)
      BY <1>6, <2>4 DEF Elected, IndInv, Announced
    <3>2. WillGo(f) => WillGo(f)'
      <4>1. pc[a] = "lock" /\ pc'[a] = "leader" /\ \A b \in Actors \ {a} : pc'[b] = pc[b]
        BY <1>6 DEF Elected, Goto, IndInv, IndexOK, TypeOK
      <4>2. Deleting(f.node, f.key) => Deleting(f.node, f.key)'
        BY <2>1, <2>2, <4>1 DEF Deleting
      <4>3. InReach(f) => InReach(f)'
        BY <2>1, <2>2, <4>1 DEF InReach
      <4>. QED BY <2>2, <4>2, <4>3 DEF WillGo
    <3>3. f.key # entry[a].key => kv'[f.key] = kv[f.key]
      BY <2>1, <2>2 DEF IndInv, IndexOK, TypeOK
    <3>. QED BY <2>1, <2>2, <2>4, <3>1, <3>2, <3>3 DEF Ann
  <2>. QED BY <2>3, <2>4
<1>7. ASSUME NEW a \in Actors, NotElected(a), site' = site PROVE Announced'
  <2> SUFFICES ASSUME NEW f \in due', Plain(f.key) PROVE Ann(f)'
    BY DEF Announced
  <2> DEFINE w == <<f.node, "watch">>
  <2>1. f \in Entries /\ f.node \in Nodes /\ f.key \in Keys /\ w \in Actors /\ Ann(f)
    <3>1. f \in due
      BY <1>7 DEF NotElected
    <3>. QED BY <3>1 DEF IndInv, IndexOK, TypeOK, Announced, Actors
  <2>2. WillGo(f) => WillGo(f)'
    <3>1. PICK from \in {"lock", "sleep", "failed"}, err \in BOOLEAN : Done(a, from, err)
      BY <1>7 DEF NotElected
    <3>2. UNCHANGED index
      BY <1>7 DEF NotElected
    <3>. QED BY <2>1, <3>1, <3>2, WillGoDone
  <2>. QED BY <1>7, <2>1, <2>2 DEF NotElected, Ann
<1>8. ASSUME NEW a \in Actors, Clean(a), site' = site PROVE Announced'
  <2> SUFFICES ASSUME NEW f \in due', Plain(f.key) PROVE Ann(f)'
    BY DEF Announced
  <2> DEFINE w == <<f.node, "watch">>
  <2>1. f \in Entries /\ f.node \in Nodes /\ f.key \in Keys /\ w \in Actors /\ Ann(f)
    <3>1. f \in due
      BY <1>8 DEF Clean
    <3>. QED BY <3>1 DEF IndInv, IndexOK, TypeOK, Announced, Actors
  <2>2. WillGo(f) => WillGo(f)'
    <3>1. UNCHANGED <<heap, walk, entry, unsure>>
      BY <1>8 DEF Clean
    <3>2. pc[a] # "clean" /\ pc'[a] # "idle" /\ \A b \in Actors \ {a} : pc'[b] = pc[b]
      BY <1>8 DEF Clean, Goto, IndInv, IndexOK, TypeOK
    <3>3. Deleting(f.node, f.key) => Deleting(f.node, f.key)'
      BY <2>1, <3>1, <3>2 DEF Deleting
    <3>4. InReach(f) => InReach(f)'
      BY <2>1, <3>1, <3>2 DEF InReach
    <3>. QED BY <3>1, <3>3, <3>4 DEF WillGo
  <2>. QED BY <1>8, <2>1, <2>2 DEF Clean, Ann
<1>9. ASSUME NEW a \in Actors, Unlock(a), site' = site PROVE Announced'
  <2> SUFFICES ASSUME NEW f \in due', Plain(f.key) PROVE Ann(f)'
    BY DEF Announced
  <2> DEFINE w == <<f.node, "watch">>
  <2>1. f \in Entries /\ f.node \in Nodes /\ f.key \in Keys /\ w \in Actors /\ Ann(f)
    <3>1. f \in due
      BY <1>9 DEF Unlock, Gone
    <3>. QED BY <3>1 DEF IndInv, IndexOK, TypeOK, Announced, Actors
  <2>2. WillGo(f) => WillGo(f)'
    <3>1. PICK from \in {"lock", "sleep", "failed"}, err \in BOOLEAN : Done(a, from, err)
      BY <1>9 DEF Unlock, Gone
    <3>2. UNCHANGED index
      BY <1>9 DEF Unlock, Gone
    <3>. QED BY <2>1, <3>1, <3>2, WillGoDone
  <2>3. CASE Pending(entry[a].key) = {} /\ Gone(entry[a].key)
    <3>1. work' = work /\ f.node \in changed'
      BY <2>1, <2>3 DEF Gone
    <3>2. f.node \in changed /\ kv[f.key] # f.node => f.key # entry[a].key
      BY <2>3 DEF Gone, Pending
    <3>3. f.key # entry[a].key => kv'[f.key] = kv[f.key]
      BY <2>1, <2>3 DEF Gone, IndInv, IndexOK, TypeOK
    <3>. QED BY <2>1, <2>2, <3>1, <3>2, <3>3 DEF Ann
  <2>4. CASE UNCHANGED <<kv, watchVars>>
    BY <2>1, <2>2, <2>4 DEF Ann
  <2>. QED BY <1>9, <2>3, <2>4 DEF Unlock
<1>10. ASSUME NEW e \in Entries, Put(e), site' = site PROVE Announced'
  <2> SUFFICES ASSUME NEW f \in due', Plain(f.key) PROVE Ann(f)'
    BY DEF Announced
  <2> DEFINE w == <<f.node, "watch">>
  <2>1. f \in Entries /\ f.node \in Nodes /\ f.key \in Keys /\ w \in Actors /\ Ann(f)
    <3>1. f \in due
      BY <1>10, PutEffect DEF IndInv
    <3>. QED BY <3>1 DEF IndInv, IndexOK, TypeOK, Announced, Actors
  <2>2. UNCHANGED <<pc, walk, entry, changed, work, kv>>
    BY <1>10 DEF Put, jobVars
  <2>3. /\ Overwrites(e.node, e.key) /\ unsure \subseteq unsure'
        /\ \/ Deleting(e.node, e.key) => e.node \in unsure'
           \/ \A g \in due', c, j \in Slots :
                heap[e.node][e.key][c][j] = g => heap'[e.node][e.key][c][j] = g
    BY <1>10, PutEffect DEF IndInv
  <2>4. WillGo(f) => WillGo(f)'
    <3> SUFFICES ASSUME WillGo(f) PROVE WillGo(f)'
      OBVIOUS
    <3>1. \/ f.node \in unsure'
          \/ \A c, j \in Slots : heap[f.node][f.key][c][j] = f => heap'[f.node][f.key][c][j] = f
      <4>1. CASE f.node = e.node /\ f.key = e.key
        BY <2>3, <4>1 DEF WillGo
      <4>2. CASE f.node # e.node \/ f.key # e.key
        BY <2>1, <2>3, <4>2 DEF Overwrites
      <4>. QED BY <4>1, <4>2
    <3>. QED BY <2>1, <2>2, <2>3, <3>1, WillGoKept
  <2>. QED BY <2>1, <2>2, <2>4 DEF Ann
<1>11. ASSUME NEW e \in Entries, Close(e), site' = site PROVE Announced'
  <2> SUFFICES ASSUME NEW f \in due', Plain(f.key) PROVE Ann(f)'
    BY DEF Announced
  <2> DEFINE w == <<f.node, "watch">>
  <2>1. f \in Entries /\ f.node \in Nodes /\ f.key \in Keys /\ w \in Actors /\ Ann(f)
    <3>1. f \in due
      BY <1>11 DEF Close, jobVars
    <3>. QED BY <3>1 DEF IndInv, IndexOK, TypeOK, Announced, Actors
  <2>2. WillGo(f) => WillGo(f)'
    <3>1. pc'[w] = pc[w] /\ walk'[w] = walk[w] /\ entry'[w] = entry[w] /\ UNCHANGED <<heap, unsure>>
      BY <1>11, <2>1 DEF Close, jobVars, Goto, IndInv, IndexOK, TypeOK
    <3>. QED BY <2>1, <3>1, WillGoKept
  <2>. QED BY <1>11, <2>1, <2>2 DEF Close, Ann, jobVars
<1>12. ASSUME NEW e \in Entries, Expire(e), site' = site PROVE Announced'
  <2> SUFFICES ASSUME NEW f \in due', Plain(f.key) PROVE Ann(f)'
    BY DEF Announced
  <2> DEFINE w == <<f.node, "watch">>
  <2>1. f \in Entries /\ f.node \in Nodes /\ f.key \in Keys /\ w \in Actors /\ Ann(f)
    <3>1. f \in due
      BY <1>12 DEF Expire, jobVars
    <3>. QED BY <3>1 DEF IndInv, IndexOK, TypeOK, Announced, Actors
  <2>2. WillGo(f) => WillGo(f)'
    <3>1. pc'[w] = pc[w] /\ walk'[w] = walk[w] /\ entry'[w] = entry[w] /\ UNCHANGED <<heap, unsure>>
      BY <1>12, <2>1 DEF Expire, jobVars, Goto, IndInv, IndexOK, TypeOK
    <3>. QED BY <2>1, <3>1, WillGoKept
  <2>. QED BY <1>12, <2>1, <2>2 DEF Expire, Ann, jobVars
<1>13. ASSUME NEW e \in Entries, CleanReplaced(e), site' = site PROVE Announced'
  <2> SUFFICES ASSUME NEW f \in due', Plain(f.key) PROVE Ann(f)'
    BY DEF Announced
  <2> DEFINE w == <<f.node, "watch">>
  <2>1. f \in Entries /\ f.node \in Nodes /\ f.key \in Keys /\ w \in Actors /\ Ann(f)
    <3>1. f \in due
      BY <1>13 DEF CleanReplaced, jobVars
    <3>. QED BY <3>1 DEF IndInv, IndexOK, TypeOK, Announced, Actors
  <2>2. WillGo(f) => WillGo(f)'
    <3>1. pc'[w] = pc[w] /\ walk'[w] = walk[w] /\ entry'[w] = entry[w] /\ UNCHANGED <<heap, unsure>>
      BY <1>13, <2>1 DEF CleanReplaced, jobVars, Goto, IndInv, IndexOK, TypeOK
    <3>. QED BY <2>1, <3>1, WillGoKept
  <2>. QED BY <1>13, <2>1, <2>2 DEF CleanReplaced, Ann, jobVars
<1>14. ASSUME NEW e \in Entries, NEW s, s = Store(e), Evict(s), site' = site PROVE Announced'
  <2> SUFFICES ASSUME NEW f \in due', Plain(f.key) PROVE Ann(f)'
    BY DEF Announced
  <2> DEFINE w == <<f.node, "watch">>
  <2>1. f \in Entries /\ f.node \in Nodes /\ f.key \in Keys /\ w \in Actors /\ Ann(f)
    <3>1. f \in due
      BY <1>14 DEF Evict, jobVars
    <3>. QED BY <3>1 DEF IndInv, IndexOK, TypeOK, Announced, Actors
  <2>2. WillGo(f) => WillGo(f)'
    <3>1. pc'[w] = pc[w] /\ walk'[w] = walk[w] /\ entry'[w] = entry[w] /\ UNCHANGED <<heap, unsure>>
      BY <1>14, <2>1 DEF Evict, jobVars, Goto, IndInv, IndexOK, TypeOK
    <3>. QED BY <2>1, <3>1, WillGoKept
  <2>. QED BY <1>14, <2>1, <2>2 DEF Evict, Ann, jobVars
<1>15. ASSUME NEW e \in Entries, NEW a \in Actors, Wake(a, e), site' = site PROVE Announced'
  <2> SUFFICES ASSUME NEW f \in due', Plain(f.key) PROVE Ann(f)'
    BY DEF Announced
  <2> DEFINE w == <<f.node, "watch">>
  <2>1. f \in Entries /\ f.node \in Nodes /\ f.key \in Keys /\ w \in Actors /\ Ann(f)
    <3>1. f \in due
      BY <1>15 DEF Wake
    <3>. QED BY <3>1 DEF IndInv, IndexOK, TypeOK, Announced, Actors
  <2>2. WillGo(f) => WillGo(f)'
    <3>1. pc'[w] = pc[w] /\ walk' = walk /\ entry'[w] = entry[w] /\ UNCHANGED <<heap, unsure>>
      BY <1>15, <2>1 DEF Wake, Goto, IndInv, IndexOK, TypeOK
    <3>. QED BY <2>1, <3>1, WillGoKept
  <2>. QED BY <1>15, <2>1, <2>2 DEF Wake, Ann
<1>16. ASSUME NEW n \in Nodes, Fetch(n), site' = site PROVE Announced'
  <2> SUFFICES ASSUME NEW f \in due', Plain(f.key) PROVE Ann(f)'
    BY DEF Announced
  <2> DEFINE w == <<f.node, "watch">>
  <2>1. f \in Entries /\ f.node \in Nodes /\ f.key \in Keys /\ w \in Actors /\ Ann(f)
    <3>1. f \in due
      BY <1>16 DEF Fetch, jobVars
    <3>. QED BY <3>1 DEF IndInv, IndexOK, TypeOK, Announced, Actors
  <2>2. WillGo(f) => WillGo(f)'
    <3>1. UNCHANGED <<pc, walk, entry, heap, unsure>>
      BY <1>16 DEF Fetch, jobVars
    <3>. QED BY <2>1, <3>1, WillGoKept
  <2>3. CASE f.node = n
    <3>1. work[n] = {} /\ pc[w] = "idle" /\ work' = [work EXCEPT ![n] = {lockKey(k) : k \in {k \in Keys : kv[k] \notin {None, n}}}]
      BY <1>16, <2>3 DEF Fetch
    <3>2. kv[f.key] \notin {None, n}
      BY <2>1, <2>3, <3>1 DEF Ann, WillGo, Deleting
    <3>3. lockKey(f.key) \in work'[n]
      BY <2>1, <3>1, <3>2 DEF IndInv, IndexOK, TypeOK
    <3>. QED BY <2>3, <3>3 DEF Ann
  <2>4. CASE f.node # n
    <3>1. (f.node \in changed => f.node \in changed') /\ work'[f.node] = work[f.node] /\ kv' = kv
      BY <1>16, <2>1, <2>4 DEF Fetch, IndInv, IndexOK, TypeOK
    <3>. QED BY <2>1, <2>2, <3>1 DEF Ann
  <2>. QED BY <2>3, <2>4
<1>17. ASSUME NEW n \in Nodes, NEW s \in work[n], handleDeleteKey(n, s), site' = site PROVE Announced'
  <2> SUFFICES ASSUME NEW f \in due', Plain(f.key) PROVE Ann(f)'
    BY DEF Announced
  <2> DEFINE w == <<f.node, "watch">>
  <2>1. f \in Entries /\ f.node \in Nodes /\ f.key \in Keys /\ w \in Actors /\ Ann(f)
    <3>1. f \in due
      BY <1>17 DEF handleDeleteKey
    <3>. QED BY <3>1 DEF IndInv, IndexOK, TypeOK, Announced, Actors
  <2>2. UNCHANGED <<heap, slice, entry, changed, kv>> /\ work' = [work EXCEPT ![n] = @ \ {s}]
    BY <1>17 DEF handleDeleteKey
  <2>3. <<n, "watch">> \in Actors /\ Del(<<n, "watch">>, trimmed(s))
    BY <1>17 DEF handleDeleteKey, Actors
  <2>4. /\ unsure \subseteq unsure'
        /\ \A b \in Actors \ {<<n, "watch">>} : pc'[b] = pc[b] /\ walk'[b] = walk[b]
    BY <2>2, <2>3, DelTypes
  <2>5. CASE f.node # n
    <3>1. WillGo(f) => WillGo(f)'
      BY <2>1, <2>2, <2>4, <2>5, WillGoKept
    <3>2. work'[f.node] = work[f.node]
      BY <2>1, <2>2, <2>5 DEF IndInv, IndexOK, TypeOK
    <3>. QED BY <2>1, <2>2, <3>1, <3>2 DEF Ann
  <2>6. CASE f.node = n
    <3>1. pc[w] = "idle"
      BY <2>3, <2>6 DEF Del, Goto
    <3>2. ~WillGo(f)
      BY <3>1 DEF WillGo, Deleting
    <3>3. CASE s # lockKey(f.key)
      <4>1. lockKey(f.key) \in work[f.node] => lockKey(f.key) \in work'[f.node]
        BY <2>1, <2>2, <2>6, <3>3 DEF IndInv, IndexOK, TypeOK
      <4>. QED BY <2>1, <2>2, <3>2, <4>1 DEF Ann
    <3>4. CASE s = lockKey(f.key)
      <4>1. trimmed(s) = f.key
        BY <2>1, <3>4, TrimBack
      <4>2. f \in due /\ Indexed(f)
        BY <1>17 DEF handleDeleteKey, IndInv, DueIndexed
      <4>3. PICK i \in 1 .. slice[n][f.key].len : heap[n][f.key][slice[n][f.key].cap][i] = f
        BY <2>6, <4>2 DEF Indexed, InSlice, At
      <4>4. slice[n][f.key].len \in Nat /\ slice[n][f.key].len # 0
        BY <2>1, <2>6, <4>3, CapAssumption DEF IndInv, IndexOK, TypeOK
      <4>5. /\ pc' = [pc EXCEPT ![w] = "walk"]
            /\ walk' = [walk EXCEPT ![w] = [key |-> f.key, cap |-> slice[n][f.key].cap, len |-> slice[n][f.key].len, next |-> 1]]
        BY <2>1, <2>3, <2>6, <4>1, <4>4 DEF Del, Goto, NodeOf
      <4>6. /\ pc'[w] = "walk" /\ walk'[w].key = f.key /\ walk'[w].cap = slice[n][f.key].cap
            /\ walk'[w].len = slice[n][f.key].len /\ walk'[w].next = 1
        BY <2>1, <4>5 DEF IndInv, IndexOK, TypeOK
      <4>7. WillGo(f)'
        BY <2>2, <2>6, <4>3, <4>6 DEF WillGo, Deleting, InReach
      <4>. QED BY <4>7 DEF Ann
    <3>. QED BY <3>3, <3>4
  <2>. QED BY <2>5, <2>6
<1>18. ASSUME NEW k \in Keys, SessionLost(k), site' = site PROVE Announced'
  <2> SUFFICES ASSUME NEW f \in due', Plain(f.key) PROVE Ann(f)'
    BY DEF Announced
  <2> DEFINE w == <<f.node, "watch">>
  <2>1. f \in Entries /\ f.node \in Nodes /\ f.key \in Keys /\ w \in Actors /\ Ann(f)
    <3>1. f \in due
      BY <1>18 DEF SessionLost, Gone
    <3>. QED BY <3>1 DEF IndInv, IndexOK, TypeOK, Announced, Actors
  <2>2. WillGo(f) => WillGo(f)'
    <3>1. UNCHANGED <<pc, walk, entry, heap, unsure>>
      BY <1>18 DEF SessionLost, jobVars
    <3>. QED BY <2>1, <3>1, WillGoKept
  <2>3. CASE Pending(k) = {} /\ Gone(k)
    <3>1. work' = work /\ f.node \in changed'
      BY <2>1, <2>3 DEF Gone
    <3>2. f.node \in changed /\ kv[f.key] # f.node => f.key # k
      BY <2>3 DEF Gone, Pending
    <3>3. f.key # k => kv'[f.key] = kv[f.key]
      BY <2>1, <2>3 DEF Gone, IndInv, IndexOK, TypeOK
    <3>. QED BY <2>1, <2>2, <3>1, <3>2, <3>3 DEF Ann
  <2>. QED BY <1>18, <2>3 DEF SessionLost
<1>19. CASE UNCHANGED vars
  <2> SUFFICES ASSUME NEW f \in due', Plain(f.key) PROVE Ann(f)'
    BY DEF Announced
  <2>1. UNCHANGED <<heap, unsure, due, pc, walk, entry, kv, changed, work>>
    BY <1>19 DEF vars, index, jobVars, watchVars, history
  <2>2. f \in Entries /\ <<f.node, "watch">> \in Actors /\ Ann(f)
    BY <2>1, EntriesAssumption DEF IndInv, IndexOK, TypeOK, Announced, Actors
  <2>3. WillGo(f) => WillGo(f)'
    BY <2>1, <2>2 DEF WillGo, Deleting, InReach
  <2>. QED BY <2>1, <2>2, <2>3 DEF Ann
<1>20. site.entries \subseteq Entries
  BY EntriesAssumption DEF IndInv, IndexOK, TypeOK
<1>. QED BY <1>1, <1>2, <1>3, <1>4, <1>5, <1>6, <1>7, <1>8, <1>9, <1>10, <1>11, <1>12, <1>13, <1>14, <1>15, <1>16, <1>17, <1>18, <1>19, <1>20 DEF Next, Step, Life, Watch

(* An entry goes on leading to its body, if by another way.                *)
LEMMA LeadsKept ==
  ASSUME NEW f \in Entries, Leads(f),
         Indexed(f) => Indexed(f)' \/ f \in replaced',
         f \in closed /\ f \notin put => f \in closed' /\ f \notin put',
         f \in replaced => f \in replaced',
         \A b \in Actors : entry[b] = f /\ pc[b] \in {"lock", "leader"} => entry'[b] = f /\ pc'[b] \in {"lock", "leader"}
  PROVE  Leads(f)'
  BY DEF Leads, Cleaning

(* A body in the group keeps an entry that leads to it, or is an orphan.    *)
LEMMA NextBodies == IndInv /\ [Next]_vars => BodiesIndexed'
<1> SUFFICES ASSUME IndInv, [Next]_vars PROVE BodiesIndexed'
  OBVIOUS
<1>1. ASSUME NEW a \in Actors, NEW k \in Keys, Purge(a, k), site' = site PROVE BodiesIndexed'
  <2> SUFFICES ASSUME NEW t \in group', t \notin orphans' PROVE \E f \in Entries : Store(f) = t /\ Leads(f)'
    BY DEF BodiesIndexed
  <2>1. t \in group /\ t \notin orphans
    BY <1>1 DEF Purge, Del, index, entryVars, jobVars, watchVars, history
  <2>2. PICK f \in Entries : Store(f) = t /\ Leads(f)
    BY <2>1 DEF IndInv, BodiesIndexed
  <2>3. UNCHANGED <<heap, slice, put, closed, replaced>>
    BY <1>1 DEF Purge, Del, index, entryVars, jobVars, watchVars, history
  <2>4. Indexed(f) => Indexed(f)'
    BY <2>3 DEF Indexed, InSlice, At
  <2>5. \A b \in Actors : pc[b] \in {"lock", "leader"} => entry'[b] = entry[b] /\ pc'[b] \in {"lock", "leader"}
    BY <1>1 DEF Purge, Del, index, entryVars, jobVars, watchVars, history, IndInv, IndexOK, TypeOK, Goto
  <2>. QED BY <2>2, <2>3, <2>4, <2>5, LeadsKept
<1>2. ASSUME NEW a \in Actors, Visit(a), site' = site PROVE BodiesIndexed'
  <2> SUFFICES ASSUME NEW t \in group', t \notin orphans' PROVE \E f \in Entries : Store(f) = t /\ Leads(f)'
    BY DEF BodiesIndexed
  <2>1. t \in group /\ t \notin orphans
    BY <1>2 DEF Visit, index, entryVars, jobVars, watchVars, history
  <2>2. PICK f \in Entries : Store(f) = t /\ Leads(f)
    BY <2>1 DEF IndInv, BodiesIndexed
  <2>3. UNCHANGED <<heap, slice, put, closed, replaced>>
    BY <1>2 DEF Visit, index, entryVars, jobVars, watchVars, history
  <2>4. Indexed(f) => Indexed(f)'
    BY <2>3 DEF Indexed, InSlice, At
  <2>5. \A b \in Actors : pc[b] \in {"lock", "leader"} => entry'[b] = entry[b] /\ pc'[b] \in {"lock", "leader"}
    BY <1>2 DEF Visit, index, entryVars, jobVars, watchVars, history, IndInv, IndexOK, TypeOK, Goto
  <2>. QED BY <2>2, <2>3, <2>4, <2>5, LeadsKept
<1>3. ASSUME NEW a \in Actors, Return(a), site' = site PROVE BodiesIndexed'
  <2> SUFFICES ASSUME NEW t \in group', t \notin orphans' PROVE \E f \in Entries : Store(f) = t /\ Leads(f)'
    BY DEF BodiesIndexed
  <2>1. t \in group /\ t \notin orphans
    BY <1>3 DEF Return, index, entryVars, jobVars, watchVars, history
  <2>2. PICK f \in Entries : Store(f) = t /\ Leads(f)
    BY <2>1 DEF IndInv, BodiesIndexed
  <2>3. UNCHANGED <<heap, slice, put, closed, replaced>>
    BY <1>3 DEF Return, index, entryVars, jobVars, watchVars, history
  <2>4. Indexed(f) => Indexed(f)'
    BY <2>3 DEF Indexed, InSlice, At
  <2>5. \A b \in Actors : pc[b] \in {"lock", "leader"} => entry'[b] = entry[b] /\ pc'[b] \in {"lock", "leader"}
    BY <1>3 DEF Return, index, entryVars, jobVars, watchVars, history, IndInv, IndexOK, TypeOK, Goto
  <2>. QED BY <2>2, <2>3, <2>4, <2>5, LeadsKept
<1>4. ASSUME NEW a \in Actors, CleanEntry(a), site' = site PROVE BodiesIndexed'
  <2> SUFFICES ASSUME NEW t \in group', t \notin orphans' PROVE \E f \in Entries : Store(f) = t /\ Leads(f)'
    BY DEF BodiesIndexed
  <2>1. /\ pc[a] = "clean" /\ entry[a] \in Entries
        /\ UNCHANGED <<put, closed, replaced>> /\ t \in group /\ t \notin orphans
        /\ \A b \in Actors \ {a} : pc'[b] = pc[b] /\ entry'[b] = entry[b]
    BY <1>4 DEF CleanEntry, Goto, entryVars, IndInv, IndexOK, TypeOK, JobsOK, Holding
  <2>2. PICK f \in Entries : Store(f) = t /\ Leads(f)
    BY <2>1 DEF IndInv, BodiesIndexed
  <2>3. CASE UNCHANGED <<heap, slice>>
    <3>1. Indexed(f) => Indexed(f)'
      BY <2>3 DEF Indexed, InSlice, At
    <3>. QED BY <2>1, <2>2, <3>1, LeadsKept
  <2>4. CASE /\ pc' = [pc EXCEPT ![a] = "lock"] /\ entry' = entry
             /\ \E i \in 1 .. slice[entry[a].node][entry[a].key].len :
                  At(entry[a].node, entry[a].key, i) = entry[a] /\ Remove(entry[a].node, entry[a].key, i)
    <3>1. f # entry[a] /\ Indexed(f) => Indexed(f)'
      BY <2>1, <2>4, RemoveKeeps DEF IndInv
    <3>2. pc'[a] = "lock" /\ entry' = entry
      BY <2>4 DEF IndInv, IndexOK, TypeOK
    <3>3. CASE f = entry[a]
      BY <2>2, <3>2, <3>3 DEF Leads, Cleaning
    <3>4. CASE f # entry[a]
      BY <2>1, <2>2, <3>1, <3>4, LeadsKept
    <3>. QED BY <3>3, <3>4
  <2>. QED BY <1>4, <2>3, <2>4 DEF CleanEntry, Goto, index
<1>5. ASSUME NEW a \in Actors, LockFails(a), site' = site PROVE BodiesIndexed'
  <2> SUFFICES ASSUME NEW t \in group', t \notin orphans' PROVE \E f \in Entries : Store(f) = t /\ Leads(f)'
    BY DEF BodiesIndexed
  <2>1. PICK from \in {"lock", "sleep", "failed"}, err \in BOOLEAN : Done(a, from, err)
    BY <1>5 DEF LockFails
  <2>2. /\ UNCHANGED <<heap, slice, put, closed, replaced>> /\ t \in group /\ t \notin orphans
        /\ \A b \in Actors \ {a} : pc'[b] = pc[b] /\ entry'[b] = entry[b]
    BY <1>5, <2>1, DoneTypes DEF LockFails, index, entryVars, Orphaned
  <2>3. PICK f \in Entries : Store(f) = t /\ Leads(f)
    BY <2>2 DEF IndInv, BodiesIndexed
  <2>4. Indexed(f) => Indexed(f)'
    BY <2>2 DEF Indexed, InSlice, At
  <2>5. f # entry[a]
    BY <1>5, <2>2, <2>3 DEF LockFails, Orphaned
  <2>. QED BY <2>2, <2>3, <2>4, <2>5, LeadsKept
<1>6. ASSUME NEW a \in Actors, Elected(a), site' = site PROVE BodiesIndexed'
  <2> SUFFICES ASSUME NEW t \in group', t \notin orphans' PROVE \E f \in Entries : Store(f) = t /\ Leads(f)'
    BY DEF BodiesIndexed
  <2>1. t \in group /\ t \notin orphans
    BY <1>6 DEF Elected, index, entryVars, jobVars, watchVars, history
  <2>2. PICK f \in Entries : Store(f) = t /\ Leads(f)
    BY <2>1 DEF IndInv, BodiesIndexed
  <2>3. UNCHANGED <<heap, slice, put, closed, replaced>>
    BY <1>6 DEF Elected, index, entryVars, jobVars, watchVars, history
  <2>4. Indexed(f) => Indexed(f)'
    BY <2>3 DEF Indexed, InSlice, At
  <2>5. \A b \in Actors : pc[b] \in {"lock", "leader"} => entry'[b] = entry[b] /\ pc'[b] \in {"lock", "leader"}
    BY <1>6 DEF Elected, index, entryVars, jobVars, watchVars, history, IndInv, IndexOK, TypeOK, Goto
  <2>. QED BY <2>2, <2>3, <2>4, <2>5, LeadsKept
<1>7. ASSUME NEW a \in Actors, NotElected(a), site' = site PROVE BodiesIndexed'
  <2> SUFFICES ASSUME NEW t \in group', t \notin orphans' PROVE \E f \in Entries : Store(f) = t /\ Leads(f)'
    BY DEF BodiesIndexed
  <2>1. PICK from \in {"lock", "sleep", "failed"}, err \in BOOLEAN : Done(a, from, err)
    BY <1>7 DEF NotElected
  <2>2. /\ UNCHANGED <<heap, slice, put, closed, replaced>> /\ t \in group /\ t \notin orphans
        /\ \A b \in Actors \ {a} : pc'[b] = pc[b] /\ entry'[b] = entry[b]
    BY <1>7, <2>1, DoneTypes DEF NotElected, index, entryVars, Orphaned
  <2>3. PICK f \in Entries : Store(f) = t /\ Leads(f)
    BY <2>2 DEF IndInv, BodiesIndexed
  <2>4. Indexed(f) => Indexed(f)'
    BY <2>2 DEF Indexed, InSlice, At
  <2>5. CASE \E b \in Actors \ {a} : pc[b] = "leader" /\ Store(entry[b]) = Store(entry[a]) /\ t = Store(entry[a])
    <3>1. PICK b \in Actors \ {a} : pc[b] = "leader" /\ Store(entry[b]) = t
      BY <2>5
    <3>2. entry[b] \in Entries
      BY <3>1 DEF IndInv, IndexOK, TypeOK, JobsOK, Holding
    <3>3. PICK g \in Entries : g = entry[b]
      BY <3>2
    <3>4. Leads(g)'
      BY <2>2, <3>1, <3>3 DEF Leads, Cleaning
    <3>. QED BY <3>1, <3>3, <3>4
  <2>6. CASE f # entry[a]
    BY <2>2, <2>3, <2>4, <2>6, LeadsKept
  <2>. QED BY <1>7, <2>2, <2>3, <2>5, <2>6 DEF NotElected, Orphaned
<1>8. ASSUME NEW a \in Actors, Clean(a), site' = site PROVE BodiesIndexed'
  <2> SUFFICES ASSUME NEW t \in group', t \notin orphans' PROVE \E f \in Entries : Store(f) = t /\ Leads(f)'
    BY DEF BodiesIndexed
  <2>1. /\ UNCHANGED <<heap, slice, put, closed, replaced, entry>> /\ t \in group /\ t \notin orphans /\ t # Store(entry[a])
        /\ \A b \in Actors \ {a} : pc'[b] = pc[b]
    <3>1. /\ UNCHANGED <<heap, slice, put, closed, replaced, entry>> /\ group' \subseteq group
          /\ \A b \in Actors \ {a} : pc'[b] = pc[b]
      BY <1>8 DEF Clean, Goto, index, entryVars, IndInv, IndexOK, TypeOK
    <3>2. t \notin orphans /\ t # Store(entry[a])
      BY <1>8, <3>1 DEF Clean, Orphaned
    <3>. QED BY <3>1, <3>2
  <2>2. PICK f \in Entries : Store(f) = t /\ Leads(f)
    BY <2>1 DEF IndInv, BodiesIndexed
  <2>3. Indexed(f) => Indexed(f)'
    BY <2>1 DEF Indexed, InSlice, At
  <2>. QED BY <2>1, <2>2, <2>3, LeadsKept
<1>9. ASSUME NEW a \in Actors, Unlock(a), site' = site PROVE BodiesIndexed'
  <2> SUFFICES ASSUME NEW t \in group', t \notin orphans' PROVE \E f \in Entries : Store(f) = t /\ Leads(f)'
    BY DEF BodiesIndexed
  <2>1. PICK from \in {"lock", "sleep", "failed"}, err \in BOOLEAN : Done(a, from, err)
    BY <1>9 DEF Unlock
  <2>2. /\ UNCHANGED <<heap, slice, put, closed, replaced>> /\ t \in group /\ t \notin orphans
        /\ \A b \in Actors \ {a} : pc'[b] = pc[b] /\ entry'[b] = entry[b]
    BY <1>9, <2>1, DoneTypes DEF Unlock, index, entryVars, Orphaned
  <2>3. PICK f \in Entries : Store(f) = t /\ Leads(f)
    BY <2>2 DEF IndInv, BodiesIndexed
  <2>4. Indexed(f) => Indexed(f)'
    BY <2>2 DEF Indexed, InSlice, At
  <2>5. pc[a] \notin {"lock", "leader"}
    BY <1>9 DEF Unlock, Done, Goto
  <2>. QED BY <2>2, <2>3, <2>4, <2>5, LeadsKept
<1>10. ASSUME NEW e \in Entries, Put(e), site' = site PROVE BodiesIndexed'
  <2> SUFFICES ASSUME NEW t \in group', t \notin orphans' PROVE \E f \in Entries : Store(f) = t /\ Leads(f)'
    BY DEF BodiesIndexed
  <2>1. /\ put' = put \cup {e} /\ UNCHANGED <<closed, pc, entry>>
        /\ t \in group /\ orphans' = orphans \ {Store(e)}
    BY <1>10 DEF Put, jobVars
  <2>2. /\ Indexed(e)' /\ replaced \subseteq replaced'
        /\ \A f \in Entries : Indexed(f) => Indexed(f)' \/ f \in replaced'
    BY <1>10, PutEffect DEF IndInv
  <2>3. CASE t = Store(e)
    BY <2>2, <2>3 DEF Leads
  <2>4. CASE t # Store(e)
    <3>1. PICK f \in Entries : Store(f) = t /\ Leads(f)
      BY <2>1, <2>4 DEF IndInv, BodiesIndexed
    <3>2. f # e
      BY <2>4, <3>1
    <3>. QED BY <2>1, <2>2, <3>1, <3>2, LeadsKept
  <2>. QED BY <2>3, <2>4
<1>11. ASSUME NEW e \in Entries, Close(e), site' = site PROVE BodiesIndexed'
  <2> SUFFICES ASSUME NEW t \in group', t \notin orphans' PROVE \E f \in Entries : Store(f) = t /\ Leads(f)'
    BY DEF BodiesIndexed
  <2>1. /\ UNCHANGED <<heap, slice, put, replaced, pc, entry>> /\ closed' = closed \cup {e}
        /\ t = Store(e) \/ (t \in group /\ t \notin orphans)
    BY <1>11 DEF Close, index, jobVars
  <2>2. \A f \in Entries : Indexed(f) => Indexed(f)'
    BY <2>1 DEF Indexed, InSlice, At
  <2>3. CASE t \in group /\ t \notin orphans
    <3>1. PICK f \in Entries : Store(f) = t /\ Leads(f)
      BY <2>3 DEF IndInv, BodiesIndexed
    <3>. QED BY <2>1, <2>2, <3>1, LeadsKept
  <2>4. CASE t = Store(e) /\ ~(t \in group /\ t \notin orphans)
    <3>1. ~(e \in put /\ ~Indexed(e) /\ e \notin replaced /\ ~Cleaning(e))
      BY <1>11, <2>4 DEF Close
    <3>2. Leads(e)'
      BY <2>1, <2>2, <3>1 DEF Leads, Cleaning
    <3>. QED BY <2>4, <3>2
  <2>. QED BY <2>1, <2>3, <2>4
<1>12. ASSUME NEW e \in Entries, Expire(e), site' = site PROVE BodiesIndexed'
  <2> SUFFICES ASSUME NEW t \in group', t \notin orphans' PROVE \E f \in Entries : Store(f) = t /\ Leads(f)'
    BY DEF BodiesIndexed
  <2>1. t \in group /\ t \notin orphans
    BY <1>12 DEF Expire, index, entryVars, jobVars, watchVars, history
  <2>2. PICK f \in Entries : Store(f) = t /\ Leads(f)
    BY <2>1 DEF IndInv, BodiesIndexed
  <2>3. UNCHANGED <<heap, slice, put, closed, replaced>>
    BY <1>12 DEF Expire, index, entryVars, jobVars, watchVars, history
  <2>4. Indexed(f) => Indexed(f)'
    BY <2>3 DEF Indexed, InSlice, At
  <2>5. \A b \in Actors : pc[b] \in {"lock", "leader"} => entry'[b] = entry[b] /\ pc'[b] \in {"lock", "leader"}
    BY <1>12 DEF Expire, index, entryVars, jobVars, watchVars, history, IndInv, IndexOK, TypeOK, Goto
  <2>. QED BY <2>2, <2>3, <2>4, <2>5, LeadsKept
<1>13. ASSUME NEW e \in Entries, CleanReplaced(e), site' = site PROVE BodiesIndexed'
  <2> SUFFICES ASSUME NEW t \in group', t \notin orphans' PROVE \E f \in Entries : Store(f) = t /\ Leads(f)'
    BY DEF BodiesIndexed
  <2>1. /\ UNCHANGED <<heap, slice, put, closed, pc, entry>> /\ replaced' = replaced \ {e}
        /\ t \in group /\ t \notin orphans /\ t # Store(e)
    BY <1>13 DEF CleanReplaced, Orphaned, index, jobVars
  <2>2. PICK f \in Entries : Store(f) = t /\ Leads(f)
    BY <2>1 DEF IndInv, BodiesIndexed
  <2>3. Indexed(f) => Indexed(f)'
    BY <2>1 DEF Indexed, InSlice, At
  <2>. QED BY <2>1, <2>2, <2>3, LeadsKept
<1>14. ASSUME NEW e \in Entries, NEW s, s = Store(e), Evict(s), site' = site PROVE BodiesIndexed'
  <2> SUFFICES ASSUME NEW t \in group', t \notin orphans' PROVE \E f \in Entries : Store(f) = t /\ Leads(f)'
    BY DEF BodiesIndexed
  <2>1. UNCHANGED <<heap, slice, put, closed, replaced, pc, entry>> /\ t \in group /\ t \notin orphans
    BY <1>14 DEF Evict, index, entryVars, jobVars
  <2>2. PICK f \in Entries : Store(f) = t /\ Leads(f)
    BY <2>1 DEF IndInv, BodiesIndexed
  <2>3. Indexed(f) => Indexed(f)'
    BY <2>1 DEF Indexed, InSlice, At
  <2>. QED BY <2>1, <2>2, <2>3, LeadsKept
<1>15. ASSUME NEW e \in Entries, NEW a \in Actors, Wake(a, e), site' = site PROVE BodiesIndexed'
  <2> SUFFICES ASSUME NEW t \in group', t \notin orphans' PROVE \E f \in Entries : Store(f) = t /\ Leads(f)'
    BY DEF BodiesIndexed
  <2>1. t \in group /\ t \notin orphans
    BY <1>15 DEF Wake, index, entryVars, jobVars, watchVars, history
  <2>2. PICK f \in Entries : Store(f) = t /\ Leads(f)
    BY <2>1 DEF IndInv, BodiesIndexed
  <2>3. UNCHANGED <<heap, slice, put, closed, replaced>>
    BY <1>15 DEF Wake, index, entryVars, jobVars, watchVars, history
  <2>4. Indexed(f) => Indexed(f)'
    BY <2>3 DEF Indexed, InSlice, At
  <2>5. \A b \in Actors : pc[b] \in {"lock", "leader"} => entry'[b] = entry[b] /\ pc'[b] \in {"lock", "leader"}
    BY <1>15 DEF Wake, index, entryVars, jobVars, watchVars, history, IndInv, IndexOK, TypeOK, Goto
  <2>. QED BY <2>2, <2>3, <2>4, <2>5, LeadsKept
<1>16. ASSUME NEW n \in Nodes, Fetch(n), site' = site PROVE BodiesIndexed'
  <2> SUFFICES ASSUME NEW t \in group', t \notin orphans' PROVE \E f \in Entries : Store(f) = t /\ Leads(f)'
    BY DEF BodiesIndexed
  <2>1. t \in group /\ t \notin orphans
    BY <1>16 DEF Fetch, index, entryVars, jobVars, watchVars, history
  <2>2. PICK f \in Entries : Store(f) = t /\ Leads(f)
    BY <2>1 DEF IndInv, BodiesIndexed
  <2>3. UNCHANGED <<heap, slice, put, closed, replaced>>
    BY <1>16 DEF Fetch, index, entryVars, jobVars, watchVars, history
  <2>4. Indexed(f) => Indexed(f)'
    BY <2>3 DEF Indexed, InSlice, At
  <2>5. \A b \in Actors : pc[b] \in {"lock", "leader"} => entry'[b] = entry[b] /\ pc'[b] \in {"lock", "leader"}
    BY <1>16 DEF Fetch, index, entryVars, jobVars, watchVars, history, IndInv, IndexOK, TypeOK, Goto
  <2>. QED BY <2>2, <2>3, <2>4, <2>5, LeadsKept
<1>17. ASSUME NEW n \in Nodes, NEW s \in work[n], handleDeleteKey(n, s), site' = site PROVE BodiesIndexed'
  <2> SUFFICES ASSUME NEW t \in group', t \notin orphans' PROVE \E f \in Entries : Store(f) = t /\ Leads(f)'
    BY DEF BodiesIndexed
  <2>1. t \in group /\ t \notin orphans
    BY <1>17 DEF handleDeleteKey, Del, index, entryVars, jobVars, watchVars, history
  <2>2. PICK f \in Entries : Store(f) = t /\ Leads(f)
    BY <2>1 DEF IndInv, BodiesIndexed
  <2>3. UNCHANGED <<heap, slice, put, closed, replaced>>
    BY <1>17 DEF handleDeleteKey, Del, index, entryVars, jobVars, watchVars, history
  <2>4. Indexed(f) => Indexed(f)'
    BY <2>3 DEF Indexed, InSlice, At
  <2>5. \A b \in Actors : pc[b] \in {"lock", "leader"} => entry'[b] = entry[b] /\ pc'[b] \in {"lock", "leader"}
    BY <1>17 DEF handleDeleteKey, Del, index, entryVars, jobVars, watchVars, history, IndInv, IndexOK, TypeOK, Goto
  <2>. QED BY <2>2, <2>3, <2>4, <2>5, LeadsKept
<1>18. ASSUME NEW k \in Keys, SessionLost(k), site' = site PROVE BodiesIndexed'
  <2> SUFFICES ASSUME NEW t \in group', t \notin orphans' PROVE \E f \in Entries : Store(f) = t /\ Leads(f)'
    BY DEF BodiesIndexed
  <2>1. t \in group /\ t \notin orphans
    BY <1>18 DEF SessionLost, index, entryVars, jobVars, watchVars, history
  <2>2. PICK f \in Entries : Store(f) = t /\ Leads(f)
    BY <2>1 DEF IndInv, BodiesIndexed
  <2>3. UNCHANGED <<heap, slice, put, closed, replaced>>
    BY <1>18 DEF SessionLost, index, entryVars, jobVars, watchVars, history
  <2>4. Indexed(f) => Indexed(f)'
    BY <2>3 DEF Indexed, InSlice, At
  <2>5. \A b \in Actors : pc[b] \in {"lock", "leader"} => entry'[b] = entry[b] /\ pc'[b] \in {"lock", "leader"}
    BY <1>18 DEF SessionLost, index, entryVars, jobVars, watchVars, history, IndInv, IndexOK, TypeOK, Goto
  <2>. QED BY <2>2, <2>3, <2>4, <2>5, LeadsKept
<1>19. CASE UNCHANGED vars
  BY <1>19 DEF vars, index, entryVars, jobVars, watchVars, history, IndInv, BodiesIndexed, Leads, Cleaning, Indexed, InSlice, At
<1>20. site.entries \subseteq Entries
  BY EntriesAssumption DEF IndInv, IndexOK, TypeOK
<1>. QED BY <1>1, <1>2, <1>3, <1>4, <1>5, <1>6, <1>7, <1>8, <1>9, <1>10, <1>11, <1>12, <1>13, <1>14, <1>15, <1>16, <1>17, <1>18, <1>19, <1>20 DEF Next, Step, Life, Watch

-----------------------------------------------------------------------------
(* The invariant holds at first, and every step keeps it.                  *)
LEMMA InitInd == Init => IndInv
<1> SUFFICES ASSUME Init PROVE IndInv
  OBVIOUS
<1>1. TypeOK
  BY CapAssumption DEF Init, TypeOK, Slots, NoWalk, Holding
<1>2. SliceOK
  BY DEF Init, SliceOK, Filled
<1>3. WalkOK /\ JobsOK
  BY DEF Init, WalkOK, JobsOK, NoWalk, Holding
<1>. QED BY <1>1, <1>2, <1>3 DEF Init, IndInv, IndexOK, DueIndexed, Announced, SureShort, Deleting, BodiesIndexed

(* So it always holds.                                                     *)
LEMMA Invariance == Spec => []IndInv
<1>1. IndInv /\ [Next]_vars => IndInv'
  BY NextType, NextIndex, NextDue, NextSure, NextPurge, NextBodies DEF IndInv, IndexOK
<1>. QED BY InitInd, <1>1, PTL DEF Spec

(* Types: slices stay within their arrays' capacity, and walks too.        *)
THEOREM TypeCorrect == Spec => []TypeOK
<1>1. IndInv => TypeOK
  BY DEF IndInv, IndexOK
<1>. QED BY <1>1, Invariance, PTL

(* An announced purge is not forgotten: whatever nodes, keys and entries   *)
(* there are, a fresh entry whose key another node's lock announced is     *)
(* still to be deleted by its node's watch, but for the excepted keys,     *)
(* locks and Dels (distributedClean, handleDeleteKey, Del).                *)
THEOREM PurgeReachesAll == Spec => []PurgePropagates
<1>1. IndInv => PurgePropagates
  BY DEF IndInv, Announced, Ann, WillGo, PurgePropagates
<1>. QED BY <1>1, Invariance, PTL

(* A body that the group has is one that an entry leads to or somebody is  *)
(* about to clean, whatever the order of Put, Close and the cleaning, but  *)
(* for the orphans (Put, Close, cleanEntry, distributedClean).             *)
THEOREM BodiesFollowEntries == Spec => []BodiesIndexed
<1>1. IndInv => BodiesIndexed
  BY DEF IndInv
<1>. QED BY <1>1, Invariance, PTL
=============================================================================
