-------------------------- MODULE HTTPCacheProofs --------------------------
(***************************************************************************)
(* For any entries, deleters, keys, headers, buckets and capacities: the   *)
(* index never holds an entry twice, Del never reads nil, and an entry's   *)
(* storage is cleaned at most once, never while it is indexed, and never   *)
(* forgotten; Get answers with the newest variant stored for the request.  *)
(***************************************************************************)
EXTENDS HTTPCache, WellFoundedInduction, TLAPS

(* Every entry left in any backing array, live or abandoned, was put under *)
(* that array's key.                                                       *)
HeapOK ==
  \A k \in Keys, c \in Slots, i \in Slots :
    heap[k][c][i] # None => key[heap[k][c][i]] = k

(* An entry that was not put yet is nowhere. *)
NewOK ==
  \A e \in Entries :
    /\ life[e] = "new" <=> key[e] = None
    /\ life[e] = "new" => cleans[e] = 0 /\ e \notin replaced /\ e \notin left

TargetOK ==
  \A a \in Actors : cpc[a] # "idle" => target[a] \in Entries /\ key[target[a]] \in Keys

(* An entry's goroutine is in cleanEntry only after it has woken up. *)
TimerOK ==
  \A e \in Entries :
    /\ life[e] = "new" => timer[e] = "none"
    /\ timer[e] # "awake" => cpc[e] = "idle"

LeftOK ==
  \A e \in left : ~Indexed(e) /\ e \notin replaced /\ ~BeingCleaned(e) /\ cleans[e] = 0

Skeleton ==
  TypeOK /\ HeapOK /\ SlotsDistinct /\ WalkSafe /\ NewOK /\ TargetOK /\ TimerOK
Fates == CleanedOnce /\ LeftOK /\ NothingLost
IndInv == Skeleton /\ Fates

(* The empty index satisfies the invariant.                                *)
LEMMA InitInd == Init => IndInv
<1> SUFFICES ASSUME Init PROVE IndInv
  OBVIOUS
<1> USE CapAssumption, BucketAssumption, NoneAssumption, ActorAssumption DEF Init, Slots, Actors
<1>1. TypeOK
  BY DEF TypeOK
<1>2. \A e \in Entries : ~Indexed(e) /\ ~BeingCleaned(e)
  BY DEF Indexed, BeingCleaned
<1>3. HeapOK /\ SlotsDistinct /\ WalkSafe /\ NewOK /\ TargetOK /\ TimerOK
  BY DEF HeapOK, SlotsDistinct, WalkSafe, NewOK, TargetOK, TimerOK
<1>4. CleanedOnce /\ LeftOK /\ NothingLost
  BY <1>2 DEF CleanedOnce, LeftOK, NothingLost
<1>. QED BY <1>1, <1>3, <1>4 DEF IndInv, Skeleton, Fates

-----------------------------------------------------------------------------
(* What the three ways to change a slice do to its slots. *)

(* The slots before len stay, e comes at the end; no array loses an entry, *)
(* and e is the only one that is new in any.                               *)
LEMMA AppendSlots ==
  ASSUME TypeOK, SlotsDistinct, NEW k \in Keys, NEW e \in Entries, Append(k, e)
  PROVE  /\ heap' \in [Keys -> [Slots -> [Slots -> Entries \cup {None}]]]
         /\ slice' \in [Keys -> [cap : 0 .. MaxCap, len : 0 .. MaxCap]]
         /\ slice'[k].len = slice[k].len + 1 /\ slice'[k].len <= slice'[k].cap
         /\ \A i \in 1 .. slice[k].len : At(k, i)' = At(k, i)
         /\ heap'[k][slice'[k].cap][slice[k].len + 1] = e
         /\ \A l \in Keys : l # k => slice'[l] = slice[l] /\ heap'[l] = heap[l]
         /\ \A c \in Slots, i \in Slots :
              /\ heap[k][c][i] \in Entries => heap'[k][c][i] \in Entries
              /\ \/ heap'[k][c][i] = heap[k][c][i]
                 \/ heap'[k][c][i] = e
                 \/ i \in 1 .. slice[k].len /\ heap'[k][c][i] = At(k, i)
<1> DEFINE s == slice[k]
           c0 == IF s.len < s.cap THEN s.cap ELSE Grow(s.cap)
           old == IF s.cap = 0 THEN [i \in Slots |-> None] ELSE heap[k][s.cap]
           new == [i \in Slots |-> IF i <= s.len THEN old[i]
                                   ELSE IF i = s.len + 1 THEN e ELSE heap[k][c0][i]]
<1> USE CapAssumption, NoneAssumption DEF TypeOK, Slots
<1>1. /\ s.len \in 0 .. MaxCap /\ s.cap \in 0 .. MaxCap /\ s.len <= s.cap
      /\ s \in [cap : 0 .. MaxCap, len : 0 .. MaxCap]
  OBVIOUS
<1>2. c0 \in Slots /\ s.len + 1 <= c0
  BY <1>1 DEF Append, Grow
<1>3. /\ heap' = [heap EXCEPT ![k] = [heap[k] EXCEPT ![c0] = new]]
      /\ slice' = [slice EXCEPT ![k] = [cap |-> c0, len |-> s.len + 1]]
  BY <1>2 DEF Append
<1>4. \A i \in 1 .. s.len : i \in Slots /\ s.cap \in Slots /\ new[i] = At(k, i)
                           /\ At(k, i) \in Entries
  BY <1>1 DEF At, SlotsDistinct
<1>5. new \in [Slots -> Entries \cup {None}] /\ new[s.len + 1] = e
  <2>1. \A i \in Slots : new[i] \in Entries \cup {None}
    BY <1>1, <1>2, <1>4
  <2>. QED BY <1>1, <1>2, <2>1
<1> HIDE DEF new, c0
<1>6. heap'[k] = [heap[k] EXCEPT ![c0] = new] /\ slice'[k].cap = c0
      /\ slice'[k].len = s.len + 1
  BY <1>3
<1>7. heap'[k][c0] = new
  BY <1>2, <1>6
<1>8. \A i \in 1 .. s.len : At(k, i)' = At(k, i)
  BY <1>4, <1>6, <1>7 DEF At
<1>9. heap'[k][slice'[k].cap][s.len + 1] = e
  BY <1>5, <1>6, <1>7
<1>10. ASSUME NEW c \in Slots, NEW i \in Slots
       PROVE  /\ heap[k][c][i] \in Entries => heap'[k][c][i] \in Entries
              /\ \/ heap'[k][c][i] = heap[k][c][i]
                 \/ heap'[k][c][i] = e
                 \/ i \in 1 .. s.len /\ heap'[k][c][i] = At(k, i)
  <2>1. CASE c # c0
    BY <2>1, <1>2, <1>6
  <2>2. CASE c = c0 /\ i \in 1 .. s.len
    BY <2>2, <1>4, <1>7
  <2>3. CASE c = c0 /\ i \notin 1 .. s.len
    <3>1. new[i] = IF i = s.len + 1 THEN e ELSE heap[k][c0][i]
      BY <2>3, <1>1 DEF new
    <3>. QED BY <2>3, <3>1, <1>7
  <2>. QED BY <2>1, <2>2, <2>3
<1>11. /\ heap' \in [Keys -> [Slots -> [Slots -> Entries \cup {None}]]]
       /\ slice' \in [Keys -> [cap : 0 .. MaxCap, len : 0 .. MaxCap]]
  BY <1>1, <1>2, <1>3, <1>5
<1>12. slice'[k].len <= slice'[k].cap
  BY <1>1, <1>2, <1>6
<1>13. \A l \in Keys : l # k => slice'[l] = slice[l] /\ heap'[l] = heap[l]
  BY <1>3
<1>. QED BY <1>6, <1>8, <1>9, <1>10, <1>11, <1>12, <1>13

(* Slot i alone changes, from one entry to another. *)
LEMMA ReplaceSlots ==
  ASSUME TypeOK, SlotsDistinct, NEW k \in Keys, NEW e \in Entries,
         NEW i \in 1 .. slice[k].len, Replace(k, i, e)
  PROVE  /\ heap' \in [Keys -> [Slots -> [Slots -> Entries \cup {None}]]]
         /\ slice' = slice
         /\ \A j \in 1 .. slice[k].len : At(k, j)' = IF j = i THEN e ELSE At(k, j)
         /\ \A l \in Keys : l # k => heap'[l] = heap[l]
         /\ \A c \in Slots, j \in Slots :
              /\ heap[k][c][j] \in Entries => heap'[k][c][j] \in Entries
              /\ heap'[k][c][j] = heap[k][c][j] \/ heap'[k][c][j] = e
<1> USE CapAssumption, NoneAssumption DEF TypeOK, Slots
<1> DEFINE c0 == slice[k].cap
<1>1. c0 \in Slots /\ 1 .. slice[k].len \subseteq Slots
  OBVIOUS
<1>2. slice' = slice /\ heap' = [heap EXCEPT ![k] = [heap[k] EXCEPT ![c0] =
                                     [heap[k][c0] EXCEPT ![i] = e]]]
  BY <1>1 DEF Replace
<1> HIDE DEF c0
<1>3. heap'[k] = [heap[k] EXCEPT ![c0] = [heap[k][c0] EXCEPT ![i] = e]]
  BY <1>2
<1>4. \A j \in 1 .. slice[k].len : At(k, j)' = IF j = i THEN e ELSE At(k, j)
  BY <1>1, <1>2, <1>3 DEF At, c0
<1>5. \A c \in Slots, j \in Slots :
        /\ heap[k][c][j] \in Entries => heap'[k][c][j] \in Entries
        /\ heap'[k][c][j] = heap[k][c][j] \/ heap'[k][c][j] = e
  BY <1>1, <1>3
<1>. QED BY <1>1, <1>2, <1>4, <1>5

(* The slots from i on hold what the next one held; no array loses an      *)
(* entry where it had one.                                                 *)
LEMMA RemoveSlots ==
  ASSUME TypeOK, SlotsDistinct, NEW k \in Keys, NEW i \in 1 .. slice[k].len, Remove(k, i)
  PROVE  /\ heap' \in [Keys -> [Slots -> [Slots -> Entries \cup {None}]]]
         /\ slice' \in [Keys -> [cap : 0 .. MaxCap, len : 0 .. MaxCap]]
         /\ slice'[k].len = slice[k].len - 1 /\ slice'[k].cap = slice[k].cap
         /\ \A j \in 1 .. slice[k].len - 1 :
              At(k, j)' = IF j < i THEN At(k, j) ELSE At(k, j + 1)
         /\ \A l \in Keys : l # k => slice'[l] = slice[l] /\ heap'[l] = heap[l]
         /\ \A c \in Slots, j \in Slots :
              /\ heap[k][c][j] \in Entries => heap'[k][c][j] \in Entries
              /\ \/ heap'[k][c][j] = heap[k][c][j]
                 \/ j + 1 \in 1 .. slice[k].len /\ heap'[k][c][j] = At(k, j + 1)
<1> USE CapAssumption, NoneAssumption DEF TypeOK, Slots
<1> DEFINE s == slice[k]
           c0 == slice[k].cap
           new == [j \in Slots |-> IF i <= j /\ j < s.len THEN heap[k][c0][j + 1]
                                                        ELSE heap[k][c0][j]]
<1>1. /\ s.len \in Slots /\ c0 \in Slots /\ s.len <= c0 /\ i \in Slots /\ i <= s.len
      /\ 1 .. slice[k].len \subseteq Slots
  OBVIOUS
<1>2. /\ heap' = [heap EXCEPT ![k] = [heap[k] EXCEPT ![c0] = new]]
      /\ slice' = [slice EXCEPT ![k] = [s EXCEPT !.len = s.len - 1]]
  BY <1>1 DEF Remove
<1>3. /\ slice'[k] = [s EXCEPT !.len = s.len - 1]
      /\ slice'[k].len = s.len - 1 /\ slice'[k].cap = c0
  BY <1>1, <1>2
<1>4. \A j \in Slots : i <= j /\ j < s.len => j + 1 \in Slots
  BY <1>1
<1>5. new \in [Slots -> Entries \cup {None}]
  BY <1>1, <1>4
<1>6. /\ heap' \in [Keys -> [Slots -> [Slots -> Entries \cup {None}]]]
      /\ slice' \in [Keys -> [cap : 0 .. MaxCap, len : 0 .. MaxCap]]
  BY <1>1, <1>2, <1>5
<1>7. heap'[k] = [heap[k] EXCEPT ![c0] = new] /\ heap'[k][c0] = new
  BY <1>1, <1>2
<1>8. \A j \in 1 .. s.len - 1 : At(k, j)' = IF j < i THEN At(k, j) ELSE At(k, j + 1)
  <2> SUFFICES ASSUME NEW j \in 1 .. s.len - 1
               PROVE  At(k, j)' = IF j < i THEN At(k, j) ELSE At(k, j + 1)
    OBVIOUS
  <2>1. At(k, j)' = new[j]
    BY <1>3, <1>7 DEF At
  <2>2. j \in Slots /\ j < s.len
    BY <1>1
  <2>. QED BY <1>1, <2>1, <2>2 DEF At
<1>9. ASSUME NEW c \in Slots, NEW j \in Slots
      PROVE  /\ heap[k][c][j] \in Entries => heap'[k][c][j] \in Entries
             /\ \/ heap'[k][c][j] = heap[k][c][j]
                \/ j + 1 \in 1 .. s.len /\ heap'[k][c][j] = At(k, j + 1)
  <2>1. CASE c = c0 /\ i <= j /\ j < s.len
    <3>1. heap'[k][c][j] = At(k, j + 1) /\ j + 1 \in 1 .. s.len
      BY <2>1, <1>1, <1>7 DEF At
    <3>2. At(k, j + 1) \in Entries
      BY <3>1 DEF SlotsDistinct
    <3>. QED BY <3>1, <3>2
  <2>2. CASE c = c0 /\ ~(i <= j /\ j < s.len)
    BY <2>2, <1>7
  <2>3. CASE c # c0
    BY <2>3, <1>7
  <2>. QED BY <2>1, <2>2, <2>3
<1>10. \A l \in Keys : l # k => slice'[l] = slice[l] /\ heap'[l] = heap[l]
  BY <1>2
<1>. QED BY <1>3, <1>6, <1>8, <1>9, <1>10

-----------------------------------------------------------------------------
(* The same three changes, seen from the index as a whole. *)

(* A Put that finds no variant to replace: the index gains the new entry   *)
(* and loses none.                                                         *)
LEMMA PutAppends ==
  ASSUME Skeleton, NEW e \in Entries, NEW k \in Keys, life[e] = "new",
         key' = [key EXCEPT ![e] = k], del' = del, Append(k, e)
  PROVE  /\ HeapOK' /\ SlotsDistinct' /\ WalkSafe'
         /\ \A x \in Entries : Indexed(x)' <=> Indexed(x) \/ x = e
<1> DEFINE n == slice[k].len
<1> USE CapAssumption, NoneAssumption DEF Skeleton, Slots
<1>1. TypeOK /\ HeapOK /\ SlotsDistinct /\ WalkSafe /\ NewOK
  OBVIOUS
<1>2. /\ slice'[k].len = n + 1 /\ n \in 0 .. MaxCap /\ n + 1 \in Slots
      /\ \A j \in 1 .. n : At(k, j)' = At(k, j)
      /\ heap'[k][slice'[k].cap][n + 1] = e
      /\ \A l \in Keys : l # k => slice'[l] = slice[l] /\ heap'[l] = heap[l]
      /\ \A c \in Slots, i \in Slots :
           /\ heap[k][c][i] \in Entries => heap'[k][c][i] \in Entries
           /\ \/ heap'[k][c][i] = heap[k][c][i]
              \/ heap'[k][c][i] = e
              \/ i \in 1 .. n /\ heap'[k][c][i] = At(k, i)
  BY <1>1, AppendSlots DEF TypeOK
<1>3. key[e] = None /\ key'[e] = k /\ \A x \in Entries : x # e => key'[x] = key[x]
  BY <1>1 DEF NewOK, TypeOK
<1>4. \A l \in Keys, c \in Slots, i \in Slots : heap[l][c][i] # e
  BY <1>1, <1>3 DEF HeapOK
<1>5. \A l \in Keys : \A j \in 1 .. slice[l].len :
        At(l, j) \in Entries /\ At(l, j) # e /\ key[At(l, j)] = l
  BY <1>1, <1>3 DEF SlotsDistinct
<1>6. \A l \in Keys : l # k => \A j : At(l, j)' = At(l, j)
  BY <1>2 DEF At
<1>7. HeapOK'
  <2> SUFFICES ASSUME NEW l \in Keys, NEW c \in Slots, NEW i \in Slots,
                      heap'[l][c][i] # None
               PROVE  key'[heap'[l][c][i]] = l
    BY DEF HeapOK
  <2>1. heap[l][c][i] \in Entries \cup {None}
    BY <1>1 DEF TypeOK
  <2>2. CASE l # k
    BY <2>1, <2>2, <1>1, <1>2, <1>3, <1>4 DEF HeapOK
  <2>3. CASE l = k
    BY <2>1, <2>3, <1>1, <1>2, <1>3, <1>4, <1>5 DEF HeapOK
  <2>. QED BY <2>2, <2>3
<1>8. \A i \in 1 .. n + 1 : At(k, i)' = IF i = n + 1 THEN e ELSE At(k, i)
  BY <1>2 DEF At
<1>9. SlotsDistinct'
  <2> SUFFICES ASSUME NEW l \in Keys, NEW i \in 1 .. slice'[l].len,
                      NEW j \in 1 .. slice'[l].len
               PROVE  /\ At(l, i)' \in Entries /\ key'[At(l, i)'] = l
                      /\ At(l, i)' = At(l, j)' => i = j
    BY DEF SlotsDistinct
  <2>1. CASE l # k
    BY <2>1, <1>1, <1>2, <1>3, <1>5, <1>6 DEF SlotsDistinct
  <2>2. CASE l = k
    BY <2>2, <1>1, <1>2, <1>3, <1>5, <1>8 DEF SlotsDistinct
  <2>. QED BY <2>1, <2>2
<1>10. WalkSafe'
  <2> SUFFICES ASSUME NEW d \in Deleters, del[d].pc = "walk", NEW i \in 1 .. del[d].len
               PROVE  LET x == heap'[del[d].key][del[d].cap][i] IN
                      x \in Entries /\ key'[x] = del[d].key
    BY DEF WalkSafe
  <2>1. del[d].key \in Keys /\ del[d].cap \in Slots /\ i \in Slots
    BY <1>1 DEF TypeOK
  <2>2. heap[del[d].key][del[d].cap][i] \in Entries
    BY <1>1 DEF WalkSafe
  <2>3. heap'[del[d].key][del[d].cap][i] \in Entries
    BY <2>1, <2>2, <1>2
  <2>. QED BY <2>1, <2>3, <1>7, NoneAssumption DEF HeapOK
<1>11. ASSUME NEW x \in Entries PROVE Indexed(x)' <=> Indexed(x) \/ x = e
  <2>1. CASE x = e
    BY <2>1, <1>2, <1>3, <1>8 DEF Indexed, InSlice
  <2>2. CASE x # e /\ key[x] \in Keys /\ key[x] # k
    BY <2>2, <1>2, <1>3, <1>6 DEF Indexed, InSlice
  <2>3. CASE x # e /\ key[x] = k
    BY <2>3, <1>2, <1>3, <1>8 DEF Indexed, InSlice
  <2>4. CASE x # e /\ key[x] = None
    BY <2>4, <1>3 DEF Indexed
  <2>5. key[x] \in Keys \cup {None}
    BY <1>1 DEF TypeOK
  <2>. QED BY <2>1, <2>2, <2>3, <2>4, <2>5
<1>. QED BY <1>7, <1>9, <1>10, <1>11

(* A Put that finds its variant: the new entry takes the place of the old  *)
(* one.                                                                    *)
LEMMA PutReplaces ==
  ASSUME Skeleton, NEW e \in Entries, NEW k \in Keys, life[e] = "new",
         key' = [key EXCEPT ![e] = k], del' = del,
         NEW i \in 1 .. slice[k].len, Replace(k, i, e)
  PROVE  /\ HeapOK' /\ SlotsDistinct' /\ WalkSafe'
         /\ \A x \in Entries : Indexed(x)' <=> (Indexed(x) /\ x # At(k, i)) \/ x = e
<1> USE CapAssumption, NoneAssumption DEF Skeleton, Slots
<1>1. TypeOK /\ HeapOK /\ SlotsDistinct /\ WalkSafe /\ NewOK
  OBVIOUS
<1>2. /\ slice' = slice
      /\ \A j \in 1 .. slice[k].len : At(k, j)' = IF j = i THEN e ELSE At(k, j)
      /\ \A l \in Keys : l # k => heap'[l] = heap[l]
      /\ \A c \in Slots, j \in Slots :
           /\ heap[k][c][j] \in Entries => heap'[k][c][j] \in Entries
           /\ heap'[k][c][j] = heap[k][c][j] \/ heap'[k][c][j] = e
  BY <1>1, ReplaceSlots
<1>3. key[e] = None /\ key'[e] = k /\ \A x \in Entries : x # e => key'[x] = key[x]
  BY <1>1 DEF NewOK, TypeOK
<1>4. \A l \in Keys, c \in Slots, j \in Slots : heap[l][c][j] # e
  BY <1>1, <1>3 DEF HeapOK
<1>5. \A l \in Keys : \A j \in 1 .. slice[l].len :
        At(l, j) \in Entries /\ At(l, j) # e /\ key[At(l, j)] = l
  BY <1>1, <1>3 DEF SlotsDistinct
<1>6. \A l \in Keys : l # k => \A j : At(l, j)' = At(l, j)
  BY <1>2 DEF At
<1>7. HeapOK'
  <2> SUFFICES ASSUME NEW l \in Keys, NEW c \in Slots, NEW j \in Slots,
                      heap'[l][c][j] # None
               PROVE  key'[heap'[l][c][j]] = l
    BY DEF HeapOK
  <2>1. heap[l][c][j] \in Entries \cup {None}
    BY <1>1 DEF TypeOK
  <2>2. CASE l # k
    BY <2>1, <2>2, <1>1, <1>2, <1>3, <1>4 DEF HeapOK
  <2>3. CASE l = k
    BY <2>1, <2>3, <1>1, <1>2, <1>3, <1>4 DEF HeapOK
  <2>. QED BY <2>2, <2>3
<1>8. SlotsDistinct'
  <2> SUFFICES ASSUME NEW l \in Keys, NEW j \in 1 .. slice'[l].len,
                      NEW m \in 1 .. slice'[l].len
               PROVE  /\ At(l, j)' \in Entries /\ key'[At(l, j)'] = l
                      /\ At(l, j)' = At(l, m)' => j = m
    BY DEF SlotsDistinct
  <2>1. CASE l # k
    BY <2>1, <1>1, <1>2, <1>3, <1>5, <1>6 DEF SlotsDistinct
  <2>2. CASE l = k
    BY <2>2, <1>1, <1>2, <1>3, <1>5 DEF SlotsDistinct
  <2>. QED BY <2>1, <2>2
<1>9. WalkSafe'
  <2> SUFFICES ASSUME NEW d \in Deleters, del[d].pc = "walk", NEW j \in 1 .. del[d].len
               PROVE  LET x == heap'[del[d].key][del[d].cap][j] IN
                      x \in Entries /\ key'[x] = del[d].key
    BY DEF WalkSafe
  <2>1. del[d].key \in Keys /\ del[d].cap \in Slots /\ j \in Slots
    BY <1>1 DEF TypeOK
  <2>2. heap[del[d].key][del[d].cap][j] \in Entries
    BY <1>1 DEF WalkSafe
  <2>3. heap'[del[d].key][del[d].cap][j] \in Entries
    BY <2>1, <2>2, <1>2
  <2>. QED BY <2>1, <2>3, <1>7, NoneAssumption DEF HeapOK
<1>10. ASSUME NEW x \in Entries
       PROVE  Indexed(x)' <=> (Indexed(x) /\ x # At(k, i)) \/ x = e
  <2>1. CASE x = e
    BY <2>1, <1>2, <1>3 DEF Indexed, InSlice
  <2>2. CASE x # e /\ key[x] \in Keys /\ key[x] # k
    BY <2>2, <1>2, <1>3, <1>5, <1>6 DEF Indexed, InSlice
  <2>3. CASE x # e /\ key[x] = k
    <3>1. \A j \in 1 .. slice[k].len : At(k, j) = At(k, i) => j = i
      BY <1>1 DEF SlotsDistinct
    <3>. QED BY <2>3, <3>1, <1>2, <1>3 DEF Indexed, InSlice
  <2>4. CASE x # e /\ key[x] = None
    BY <2>4, <1>3 DEF Indexed
  <2>5. key[x] \in Keys \cup {None}
    BY <1>1 DEF TypeOK
  <2>. QED BY <2>1, <2>2, <2>3, <2>4, <2>5
<1>. QED BY <1>7, <1>8, <1>9, <1>10

(* cleanEntry that finds its entry: that one leaves the index, all others  *)
(* stay.                                                                   *)
LEMMA CleanRemoves ==
  ASSUME Skeleton, NEW k \in Keys, key' = key, del' = del,
         NEW i \in 1 .. slice[k].len, Remove(k, i)
  PROVE  /\ HeapOK' /\ SlotsDistinct' /\ WalkSafe'
         /\ \A x \in Entries : Indexed(x)' <=> Indexed(x) /\ x # At(k, i)
<1> DEFINE n == slice[k].len
<1> USE CapAssumption, NoneAssumption DEF Skeleton, Slots
<1>1. TypeOK /\ HeapOK /\ SlotsDistinct /\ WalkSafe
  OBVIOUS
<1>2. /\ slice'[k].len = n - 1 /\ n \in Slots
      /\ \A j \in 1 .. n - 1 : At(k, j)' = IF j < i THEN At(k, j) ELSE At(k, j + 1)
      /\ \A l \in Keys : l # k => slice'[l] = slice[l] /\ heap'[l] = heap[l]
      /\ \A c \in Slots, j \in Slots :
           /\ heap[k][c][j] \in Entries => heap'[k][c][j] \in Entries
           /\ \/ heap'[k][c][j] = heap[k][c][j]
              \/ j + 1 \in 1 .. n /\ heap'[k][c][j] = At(k, j + 1)
  BY <1>1, RemoveSlots DEF TypeOK
<1>3. \A l \in Keys : \A j \in 1 .. slice[l].len :
        At(l, j) \in Entries /\ key[At(l, j)] = l
  BY <1>1 DEF SlotsDistinct
<1>4. \A l \in Keys : l # k => \A j : At(l, j)' = At(l, j)
  BY <1>2 DEF At
<1>5. HeapOK'
  <2> SUFFICES ASSUME NEW l \in Keys, NEW c \in Slots, NEW j \in Slots,
                      heap'[l][c][j] # None
               PROVE  key[heap'[l][c][j]] = l
    BY DEF HeapOK
  <2>1. CASE l # k
    BY <2>1, <1>1, <1>2 DEF HeapOK
  <2>2. CASE l = k
    BY <2>2, <1>1, <1>2, <1>3 DEF HeapOK
  <2>. QED BY <2>1, <2>2
<1>6. SlotsDistinct'
  <2> SUFFICES ASSUME NEW l \in Keys, NEW j \in 1 .. slice'[l].len,
                      NEW m \in 1 .. slice'[l].len
               PROVE  /\ At(l, j)' \in Entries /\ key[At(l, j)'] = l
                      /\ At(l, j)' = At(l, m)' => j = m
    BY DEF SlotsDistinct
  <2>1. CASE l # k
    BY <2>1, <1>1, <1>2, <1>3, <1>4 DEF SlotsDistinct
  <2>2. CASE l = k
    <3>1. j \in 1 .. n - 1 /\ m \in 1 .. n - 1 /\ j + 1 \in 1 .. n /\ m + 1 \in 1 .. n
          /\ j \in 1 .. n /\ m \in 1 .. n
      BY <2>2, <1>2
    <3>2. \A p, q \in 1 .. n : At(k, p) = At(k, q) => p = q
      BY <1>1 DEF SlotsDistinct
    <3>. QED BY <2>2, <3>1, <3>2, <1>2, <1>3
  <2>. QED BY <2>1, <2>2
<1>7. WalkSafe'
  <2> SUFFICES ASSUME NEW d \in Deleters, del[d].pc = "walk", NEW j \in 1 .. del[d].len
               PROVE  LET x == heap'[del[d].key][del[d].cap][j] IN
                      x \in Entries /\ key[x] = del[d].key
    BY DEF WalkSafe
  <2>1. del[d].key \in Keys /\ del[d].cap \in Slots /\ j \in Slots
    BY <1>1 DEF TypeOK
  <2>2. heap[del[d].key][del[d].cap][j] \in Entries
    BY <1>1 DEF WalkSafe
  <2>3. heap'[del[d].key][del[d].cap][j] \in Entries
    BY <2>1, <2>2, <1>2
  <2>. QED BY <2>1, <2>3, <1>5, NoneAssumption DEF HeapOK
<1>8. ASSUME NEW x \in Entries PROVE Indexed(x)' <=> Indexed(x) /\ x # At(k, i)
  <2>1. CASE key[x] \in Keys /\ key[x] # k
    BY <2>1, <1>2, <1>3, <1>4 DEF Indexed, InSlice
  <2>2. CASE key[x] = k
    <3>1. \A j \in 1 .. n : At(k, j) = At(k, i) => j = i
      BY <1>1 DEF SlotsDistinct
    <3>2. ASSUME Indexed(x), x # At(k, i) PROVE Indexed(x)'
      <4>1. PICK j \in 1 .. n : x = At(k, j)
        BY <2>2, <3>2 DEF Indexed, InSlice
      <4>2. CASE j < i
        BY <4>1, <4>2, <2>2, <1>2 DEF Indexed, InSlice
      <4>3. CASE i < j
        <5>1. j - 1 \in 1 .. n - 1 /\ ~(j - 1 < i) /\ (j - 1) + 1 = j
          BY <4>3, <1>2
        <5>2. \A m : m = j - 1 => At(k, m)' = x
          BY <4>1, <5>1, <1>2
        <5>. QED BY <5>1, <5>2, <2>2, <1>2 DEF Indexed, InSlice
      <4>. QED BY <4>1, <4>2, <4>3, <3>2, <1>2
    <3>3. ASSUME Indexed(x)' PROVE Indexed(x) /\ x # At(k, i)
      <4>1. PICK j \in 1 .. n - 1 : x = At(k, j)'
        BY <2>2, <3>3, <1>2 DEF Indexed, InSlice
      <4>2. j \in 1 .. n /\ j + 1 \in 1 .. n
        BY <1>2
      <4>3. PICK m \in 1 .. n : x = At(k, m) /\ m # i
        BY <4>1, <4>2, <1>2
      <4>. QED BY <4>3, <3>1, <2>2, NoneAssumption DEF Indexed, InSlice
    <3>. QED BY <3>2, <3>3
  <2>3. CASE key[x] = None
    BY <2>3 DEF Indexed
  <2>4. key[x] \in Keys \cup {None}
    BY <1>1 DEF TypeOK
  <2>. QED BY <2>1, <2>2, <2>3, <2>4
<1>. QED BY <1>5, <1>6, <1>7, <1>8

-----------------------------------------------------------------------------
(* One step. *)

(* Put, given what it did to the slices: "old" are the entries it replaced. *)
LEMMA PutEffect ==
  ASSUME IndInv, NEW e \in Entries, NEW k \in Keys,
         NEW headers \in [Headers -> Values], NEW names \in SUBSET Headers,
         Put(e, k, headers, names),
         NEW old \in SUBSET Entries,
         HeapOK', SlotsDistinct', WalkSafe',
         heap' \in [Keys -> [Slots -> [Slots -> Entries \cup {None}]]],
         slice' \in [Keys -> [cap : 0 .. MaxCap, len : 0 .. MaxCap]],
         \A l \in Keys : slice'[l].len <= slice'[l].cap,
         replaced' = replaced \cup old,
         \A x \in old : Indexed(x),
         \A x \in Entries : Indexed(x)' <=> (Indexed(x) /\ x \notin old) \/ x = e
  PROVE  IndInv'
<1> USE CapAssumption, NoneAssumption, ActorAssumption DEF IndInv, Skeleton, Actors
<1>1. /\ life[e] = "new" /\ key[e] = None
      /\ key' = [key EXCEPT ![e] = k] /\ life' = [life EXCEPT ![e] = "fresh"]
      /\ UNCHANGED <<writer, cpc, target, cleans, left, del>>
  BY DEF Put, NewOK, cleanVars
<1>2. /\ cleans[e] = 0 /\ e \notin replaced /\ e \notin left /\ ~Indexed(e)
      /\ \A a \in Actors : cpc[a] # "idle" => target[a] # e
  BY <1>1 DEF NewOK, Indexed, TargetOK
<1>3. \A x \in Entries : BeingCleaned(x)' <=> BeingCleaned(x)
  BY <1>1 DEF BeingCleaned
<1>4. ~BeingCleaned(e)
  BY <1>2 DEF BeingCleaned
<1>5. TypeOK'
  BY <1>1 DEF TypeOK, Put
<1>6. NewOK' /\ TargetOK'
  <2>1. NewOK'
    BY <1>1, <1>2 DEF NewOK, TypeOK, Indexed
  <2>2. TargetOK'
    BY <1>1, <1>2 DEF TargetOK, TypeOK
  <2>. QED BY <2>1, <2>2
<1>7. TimerOK'
  BY <1>1 DEF TimerOK, TypeOK, Put
<1>8. CleanedOnce'
  BY <1>1, <1>2, <1>3, <1>4 DEF Fates, CleanedOnce
<1>9. LeftOK'
  BY <1>1, <1>2, <1>3 DEF Fates, LeftOK, TypeOK
<1>10. NothingLost'
  BY <1>1, <1>3 DEF Fates, NothingLost, TypeOK
<1>. QED BY <1>5, <1>6, <1>7, <1>8, <1>9, <1>10 DEF Fates

(* Put keeps the invariant.                                                *)
LEMMA PutStep ==
  ASSUME IndInv, NEW e \in Entries, PutAny(e)
  PROVE  IndInv'
<1> USE CapAssumption, NoneAssumption
<1>1. PICK k \in Keys, headers \in [Headers -> Values], names \in SUBSET Headers :
        Put(e, k, headers, names)
  BY DEF PutAny
<1>2. /\ Skeleton /\ TypeOK /\ SlotsDistinct
      /\ life[e] = "new" /\ key' = [key EXCEPT ![e] = k] /\ del' = del
  BY <1>1 DEF Put, IndInv, Skeleton
<1>3. CASE replaced' = replaced /\ Append(k, e)
  <2>1. /\ HeapOK' /\ SlotsDistinct' /\ WalkSafe'
        /\ \A x \in Entries : Indexed(x)' <=> (Indexed(x) /\ x \notin {}) \/ x = e
    BY <1>2, <1>3, PutAppends
  <2>2. /\ heap' \in [Keys -> [Slots -> [Slots -> Entries \cup {None}]]]
        /\ slice' \in [Keys -> [cap : 0 .. MaxCap, len : 0 .. MaxCap]]
        /\ \A l \in Keys : slice'[l].len <= slice'[l].cap
    BY <1>2, <1>3, AppendSlots DEF TypeOK
  <2>3. replaced' = replaced \cup {} /\ {} \in SUBSET Entries
    BY <1>3
  <2>. QED BY <1>1, <2>1, <2>2, <2>3, PutEffect
<1>4. ASSUME NEW i \in 1 .. slice[k].len, Replace(k, i, e)
      PROVE  IndInv'
  <2>1. /\ HeapOK' /\ SlotsDistinct' /\ WalkSafe'
        /\ \A x \in Entries : Indexed(x)' <=> (Indexed(x) /\ x # At(k, i)) \/ x = e
    BY <1>2, <1>4, PutReplaces
  <2>2. /\ heap' \in [Keys -> [Slots -> [Slots -> Entries \cup {None}]]]
        /\ slice' = slice
    BY <1>2, <1>4, ReplaceSlots
  <2>3. /\ slice' \in [Keys -> [cap : 0 .. MaxCap, len : 0 .. MaxCap]]
        /\ \A l \in Keys : slice'[l].len <= slice'[l].cap
    BY <1>2, <2>2 DEF TypeOK
  <2>4. At(k, i) \in Entries /\ Indexed(At(k, i))
    BY <1>2 DEF SlotsDistinct, Indexed, InSlice
  <2>5. replaced' = replaced \cup {At(k, i)}
    BY <1>4 DEF Replace
  <2> DEFINE old == {At(k, i)}
  <2>6. /\ old \in SUBSET Entries /\ replaced' = replaced \cup old
        /\ \A x \in old : Indexed(x)
        /\ \A x \in Entries : Indexed(x)' <=> (Indexed(x) /\ x \notin old) \/ x = e
    BY <2>1, <2>4, <2>5
  <2> HIDE DEF old
  <2>. QED BY <1>1, <2>1, <2>2, <2>3, <2>6, PutEffect
<1>5. \/ replaced' = replaced /\ Append(k, e)
      \/ \E i \in 1 .. slice[k].len : Replace(k, i, e)
  BY <1>1 DEF Put, Append, Matching
<1>. QED BY <1>3, <1>4, <1>5

(* A step that leaves the index alone keeps what is said of it. *)
LEMMA IndexKept ==
  ASSUME HeapOK, SlotsDistinct, UNCHANGED <<heap, slice, key>>
  PROVE  /\ HeapOK' /\ SlotsDistinct'
         /\ \A x \in Entries : Indexed(x)' <=> Indexed(x)
<1>1. HeapOK'
  BY DEF HeapOK
<1>2. SlotsDistinct'
  BY DEF SlotsDistinct, At
<1>3. \A x \in Entries : Indexed(x)' <=> Indexed(x)
  BY DEF Indexed, InSlice, At
<1>. QED BY <1>1, <1>2, <1>3

(* The passing of an expiration keeps the invariant.                       *)
LEMMA ExpireStep ==
  ASSUME IndInv, NEW e \in Entries, Expire(e)
  PROVE  IndInv'
<1> USE DEF IndInv, Skeleton, Fates
<1>1. UNCHANGED <<heap, slice, key, timer, replaced, cpc, target, cleans, left, del>>
      /\ life[e] = "fresh" /\ life' = [life EXCEPT ![e] = "stale"]
  BY DEF Expire, IsFresh, index, entryVars, cleanVars
<1>2. HeapOK' /\ SlotsDistinct' /\ \A x \in Entries : Indexed(x)' <=> Indexed(x)
  BY <1>1, IndexKept
<1>3. TypeOK'
  BY DEF TypeOK, Expire, index, entryVars, cleanVars
<1>4. WalkSafe' /\ NewOK' /\ TargetOK' /\ TimerOK'
  BY <1>1 DEF WalkSafe, NewOK, TargetOK, TypeOK, TimerOK
<1>5. \A x \in Entries : BeingCleaned(x)' <=> BeingCleaned(x)
  BY <1>1 DEF BeingCleaned
<1>6. CleanedOnce' /\ LeftOK' /\ NothingLost'
  BY <1>1, <1>2, <1>5 DEF CleanedOnce, LeftOK, NothingLost, TypeOK
<1>. QED BY <1>2, <1>3, <1>4, <1>6

(* Calling cleanEntry (from a timer, from Del) changes no entry's fate. *)
LEMMA CallsKeepFates ==
  ASSUME TypeOK, Fates, NEW a \in Actors, NEW e \in Entries, cpc[a] = "idle",
         \/ UNCHANGED <<cpc, target>>
         \/ cpc' = [cpc EXCEPT ![a] = "lock"] /\ target' = [target EXCEPT ![a] = e],
         UNCHANGED <<life, replaced, cleans, left>>,
         \A x \in Entries : Indexed(x)' <=> Indexed(x)
  PROVE  Fates'
<1>1. \A b \in Actors : /\ cpc'[b] = "clean" <=> cpc[b] = "clean"
                        /\ cpc[b] = "clean" => target'[b] = target[b]
  BY DEF TypeOK
<1>2. \A x \in Entries : BeingCleaned(x)' <=> BeingCleaned(x)
  BY <1>1 DEF BeingCleaned
<1>3. CleanedOnce'
  BY <1>1, <1>2 DEF Fates, CleanedOnce
<1>4. LeftOK' /\ NothingLost'
  BY <1>2 DEF Fates, LeftOK, NothingLost, TypeOK
<1>. QED BY <1>3, <1>4 DEF Fates

(* The wake-up of an entry's timer keeps the invariant.                    *)
LEMMA WakeStep ==
  ASSUME IndInv, NEW e \in Entries, Wake(e)
  PROVE  IndInv'
<1> USE NoneAssumption, ActorAssumption DEF IndInv, Skeleton, Actors
<1>1. /\ UNCHANGED <<heap, slice, key, life, replaced, cleans, left, del>>
      /\ life[e] = "stale" /\ timer' = [timer EXCEPT ![e] = "awake"] /\ cpc[e] = "idle"
      /\ cpc' = [cpc EXCEPT ![e] = "lock"] /\ target' = [target EXCEPT ![e] = e]
  BY DEF Wake, index, entryVars, TimerOK
<1>2. HeapOK' /\ SlotsDistinct' /\ \A x \in Entries : Indexed(x)' <=> Indexed(x)
  BY <1>1, IndexKept
<1>3. TypeOK'
  BY DEF TypeOK, Wake, index, entryVars
<1>4. key[e] \in Keys
  BY <1>1 DEF NewOK, TypeOK
<1>5. WalkSafe' /\ NewOK' /\ TimerOK'
  BY <1>1 DEF WalkSafe, NewOK, TypeOK, TimerOK
<1>6. TargetOK'
  BY <1>1, <1>4 DEF TargetOK, TypeOK
<1>7. Fates'
  BY <1>1, <1>2, CallsKeepFates
<1>. QED BY <1>2, <1>3, <1>5, <1>6, <1>7

(* The Clean that Put started for a replaced entry keeps the invariant.    *)
LEMMA CleanReplacedStep ==
  ASSUME IndInv, NEW e \in Entries, CleanReplaced(e)
  PROVE  IndInv'
<1> USE NoneAssumption, ActorAssumption DEF IndInv, Skeleton, Actors
<1>1. /\ UNCHANGED <<heap, slice, key, life, timer, cpc, target, left, del>>
      /\ e \in replaced /\ replaced' = replaced \ {e}
      /\ cleans' = [cleans EXCEPT ![e] = cleans[e] + 1]
  BY DEF CleanReplaced, index, entryVars
<1>2. HeapOK' /\ SlotsDistinct' /\ \A x \in Entries : Indexed(x)' <=> Indexed(x)
  BY <1>1, IndexKept
<1>3. TypeOK'
  BY DEF TypeOK, CleanReplaced, index, entryVars
<1>4. WalkSafe' /\ NewOK' /\ TimerOK' /\ TargetOK'
  BY <1>1 DEF WalkSafe, NewOK, TypeOK, TimerOK, TargetOK
<1>5. cleans[e] = 0 /\ ~Indexed(e) /\ ~BeingCleaned(e) /\ e \notin left
  BY <1>1 DEF Fates, CleanedOnce, LeftOK
<1>6. \A x \in Entries : BeingCleaned(x)' <=> BeingCleaned(x)
  BY <1>1 DEF BeingCleaned
<1>7. /\ cleans'[e] = 1 /\ \A x \in Entries : x # e => cleans'[x] = cleans[x]
  BY <1>1, <1>5 DEF TypeOK
<1>8. CleanedOnce'
  BY <1>1, <1>2, <1>5, <1>6, <1>7 DEF Fates, CleanedOnce
<1>9. LeftOK' /\ NothingLost'
  BY <1>1, <1>2, <1>5, <1>6, <1>7 DEF Fates, LeftOK, NothingLost, TypeOK
<1>. QED BY <1>2, <1>3, <1>4, <1>8, <1>9 DEF Fates

(* cleanEntry that takes its entry out of the index keeps the invariant.   *)
LEMMA CleanFoundStep ==
  ASSUME IndInv, NEW a \in Actors, CleanFound(a)
  PROVE  IndInv'
<1> USE CapAssumption, NoneAssumption, BucketAssumption, ActorAssumption
    DEF IndInv, Skeleton, Actors
<1> DEFINE e == target[a]
           k == key[target[a]]
<1>1. /\ cpc[a] = "lock" /\ e \in Entries /\ k \in Keys
      /\ cpc' = [cpc EXCEPT ![a] = "clean"]
      /\ UNCHANGED <<key, life, timer, replaced, target, cleans, left, del>>
  BY DEF CleanFound, entryVars, TargetOK
<1>2. PICK i \in 1 .. slice[k].len : At(k, i) = e /\ Remove(k, i)
  BY DEF CleanFound
<1>3. /\ HeapOK' /\ SlotsDistinct' /\ WalkSafe'
      /\ \A x \in Entries : Indexed(x)' <=> Indexed(x) /\ x # e
  BY <1>1, <1>2, CleanRemoves
<1>4. /\ heap' \in [Keys -> [Slots -> [Slots -> Entries \cup {None}]]]
      /\ slice' \in [Keys -> [cap : 0 .. MaxCap, len : 0 .. MaxCap]]
      /\ \A l \in Keys : slice'[l].len <= slice'[l].cap
  <2>1. TypeOK /\ SlotsDistinct /\ k \in Keys
    BY <1>1
  <2> HIDE DEF k
  <2>2. /\ heap' \in [Keys -> [Slots -> [Slots -> Entries \cup {None}]]]
        /\ slice' \in [Keys -> [cap : 0 .. MaxCap, len : 0 .. MaxCap]]
        /\ slice'[k].len = slice[k].len - 1 /\ slice'[k].cap = slice[k].cap
        /\ \A l \in Keys : l # k => slice'[l] = slice[l]
    BY <1>2, <2>1, RemoveSlots
  <2>. QED BY <2>1, <2>2 DEF TypeOK
<1>5. Indexed(e)
  BY <1>1, <1>2 DEF Indexed, InSlice
<1>6. cleans[e] = 0 /\ e \notin replaced /\ ~BeingCleaned(e) /\ e \notin left
  BY <1>1, <1>5 DEF Fates, CleanedOnce, LeftOK
<1>7. writer' = [writer EXCEPT ![BucketOf[k]] = a] /\ UNCHANGED entryVars
  BY DEF CleanFound, getBucketIndexForKey
<1>8. TypeOK'
  BY <1>1, <1>4, <1>7 DEF TypeOK, entryVars
<1>9. NewOK' /\ TargetOK' /\ TimerOK'
  BY <1>1 DEF NewOK, TargetOK, TimerOK, TypeOK
<1>10. \A b \in Actors : cpc'[b] = "clean" <=> (cpc[b] = "clean" \/ b = a)
  BY <1>1 DEF TypeOK
<1>11. \A x \in Entries : BeingCleaned(x)' <=> BeingCleaned(x) \/ x = e
  BY <1>1, <1>10 DEF BeingCleaned
<1>12. CleanedOnce'
  <2> SUFFICES ASSUME NEW x \in Entries
               PROVE  /\ cleans[x] <= 1
                      /\ Indexed(x)' => cleans[x] = 0 /\ x \notin replaced /\ ~BeingCleaned(x)'
                      /\ x \in replaced \/ BeingCleaned(x)' => cleans[x] = 0
                      /\ ~(x \in replaced /\ BeingCleaned(x)')
                      /\ \A b, d \in Actors :
                           (/\ cpc'[b] = "clean" /\ cpc'[d] = "clean"
                            /\ target[b] = x /\ target[d] = x) => b = d
    BY <1>1 DEF CleanedOnce
  <2>1. /\ cleans[x] <= 1
        /\ Indexed(x)' => cleans[x] = 0 /\ x \notin replaced /\ ~BeingCleaned(x)'
        /\ x \in replaced \/ BeingCleaned(x)' => cleans[x] = 0
        /\ ~(x \in replaced /\ BeingCleaned(x)')
    BY <1>3, <1>6, <1>11 DEF Fates, CleanedOnce
  <2>2. ASSUME NEW b \in Actors, NEW d \in Actors, cpc'[b] = "clean", cpc'[d] = "clean",
               target[b] = x, target[d] = x
        PROVE  b = d
    <3>1. CASE x = e
      BY <3>1, <2>2, <1>6, <1>10 DEF BeingCleaned
    <3>2. CASE x # e
      BY <3>2, <2>2, <1>10 DEF Fates, CleanedOnce
    <3>. QED BY <3>1, <3>2
  <2>. QED BY <2>1, <2>2
<1>13. LeftOK' /\ NothingLost'
  BY <1>1, <1>3, <1>6, <1>11 DEF Fates, LeftOK, NothingLost, TypeOK
<1>. QED BY <1>3, <1>8, <1>9, <1>12, <1>13 DEF Fates

(* cleanEntry that finds its entry gone keeps the invariant.               *)
LEMMA CleanMissingStep ==
  ASSUME IndInv, NEW a \in Actors, CleanMissing(a)
  PROVE  IndInv'
<1> USE NoneAssumption, ActorAssumption DEF IndInv, Skeleton, Actors
<1>1. /\ cpc[a] = "lock" /\ cpc' = [cpc EXCEPT ![a] = "idle"]
      /\ UNCHANGED <<heap, slice, key, life, timer, replaced, target, cleans, left, del>>
  BY DEF CleanMissing, index, entryVars
<1>2. HeapOK' /\ SlotsDistinct' /\ \A x \in Entries : Indexed(x)' <=> Indexed(x)
  BY <1>1, IndexKept
<1>3. TypeOK'
  BY DEF TypeOK, CleanMissing, index, entryVars
<1>4. WalkSafe' /\ NewOK' /\ TargetOK' /\ TimerOK'
  BY <1>1 DEF WalkSafe, NewOK, TargetOK, TimerOK, TypeOK
<1>5. \A b \in Actors : cpc'[b] = "clean" <=> cpc[b] = "clean"
  BY <1>1 DEF TypeOK
<1>6. \A x \in Entries : BeingCleaned(x)' <=> BeingCleaned(x)
  BY <1>1, <1>5 DEF BeingCleaned
<1>7. CleanedOnce'
  BY <1>1, <1>2, <1>5, <1>6 DEF Fates, CleanedOnce
<1>8. LeftOK' /\ NothingLost'
  BY <1>1, <1>2, <1>6 DEF Fates, LeftOK, NothingLost, TypeOK
<1>. QED BY <1>2, <1>3, <1>4, <1>7, <1>8 DEF Fates

(* Clean, or distributedClean, at the end of cleanEntry keeps the          *)
(* invariant.                                                              *)
LEMMA CleanStorageStep ==
  ASSUME IndInv, NEW a \in Actors, NEW err \in BOOLEAN, CleanStorage(a, err)
  PROVE  IndInv'
<1> USE NoneAssumption, BucketAssumption, ActorAssumption DEF IndInv, Skeleton, Actors
<1> DEFINE e == target[a]
<1>1. /\ cpc[a] = "clean" /\ e \in Entries /\ cpc' = [cpc EXCEPT ![a] = "idle"]
      /\ UNCHANGED <<heap, slice, key, life, timer, replaced, target>>
  BY DEF CleanStorage, index, entryVars, TargetOK
<1>2. \/ cleans' = [cleans EXCEPT ![e] = cleans[e] + 1] /\ left' = left
      \/ cleans' = cleans /\ left' = left \cup {e}
  BY DEF CleanStorage
<1> HIDE DEF e
<1>3. HeapOK' /\ SlotsDistinct' /\ \A x \in Entries : Indexed(x)' <=> Indexed(x)
  BY <1>1, IndexKept
<1>4. del' \in [Deleters -> [pc : {"idle", "walk", "purged", "failed"},
                            key : Keys \cup {None}, cap : 0 .. MaxCap,
                            len : 0 .. MaxCap, next : 1 .. MaxCap + 1,
                            asked : SUBSET Entries]]
      /\ \A d \in Deleters : /\ del'[d].key = del[d].key /\ del'[d].cap = del[d].cap
                             /\ del'[d].len = del[d].len
                             /\ del'[d].pc = "walk" => del[d].pc = "walk"
  <2>1. CASE UNCHANGED del
    BY <2>1 DEF TypeOK
  <2>2. CASE a \in Deleters /\ del' = [del EXCEPT ![a] = [del[a] EXCEPT !.pc = "failed"]]
    <3> DEFINE R == [pc : {"idle", "walk", "purged", "failed"},
                     key : Keys \cup {None}, cap : 0 .. MaxCap,
                     len : 0 .. MaxCap, next : 1 .. MaxCap + 1,
                     asked : SUBSET Entries]
               r == [del[a] EXCEPT !.pc = "failed"]
    <3>1. del \in [Deleters -> R] /\ del[a] \in R
      BY <2>2 DEF TypeOK
    <3>2. /\ r \in R /\ r.pc = "failed" /\ r.key = del[a].key
          /\ r.cap = del[a].cap /\ r.len = del[a].len
      BY <3>1
    <3> HIDE DEF R, r
    <3>3. del' = [del EXCEPT ![a] = r]
      BY <2>2 DEF r
    <3>4. del' \in [Deleters -> R]
      BY <3>1, <3>2, <3>3
    <3>5. \A d \in Deleters : del'[d] = IF d = a THEN r ELSE del[d]
      BY <3>1, <3>3
    <3>. QED BY <3>2, <3>4, <3>5 DEF R
  <2>. QED BY <2>1, <2>2 DEF CleanStorage
<1>5. cleans' \in [Entries -> Nat] /\ left' \subseteq Entries
  <2>1. cleans \in [Entries -> Nat] /\ left \subseteq Entries /\ cleans[e] + 1 \in Nat
    BY <1>1 DEF TypeOK
  <2>. QED BY <1>1, <1>2, <2>1
<1>6. writer' \in [Buckets -> Actors \cup {None}] /\ UNCHANGED entryVars
  BY DEF CleanStorage, TypeOK
<1>7. TypeOK'
  BY <1>1, <1>4, <1>5, <1>6 DEF TypeOK, entryVars
<1>8. WalkSafe'
  BY <1>1, <1>4 DEF WalkSafe
<1>9. BeingCleaned(e)
  BY <1>1 DEF BeingCleaned, e
<1>10. ~Indexed(e) /\ e \notin replaced /\ cleans[e] = 0 /\ e \notin left
  BY <1>1, <1>9 DEF Fates, CleanedOnce, LeftOK
<1>11. NewOK' /\ TargetOK' /\ TimerOK'
  <2>1. life[e] # "new"
    BY <1>1 DEF NewOK, TargetOK, e
  <2>. QED BY <1>1, <1>2, <2>1 DEF NewOK, TargetOK, TimerOK, TypeOK
<1>12. \A b \in Actors : cpc'[b] = "clean" <=> cpc[b] = "clean" /\ b # a
  BY <1>1 DEF TypeOK
<1>13. \A x \in Entries : BeingCleaned(x)' <=> BeingCleaned(x) /\ x # e
  BY <1>1, <1>12 DEF BeingCleaned, Fates, CleanedOnce, e
<1>14. /\ \A x \in Entries : x # e => cleans'[x] = cleans[x] /\ (x \in left' <=> x \in left)
       /\ (cleans'[e] = 1 /\ e \notin left') \/ (cleans'[e] = 0 /\ e \in left')
  BY <1>1, <1>2, <1>10 DEF TypeOK
<1>15. CleanedOnce'
  BY <1>1, <1>3, <1>10, <1>12, <1>13, <1>14 DEF Fates, CleanedOnce
<1>16. LeftOK' /\ NothingLost'
  <2>1. LeftOK'
    BY <1>1, <1>3, <1>5, <1>10, <1>13, <1>14 DEF Fates, LeftOK
  <2>2. ASSUME NEW x \in Entries, life[x] # "new"
        PROVE  \/ Indexed(x)' \/ x \in replaced \/ BeingCleaned(x)'
               \/ cleans'[x] > 0 \/ x \in left'
    <3>1. CASE x = e
      BY <3>1, <1>14
    <3>2. CASE x # e
      BY <2>2, <3>2, <1>3, <1>13, <1>14 DEF Fates, NothingLost
    <3>. QED BY <3>1, <3>2
  <2>. QED BY <1>1, <2>1, <2>2 DEF NothingLost
<1>. QED BY <1>3, <1>7, <1>8, <1>11, <1>15, <1>16 DEF Fates

(* The snapshot Del takes keeps the invariant: the array it will walk is   *)
(* full of entries of its key.                                             *)
LEMMA DelSnapshotStep ==
  ASSUME IndInv, NEW d \in Deleters, NEW k \in Keys, DelSnapshot(d, k)
  PROVE  IndInv'
<1> USE CapAssumption, NoneAssumption, ActorAssumption DEF IndInv, Skeleton, Actors
<1> DEFINE r == [pc |-> "walk", key |-> k, cap |-> slice[k].cap, len |-> slice[k].len,
                 next |-> 1, asked |-> {e \in InSlice(k) : IsFresh(e)}]
<1>1. /\ UNCHANGED <<heap, slice, key, life, timer, replaced, cpc, target, cleans, left>>
      /\ del' = [del EXCEPT ![d] = r]
  BY DEF DelSnapshot, index, entryVars, cleanVars
<1>2. HeapOK' /\ SlotsDistinct' /\ \A x \in Entries : Indexed(x)' <=> Indexed(x)
  BY <1>1, IndexKept
<1>3. /\ slice[k].cap \in 0 .. MaxCap /\ slice[k].len \in 0 .. MaxCap
      /\ slice[k].len <= slice[k].cap /\ 1 \in 1 .. MaxCap + 1
  BY DEF TypeOK
<1>4. {e \in InSlice(k) : IsFresh(e)} \in SUBSET Entries
  BY DEF InSlice, SlotsDistinct
<1>5. /\ r.pc = "walk" /\ r.key = k /\ r.cap = slice[k].cap /\ r.len = slice[k].len
      /\ r \in [pc : {"idle", "walk", "purged", "failed"},
                key : Keys \cup {None}, cap : 0 .. MaxCap,
                len : 0 .. MaxCap, next : 1 .. MaxCap + 1,
                asked : SUBSET Entries]
  BY <1>3, <1>4
<1> HIDE DEF r
<1>6. TypeOK'
  <2>1. UNCHANGED <<request, vary, puts, putAt, writer>>
    BY DEF DelSnapshot, entryVars, cleanVars
  <2>. QED BY <1>1, <1>3, <1>5, <2>1 DEF TypeOK
<1>7. WalkSafe'
  <2> SUFFICES ASSUME NEW f \in Deleters, del'[f].pc = "walk", NEW i \in 1 .. del'[f].len
               PROVE  LET x == heap[del'[f].key][del'[f].cap][i] IN
                      x \in Entries /\ key[x] = del'[f].key
    BY <1>1 DEF WalkSafe
  <2>1. CASE f = d
    <3>1. del'[f] = r
      BY <1>1, <2>1 DEF TypeOK
    <3>2. At(k, i) \in Entries /\ key[At(k, i)] = k
      BY <3>1, <1>5 DEF SlotsDistinct
    <3>. QED BY <3>1, <3>2, <1>5 DEF At
  <2>2. CASE f # d
    <3>1. del'[f] = del[f]
      BY <1>1, <2>2 DEF TypeOK
    <3>. QED BY <3>1 DEF WalkSafe
  <2>. QED BY <2>1, <2>2
<1>8. NewOK' /\ TargetOK' /\ TimerOK'
  BY <1>1 DEF NewOK, TargetOK, TimerOK
<1>9. \A x \in Entries : BeingCleaned(x)' <=> BeingCleaned(x)
  BY <1>1 DEF BeingCleaned
<1>10. CleanedOnce' /\ LeftOK' /\ NothingLost'
  BY <1>1, <1>2, <1>9 DEF Fates, CleanedOnce, LeftOK, NothingLost, TypeOK
<1>. QED BY <1>2, <1>6, <1>7, <1>8, <1>10 DEF Fates

(* A step of Del that keeps the key and the slice it works on. *)
LEMMA DelKeeps ==
  ASSUME TypeOK, WalkSafe, NEW d \in Deleters, del[d].pc = "walk",
         UNCHANGED <<heap, key>>,
         NEW next \in 1 .. MaxCap + 1, NEW pc \in {"walk", "purged"},
         del' = [del EXCEPT ![d] = [del[d] EXCEPT !.pc = pc, !.next = next]]
  PROVE  /\ WalkSafe'
         /\ del' \in [Deleters -> [pc : {"idle", "walk", "purged", "failed"},
                                  key : Keys \cup {None}, cap : 0 .. MaxCap,
                                  len : 0 .. MaxCap, next : 1 .. MaxCap + 1,
                                  asked : SUBSET Entries]]
         /\ \A f \in Deleters : /\ del'[f].len <= del'[f].cap
                                /\ del'[f].pc = "walk" => del'[f].key \in Keys
<1> DEFINE R == [pc : {"idle", "walk", "purged", "failed"},
                 key : Keys \cup {None}, cap : 0 .. MaxCap,
                 len : 0 .. MaxCap, next : 1 .. MaxCap + 1,
                 asked : SUBSET Entries]
           r == [del[d] EXCEPT !.pc = pc, !.next = next]
<1>1. del \in [Deleters -> R] /\ del[d] \in R
  BY DEF TypeOK
<1>2. r \in R /\ r.key = del[d].key /\ r.cap = del[d].cap /\ r.len = del[d].len
  BY <1>1
<1> HIDE DEF R, r
<1>3. \A f \in Deleters : del'[f] = IF f = d THEN r ELSE del[f]
  BY <1>1 DEF r
<1>4. del' \in [Deleters -> R]
  BY <1>1, <1>2 DEF r
<1>5. \A f \in Deleters : /\ del'[f].key = del[f].key /\ del'[f].cap = del[f].cap
                          /\ del'[f].len = del[f].len
                          /\ del'[f].pc = "walk" => del[f].pc = "walk"
  BY <1>2, <1>3
<1>6. WalkSafe'
  BY <1>5 DEF WalkSafe
<1>. QED BY <1>4, <1>5, <1>6 DEF TypeOK, R

(* A turn of the walk of Del keeps the invariant.                          *)
LEMMA DelWalkStep ==
  ASSUME IndInv, NEW d \in Deleters, DelWalk(d)
  PROVE  IndInv'
<1> USE CapAssumption, NoneAssumption, ActorAssumption DEF IndInv, Skeleton
<1> DEFINE e == heap[del[d].key][del[d].cap][del[d].next]
<1>1. /\ UNCHANGED <<heap, slice, key, life, timer, replaced, cleans, left>>
      /\ UNCHANGED <<request, vary, puts, putAt, writer>>
      /\ del[d].pc = "walk" /\ cpc[d] = "idle" /\ del[d].next <= del[d].len
      /\ \/ UNCHANGED <<cpc, target>>
         \/ cpc' = [cpc EXCEPT ![d] = "lock"] /\ target' = [target EXCEPT ![d] = e]
  BY DEF DelWalk, index, entryVars
<1>2. /\ del[d].next \in 1 .. del[d].len /\ del[d].next + 1 \in 1 .. MaxCap + 1
      /\ del[d].key \in Keys
  BY <1>1 DEF TypeOK
<1>3. e \in Entries /\ key[e] \in Keys
  BY <1>1, <1>2 DEF WalkSafe
<1> HIDE DEF e
<1>4. del' = [del EXCEPT ![d] = [del[d] EXCEPT !.pc = "walk", !.next = del[d].next + 1]]
  <2>1. del[d] = [del[d] EXCEPT !.pc = "walk"]
    BY <1>1 DEF TypeOK
  <2>2. del' = [del EXCEPT ![d] = [del[d] EXCEPT !.next = del[d].next + 1]]
    BY DEF DelWalk
  <2>. QED BY <2>1, <2>2
<1>5. /\ WalkSafe'
      /\ del' \in [Deleters -> [pc : {"idle", "walk", "purged", "failed"},
                               key : Keys \cup {None}, cap : 0 .. MaxCap,
                               len : 0 .. MaxCap, next : 1 .. MaxCap + 1,
                               asked : SUBSET Entries]]
      /\ \A f \in Deleters : /\ del'[f].len <= del'[f].cap
                             /\ del'[f].pc = "walk" => del'[f].key \in Keys
  BY <1>1, <1>2, <1>4, DelKeeps
<1>6. HeapOK' /\ SlotsDistinct' /\ \A x \in Entries : Indexed(x)' <=> Indexed(x)
  BY <1>1, IndexKept
<1>7. /\ cpc' \in [Actors -> {"idle", "lock", "clean"}]
      /\ target' \in [Actors -> Entries \cup {None}]
  <2>1. /\ cpc \in [Actors -> {"idle", "lock", "clean"}]
        /\ target \in [Actors -> Entries \cup {None}]
    BY DEF TypeOK
  <2>. QED BY <1>1, <1>3, <2>1
<1>8. TypeOK'
  BY <1>1, <1>5, <1>7 DEF TypeOK
<1>9. NewOK' /\ TargetOK' /\ TimerOK'
  <2>1. NewOK'
    BY <1>1 DEF NewOK
  <2>2. \A a \in Actors : \/ cpc'[a] = cpc[a] /\ target'[a] = target[a]
                          \/ a = d /\ target'[a] = e
    BY <1>1, <1>3 DEF TypeOK
  <2>3. TargetOK'
    BY <1>1, <1>3, <2>2 DEF TargetOK
  <2>4. \A x \in Entries : cpc'[x] = cpc[x]
    BY <1>1 DEF TypeOK, Actors
  <2>5. TimerOK'
    BY <1>1, <2>4 DEF TimerOK
  <2>. QED BY <2>1, <2>3, <2>5
<1>10. Fates'
  BY <1>1, <1>3, <1>6, CallsKeepFates DEF Actors
<1>. QED BY <1>5, <1>6, <1>8, <1>9, <1>10

(* The return of Del keeps the invariant.                                  *)
LEMMA DelReturnStep ==
  ASSUME IndInv, NEW d \in Deleters, DelReturn(d)
  PROVE  IndInv'
<1> USE CapAssumption, NoneAssumption, ActorAssumption DEF IndInv, Skeleton
<1>1. /\ UNCHANGED <<heap, slice, key, life, timer, replaced, cpc, target, cleans, left>>
      /\ UNCHANGED <<request, vary, puts, putAt, writer>>
      /\ del[d].pc = "walk"
  BY DEF DelReturn, index, entryVars, cleanVars
<1>2. del' = [del EXCEPT ![d] = [del[d] EXCEPT !.pc = "purged", !.next = del[d].next]]
  <2>1. del' = [del EXCEPT ![d] = [del[d] EXCEPT !.pc = "purged"]]
    BY DEF DelReturn
  <2>. QED BY <2>1 DEF TypeOK
<1>3. del[d].next \in 1 .. MaxCap + 1
  BY DEF TypeOK
<1>4. /\ WalkSafe'
      /\ del' \in [Deleters -> [pc : {"idle", "walk", "purged", "failed"},
                               key : Keys \cup {None}, cap : 0 .. MaxCap,
                               len : 0 .. MaxCap, next : 1 .. MaxCap + 1,
                               asked : SUBSET Entries]]
      /\ \A f \in Deleters : /\ del'[f].len <= del'[f].cap
                             /\ del'[f].pc = "walk" => del'[f].key \in Keys
  BY <1>1, <1>2, <1>3, DelKeeps
<1>5. HeapOK' /\ SlotsDistinct' /\ \A x \in Entries : Indexed(x)' <=> Indexed(x)
  BY <1>1, IndexKept
<1>6. TypeOK'
  BY <1>1, <1>4 DEF TypeOK
<1>7. NewOK' /\ TargetOK' /\ TimerOK'
  BY <1>1 DEF NewOK, TargetOK, TimerOK
<1>8. \A x \in Entries : BeingCleaned(x)' <=> BeingCleaned(x)
  BY <1>1 DEF BeingCleaned
<1>9. CleanedOnce' /\ LeftOK' /\ NothingLost'
  BY <1>1, <1>5, <1>8 DEF Fates, CleanedOnce, LeftOK, NothingLost, TypeOK
<1>. QED BY <1>4, <1>5, <1>6, <1>7, <1>9 DEF Fates

(* Every step of the index keeps the invariant.                            *)
LEMMA NextStep == IndInv /\ [Next]_vars => IndInv'
<1> SUFFICES ASSUME IndInv, [Next]_vars PROVE IndInv'
  OBVIOUS
<1>1. ASSUME NEW a \in Actors, CleanStep(a) PROVE IndInv'
  BY <1>1, CleanFoundStep, CleanMissingStep, CleanStorageStep DEF CleanStep
<1>2. ASSUME NEW e \in Entries, PutAny(e) \/ Expire(e) \/ Wake(e) \/ CleanReplaced(e)
      PROVE  IndInv'
  BY <1>2, PutStep, ExpireStep, WakeStep, CleanReplacedStep
<1>3. ASSUME NEW d \in Deleters,
             (\E k \in Keys : DelSnapshot(d, k)) \/ DelWalk(d) \/ DelReturn(d)
      PROVE  IndInv'
  BY <1>3, DelSnapshotStep, DelWalkStep, DelReturnStep
<1>4. ASSUME UNCHANGED vars PROVE IndInv'
  <2> USE DEF IndInv, Skeleton, vars, index, entryVars, cleanVars
  <2>1. TypeOK' /\ HeapOK' /\ SlotsDistinct' /\ \A x \in Entries : Indexed(x)' <=> Indexed(x)
    BY <1>4, IndexKept DEF TypeOK
  <2>2. WalkSafe' /\ NewOK' /\ TargetOK' /\ TimerOK'
    BY <1>4 DEF WalkSafe, NewOK, TargetOK, TimerOK
  <2>3. \A x \in Entries : BeingCleaned(x)' <=> BeingCleaned(x)
    BY <1>4 DEF BeingCleaned
  <2>4. CleanedOnce' /\ LeftOK' /\ NothingLost'
    BY <1>4, <2>1, <2>3 DEF Fates, CleanedOnce, LeftOK, NothingLost, TypeOK
  <2>. QED BY <2>1, <2>2, <2>4 DEF Fates
<1>. QED BY <1>1, <1>2, <1>3, <1>4 DEF Next

-----------------------------------------------------------------------------
(* The inductive invariant holds of every behaviour of the index.          *)
LEMMA Invariance == Spec => []IndInv
  BY InitInd, NextStep, PTL DEF Spec

(* The index stays well formed under Put, Del, the timers and the races    *)
(* between them.                                                           *)
THEOREM TypeCorrect == Spec => []TypeOK
  BY Invariance, PTL DEF IndInv, Skeleton

(* cleanEntry's and Put's in-place edits of shared backing arrays never    *)
(* leave an entry twice, or under another key, in a slice Get walks.       *)
THEOREM IndexWellFormed == Spec => []SlotsDistinct
  BY Invariance, PTL DEF IndInv, Skeleton

(* Del's walk without a lock never dereferences nil.                       *)
THEOREM WalkNeverNil == Spec => []WalkSafe
  BY Invariance, PTL DEF IndInv, Skeleton

(* An entry's storage is cleaned at most once, and never under a Get.      *)
THEOREM NoDoubleClean == Spec => []CleanedOnce
  BY Invariance, PTL DEF IndInv, Fates

(* No entry drops out of the index with its storage left behind.           *)
THEOREM NoLeak == Spec => []NothingLost
  BY Invariance, PTL DEF IndInv, Fates

-----------------------------------------------------------------------------
(* Of two variants in a slice that answer the same request, the first is   *)
(* the newer one: Put replaces the first that matches, and appends only    *)
(* when none does.                                                         *)
NewestFirst ==
  /\ \A e \in Entries : putAt[e] <= puts
  /\ \A k \in Keys : \A i, j \in 1 .. slice[k].len :
       i < j /\ matchVary(request[At(k, j)], At(k, i)) => putAt[At(k, i)] >= putAt[At(k, j)]

(* A Put that appends matches no older variant; one that replaces takes    *)
(* the first place among those it matches.                                 *)
LEMMA PutKeepsNewest ==
  ASSUME IndInv, NewestFirst, NEW e \in Entries, PutAny(e)
  PROVE  NewestFirst'
<1> USE CapAssumption, NoneAssumption
<1>1. PICK k \in Keys, headers \in [Headers -> Values], names \in SUBSET Headers : Put(e, k, headers, names)
  BY DEF PutAny
<1>2. TypeOK /\ SlotsDistinct /\ NewOK
  BY DEF IndInv, Skeleton
<1>3. /\ request' = [request EXCEPT ![e] = headers] /\ vary' = [vary EXCEPT ![e] = names]
      /\ putAt' = [putAt EXCEPT ![e] = puts + 1] /\ puts' = puts + 1 /\ life[e] = "new"
  BY <1>1 DEF Put
<1>4. request'[e] = headers /\ putAt'[e] = puts + 1 /\ puts \in Nat
  BY <1>2, <1>3 DEF TypeOK
<1>5. \A x \in Entries : x # e => request'[x] = request[x] /\ vary'[x] = vary[x] /\ putAt'[x] = putAt[x]
  BY <1>2, <1>3 DEF TypeOK
<1>6. \A x \in Entries : putAt'[x] <= puts' /\ putAt'[x] <= puts + 1 /\ putAt[x] \in Nat /\ putAt'[x] \in Nat
  BY <1>2, <1>3, <1>4, <1>5 DEF TypeOK, NewestFirst
<1>7. \A l \in Keys : \A i \in 1 .. slice[l].len : At(l, i) \in Entries /\ At(l, i) # e
  BY <1>2, <1>3 DEF SlotsDistinct, NewOK
<1>8. \A x \in Entries, y \in Entries :
        x # e /\ y # e => (matchVary(request[y], x)' <=> matchVary(request[y], x))
  BY <1>5 DEF matchVary
<1>9. \A x \in Entries : x # e => (matchVary(request[e], x)' <=> matchVary(headers, x))
  BY <1>4, <1>5 DEF matchVary
<1>10. ASSUME NEW l \in Keys, l # k, slice'[l] = slice[l], heap'[l] = heap[l],
              NEW i \in 1 .. slice'[l].len, NEW j \in 1 .. slice'[l].len, i < j,
              matchVary(request[At(l, j)], At(l, i))'
       PROVE  putAt'[At(l, i)'] >= putAt'[At(l, j)']
  <2>1. At(l, i)' = At(l, i) /\ At(l, j)' = At(l, j)
    BY <1>10 DEF At
  <2>2. i \in 1 .. slice[l].len /\ j \in 1 .. slice[l].len
    BY <1>10
  <2>3. matchVary(request[At(l, j)], At(l, i))
    BY <1>7, <1>8, <1>10, <2>1, <2>2 DEF matchVary
  <2>. QED BY <1>5, <1>7, <1>10, <2>1, <2>2, <2>3 DEF NewestFirst
<1>11. CASE Matching(k, headers) = {} /\ Append(k, e)
  <2>n. PICK n \in Nat : n = slice[k].len
    BY <1>2 DEF TypeOK
  <2>1. /\ slice'[k].len = n + 1 /\ n \in Nat
        /\ \A i \in 1 .. n : At(k, i)' = At(k, i)
        /\ At(k, n + 1)' = e
        /\ \A l \in Keys : l # k => slice'[l] = slice[l] /\ heap'[l] = heap[l]
    <3>1. /\ slice'[k].len = n + 1
          /\ \A i \in 1 .. n : At(k, i)' = At(k, i)
          /\ heap'[k][slice'[k].cap][n + 1] = e
          /\ \A l \in Keys : l # k => slice'[l] = slice[l] /\ heap'[l] = heap[l]
      BY <1>2, <1>11, <2>n, AppendSlots
    <3>2. At(k, n + 1)' = e
      BY <3>1 DEF At
    <3>. QED BY <3>1, <3>2
  <2>2. ASSUME NEW i \in 1 .. n + 1, NEW j \in 1 .. n + 1, i < j,
               matchVary(request[At(k, j)], At(k, i))'
        PROVE  putAt'[At(k, i)'] >= putAt'[At(k, j)']
    <3>1. i \in 1 .. n /\ At(k, i)' = At(k, i) /\ At(k, i) \in Entries /\ At(k, i) # e
      BY <2>n, <2>1, <2>2, <1>7
    <3>2. CASE j = n + 1
      <4>1. At(k, j)' = e
        BY <2>1, <3>2
      <4>2. matchVary(headers, At(k, i))
        BY <1>4, <1>5, <2>2, <3>1, <4>1 DEF matchVary
      <4>. QED BY <1>11, <2>n, <3>1, <4>2 DEF Matching
    <3>3. CASE j # n + 1
      <4>1. j \in 1 .. n /\ At(k, j)' = At(k, j) /\ At(k, j) \in Entries /\ At(k, j) # e
        BY <2>n, <2>1, <3>3, <1>7
      <4>2. matchVary(request[At(k, j)], At(k, i))
        BY <1>5, <2>2, <3>1, <4>1 DEF matchVary
      <4>. QED BY <1>5, <2>n, <2>2, <3>1, <4>1, <4>2 DEF NewestFirst
    <3>. QED BY <3>2, <3>3
  <2>. QED BY <1>6, <1>10, <2>1, <2>2 DEF NewestFirst
<1>12. ASSUME NEW p \in Matching(k, headers), IsFirst(p, Matching(k, headers)), Replace(k, p, e)
       PROVE  NewestFirst'
  <2> DEFINE n == slice[k].len
  <2>1. /\ slice' = slice /\ p \in 1 .. n /\ n \in Nat
        /\ \A j \in 1 .. n : At(k, j)' = IF j = p THEN e ELSE At(k, j)
        /\ \A l \in Keys : l # k => heap'[l] = heap[l]
    BY <1>2, <1>12, ReplaceSlots DEF Matching, TypeOK
  <2>2. ASSUME NEW i \in 1 .. n, NEW j \in 1 .. n, i < j,
               matchVary(request[At(k, j)], At(k, i))'
        PROVE  putAt'[At(k, i)'] >= putAt'[At(k, j)']
    <3>1. CASE i = p
      <4>1. At(k, j)' \in Entries
        BY <2>1, <1>7
      <4>. QED BY <1>4, <1>6, <2>1, <3>1, <4>1
    <3>2. CASE i # p
      <4>1. At(k, i)' = At(k, i) /\ At(k, i) \in Entries /\ At(k, i) # e
        BY <2>1, <3>2, <1>7
      <4>2. CASE j = p
        <5>1. matchVary(headers, At(k, i))
          BY <1>4, <1>5, <2>1, <2>2, <4>1, <4>2 DEF matchVary
        <5>. QED BY <1>12, <2>2, <4>2, <5>1 DEF Matching, IsFirst
      <4>3. CASE j # p
        <5>1. At(k, j)' = At(k, j) /\ At(k, j) \in Entries /\ At(k, j) # e
          BY <2>1, <4>3, <1>7
        <5>2. matchVary(request[At(k, j)], At(k, i))
          BY <1>5, <2>2, <4>1, <5>1 DEF matchVary
        <5>. QED BY <1>5, <2>2, <4>1, <5>1, <5>2 DEF NewestFirst
      <4>. QED BY <4>2, <4>3
    <3>. QED BY <3>1, <3>2
  <2>. QED BY <1>6, <1>10, <2>1, <2>2 DEF NewestFirst
<1>. QED BY <1>1, <1>11, <1>12 DEF Put

(* cleanEntry's removal keeps the order of the rest.                       *)
LEMMA CleanKeepsNewest ==
  ASSUME IndInv, NewestFirst, NEW a \in Actors, CleanFound(a)
  PROVE  NewestFirst'
<1> USE CapAssumption, NoneAssumption
<1>1. TypeOK /\ SlotsDistinct /\ key[target[a]] \in Keys
  BY DEF IndInv, Skeleton, TargetOK, CleanFound
<1>k. PICK k \in Keys : k = key[target[a]]
  BY <1>1
<1>2. UNCHANGED <<request, vary, puts, putAt>>
  BY DEF CleanFound, entryVars
<1>3. PICK p \in 1 .. slice[k].len : Remove(k, p)
  BY <1>k DEF CleanFound
<1>n. PICK n \in Nat : n = slice[k].len
  BY <1>1 DEF TypeOK
<1>4. /\ slice'[k].len = n - 1 /\ n \in Nat
      /\ \A j \in 1 .. n - 1 : At(k, j)' = IF j < p THEN At(k, j) ELSE At(k, j + 1)
      /\ \A l \in Keys : l # k => slice'[l] = slice[l] /\ heap'[l] = heap[l]
  BY <1>1, <1>3, <1>n, RemoveSlots
<1>5. ASSUME NEW i \in 1 .. n - 1, NEW j \in 1 .. n - 1, i < j,
             matchVary(request[At(k, j)], At(k, i))'
      PROVE  putAt'[At(k, i)'] >= putAt'[At(k, j)']
  <2>1. PICK u \in 1 .. n, v \in 1 .. n : u < v /\ At(k, i)' = At(k, u) /\ At(k, j)' = At(k, v)
    <3>1. CASE j < p
      BY <1>4, <1>5, <1>n, <3>1
    <3>2. CASE ~(j < p) /\ i < p
      BY <1>4, <1>5, <1>n, <3>2
    <3>3. CASE ~(i < p)
      BY <1>4, <1>5, <1>n, <3>3
    <3>. QED BY <3>1, <3>2, <3>3
  <2>2. matchVary(request[At(k, v)], At(k, u))
    BY <1>2, <1>5, <2>1 DEF matchVary
  <2>. QED BY <1>1, <1>2, <1>n, <2>1, <2>2 DEF NewestFirst
<1>6. ASSUME NEW l \in Keys, l # k, NEW i \in 1 .. slice'[l].len, NEW j \in 1 .. slice'[l].len, i < j,
             matchVary(request[At(l, j)], At(l, i))'
      PROVE  putAt'[At(l, i)'] >= putAt'[At(l, j)']
  <2>1. At(l, i)' = At(l, i) /\ At(l, j)' = At(l, j) /\ slice'[l] = slice[l]
    BY <1>4, <1>6 DEF At
  <2>2. matchVary(request[At(l, j)], At(l, i))
    BY <1>2, <1>6, <2>1 DEF matchVary
  <2>3. i \in 1 .. slice[l].len /\ j \in 1 .. slice[l].len
    BY <1>6, <2>1
  <2>4. putAt[At(l, i)] >= putAt[At(l, j)]
    BY <1>6, <2>2, <2>3 DEF NewestFirst
  <2>. QED BY <1>2, <2>1, <2>4
<1>. QED BY <1>2, <1>4, <1>5, <1>6 DEF NewestFirst

(* A set of slots that is not empty has a first.                           *)
LEMMA LeastHit ==
  ASSUME NEW n \in Nat, NEW S \in SUBSET (1 .. n), S # {}
  PROVE  \E i \in S : \A j \in S : i <= j
<1> DEFINE R == {ss \in Nat \X Nat : ss[1] < ss[2]}
<1>1. IsWellFoundedOn(R, Nat)
  BY NatLessThanWellFounded, Zenon DEF OpToRel
<1>2. S \subseteq Nat
  OBVIOUS
<1> HIDE DEF R
<1>3. PICK i \in S : \A j \in S : ~(<<j, i>> \in R)
  BY <1>1, <1>2, WFMin, Zenon
<1>4. \A j \in Nat : j < i => <<j, i>> \in R
  BY <1>2 DEF R
<1>5. \A j \in S : j \in Nat /\ ~(j < i)
  BY <1>2, <1>3, <1>4, Zenon
<1>. QED BY <1>2, <1>5

(* Get answers with the newest variant that was stored under the request's *)
(* headers, however Puts with changing Vary headers, removals and          *)
(* replacements have mixed.                                                *)
THEOREM GetIsNewest == Spec => []GetNotOlder
<1>1. Init => NewestFirst
  BY DEF Init, NewestFirst
<1>2. IndInv /\ NewestFirst /\ [Next]_vars => NewestFirst'
  <2> SUFFICES ASSUME IndInv, NewestFirst, [Next]_vars PROVE NewestFirst'
    OBVIOUS
  <2>1. CASE UNCHANGED <<index, entryVars>>
    BY <2>1 DEF NewestFirst, index, entryVars, At, matchVary
  <2>. QED BY <2>1, PutKeepsNewest, CleanKeepsNewest
           DEF Next, CleanStep, vars, Expire, Wake, CleanReplaced, CleanMissing, CleanStorage,
               DelSnapshot, DelWalk, DelReturn
<1>3. IndInv /\ NewestFirst => GetNotOlder
  <2> SUFFICES ASSUME IndInv, NewestFirst, NEW e \in Entries, NEW includeStale \in BOOLEAN,
                      Indexed(e), IsFresh(e) \/ includeStale
               PROVE  putAt[Get(key[e], request[e], includeStale)] >= putAt[e]
    BY DEF GetNotOlder
  <2> DEFINE k == key[e]
             hits == {i \in Matching(k, request[e]) : IsFresh(At(k, i)) \/ includeStale}
             first == CHOOSE i \in hits : IsFirst(i, hits)
  <2>1. TypeOK /\ k \in Keys /\ slice[k].len \in Nat /\ putAt[e] \in Nat
    BY DEF IndInv, Skeleton, TypeOK, Indexed
  <2>2. PICK p \in 1 .. slice[k].len : At(k, p) = e
    BY DEF Indexed, InSlice
  <2>3. p \in hits
    BY <2>2 DEF Matching, matchVary
  <2>4. hits \subseteq 1 .. slice[k].len
    BY DEF Matching
  <2>5. \E i \in hits : IsFirst(i, hits)
    BY <2>1, <2>3, <2>4, LeastHit DEF IsFirst
  <2>6. first \in hits /\ first <= p /\ first \in 1 .. slice[k].len
    BY <2>3, <2>4, <2>5 DEF IsFirst
  <2>7. Get(k, request[e], includeStale) = At(k, first)
    BY <2>3 DEF Get
  <2> HIDE DEF first
  <2>8. matchVary(request[e], At(k, first))
    BY <2>6 DEF Matching
  <2>9. CASE first = p
    BY <2>1, <2>2, <2>7, <2>9
  <2>10. CASE first # p
    <3>1. first < p
      BY <2>1, <2>6, <2>10
    <3>. QED BY <2>1, <2>2, <2>6, <2>7, <2>8, <3>1 DEF NewestFirst
  <2>. QED BY <2>9, <2>10
<1>. QED BY Invariance, InitInd, <1>1, <1>2, <1>3, PTL DEF Spec
=============================================================================
