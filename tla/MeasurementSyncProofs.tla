----------------------- MODULE MeasurementSyncProofs -----------------------
(***************************************************************************)
(* Proofs about MeasurementSync for any sheets, any number of requests in  *)
(* flight and every bound.                                                 *)
(***************************************************************************)
EXTENDS MeasurementSync, FiniteSetTheorems, WellFoundedInduction, TLAPS

Row == [id : Ids, ver : Nat]

-----------------------------------------------------------------------------
(* Lists.                                                                  *)

LEMMA FiniteParts ==
    ASSUME NEW n \in Nat, NEW S \in SUBSET (1..n)
    PROVE  IsFiniteSet(S) /\ Cardinality(S) \in Nat
<1>1. IsFiniteSet(1..n)
  BY FS_Interval
<1>2. IsFiniteSet(S)
  BY <1>1, FS_Subset
<1> QED
  BY <1>2, FS_CardinalityType

LEMMA MinInSet ==
    ASSUME NEW S \in SUBSET Nat, S # {}
    PROVE  Min(S) \in S /\ \A y \in S : Min(S) <= y
<1> DEFINE R == {ss \in Nat \X Nat : ss[1] < ss[2]}
<1>1. IsWellFoundedOn(R, Nat)
  BY NatLessThanWellFounded, Zenon DEF OpToRel
<1>2. \A x, y \in Nat : y < x => <<y, x>> \in R
  OBVIOUS
<1> HIDE DEF R
<1>3. \E x \in S : \A y \in S : ~(<<y, x>> \in R)
  BY <1>1, WFMin
<1>4. PICK x \in S : \A y \in S : ~(y < x)
  BY <1>2, <1>3
<1>5. \A y \in S : x <= y
  BY <1>4
<1> QED
  BY <1>5 DEF Min

\* Two counts of positions differ for different positions.
LEMMA RankStrict ==
    ASSUME NEW n \in Nat, NEW S \in SUBSET (1..n), NEW j \in S, NEW k \in S, j < k
    PROVE  Cardinality({i \in S : i <= j}) < Cardinality({i \in S : i <= k})
<1> DEFINE A == {i \in S : i <= j}
           B == {i \in S : i <= k}
<1>1. A \in SUBSET (1..n) /\ B \in SUBSET (1..n)
  OBVIOUS
<1>2. A \in SUBSET B /\ k \in B /\ k \notin A
  <2>1. \A i \in S : i <= j => i <= k
    OBVIOUS
  <2>2. ~(k <= j) /\ k <= k
    OBVIOUS
  <2> QED
    BY <2>1, <2>2
<1> HIDE DEF A, B
<1>3. IsFiniteSet(B) /\ Cardinality(B) \in Nat /\ Cardinality(A) \in Nat
  BY <1>1, FiniteParts
<1>4. Cardinality(A) <= Cardinality(B) /\ (Cardinality(B) = Cardinality(A) => B = A)
  BY <1>2, <1>3, FS_Subset
<1>5. Cardinality(A) < Cardinality(B)
  BY <1>2, <1>3, <1>4
<1> QED
  BY <1>5 DEF A, B

\* A filtered list is read off the kept positions, each once.
LEMMA FilteredFacts ==
    ASSUME NEW T, NEW list \in Seq(T), NEW S
    PROVE  /\ Filtered(list, S) \in Seq(T)
           /\ \E at \in [DOMAIN Filtered(list, S) -> DOMAIN list] :
                /\ \A n \in DOMAIN Filtered(list, S) :
                     list[at[n]] \in S /\ Filtered(list, S)[n] = list[at[n]]
                /\ \A m, n \in DOMAIN Filtered(list, S) : at[m] = at[n] => m = n
                /\ \A k \in DOMAIN list : list[k] \in S => \E n \in DOMAIN Filtered(list, S) : at[n] = k
<1> DEFINE kept == {k \in DOMAIN list : list[k] \in S}
           Rank(k) == Cardinality({j \in kept : j <= k})
           N == Cardinality(kept)
           at == [n \in 1..N |-> CHOOSE k \in kept : Rank(k) = n]
           rank == [k \in kept |-> Rank(k)]
<1>1. Len(list) \in Nat /\ DOMAIN list = 1..Len(list) /\ kept \in SUBSET (1..Len(list))
  OBVIOUS
<1>2. IsFiniteSet(kept) /\ N \in Nat
  BY <1>1, FiniteParts
<1>3. \A k \in kept : Rank(k) \in 1..N
  <2> SUFFICES ASSUME NEW k \in kept PROVE Rank(k) \in 1..N
    OBVIOUS
  <2> DEFINE A == {j \in kept : j <= k}
  <2>1. A \in SUBSET kept /\ k \in A /\ A \in SUBSET (1..Len(list))
    BY <1>1
  <2>2. Rank(k) = Cardinality(A)
    OBVIOUS
  <2> HIDE DEF A, Rank
  <2>3. IsFiniteSet(A) /\ Cardinality(A) \in Nat
    BY <1>1, <2>1, FiniteParts
  <2>4. Cardinality(A) <= N
    BY <1>2, <2>1, FS_Subset
  <2>5. Cardinality(A) # 0
    BY <2>1, <2>3, FS_EmptySet
  <2> QED
    BY <1>2, <2>2, <2>3, <2>4, <2>5
<1>4. \A j, k \in kept : Rank(j) = Rank(k) => j = k
  <2>1. ASSUME NEW j \in kept, NEW k \in kept, j < k
        PROVE  Rank(j) < Rank(k)
    <3>1. Cardinality({i \in kept : i <= j}) < Cardinality({i \in kept : i <= k})
      <4> HIDE DEF kept
      <4> QED
        BY <1>1, <2>1, RankStrict
    <3> QED
      BY <3>1
  <2> HIDE DEF Rank
  <2>2. \A j \in kept : j \in Int /\ Rank(j) \in Int
    BY <1>1, <1>2, <1>3
  <2>3. ASSUME NEW j \in kept, NEW k \in kept, Rank(j) = Rank(k)
        PROVE  j = k
    <3>1. CASE j < k
      BY <2>1, <2>2, <2>3, <3>1
    <3>2. CASE k < j
      BY <2>1, <2>2, <2>3, <3>2
    <3> QED
      BY <2>2, <3>1, <3>2
  <2> QED
    BY <2>3
<1> HIDE DEF Rank
<1>5. rank \in Injection(kept, 1..N)
  BY <1>3, <1>4 DEF Injection, IsInjective
<1>6. rank \in Surjection(kept, 1..N)
  <2> HIDE DEF N, rank, kept
  <2>1. IsFiniteSet(1..N)
    BY <1>2, FS_Interval
  <2>2. Cardinality(1..N) = IF 1 > N THEN 0 ELSE N - 1 + 1
    BY <1>2, FS_Interval
  <2>3. Cardinality(1..N) = N
    BY <1>2, <2>2
  <2>4. Cardinality(kept) = Cardinality(1..N) <=> rank \in Surjection(kept, 1..N)
    BY <1>5, <2>1, FS_Injection
  <2> QED
    BY <2>3, <2>4 DEF N
<1>7. \A n \in 1..N : \E k \in kept : Rank(k) = n
  BY <1>6 DEF Surjection
<1>8. \A n \in 1..N : at[n] \in kept /\ Rank(at[n]) = n
  BY <1>7
<1>9. Filtered(list, S) = [n \in 1..N |-> list[at[n]]]
  BY DEF Filtered, Rank
<1> HIDE DEF N, at, kept
<1>10. DOMAIN Filtered(list, S) = 1..N
  BY <1>9
<1>11. \A n \in 1..N : Filtered(list, S)[n] = list[at[n]] /\ list[at[n]] \in S /\ at[n] \in DOMAIN list
  BY <1>8, <1>9 DEF kept
<1>12. \A k \in DOMAIN list : list[k] \in S => \E n \in 1..N : at[n] = k
  <2> SUFFICES ASSUME NEW k \in DOMAIN list, list[k] \in S PROVE \E n \in 1..N : at[n] = k
    OBVIOUS
  <2>1. k \in kept
    BY DEF kept
  <2>2. Rank(k) \in 1..N /\ at[Rank(k)] \in kept /\ Rank(at[Rank(k)]) = Rank(k)
    BY <1>3, <1>8, <2>1
  <2> QED
    BY <1>4, <2>1, <2>2
<1>13. \A m, n \in 1..N : at[m] = at[n] => m = n
  BY <1>8
<1>14. Filtered(list, S) \in Seq(T)
  <2>1. \A n \in 1..N : list[at[n]] \in T
    BY <1>11, <1>1
  <2> QED
    BY <1>2, <1>9, <2>1
<1>15. at \in [1..N -> DOMAIN list]
  BY <1>11 DEF at
<1> QED
  <2> DEFINE Reads(f) == /\ \A n \in 1..N : list[f[n]] \in S /\ Filtered(list, S)[n] = list[f[n]]
                         /\ \A m, n \in 1..N : f[m] = f[n] => m = n
                         /\ \A k \in DOMAIN list : list[k] \in S => \E n \in 1..N : f[n] = k
  <2>1. Reads(at)
    BY <1>11, <1>12, <1>13
  <2> HIDE DEF at
  <2>2. PICK f \in [1..N -> DOMAIN list] : Reads(f)
    BY <1>15, <2>1
  <2> DEFINE F == Filtered(list, S)
  <2>3. DOMAIN F = 1..N /\ f \in [DOMAIN F -> DOMAIN list]
    BY <1>10
  <2>4. /\ \A n \in DOMAIN F : list[f[n]] \in S /\ F[n] = list[f[n]]
        /\ \A m, n \in DOMAIN F : f[m] = f[n] => m = n
        /\ \A k \in DOMAIN list : list[k] \in S => \E n \in DOMAIN F : f[n] = k
    BY <2>2, <2>3
  <2> HIDE DEF F
  <2>5. \E g \in [DOMAIN F -> DOMAIN list] :
           /\ \A n \in DOMAIN F : list[g[n]] \in S /\ F[n] = list[g[n]]
           /\ \A m, n \in DOMAIN F : g[m] = g[n] => m = n
           /\ \A k \in DOMAIN list : list[k] \in S => \E n \in DOMAIN F : g[n] = k
    BY <2>3, <2>4
  <2> QED
    BY <1>14, <2>5 DEF F

\* What is pruned off the undo stack leaves entries that were there.
LEMMA PrunedFacts ==
    ASSUME NEW T, NEW stack \in Seq(T), NEW list
    PROVE  /\ Pruned(stack, list) \in Seq(T)
           /\ \A n \in DOMAIN Pruned(stack, list) :
                 Pruned(stack, list)[n] \in Shown(list) /\ \E k \in DOMAIN stack : stack[k] = Pruned(stack, list)[n]
<1> DEFINE F == Filtered(stack, Shown(list))
<1>1. PICK at \in [DOMAIN F -> DOMAIN stack] : \A n \in DOMAIN F : stack[at[n]] \in Shown(list) /\ F[n] = stack[at[n]]
  BY FilteredFacts
<1>2. F \in Seq(T)
  BY FilteredFacts
<1> HIDE DEF F
<1>3. Pruned(stack, list) = F
  BY DEF Pruned, F
<1> QED
  BY <1>1, <1>2, <1>3

LEMMA WithoutFacts ==
    ASSUME NEW list \in Seq(Row), NEW ids
    PROVE  /\ Without(list, ids) \in Seq(Row)
           /\ Shown(Without(list, ids)) \cap ids = {}
<1> DEFINE S == {m \in Range(list) : m.id \notin ids}
           F == Filtered(list, S)
<1> HIDE DEF S
<1>1. PICK at \in [DOMAIN F -> DOMAIN list] : \A n \in DOMAIN F : list[at[n]] \in S /\ F[n] = list[at[n]]
  BY FilteredFacts
<1>2. F \in Seq(Row)
  BY FilteredFacts
<1>3. Without(list, ids) = F
  BY DEF Without, S
<1> HIDE DEF F
<1>4. \A n \in DOMAIN F : F[n].id \notin ids
  BY <1>1 DEF S
<1> QED
  BY <1>2, <1>3, <1>4 DEF Shown

LEMMA ListedFacts ==
    ASSUME NEW l, l.ids \in Versions
    PROVE  /\ Listed(l) \in Seq(Row)
           /\ \A j, k \in DOMAIN Listed(l) : Listed(l)[j].id = Listed(l)[k].id => j = k
           /\ \A k \in DOMAIN Listed(l) : /\ Listed(l)[k].id \in Ids
                                          /\ Listed(l)[k].ver = l.ids[Listed(l)[k].id] /\ Listed(l)[k].ver > 0
           /\ \A i \in Ids : l.ids[i] > 0 => i \in Shown(Listed(l))
<1> DEFINE S == {i \in Ids : l.ids[i] > 0}
           N == Cardinality(S)
           f == SetToSeq(S)
<1>1. IsFiniteSet(S) /\ N \in Nat
  BY BoundsAssumption, FiniteParts DEF Ids
<1>2. f \in [1..N -> S] /\ \A a, b \in 1..N : f[a] = f[b] => a = b
  <2> HIDE DEF S
  <2>1. ExistsBijection(1..N, S)
    BY <1>1, FS_CardinalityType
  <2>2. \E g \in [1..N -> S] : IsInjective(g)
    BY <2>1 DEF ExistsBijection, Bijection, Injection
  <2>3. f \in [1..N -> S] /\ IsInjective(f)
    <3>1. f = CHOOSE g \in [1..N -> S] : IsInjective(g)
      BY DEF SetToSeq
    <3> HIDE DEF f
    <3> QED
      BY <2>2, <3>1
  <2> HIDE DEF f
  <2> QED
    BY <2>3 DEF IsInjective
<1>3. f \in Surjection(1..N, S)
  <2> HIDE DEF S, f, N
  <2>1. f \in Injection(1..N, S)
    BY <1>2 DEF Injection, IsInjective
  <2>2. Cardinality(1..N) = IF 1 > N THEN 0 ELSE N - 1 + 1
    BY <1>1, FS_Interval
  <2>3. Cardinality(1..N) = Cardinality(S) <=> f \in Surjection(1..N, S)
    BY <1>1, <2>1, FS_Injection
  <2>4. Cardinality(1..N) = N
    BY <1>1, <2>2
  <2> QED
    BY <2>3, <2>4 DEF N
<1> HIDE DEF f, N
<1>4. Listed(l) = [k \in 1..N |-> [id |-> f[k], ver |-> l.ids[f[k]]]]
  BY <1>2 DEF Listed, f
<1>5. \A k \in 1..N : f[k] \in Ids /\ l.ids[f[k]] > 0 /\ l.ids[f[k]] \in Nat
  BY <1>2 DEF Versions
<1>6. DOMAIN Listed(l) = 1..N /\ \A k \in 1..N : Listed(l)[k].id = f[k] /\ Listed(l)[k].ver = l.ids[f[k]]
  BY <1>4
<1>7. Listed(l) \in Seq(Row)
  BY <1>1, <1>4, <1>5 DEF Row
<1>8. \A i \in Ids : l.ids[i] > 0 => i \in Shown(Listed(l))
  <2>1. \A i \in S : \E k \in 1..N : f[k] = i
    BY <1>3 DEF Surjection
  <2> QED
    BY <1>6, <2>1 DEF Shown
<1> QED
  BY <1>2, <1>5, <1>6, <1>7, <1>8

\* The first row of an id, and merging a row into a list.
LEMMA FirstFacts ==
    ASSUME NEW list \in Seq(Row), NEW i \in Shown(list)
    PROVE  /\ SelectInSeq(list, LAMBDA m : m.id = i) \in DOMAIN list
           /\ list[SelectInSeq(list, LAMBDA m : m.id = i)].id = i
<1> DEFINE I == {k \in 1..Len(list) : list[k].id = i}
<1>1. I \in SUBSET Nat /\ I # {}
  BY DEF Shown
<1>2. Min(I) \in I
  BY <1>1, MinInSet
<1>3. SelectInSeq(list, LAMBDA m : m.id = i) = Min(I)
  BY <1>1 DEF SelectInSeq
<1> QED
  BY <1>2, <1>3

LEMMA VersionFacts ==
    ASSUME NEW list \in Seq(Row), NEW i \in Shown(list)
    PROVE  /\ Version(list, i) \in Nat
           /\ \E k \in DOMAIN list : list[k].id = i /\ Version(list, i) = list[k].ver
<1> DEFINE k == SelectInSeq(list, LAMBDA m : m.id = i)
<1>1. k \in DOMAIN list /\ list[k].id = i
  BY FirstFacts
<1>2. Version(list, i) = list[k].ver
  BY DEF Version
<1> HIDE DEF k
<1>3. list[k] \in Row
  BY <1>1
<1>4. list[k].ver \in Nat
  BY <1>3 DEF Row
<1> QED
  BY <1>1, <1>2, <1>4

LEMMA MergeFacts ==
    ASSUME NEW list \in Seq(Row), NEW m \in Row
    PROVE  Merge(list, m) \in Seq(Row)
<1>1. CASE m.id \notin Shown(list)
  <2>1. Merge(list, m) = Append(list, m)
    BY <1>1 DEF Merge
  <2> QED
    BY <2>1
<1>2. CASE m.id \in Shown(list)
  <2> DEFINE k == SelectInSeq(list, LAMBDA x : x.id = m.id)
  <2>1. k \in DOMAIN list
    BY <1>2, FirstFacts
  <2>2. Merge(list, m) = [list EXCEPT ![k] = m]
    BY <1>2 DEF Merge, ReplaceAt
  <2> HIDE DEF k
  <2> QED
    BY <2>1, <2>2
<1> QED
  BY <1>1, <1>2

-----------------------------------------------------------------------------
(* Type correctness.  What a redo sends and what an undo puts on the redo  *)
(* stack is read from a row, so the rows they name have been saved.        *)

Saved(i) == rows[i] # Absent

OnUndo == {undo[k] : k \in DOMAIN undo}
InsertedBy(c) == IF call[c].op \in {"create", "redo"} /\ call[c].pc = "ok" THEN {call[c].id} ELSE {}

SavedInv ==
    /\ \A i \in Ids : Saved(i) => rows[i].sheet \in Sheets /\ rows[i].drawing \in Ids /\ Saved(rows[i].drawing)
    /\ \A i \in OnUndo : Saved(i)
    /\ \A c \in Slots : \A i \in InsertedBy(c) : Saved(i)
    /\ \A k \in DOMAIN redo : Saved(redo[k].drawing)
    /\ \A c \in Slots : call[c].op = "redo" /\ call[c].pc = "sent" => Saved(call[c].drawing)

SyncTypes == TypeOK /\ SavedInv

Ops == {"create", "redo", "patch", "delete", "undo"}
LoadSet == [view : Views, sheet : Sheets \cup {Off}, at : Nat, ids : Versions]
PatchSet == [op : {"patch"}, pc : {"sent", "write"}, sheet : Sheets, id : Ids, ver : Nat, basis : Nat, seen : Nat]
RemovalSet == [op : {"delete", "undo"}, pc : {"sent", "ok"}, sheet : Sheets,
               ids : SUBSET Ids, tried : SUBSET Ids, done : SUBSET Ids]

LEMMA CallTypes ==
    ASSUME call \in [Slots -> Requests \cup {Idle}], NEW c \in Slots
    PROVE  /\ call[c] = Idle <=> call[c].op = "idle"
           /\ call[c] # Idle => /\ call[c].op \in Ops /\ call[c].sheet \in Sheets
                                /\ call[c].pc \in {"sent", "write", "ok", "error", "conflict"}
           /\ call[c].op \in {"create", "redo"} /\ call[c].pc = "sent" =>
                 /\ call[c].on \in Sheets /\ call[c].drawing \in Ids \cup {None}
                 /\ call[c].op = "redo" => call[c].drawing \in Ids
           /\ call[c].op \in {"create", "redo"} /\ call[c].pc = "ok" => call[c].id \in Ids
           /\ call[c].op = "patch" /\ call[c].pc \in {"sent", "write"} => call[c] \in PatchSet
           /\ call[c].op = "patch" /\ call[c].pc = "ok" => call[c].id \in Ids /\ call[c].ver \in Nat
           /\ call[c].op \in {"delete", "undo"} /\ call[c].pc \in {"sent", "ok"} => call[c] \in RemovalSet
<1> call[c] \in Requests \cup {Idle}
  OBVIOUS
<1> DEFINE r == call[c]
<1>1. CASE r = Idle
  BY <1>1 DEF Idle
<1>2. CASE r \in [op : {"create"}, pc : {"sent"}, sheet : Sheets, on : Sheets, drawing : {None}]
  BY <1>2 DEF Idle, Ops
<1>3. CASE r \in [op : {"redo"}, pc : {"sent"}, sheet : Sheets, on : Sheets, drawing : Ids]
  BY <1>3 DEF Idle, Ops
<1>4. CASE r \in PatchSet
  BY <1>4 DEF Idle, Ops, PatchSet
<1>5. CASE r \in RemovalSet
  BY <1>5 DEF Idle, Ops, RemovalSet
<1>6. CASE r \in [op : {"create", "redo"}, pc : {"ok"}, sheet : Sheets, id : Ids]
  BY <1>6 DEF Idle, Ops
<1>7. CASE r \in [op : {"patch"}, pc : {"ok"}, sheet : Sheets, id : Ids, ver : Nat]
  BY <1>7 DEF Idle, Ops
<1>8. CASE r \in [op : {"create", "redo", "patch", "delete", "undo"}, pc : {"error", "conflict"}, sheet : Sheets]
  BY <1>8 DEF Idle, Ops
<1> QED
  BY <1>1, <1>2, <1>3, <1>4, <1>5, <1>6, <1>7, <1>8 DEF Requests, PatchSet, RemovalSet

LEMMA GotoFacts ==
    ASSUME call \in [Slots -> Requests \cup {Idle}], NEW c \in Slots, NEW r, Goto(c, r)
    PROVE  /\ r \in Requests \cup {Idle} => call' \in [Slots -> Requests \cup {Idle}]
           /\ call'[c] = r
           /\ \A d \in Slots \ {c} : call'[d] = call[d]
BY DEF Goto

LEMMA LoadTypes ==
    ASSUME NEW v \in Views, NEW s \in Sheets \cup {Off},
           rows \in [Ids -> [ver : Nat, sheet : Sheets \cup {Off}, drawing : Ids \cup {None}]]
    PROVE  Rows(v, s) \in Versions
BY DEF Rows, Versions

\* Bags.
LEMMA AddFacts ==
    ASSUME NEW a, NEW S, IsABag(a)
    PROVE  /\ BagToSet(a (+) SetToBag(S)) = BagToSet(a) \cup S
           /\ IsABag(a (+) SetToBag(S))
BY DEF BagToSet, IsABag, (+), SetToBag

LEMMA DropBagFacts ==
    ASSUME NEW b, IsABag(b), NEW x \in BagToSet(b)
    PROVE  /\ IsABag(b (-) SetToBag({x}))
           /\ BagToSet(b (-) SetToBag({x})) \subseteq BagToSet(b)
           /\ BagToSet(b) \ {x} \subseteq BagToSet(b (-) SetToBag({x}))
BY DEF BagToSet, (-), IsABag, SetToBag

LEMMA NothingLoading == BagToSet(EmptyBag) = {} /\ IsABag(EmptyBag)
BY DEF BagToSet, EmptyBag, SetToBag, IsABag

LEMMA ReloadFacts ==
    ASSUME TypeOK, NEW s \in Sheets, Reload(s)
    PROVE  /\ BagToSet(loads') = BagToSet(loads) \cup {Load(v, s) : v \in Views}
           /\ IsABag(loads') /\ BagToSet(loads') \subseteq LoadSet
           /\ \A v \in Views : /\ Load(v, s).view = v /\ Load(v, s).at = clock
                               /\ Load(v, s).ids = Rows(v, Load(v, s).sheet)
<1>1. BagToSet(loads') = BagToSet(loads) \cup {Load(v, s) : v \in Views} /\ IsABag(loads')
  BY AddFacts DEF Reload, TypeOK
<1>2. \A v \in Views : Load(v, s) \in LoadSet
  BY LoadTypes DEF Load, LoadSet, TypeOK
<1>3. \A v \in Views : Rows(v, s) = Rows(v, IF v = "sheet" THEN s ELSE Off)
  BY DEF Rows, Views
<1>4. \A v \in Views : /\ Load(v, s).view = v /\ Load(v, s).at = clock
                       /\ Load(v, s).ids = Rows(v, Load(v, s).sheet)
  BY <1>3 DEF Load
<1> QED
  BY <1>1, <1>2, <1>4 DEF TypeOK, LoadSet

\* Taking an answer out of what is in flight, or putting one back later.
Reread(l) == [l EXCEPT !.at = clock, !.ids = Rows(l.view, l.sheet)]

LEMMA ReadFacts ==
    ASSUME TypeOK, NEW l \in BagToSet(loads), NEW r, r = Reread(l),
           loads' = (loads (-) SetToBag({l})) (+) SetToBag({r})
    PROVE  /\ BagToSet(loads') \subseteq BagToSet(loads) \cup {r}
           /\ BagToSet(loads) \ {l} \subseteq BagToSet(loads') /\ r \in BagToSet(loads')
           /\ IsABag(loads') /\ r \in LoadSet /\ l \in LoadSet
           /\ r.at = clock /\ r.view = l.view /\ r.sheet = l.sheet /\ r.ids = Rows(l.view, l.sheet)
<1>1. l \in LoadSet
  BY DEF TypeOK, LoadSet
<1>2. r \in LoadSet /\ r.at = clock /\ r.view = l.view /\ r.sheet = l.sheet /\ r.ids = Rows(l.view, l.sheet)
  <2>1. Rows(l.view, l.sheet) \in Versions
    BY <1>1, LoadTypes DEF TypeOK, LoadSet
  <2> QED
    BY <1>1, <2>1 DEF TypeOK, LoadSet, Reread
<1> DEFINE d == loads (-) SetToBag({l})
<1>3. IsABag(d) /\ BagToSet(d) \subseteq BagToSet(loads) /\ BagToSet(loads) \ {l} \subseteq BagToSet(d)
  BY DropBagFacts DEF TypeOK
<1> HIDE DEF d
<1>4. BagToSet(d (+) SetToBag({r})) = BagToSet(d) \cup {r} /\ IsABag(d (+) SetToBag({r}))
  BY <1>3, AddFacts
<1> QED
  BY <1>1, <1>2, <1>3, <1>4 DEF d

LEMMA VersionForIdType ==
    ASSUME TypeOK, NEW i \in Ids
    PROVE  VersionForId(i) \in Nat
<1>1. sheetList \in Seq(Row) /\ projectList[i] \in Nat
  BY DEF TypeOK, Row, Versions
<1> QED
  BY <1>1, VersionFacts DEF VersionForId

LEMMA PatchType ==
    ASSUME TypeOK, NEW i \in Ids, NEW b \in Nat
    PROVE  /\ Patch(i, b) \in PatchSet /\ Patch(i, b).pc = "sent" /\ Patch(i, b).op = "patch"
           /\ Patch(i, b).ver = VersionForId(i)
           /\ Patch(i, b).basis = IF Calm /\ i \notin silent THEN b ELSE None
<1>1. VersionForId(i) \in Nat /\ sheet \in Sheets
  BY VersionForIdType DEF TypeOK
<1>2. (IF Calm /\ i \notin silent THEN b ELSE None) \in Nat
  BY DEF None
<1> QED
  BY <1>1, <1>2 DEF Patch, PatchSet, None

\* What no step of the group changes stays typed.
RowSet == [ver : Nat, sheet : Sheets \cup {Off}, drawing : Ids \cup {None}]
RowsType == rows \in [Ids -> RowSet]
Entry == [drawing : Ids, on : Sheets]
CallType == call \in [Slots -> Requests \cup {Idle}]
LoadsType == IsABag(loads) /\ BagToSet(loads) \subseteq LoadSet

Types ==
    /\ RowsType /\ clock \in Nat /\ sheet \in Sheets
    /\ sheetList \in Seq(Row) /\ projectList \in Versions
    /\ undo \in Seq(Ids) /\ redo \in Seq(Entry)
    /\ CallType /\ LoadsType
    /\ timer \in Sheets \cup {Off} /\ events \in Nat
    /\ (drag = Idle \/ (drag \in PatchSet /\ drag.pc = "sent"))
    /\ landed \in [Views -> Nat] /\ inOrder \in [Views -> BOOLEAN]
    /\ silent \subseteq Ids /\ overlap \in BOOLEAN
    /\ ops \in 0..MaxOps /\ upsets \in 0..MaxUpsets

LEMMA TypeParts == TypeOK <=> Types
<1>1. drag \in {r \in Requests : r.op = "patch" /\ r.pc = "sent"} <=> drag \in PatchSet /\ drag.pc = "sent"
  <2>1. ASSUME drag \in Requests, drag.op = "patch", drag.pc = "sent"
        PROVE  drag \in PatchSet
    <3>1. CASE drag \in [op : {"patch"}, pc : {"ok"}, sheet : Sheets, id : Ids, ver : Nat]
      BY <2>1, <3>1
    <3>2. CASE drag \in [op : {"create", "redo", "patch", "delete", "undo"}, pc : {"error", "conflict"}, sheet : Sheets]
      BY <2>1, <3>2
    <3>3. CASE drag \in [op : {"create", "redo"}, pc : {"ok"}, sheet : Sheets, id : Ids]
      BY <2>1, <3>3
    <3>4. CASE drag \in RemovalSet
      BY <2>1, <3>4 DEF RemovalSet
    <3>5. CASE drag \in [op : {"create"}, pc : {"sent"}, sheet : Sheets, on : Sheets, drawing : {None}]
      BY <2>1, <3>5
    <3>6. CASE drag \in [op : {"redo"}, pc : {"sent"}, sheet : Sheets, on : Sheets, drawing : Ids]
      BY <2>1, <3>6
    <3> QED
      BY <2>1, <3>1, <3>2, <3>3, <3>4, <3>5, <3>6 DEF Requests, PatchSet, RemovalSet
  <2>2. ASSUME drag \in PatchSet
        PROVE  drag \in Requests /\ drag.op = "patch"
    BY <2>2 DEF Requests, PatchSet
  <2> QED
    BY <2>1, <2>2
<1> QED
  BY <1>1 DEF TypeOK, Types, RowsType, RowSet, CallType, LoadsType, LoadSet, Row, Entry

LEMMA TypePartsNext == TypeOK' <=> Types'
BY TypeParts, PTL

LEMMA SeqFacts ==
    ASSUME NEW T, NEW s \in Seq(T), s # <<>>
    PROVE  /\ Last(s) \in T /\ Front(s) \in Seq(T) /\ Len(s) \in Nat \ {0}
           /\ \E k \in DOMAIN s : s[k] = Last(s)
           /\ DOMAIN Front(s) = 1..(Len(s) - 1) /\ \A k \in DOMAIN Front(s) : k \in DOMAIN s /\ Front(s)[k] = s[k]
           /\ \A k \in DOMAIN s : k \in DOMAIN Front(s) \/ k = Len(s)
           /\ Last(s) = s[Len(s)]
<1>1. Len(s) \in Nat \ {0} /\ DOMAIN s = 1..Len(s)
  OBVIOUS
<1> QED
  BY <1>1 DEF Last, Front

LEMMA ReloadingTypes ==
    ASSUME TypeOK, NEW l \in BagToSet(loads), Read(l) \/ Land(l) \/ LoadFails(l)
    PROVE  TypeOK'
<1> USE TypeParts, TypePartsNext DEF Types
<1>1. CASE Read(l)
  <2> DEFINE r == Reread(l)
  <2>0. loads' = (loads (-) SetToBag({l})) (+) SetToBag({r})
    BY <1>1 DEF Read, Reread
  <2>2. r = Reread(l)
    OBVIOUS
  <2> HIDE DEF Types, r
  <2>1. LoadsType'
    <3>1. /\ BagToSet(loads') \subseteq BagToSet(loads) \cup {r}
          /\ IsABag(loads') /\ r \in LoadSet
      BY <2>0, <2>2, ReadFacts
    <3> QED
      BY <3>1 DEF LoadsType, Types
  <2> USE DEF Types
  <2> QED
    BY <1>1, <2>1 DEF Read, data, lists, stacks, history, bounds, RowsType, CallType
<1>2. ASSUME NEW list \in Seq(Row), NEW ok \in BOOLEAN, Arrives(l, list, ok), upsets' \in 0..MaxUpsets
      PROVE  TypeOK'
  <2>1. l \in LoadSet
    BY DEF LoadsType
  <2>2. LoadsType'
    BY <1>2, DropBagFacts DEF Arrives, LoadsType
  <2>3. sheetList' \in Seq(Row) /\ undo' \in Seq(Ids)
    BY <1>2, PrunedFacts DEF Arrives
  <2>4. projectList' \in Versions
    <3>1. l.ids \in Versions /\ [i \in Ids |-> 0] \in Versions
      BY <2>1 DEF LoadSet, Versions
    <3>2. projectList' \in {projectList, l.ids, [i \in Ids |-> 0]}
      BY <1>2 DEF Arrives
    <3> QED
      BY <3>1, <3>2
  <2>5. inOrder' \in [Views -> BOOLEAN] /\ landed' \in [Views -> Nat]
    BY <1>2, <2>1 DEF Arrives, LoadSet
  <2> QED
    BY <1>2, <2>2, <2>3, <2>4, <2>5 DEF Arrives, data, RowsType, CallType
<1>3. CASE Land(l)
  <2>1. Listed(l) \in Seq(Row)
    BY ListedFacts DEF LoadsType, LoadSet
  <2> QED
    BY <1>2, <1>3, <2>1 DEF Land
<1>4. CASE LoadFails(l)
  <2>1. Arrives(l, <<>>, FALSE)
    BY <1>4 DEF LoadFails
  <2>3. <<>> \in Seq(Row)
    OBVIOUS
  <2>2. upsets' \in 0..MaxUpsets
    BY <1>4, BoundsAssumption DEF LoadFails, Upset
  <2> QED
    BY <1>2, <2>1, <2>2, <2>3
<1> QED
  BY <1>1, <1>3, <1>4

LEMMA EventTypes ==
    ASSUME TypeOK, TimerFires \/ EventArrives \/ (\E s \in Sheets : SwitchSheet(s)) \/ DragAbandoned
                   \/ (\E i \in Ids : DragStart(i))
    PROVE  TypeOK'
<1> USE TypeParts, TypePartsNext DEF Types
<1>1. CASE TimerFires
  <2>1. LoadsType'
    BY <1>1, ReloadFacts DEF TimerFires, LoadsType
  <2> QED
    BY <1>1, <2>1 DEF TimerFires, data, lists, stacks, history, bounds, RowsType, CallType
<1>2. CASE EventArrives
  BY <1>2 DEF EventArrives, data, lists, stacks, history, bounds, RowsType, CallType, LoadsType
<1>3. CASE \E s \in Sheets : SwitchSheet(s)
  <2>1. LoadsType'
    BY <1>3, ReloadFacts DEF SwitchSheet, LoadsType
  <2> QED
    BY <1>3, <2>1, BoundsAssumption DEF SwitchSheet, data, lists, history, RowsType, CallType
<1>4. CASE DragAbandoned
  BY <1>4 DEF DragAbandoned, data, lists, stacks, net, history, bounds, RowsType, CallType, LoadsType
<1>5. ASSUME NEW i \in Ids, DragStart(i) PROVE TypeOK'
  <2>1. Version(sheetList, i) \in Nat
    BY <1>5, VersionFacts DEF DragStart
  <2>2. drag' \in PatchSet /\ drag'.pc = "sent"
    BY <1>5, <2>1, PatchType DEF DragStart
  <2> QED
    BY <1>5, <2>2 DEF DragStart, data, lists, stacks, net, history, bounds, RowsType, CallType, LoadsType
<1> QED
  BY <1>1, <1>2, <1>3, <1>4, <1>5

\* A request the user sends, whatever it asks for.
LEMMA SendTypes ==
    ASSUME TypeOK, NEW c \in Slots, NEW r \in Requests, Sends(c, r),
           undo' = undo, redo' \in Seq(Entry), overlap' \in BOOLEAN,
           drag' = drag \/ drag' = Idle
    PROVE  TypeOK'
<1> USE TypeParts, TypePartsNext DEF Types
<1>1. CallType'
  BY DEF Sends, Goto, CallType
<1> QED
  BY <1>1, BoundsAssumption DEF Sends, data, lists, net, RowsType, LoadsType

LEMMA UserTypes ==
    ASSUME TypeOK, SavedInv, NEW c \in Slots, User(c)
    PROVE  TypeOK'
<1> USE TypeParts, TypePartsNext DEF Types
<1>1. CASE Create(c)
  <2>1. [op |-> "create", pc |-> "sent", sheet |-> sheet, on |-> sheet, drawing |-> None] \in Requests
    BY DEF Requests
  <2> QED
    BY <1>1, <2>1, SendTypes DEF Create, Unchanging, stacks
<1>2. CASE DragEnd(c)
  <2>1. drag \in Requests
    BY <1>2 DEF DragEnd, Requests, PatchSet
  <2> QED
    BY <1>2, <2>1, SendTypes DEF DragEnd, stacks
<1>3. CASE Undo(c)
  <2> DEFINE i == Last(undo)
             r == [op |-> "undo", pc |-> "sent", sheet |-> sheet, ids |-> {i}, tried |-> {}, done |-> {}]
             e == [drawing |-> rows[i].drawing, on |-> rows[i].sheet]
  <2>1. i \in Ids /\ i \in OnUndo
    BY <1>3, SeqFacts DEF Undo, OnUndo
  <2>2. e \in Entry
    BY <2>1 DEF SavedInv, Entry
  <2>3. r \in Requests
    BY <2>1 DEF Requests
  <2>4. Sends(c, r) /\ redo' = Append(redo, e) /\ UNCHANGED <<undo, drag>> /\ overlap' = (overlap \/ Overlaps(c))
    BY <1>3 DEF Undo
  <2> HIDE DEF i, r, e
  <2>5. overlap' \in BOOLEAN
    BY <2>4 DEF Overlaps
  <2>6. redo' \in Seq(Entry)
    BY <2>2, <2>4
  <2> QED
    BY <2>3, <2>4, <2>5, <2>6, SendTypes
<1>4. CASE Redo(c)
  <2> DEFINE r == [op |-> "redo", pc |-> "sent", sheet |-> sheet, on |-> Last(redo).on, drawing |-> Last(redo).drawing]
  <2>1. Last(redo) \in Entry
    BY <1>4, SeqFacts DEF Redo
  <2>2. r \in Requests
    BY <2>1 DEF Requests, Entry
  <2>3. Sends(c, r) /\ UNCHANGED <<undo, redo, drag>> /\ overlap' = (overlap \/ Overlaps(c))
    BY <1>4 DEF Redo, stacks
  <2> HIDE DEF r
  <2>4. overlap' \in BOOLEAN
    BY <2>3 DEF Overlaps
  <2> QED
    BY <2>2, <2>3, <2>4, SendTypes
<1>5. ASSUME NEW i \in Ids, NEW b \in Nat, Sends(c, Patch(i, b)), Unchanging PROVE TypeOK'
  <2>1. Patch(i, b) \in Requests
    BY PatchType DEF Requests, PatchSet
  <2> QED
    BY <1>5, <2>1, SendTypes DEF Unchanging, stacks
<1>6. ASSUME NEW i \in Ids, PatchInPanel(c, i) PROVE TypeOK'
  BY <1>5, <1>6 DEF PatchInPanel, Versions
<1>7. ASSUME NEW i \in Ids, PatchSelected(c, i) PROVE TypeOK'
  BY <1>5, <1>7, VersionFacts DEF PatchSelected
<1>8. ASSUME NEW ids \in SUBSET Ids, Delete(c, ids) PROVE TypeOK'
  <2>1. [op |-> "delete", pc |-> "sent", sheet |-> sheet, ids |-> ids, tried |-> {}, done |-> {}] \in Requests
    BY DEF Requests
  <2> QED
    BY <1>8, <2>1, SendTypes DEF Delete, Unchanging, stacks
<1> QED
  BY <1>1, <1>2, <1>3, <1>4, <1>6, <1>7, <1>8 DEF User

LEMMA VersionWritten ==
    ASSUME NEW row \in RowSet, NEW v \in Nat
    PROVE  [row EXCEPT !.ver = v] \in RowSet /\ row.ver \in Nat
BY DEF RowSet

Progress(r, tried, done, pc) == [r EXCEPT !.tried = tried, !.done = done, !.pc = pc]

LEMMA RemovalMoves ==
    ASSUME NEW r \in RemovalSet, NEW tried \in SUBSET Ids, NEW done \in SUBSET Ids, NEW pc \in {"sent", "ok"}
    PROVE  Progress(r, tried, done, pc) \in RemovalSet
BY DEF RemovalSet, Progress

\* A row is written, a request moves on.
LEMMA ServeTypes ==
    ASSUME TypeOK, NEW c \in Slots, NEW r \in Requests, Serves(c, r),
           UNCHANGED data \/ \E i \in Ids, row \in RowSet :
                                Changed(i, row),
           silent' \subseteq Ids, upsets' \in 0..MaxUpsets
    PROVE  TypeOK'
<1> USE TypeParts, TypePartsNext DEF Types
<1>1. CallType'
  BY DEF Serves, Goto, CallType
<1>2. RowsType' /\ clock' \in Nat
  <2>1. CASE UNCHANGED data
    BY <2>1 DEF data, RowsType
  <2>2. ASSUME NEW i \in Ids, NEW row \in RowSet, Changed(i, row)
        PROVE  RowsType' /\ clock' \in Nat
    BY <2>2 DEF Changed, RowsType, RowSet
  <2> QED
    BY <2>1, <2>2
<1> QED
  BY <1>1, <1>2 DEF Serves, lists, stacks, net, LoadsType

LEMMA ResultType ==
    ASSUME CallType, NEW c \in Slots, call[c] # Idle, NEW pc \in {"error", "conflict"}
    PROVE  Result(c, pc) \in Requests /\ Result(c, pc).op = call[c].op /\ Result(c, pc).pc = pc
BY CallTypes DEF Result, Requests, CallType, Ops

LEMMA ServerTypes ==
    ASSUME TypeOK, NEW c \in Slots, Serve(c) \/ CallFails(c)
    PROVE  TypeOK'
<1> USE TypeParts, TypePartsNext DEF Types
<1>0. c \in Inserting => call[c].op \in {"create", "redo"} /\ call[c].pc = "sent"
  BY DEF Inserting
<1>1. ASSUME NEW i \in Ids, Insert(c, i) PROVE TypeOK'
  <2>1. call[c].on \in Sheets /\ call[c].drawing \in Ids \cup {None} /\ call[c].sheet \in Sheets /\ call[c].op \in {"create", "redo"}
    BY <1>1, <1>0, CallTypes DEF Insert, CallType, Idle
  <2>2. [ver |-> 1, sheet |-> call[c].on, drawing |-> IF call[c].drawing = None THEN i ELSE call[c].drawing] \in RowSet
    BY <2>1 DEF RowSet
  <2>3. [op |-> call[c].op, pc |-> "ok", sheet |-> call[c].sheet, id |-> i] \in Requests
    BY <2>1 DEF Requests
  <2> QED
    BY <1>1, <2>2, <2>3, ServeTypes DEF Insert
<1>2. CASE Compare(c)
  <2>1. call[c] \in PatchSet /\ call[c] # Idle
    BY <1>2, CallTypes DEF Compare, CallType, Idle
  <2>2. rows[call[c].id].ver \in Nat
    BY <2>1, VersionWritten DEF PatchSet, RowsType
  <2>3. [call[c] EXCEPT !.seen = rows[call[c].id].ver, !.pc = "write", !.ver = None] \in Requests
    BY <2>1, <2>2 DEF PatchSet, Requests, None
  <2>4. Result(c, "error") \in Requests /\ Result(c, "conflict") \in Requests
    BY <2>1, ResultType
  <2>5. PICK r \in Requests : Serves(c, r)
    BY <1>2, <2>3, <2>4 DEF Compare
  <2> QED
    BY <1>2, <2>5, ServeTypes DEF Compare
<1>3. CASE Write(c)
  <2>1. call[c] \in PatchSet /\ call[c] # Idle
    BY <1>3, CallTypes DEF Write, CallType, Idle
  <2> DEFINE i == call[c].id
  <2>2. i \in Ids /\ rows[i] \in RowSet
    BY <2>1 DEF PatchSet, RowsType
  <2>3. rows[i].ver \in Nat
    BY <2>2, VersionWritten
  <2>9. rows[i].ver + 1 \in Nat
    BY <2>3
  <2>8. [rows[i] EXCEPT !.ver = rows[i].ver + 1] \in RowSet
    BY <2>2, <2>9, VersionWritten
  <2>4. [op |-> "patch", pc |-> "ok", sheet |-> call[c].sheet, id |-> i, ver |-> rows[i].ver + 1] \in Requests
    BY <2>1, <2>9 DEF PatchSet, Requests
  <2>5. Result(c, "error") \in Requests
    BY <2>1, ResultType
  <2>6. UNCHANGED data \/ \E j \in Ids, row \in RowSet : Changed(j, row)
    BY <1>3, <2>2, <2>8 DEF Write
  <2>7. PICK r \in Requests : Serves(c, r)
    BY <1>3, <2>4, <2>5 DEF Write
  <2> QED
    BY <1>3, <2>6, <2>7, ServeTypes DEF Write
<1>4. ASSUME NEW i \in Ids, Remove1(c, i) PROVE TypeOK'
  <2>1. call[c] \in RemovalSet /\ call[c] # Idle
    BY <1>4, CallTypes DEF Remove1, CallType, Idle
  <2> DEFINE tried == call[c].tried \cup {i}
             done == IF i \in Live THEN call[c].done \cup {i} ELSE call[c].done
             pc == IF tried # call[c].ids THEN "sent" ELSE IF done = tried THEN "ok" ELSE "error"
  <2>2. tried \subseteq Ids /\ done \subseteq Ids
    BY <2>1 DEF RemovalSet
  <2>3. [rows[i] EXCEPT !.ver = 0] \in RowSet
    BY VersionWritten DEF RowsType
  <2> DEFINE r0 == Progress(call[c], tried, done, pc)
  <2>4. pc # "error" => r0 \in Requests
    <3>1. pc # "error" => pc \in {"sent", "ok"}
      OBVIOUS
    <3> HIDE DEF tried, done, pc
    <3>2. pc # "error" => r0 \in RemovalSet
      BY <2>1, <2>2, <3>1, RemovalMoves
    <3> QED
      BY <3>2 DEF RemovalSet, Requests
  <2>5. Result(c, "error") \in Requests
    BY <2>1, ResultType
  <2>10. Serves(c, IF pc = "error" THEN Result(c, pc) ELSE r0)
    BY <1>4 DEF Remove1, Progress
  <2>6. PICK r \in Requests : Serves(c, r)
    <3> HIDE DEF pc, r0
    <3> QED
      BY <2>4, <2>5, <2>10
  <2>7. UNCHANGED data \/ \E j \in Ids, row \in RowSet : Changed(j, row)
    BY <1>4, <2>3 DEF Remove1
  <2>8. silent' \subseteq Ids /\ upsets' \in 0..MaxUpsets
    BY <1>4, <2>2 DEF Remove1
  <2> QED
    BY <2>6, <2>7, <2>8, ServeTypes
<1>5. CASE CallFails(c)
  <2>1. call[c] # Idle /\ Serves(c, Result(c, "error")) /\ UNCHANGED data
    BY <1>5 DEF CallFails
  <2>2. Result(c, "error") \in Requests
    BY <2>1, ResultType
  <2>3. silent' \subseteq Ids
    <3>1. call[c].pc = "ok" => Touched(call[c]) \subseteq Ids
      BY <2>1, CallTypes DEF Touched, CallType, RemovalSet, Ops
    <3> QED
      BY <1>5, <3>1 DEF CallFails
  <2>4. upsets' \in 0..MaxUpsets
    BY <1>5, BoundsAssumption DEF CallFails, Upset
  <2> QED
    BY <2>1, <2>2, <2>3, <2>4, ServeTypes
<1> QED
  BY <1>1, <1>2, <1>3, <1>4, <1>5 DEF Serve

LEMMA CollaboratorTypes ==
    ASSUME TypeOK, Collaborator
    PROVE  TypeOK'
<1> USE TypeParts, TypePartsNext DEF Types
<1>1. RowsType' /\ clock' \in Nat
  <2>1. ASSUME NEW i \in Ids, NEW v \in {0, 1}, Changed(i, [rows[i] EXCEPT !.ver = (@ + 1) * v])
        PROVE  RowsType' /\ clock' \in Nat
    <3>1. [rows[i] EXCEPT !.ver = (@ + 1) * v] \in RowSet
      <4>1. rows[i] \in RowSet /\ rows[i].ver \in Nat
        BY <2>1, VersionWritten DEF RowsType
      <4>2. (rows[i].ver + 1) * v \in Nat
        BY <4>1
      <4> QED
        BY <4>1, <4>2, VersionWritten
    <3> QED
      BY <2>1, <3>1 DEF Changed, RowsType
  <2>2. ASSUME NEW i \in Ids, NEW s \in Sheets, Changed(i, [ver |-> 1, sheet |-> s, drawing |-> i])
        PROVE  RowsType' /\ clock' \in Nat
    BY <2>2 DEF Changed, RowsType, RowSet, None
  <2> QED
    BY <2>1, <2>2 DEF Collaborator, Live, Unused
<1> QED
  BY <1>1, BoundsAssumption DEF Collaborator, Upset, lists, stacks, history, LoadsType, CallType

\* An answer, with what it does to the lists and the stacks.
LEMMA AnswerTypes ==
    ASSUME TypeOK, NEW c \in Slots, NEW op, NEW pc, Answered(c, op, pc), op # "idle",
           sheetList' \in Seq(Row), projectList' \in Versions, undo' \in Seq(Ids),
           redo' \in {redo, <<>>, IF redo = <<>> THEN redo ELSE Front(redo)},
           UNCHANGED loads \/ Reload(call[c].sheet), UNCHANGED timer \/ Resync(c)
    PROVE  TypeOK'
<1> USE TypeParts, TypePartsNext DEF Types
<1>1. CallType' /\ call[c].sheet \in Sheets
  BY CallTypes DEF Answered, Goto, CallType, Idle
<1>2. LoadsType'
  BY <1>1, ReloadFacts DEF LoadsType
<1>3. redo' \in Seq(Entry)
  <2>1. redo # <<>> => Front(redo) \in Seq(Entry)
    BY SeqFacts
  <2>2. <<>> \in Seq(Entry) /\ redo \in Seq(Entry)
    OBVIOUS
  <2> HIDE DEF Types
  <2> QED
    BY <2>1, <2>2
<1> QED
  BY <1>1, <1>2, <1>3 DEF Answered, Resync, data, history, bounds, RowsType

LEMMA RespondTypes ==
    ASSUME TypeOK, NEW c \in Slots, Respond(c)
    PROVE  TypeOK'
<1> USE TypeParts, TypePartsNext DEF Types
<1>0. \A i \in Ids : [id |-> i, ver |-> 1] \in Row /\ Append(undo, i) \in Seq(Ids)
  BY DEF Row
<1>1. CASE CreateOk(c)
  <2>1. call[c].id \in Ids
    BY <1>1, CallTypes DEF CreateOk, Answered, CallType
  <2>2. sheetList' \in Seq(Row) /\ projectList' \in Versions
    BY <1>0, <1>1, <2>1 DEF CreateOk, Versions
  <2>3. undo' \in Seq(Ids)
    BY <1>0, <1>1, <2>1, PrunedFacts DEF CreateOk
  <2> QED
    BY <1>1, <2>2, <2>3, AnswerTypes DEF CreateOk
<1>2. CASE RedoOk(c)
  <2>1. call[c].id \in Ids
    BY <1>2, CallTypes DEF RedoOk, Answered, CallType
  <2>2. sheetList' \in Seq(Row) /\ projectList' \in Versions
    BY <1>0, <1>2, <2>1, MergeFacts DEF RedoOk, Versions
  <2>3. undo' \in Seq(Ids)
    BY <1>0, <1>2, <2>1, PrunedFacts DEF RedoOk
  <2> QED
    BY <1>2, <2>2, <2>3, AnswerTypes DEF RedoOk
<1>3. CASE PatchOk(c)
  <2>1. call[c].id \in Ids /\ call[c].ver \in Nat
    BY <1>3, CallTypes DEF PatchOk, Answered, CallType
  <2>2. [id |-> call[c].id, ver |-> call[c].ver] \in Row
    BY <2>1 DEF Row
  <2>3. sheetList' \in Seq(Row) /\ projectList' \in Versions
    BY <1>3, <2>1, <2>2, MergeFacts DEF PatchOk, Versions
  <2> QED
    BY <1>3, <2>3, AnswerTypes DEF PatchOk, stacks
<1>4. CASE PatchConflict(c)
  BY <1>4, AnswerTypes DEF PatchConflict, lists, stacks
<1>5. ASSUME NEW u \in Seq(Ids), Forget(c, u), NEW op, op # "idle", Answered(c, op, "ok") PROVE TypeOK'
  <2>1. sheetList' \in Seq(Row) /\ projectList' \in Versions
    BY <1>5, WithoutFacts DEF Forget, Versions
  <2>2. undo' \in Seq(Ids)
    BY <1>5, PrunedFacts DEF Forget
  <2> QED
    BY <1>5, <2>1, <2>2, AnswerTypes DEF Forget
<1>6. CASE DeleteOk(c)
  BY <1>5, <1>6 DEF DeleteOk
<1>7. CASE UndoOk(c)
  <2>1. (IF undo = <<>> THEN undo ELSE Front(undo)) \in Seq(Ids)
    BY SeqFacts
  <2> QED
    BY <1>5, <1>7, <2>1 DEF UndoOk
<1>8. CASE CallError(c)
  BY <1>8, AnswerTypes DEF CallError, lists
<1> QED
  BY <1>1, <1>2, <1>3, <1>4, <1>6, <1>7, <1>8 DEF Respond

LEMMA TypeStep ==
    ASSUME TypeOK, SavedInv, [Next]_vars
    PROVE  TypeOK'
<1>1. CASE UNCHANGED vars
  BY <1>1 DEF vars, TypeOK, data, lists, stacks, net, history, bounds
<1> QED
  BY <1>1, ReloadingTypes, EventTypes, UserTypes, ServerTypes, CollaboratorTypes, RespondTypes DEF Next

\* Rows are never taken back, and keep their sheet and their drawing.
RowsKept ==
    \A i \in Ids : Saved(i) => Saved(i)' /\ rows'[i].drawing = rows[i].drawing /\ rows'[i].sheet = rows[i].sheet
RowsSaved ==
    \A i \in Ids : Saved(i) => rows[i].sheet \in Sheets /\ rows[i].drawing \in Ids /\ Saved(rows[i].drawing)

LEMMA WriteKeeps ==
    ASSUME RowsType, RowsSaved, NEW i \in Ids, NEW v \in Nat, Saved(i), Changed(i, [rows[i] EXCEPT !.ver = v])
    PROVE  RowsKept /\ RowsSaved'
<1> DEFINE row == [rows[i] EXCEPT !.ver = v]
<1>1. rows[i] \in RowSet
  BY DEF RowsType
<1>2. row.sheet = rows[i].sheet /\ row.drawing = rows[i].drawing /\ row.ver = v
  BY <1>1 DEF RowSet
<1>3. rows' = [rows EXCEPT ![i] = row]
  BY DEF Changed
<1>4. row # Absent
  BY <1>2 DEF RowsSaved, Absent, None, Ids
<1> HIDE DEF row
<1>5. rows'[i] = row /\ \A j \in Ids \ {i} : rows'[j] = rows[j]
  BY <1>3 DEF RowsType
<1>6. \A j \in Ids : Saved(j)' <=> Saved(j)
  BY <1>4, <1>5 DEF Saved
<1>7. \A j \in Ids : rows'[j].drawing = rows[j].drawing /\ rows'[j].sheet = rows[j].sheet
  BY <1>2, <1>5
<1> QED
  BY <1>6, <1>7 DEF RowsKept, RowsSaved

LEMMA InsertKeeps ==
    ASSUME RowsType, RowsSaved, NEW i \in Unused, NEW s \in Sheets, NEW d \in Ids, d = i \/ Saved(d),
           Changed(i, [ver |-> 1, sheet |-> s, drawing |-> d])
    PROVE  RowsKept /\ RowsSaved' /\ Saved(i)'
<1> DEFINE row == [ver |-> 1, sheet |-> s, drawing |-> d]
<1>1. i \in Ids /\ ~Saved(i)
  BY DEF Unused, Saved
<1>2. rows' = [rows EXCEPT ![i] = row] /\ row.ver = 1 /\ row.sheet = s /\ row.drawing = d
  BY DEF Changed
<1>3. row # Absent
  BY <1>2 DEF Absent
<1> HIDE DEF row
<1>4. rows'[i] = row /\ \A j \in Ids \ {i} : rows'[j] = rows[j]
  BY <1>1, <1>2 DEF RowsType
<1>5. \A j \in Ids : Saved(j) => Saved(j)' /\ j # i
  BY <1>1, <1>4 DEF Saved
<1>6. Saved(i)' /\ Saved(d)'
  BY <1>3, <1>4, <1>5 DEF Saved
<1>7. RowsKept
  BY <1>4, <1>5 DEF RowsKept
<1>8. ASSUME NEW j \in Ids, Saved(j)'
      PROVE  rows'[j].sheet \in Sheets /\ rows'[j].drawing \in Ids /\ Saved(rows[j].drawing)'
  <2>1. CASE j = i
    BY <1>2, <1>4, <1>6, <2>1
  <2>2. CASE j # i
    <3>1. rows'[j] = rows[j] /\ Saved(j)
      BY <1>4, <1>8, <2>2 DEF Saved
    <3>2. Saved(rows[j].drawing) /\ rows[j].drawing \in Ids /\ rows[j].sheet \in Sheets
      BY <3>1 DEF RowsSaved
    <3>3. Saved(rows[j].drawing)'
      BY <1>5, <3>1, <3>2 DEF Saved
    <3> QED
      BY <3>1, <3>2, <3>3
  <2> QED
    BY <2>1, <2>2
<1> QED
  BY <1>6, <1>7, <1>8 DEF RowsSaved

\* Live rows are saved rows.
LEMMA LiveSaved ==
    ASSUME NEW i \in Live
    PROVE  i \in Ids /\ Saved(i)
BY DEF Live, Saved, Absent

\* What a step that only lets a request move on does to the rows.
LEMMA ServeRows ==
    ASSUME TypeOK, SavedInv, NEW c \in Slots, Serve(c) \/ CallFails(c)
    PROVE  RowsKept /\ RowsSaved' /\ \A i \in Ids : Insert(c, i) => Saved(i)'
<1>1. RowsType /\ CallType /\ RowsSaved
  BY TypeParts DEF Types, SavedInv, RowsSaved
<1>2. ASSUME UNCHANGED data PROVE RowsKept /\ RowsSaved'
  BY <1>1, <1>2 DEF data, RowsKept, RowsSaved, Saved
<1>3. ASSUME NEW i \in Ids, Insert(c, i) PROVE RowsKept /\ RowsSaved' /\ Saved(i)'
  <2> DEFINE d == IF call[c].drawing = None THEN i ELSE call[c].drawing
             s == call[c].on
  <2>1. call[c].op \in {"create", "redo"} /\ call[c].pc = "sent"
    BY <1>3 DEF Insert, Inserting
  <2>2. s \in Sheets /\ call[c].drawing \in Ids \cup {None} /\ (call[c].op = "redo" => call[c].drawing \in Ids)
    BY <1>1, <2>1, CallTypes DEF CallType
  <2>3. call[c].op = "create" => call[c].drawing = None
    <3>1. call[c] \in Requests \cup {Idle}
      BY <1>1 DEF CallType
    <3> QED
      BY <2>1, <3>1 DEF Requests, Idle
  <2>4. d \in Ids /\ (d = i \/ Saved(d))
    BY <2>1, <2>2, <2>3 DEF SavedInv
  <2>5. i \in Unused /\ Changed(i, [ver |-> 1, sheet |-> s, drawing |-> d])
    BY <1>3 DEF Insert
  <2> HIDE DEF d, s
  <2> QED
    BY <1>1, <2>2, <2>4, <2>5, InsertKeeps
<1>4. CASE Compare(c)
  BY <1>2, <1>4 DEF Compare, Insert, Inserting
<1>5. CASE Write(c)
  <2> DEFINE i == call[c].id
  <2>1. CASE i \in Live
    <3>1. Changed(i, [rows[i] EXCEPT !.ver = @ + 1])
      BY <1>5, <2>1 DEF Write
    <3>2. rows[i].ver + 1 \in Nat
      <4>1. rows[i] \in RowSet
        BY <1>1, <2>1, LiveSaved DEF RowsType
      <4>2. rows[i].ver \in Nat
        BY <4>1, VersionWritten
      <4> QED
        BY <4>2
    <3> QED
      BY <1>1, <1>5, <2>1, <3>1, <3>2, LiveSaved, WriteKeeps DEF Write, Insert, Inserting
  <2>2. CASE i \notin Live
    BY <1>2, <1>5, <2>2 DEF Write, Insert, Inserting
  <2> QED
    BY <2>1, <2>2
<1>6. ASSUME NEW i \in Ids, Remove1(c, i) PROVE RowsKept /\ RowsSaved' /\ call[c].op \notin {"create", "redo"}
  <2>0. call[c].op \notin {"create", "redo"}
    BY <1>6 DEF Remove1
  <2>1. CASE i \in Live
    <3>1. Changed(i, [rows[i] EXCEPT !.ver = 0])
      BY <1>6, <2>1 DEF Remove1
    <3> QED
      BY <1>1, <2>0, <2>1, <3>1, LiveSaved, WriteKeeps
  <2>2. CASE i \notin Live
    BY <1>2, <1>6, <2>0, <2>2 DEF Remove1
  <2> QED
    BY <2>1, <2>2
<1>7. CASE CallFails(c)
  BY <1>2, <1>3, <1>7 DEF CallFails
<1> QED
  BY <1>3, <1>4, <1>5, <1>6, <1>7 DEF Serve, Insert, Inserting

LEMMA CollaboratorRows ==
    ASSUME TypeOK, SavedInv, Collaborator
    PROVE  RowsKept /\ RowsSaved'
<1>1. RowsType /\ RowsSaved
  BY TypeParts DEF Types, SavedInv, RowsSaved
<1>2. ASSUME NEW i \in Live, NEW v \in {0, 1}, Changed(i, [rows[i] EXCEPT !.ver = (@ + 1) * v])
      PROVE  RowsKept /\ RowsSaved'
  <2>1. rows[i].ver \in Nat /\ Saved(i) /\ i \in Ids
    BY <1>1, LiveSaved, VersionWritten DEF RowsType
  <2>2. (rows[i].ver + 1) * v \in Nat
    BY <2>1
  <2> QED
    BY <1>1, <1>2, <2>1, <2>2, WriteKeeps
<1>3. ASSUME NEW i \in Unused, NEW s \in Sheets, Changed(i, [ver |-> 1, sheet |-> s, drawing |-> i])
      PROVE  RowsKept /\ RowsSaved'
  BY <1>1, <1>3, InsertKeeps DEF Unused
<1> QED
  BY <1>2, <1>3 DEF Collaborator

\* A step of the stacks and the requests that names no drawing that was not saved.
LEMMA SavedFollows ==
    ASSUME TypeOK, SavedInv, RowsKept, RowsSaved',
           \A i \in OnUndo' : i \in Ids /\ (i \in OnUndo \/ Saved(i)'),
           \A k \in DOMAIN redo' : redo'[k].drawing \in Ids /\ Saved(redo'[k].drawing),
           \A c \in Slots : \A i \in InsertedBy(c)' : i \in Ids /\ (i \in InsertedBy(c) \/ Saved(i)'),
           \A c \in Slots : call'[c].op = "redo" /\ call'[c].pc = "sent" =>
              call'[c].drawing \in Ids /\ Saved(call'[c].drawing)
    PROVE  SavedInv'
<1>1. \A i \in OnUndo' : Saved(i)'
  BY DEF SavedInv, RowsKept
<1>2. \A c \in Slots : \A i \in InsertedBy(c)' : Saved(i)'
  BY DEF SavedInv, RowsKept
<1>3. \A k \in DOMAIN redo' : Saved(redo[k].drawing)'
  BY DEF RowsKept
<1>4. \A c \in Slots : call'[c].op = "redo" /\ call'[c].pc = "sent" => Saved(call[c].drawing)'
  BY DEF RowsKept
<1> QED
  BY <1>1, <1>2, <1>3, <1>4 DEF SavedInv, RowsSaved

LEMMA RedoFacts ==
    ASSUME TypeOK, SavedInv
    PROVE  /\ \A k \in DOMAIN redo : redo[k].drawing \in Ids /\ redo[k].on \in Sheets /\ Saved(redo[k].drawing)
           /\ redo # <<>> => Last(redo).drawing \in Ids /\ Saved(Last(redo).drawing)
<1>1. redo \in Seq(Entry)
  BY TypeParts DEF Types
<1>2. \A k \in DOMAIN redo : redo[k] \in Entry
  BY <1>1
<1>3. \A k \in DOMAIN redo : redo[k].drawing \in Ids /\ redo[k].on \in Sheets /\ Saved(redo[k].drawing)
  BY <1>2 DEF SavedInv, Entry
<1>4. redo # <<>> => \E k \in DOMAIN redo : redo[k] = Last(redo)
  BY <1>1, SeqFacts
<1> QED
  BY <1>3, <1>4

LEMMA SavedUser ==
    ASSUME TypeOK, SavedInv, NEW c \in Slots, User(c)
    PROVE  SavedInv'
<1> USE TypeParts DEF Types
<1>1. RowsKept /\ RowsSaved' /\ undo' = undo
  BY DEF User, Create, DragEnd, Undo, Redo, PatchInPanel, PatchSelected, Delete, Sends, Unchanging, stacks, data,
         RowsKept, RowsSaved, Saved, SavedInv
<1>2. CASE Undo(c)
  <2> DEFINE i == Last(undo)
             r == [op |-> "undo", pc |-> "sent", sheet |-> sheet, ids |-> {i}, tried |-> {}, done |-> {}]
             e == [drawing |-> rows[i].drawing, on |-> rows[i].sheet]
  <2>1. i \in OnUndo /\ i \in Ids
    BY <1>2, SeqFacts DEF Undo, OnUndo
  <2>2. Goto(c, r) /\ redo' = Append(redo, e)
    BY <1>2 DEF Undo, Sends
  <2>3. e.drawing \in Ids /\ Saved(e.drawing)
    BY <2>1 DEF SavedInv
  <2>4. r.op = "undo"
    OBVIOUS
  <2> HIDE DEF i, r, e
  <2>5. \A k \in DOMAIN redo' : redo'[k] = e \/ (k \in DOMAIN redo /\ redo'[k] = redo[k])
    BY <2>2
  <2>6. call'[c].op = "undo" /\ \A d \in Slots \ {c} : call'[d] = call[d]
    BY <2>2, <2>4, GotoFacts DEF CallType
  <2>7. \A k \in DOMAIN redo' : redo'[k].drawing \in Ids /\ Saved(redo'[k].drawing)
    BY <2>3, <2>5, RedoFacts
  <2>8. \A d \in Slots : \A j \in InsertedBy(d)' : j \in Ids /\ j \in InsertedBy(d)
    BY <2>6, CallTypes DEF InsertedBy, CallType
  <2>9. \A d \in Slots : call'[d].op = "redo" /\ call'[d].pc = "sent" => call'[d].drawing \in Ids /\ Saved(call'[d].drawing)
    BY <2>6, CallTypes DEF SavedInv, CallType
  <2>10. \A j \in OnUndo' : j \in Ids /\ j \in OnUndo
    BY <1>1 DEF OnUndo
  <2> HIDE DEF Types
  <2> QED
    BY <1>1, <2>7, <2>8, <2>9, <2>10, SavedFollows
<1>3. ASSUME NEW r, Goto(c, r), r.pc # "ok", r.op = "redo" => redo # <<>> /\ r.drawing = Last(redo).drawing,
             redo' = redo
      PROVE  SavedInv'
  <2>1. call'[c] = r /\ \A d \in Slots \ {c} : call'[d] = call[d]
    BY <1>3, GotoFacts DEF CallType
  <2>2. \A k \in DOMAIN redo : redo[k].drawing \in Ids /\ Saved(redo[k].drawing)
    BY RedoFacts
  <2>3. \A d \in Slots : \A j \in InsertedBy(d)' : j \in Ids /\ j \in InsertedBy(d)
    BY <1>3, <2>1, CallTypes DEF InsertedBy, CallType
  <2>4. \A d \in Slots : call'[d].op = "redo" /\ call'[d].pc = "sent" => call'[d].drawing \in Ids /\ Saved(call'[d].drawing)
    <3>1. r.op = "redo" => r.drawing \in Ids /\ Saved(r.drawing)
      BY <1>3, RedoFacts
    <3> QED
      BY <2>1, <3>1, CallTypes DEF SavedInv, CallType
  <2>5. \A j \in OnUndo' : j \in Ids /\ j \in OnUndo
    BY <1>1 DEF OnUndo
  <2> HIDE DEF Types
  <2> QED
    BY <1>1, <1>3, <2>2, <2>3, <2>4, <2>5, SavedFollows
<1>4. CASE Create(c)
  BY <1>3, <1>4 DEF Create, Sends, Unchanging, stacks
<1>5. CASE DragEnd(c)
  <2>1. drag.op = "patch" /\ drag.pc = "sent" /\ Goto(c, drag) /\ redo' = redo
    BY <1>5 DEF DragEnd, Sends, stacks, PatchSet
  <2> QED
    BY <1>3, <2>1
<1>6. CASE Redo(c)
  BY <1>3, <1>6 DEF Redo, Sends, stacks
<1>7. ASSUME NEW i \in Ids, PatchInPanel(c, i) \/ PatchSelected(c, i) PROVE SavedInv'
  BY <1>3, <1>7 DEF PatchInPanel, PatchSelected, Patch, Sends, Unchanging, stacks
<1>8. ASSUME NEW ids \in SUBSET Ids, Delete(c, ids) PROVE SavedInv'
  BY <1>3, <1>8 DEF Delete, Sends, Unchanging, stacks
<1> QED
  BY <1>2, <1>4, <1>5, <1>6, <1>7, <1>8 DEF User

LEMMA SavedServer ==
    ASSUME TypeOK, SavedInv, NEW c \in Slots, Serve(c) \/ CallFails(c)
    PROVE  SavedInv'
<1> USE TypeParts DEF Types
<1>1. RowsKept /\ RowsSaved' /\ \A i \in Ids : Insert(c, i) => Saved(i)'
  BY ServeRows
<1>2. PICK r : Serves(c, r) /\ (r.op \in {"create", "redo"} => r.pc # "sent")
                 /\ \A i \in InsertedBy(c)' : \E j \in Ids : i = j /\ Insert(c, j)
  <2>1. ASSUME NEW i \in Ids, Insert(c, i) PROVE \E r : Serves(c, r) /\ (r.op \in {"create", "redo"} => r.pc # "sent")
                 /\ \A j \in InsertedBy(c)' : j = i
    <3> DEFINE r == [op |-> call[c].op, pc |-> "ok", sheet |-> call[c].sheet, id |-> i]
    <3>1. Serves(c, r)
      BY <2>1 DEF Insert
    <3>2. call'[c] = r
      BY <3>1, GotoFacts DEF Serves, CallType
    <3> QED
      BY <3>1, <3>2 DEF InsertedBy
  <2>2. ASSUME NEW r, Serves(c, r), r.op \in {"create", "redo"} => r.pc \notin {"sent", "ok"}
        PROVE  Serves(c, r) /\ (r.op \in {"create", "redo"} => r.pc # "sent") /\ InsertedBy(c)' = {}
    <3>1. call'[c] = r
      BY <2>2, GotoFacts DEF Serves, CallType
    <3> QED
      BY <2>2, <3>1 DEF InsertedBy
  <2>3. \A pc \in {"error", "conflict"} : Result(c, pc).pc = pc
    BY DEF Result
  <2>4. CASE Compare(c)
    <3>1. [call[c] EXCEPT !.seen = rows[call[c].id].ver, !.pc = "write", !.ver = None].op = "patch"
      BY <2>4, CallTypes DEF Compare, CallType, PatchSet
    <3> QED
      BY <2>2, <2>3, <2>4, <3>1 DEF Compare
  <2>5. CASE Write(c)
    BY <2>2, <2>3, <2>5 DEF Write
  <2>6. ASSUME NEW i \in Ids, Remove1(c, i)
        PROVE  \E r : Serves(c, r) /\ (r.op \in {"create", "redo"} => r.pc \notin {"sent", "ok"})
    <3>1. call[c] \in RemovalSet
      BY <2>6, CallTypes DEF Remove1, CallType
    <3>2. \A t, d, p : Progress(call[c], t, d, p).op \in {"delete", "undo"}
      BY <3>1 DEF Progress, RemovalSet
    <3> DEFINE t == call[c].tried \cup {i}
               d == IF i \in Live THEN call[c].done \cup {i} ELSE call[c].done
               p == IF t # call[c].ids THEN "sent" ELSE IF d = t THEN "ok" ELSE "error"
    <3>3. Serves(c, IF p = "error" THEN Result(c, p) ELSE Progress(call[c], t, d, p))
      BY <2>6 DEF Remove1, Progress
    <3> HIDE DEF t, d, p
    <3> QED
      BY <2>3, <3>2, <3>3
  <2>7. CASE CallFails(c)
    BY <2>2, <2>3, <2>7 DEF CallFails
  <2> HIDE DEF Types
  <2> QED
    BY <2>1, <2>2, <2>4, <2>5, <2>6, <2>7 DEF Serve
<1>3. undo' = undo /\ redo' = redo /\ call'[c] = r /\ \A d \in Slots \ {c} : call'[d] = call[d]
  BY <1>2, GotoFacts DEF Serves, stacks, CallType
<1>4. \A d \in Slots : \A i \in InsertedBy(d)' : i \in Ids /\ (i \in InsertedBy(d) \/ Saved(i)')
  <2>1. \A i \in InsertedBy(c)' : i \in Ids /\ Saved(i)'
    BY <1>1, <1>2
  <2>2. \A d \in Slots \ {c} : \A i \in InsertedBy(d)' : i \in Ids /\ i \in InsertedBy(d)
    BY <1>3, CallTypes DEF InsertedBy, CallType
  <2> QED
    BY <2>1, <2>2
<1>5. \A d \in Slots : call'[d].op = "redo" /\ call'[d].pc = "sent" => call'[d].drawing \in Ids /\ Saved(call'[d].drawing)
  BY <1>2, <1>3, CallTypes DEF SavedInv, CallType
<1>6. \A j \in OnUndo' : j \in Ids /\ j \in OnUndo
  BY <1>3 DEF OnUndo
<1>7. \A k \in DOMAIN redo' : redo'[k].drawing \in Ids /\ Saved(redo'[k].drawing)
  BY <1>3, RedoFacts
<1> HIDE DEF Types
<1> QED
  BY <1>1, <1>4, <1>5, <1>6, <1>7, SavedFollows

\* What an answer leaves on the undo stack was there, or is the row it brings.
LEMMA UndoAnswered ==
    ASSUME TypeOK, NEW c \in Slots, Respond(c)
    PROVE  \A i \in OnUndo' : i \in Ids /\ (i \in OnUndo \/ i \in InsertedBy(c))
<1> USE TypeParts DEF Types
<1>0. \A k \in DOMAIN undo : undo[k] \in Ids /\ undo[k] \in OnUndo
  BY DEF OnUndo
<1>1. ASSUME NEW u \in Seq(Ids), NEW list, undo' = Pruned(u, list),
             \A k \in DOMAIN u : u[k] \in OnUndo \/ u[k] \in InsertedBy(c)
      PROVE  \A i \in OnUndo' : i \in Ids /\ (i \in OnUndo \/ i \in InsertedBy(c))
  <2>1. \A n \in DOMAIN undo' : \E k \in DOMAIN u : u[k] = undo'[n]
    BY <1>1, PrunedFacts
  <2>2. \A k \in DOMAIN u : u[k] \in Ids
    BY <1>1
  <2> QED
    BY <1>1, <2>1, <2>2 DEF OnUndo
<1>2. ASSUME CreateOk(c) \/ RedoOk(c)
      PROVE  \A i \in OnUndo' : i \in Ids /\ (i \in OnUndo \/ i \in InsertedBy(c))
  <2> DEFINE i == call[c].id
             u == Append(undo, i)
  <2>1. i \in InsertedBy(c) /\ i \in Ids
    BY <1>2, CallTypes DEF CreateOk, RedoOk, Answered, InsertedBy, CallType
  <2>5. undo \in Seq(Ids)
    OBVIOUS
  <2> HIDE DEF i, Types
  <2>2. u \in Seq(Ids) /\ \A k \in DOMAIN u : u[k] = i \/ (k \in DOMAIN undo /\ u[k] = undo[k])
    BY <2>1, <2>5
  <2>3. undo' = Pruned(u, sheetList')
    BY <1>2 DEF CreateOk, RedoOk, i
  <2>4. \A k \in DOMAIN u : u[k] \in OnUndo \/ u[k] \in InsertedBy(c)
    BY <1>0, <2>1, <2>2
  <2> HIDE DEF u, Types
  <2> QED
    BY <1>1, <2>2, <2>3, <2>4
<1>3. ASSUME DeleteOk(c) \/ UndoOk(c)
      PROVE  \A i \in OnUndo' : i \in Ids /\ (i \in OnUndo \/ i \in InsertedBy(c))
  <2>1. PICK u \in {undo, IF undo = <<>> THEN undo ELSE Front(undo)} : undo' = Pruned(u, sheetList')
    BY <1>3 DEF DeleteOk, UndoOk, Forget
  <2>0. undo \in Seq(Ids)
    OBVIOUS
  <2> HIDE DEF Types
  <2>2. undo # <<>> => Front(undo) \in Seq(Ids) /\ \A k \in DOMAIN Front(undo) : k \in DOMAIN undo /\ Front(undo)[k] = undo[k]
    BY <2>0, SeqFacts
  <2>3. u \in Seq(Ids) /\ \A k \in DOMAIN u : u[k] \in OnUndo
    BY <1>0, <2>0, <2>1, <2>2
  <2> QED
    BY <1>1, <2>1, <2>3
<1>4. ASSUME PatchOk(c) \/ PatchConflict(c) \/ CallError(c) PROVE undo' = undo
  BY <1>4 DEF PatchOk, PatchConflict, CallError, stacks
<1> QED
  BY <1>0, <1>2, <1>3, <1>4 DEF Respond, OnUndo

LEMMA SavedAnswer ==
    ASSUME TypeOK, SavedInv, NEW c \in Slots, Respond(c)
    PROVE  SavedInv'
<1> USE TypeParts DEF Types
<1>1. UNCHANGED data /\ call'[c] = Idle /\ (\A d \in Slots \ {c} : call'[d] = call[d])
  BY GotoFacts DEF Respond, CreateOk, RedoOk, PatchOk, PatchConflict, DeleteOk, UndoOk, CallError, Answered, CallType
<1>2. RowsKept /\ RowsSaved'
  BY <1>1 DEF data, RowsKept, RowsSaved, Saved, SavedInv
<1>3. \A d \in Slots : \A i \in InsertedBy(d)' : i \in Ids /\ i \in InsertedBy(d)
  <2>1. InsertedBy(c)' = {}
    BY <1>1 DEF InsertedBy, Idle
  <2>2. \A d \in Slots \ {c} : InsertedBy(d)' = InsertedBy(d)
    BY <1>1 DEF InsertedBy
  <2>3. \A d \in Slots : InsertedBy(d) \subseteq Ids
    BY CallTypes DEF InsertedBy, CallType
  <2> QED
    BY <2>1, <2>2, <2>3
<1>4. \A d \in Slots : call'[d].op = "redo" /\ call'[d].pc = "sent" => call'[d].drawing \in Ids /\ Saved(call'[d].drawing)
  BY <1>1, CallTypes DEF SavedInv, CallType, Idle
<1>5. redo' \in {redo, <<>>, IF redo = <<>> THEN redo ELSE Front(redo)}
  BY DEF Respond, CreateOk, RedoOk, PatchOk, PatchConflict, DeleteOk, UndoOk, CallError, Forget, stacks
<1>6. \A k \in DOMAIN redo' : k \in DOMAIN redo /\ redo'[k] = redo[k]
  <2>0. redo \in Seq(Entry)
    OBVIOUS
  <2> HIDE DEF Types
  <2>1. redo # <<>> => \A k \in DOMAIN Front(redo) : k \in DOMAIN redo /\ Front(redo)[k] = redo[k]
    BY <2>0, SeqFacts
  <2> QED
    BY <1>5, <2>1
<1>7. \A k \in DOMAIN redo' : redo'[k].drawing \in Ids /\ Saved(redo'[k].drawing)
  BY <1>6, RedoFacts
<1>8. \A i \in OnUndo' : i \in Ids /\ (i \in OnUndo \/ i \in InsertedBy(c))
  BY UndoAnswered
<1>9. \A i \in OnUndo' : i \in Ids /\ (i \in OnUndo \/ Saved(i)')
  BY <1>2, <1>8 DEF SavedInv, RowsKept
<1> HIDE DEF Types
<1> QED
  BY <1>2, <1>3, <1>4, <1>7, <1>9, SavedFollows

LEMMA UndoArrives ==
    ASSUME TypeOK, NEW l, Land(l) \/ LoadFails(l)
    PROVE  \A i \in OnUndo' : i \in Ids /\ i \in OnUndo
<1>0. undo \in Seq(Ids)
  BY TypeParts DEF Types
<1>1. ASSUME NEW list, NEW ok, Arrives(l, list, ok)
      PROVE  \A i \in OnUndo' : i \in Ids /\ i \in OnUndo
  <2>1. undo' = undo \/ undo' = Pruned(undo, list)
    BY <1>1 DEF Arrives
  <2>2. \A n \in DOMAIN Pruned(undo, list) : \E k \in DOMAIN undo : undo[k] = Pruned(undo, list)[n]
    BY <1>0, PrunedFacts
  <2>3. \A k \in DOMAIN undo : undo[k] \in Ids
    BY <1>0
  <2> QED
    BY <2>1, <2>2, <2>3 DEF OnUndo
<1> QED
  BY <1>1 DEF Land, LoadFails

LEMMA SavedStep ==
    ASSUME TypeOK, SavedInv, [Next]_vars
    PROVE  SavedInv'
<1> USE TypeParts DEF Types
<1>1. ASSUME UNCHANGED <<data, undo, redo, call>> PROVE SavedInv'
  BY <1>1 DEF data, SavedInv, Saved, OnUndo, InsertedBy
<1>2. ASSUME UNCHANGED <<data, call>>, redo' \in {redo, <<>>}, \A i \in OnUndo' : i \in Ids /\ i \in OnUndo
      PROVE  SavedInv'
  <2>1. RowsKept /\ RowsSaved'
    BY <1>2 DEF data, RowsKept, RowsSaved, Saved, SavedInv
  <2>2. \A k \in DOMAIN redo' : redo'[k].drawing \in Ids /\ Saved(redo'[k].drawing)
    BY <1>2, RedoFacts
  <2>3. \A d \in Slots : \A i \in InsertedBy(d)' : i \in Ids /\ i \in InsertedBy(d)
    BY <1>2, CallTypes DEF InsertedBy, CallType
  <2>4. \A d \in Slots : call'[d].op = "redo" /\ call'[d].pc = "sent" => call'[d].drawing \in Ids /\ Saved(call'[d].drawing)
    BY <1>2, CallTypes DEF SavedInv, CallType
  <2> HIDE DEF Types
  <2> QED
    BY <1>2, <2>1, <2>2, <2>3, <2>4, SavedFollows
<1>3. CASE UNCHANGED vars
  BY <1>1, <1>3 DEF vars, stacks
<1>4. ASSUME NEW l \in BagToSet(loads), Read(l) \/ Land(l) \/ LoadFails(l) PROVE SavedInv'
  <2>1. CASE Read(l)
    BY <1>1, <2>1 DEF Read, stacks
  <2>2. CASE Land(l) \/ LoadFails(l)
    <3>1. UNCHANGED <<data, call, redo>>
      BY <2>2 DEF Land, LoadFails, Arrives
    <3>2. \A i \in OnUndo' : i \in Ids /\ i \in OnUndo
      BY <2>2, UndoArrives
    <3> QED
      BY <1>2, <3>1, <3>2
  <2> QED
    BY <1>4, <2>1, <2>2
<1>5. CASE \E s \in Sheets : SwitchSheet(s)
  BY <1>2, <1>5 DEF SwitchSheet, OnUndo
<1>6. CASE TimerFires \/ EventArrives \/ DragAbandoned \/ \E i \in Ids : DragStart(i)
  BY <1>1, <1>6 DEF TimerFires, EventArrives, DragAbandoned, DragStart, stacks
<1>7. CASE Collaborator
  <2>1. RowsKept /\ RowsSaved' /\ UNCHANGED <<undo, redo, call>>
    BY <1>7, CollaboratorRows DEF Collaborator, stacks
  <2>2. \A k \in DOMAIN redo' : redo'[k].drawing \in Ids /\ Saved(redo'[k].drawing)
    BY <2>1, RedoFacts
  <2>3. \A d \in Slots : \A i \in InsertedBy(d)' : i \in Ids /\ i \in InsertedBy(d)
    BY <2>1, CallTypes DEF InsertedBy, CallType
  <2>4. \A d \in Slots : call'[d].op = "redo" /\ call'[d].pc = "sent" => call'[d].drawing \in Ids /\ Saved(call'[d].drawing)
    BY <2>1, CallTypes DEF SavedInv, CallType
  <2>5. \A i \in OnUndo' : i \in Ids /\ i \in OnUndo
    BY <2>1 DEF OnUndo
  <2> HIDE DEF Types
  <2> QED
    BY <2>1, <2>2, <2>3, <2>4, <2>5, SavedFollows
<1> HIDE DEF Types
<1> QED
  BY <1>3, <1>4, <1>5, <1>6, <1>7, SavedUser, SavedServer, SavedAnswer DEF Next

LEMMA TypesHold == Spec => []SyncTypes
<1>1. Init => SyncTypes
  <2> SUFFICES ASSUME Init PROVE SyncTypes
    OBVIOUS
  <2>1. 1 \in Ids /\ undo = <<1>> /\ sheetList = <<[id |-> 1, ver |-> 1]>> /\ redo = <<>>
    BY BoundsAssumption DEF Init, Ids
  <2>2. rows \in [Ids -> RowSet] /\ \A i \in Ids : rows[i].ver \in Nat
    BY <2>1 DEF Init, RowSet, Absent, None
  <2>3. sheetList \in Seq(Row) /\ undo \in Seq(Ids) /\ redo \in Seq(Entry)
    BY <2>1 DEF Row
  <2>4. projectList \in Versions
    BY <2>2 DEF Init, Versions
  <2>5. LoadsType
    BY NothingLoading DEF Init, LoadsType
  <2>6. Types
    <3>1. call \in [Slots -> Requests \cup {Idle}] /\ landed \in [Views -> Nat] /\ inOrder \in [Views -> BOOLEAN]
      BY DEF Init
    <3>2. clock \in Nat /\ sheet \in Sheets /\ timer = Off /\ events \in Nat /\ drag = Idle
          /\ silent = {} /\ overlap \in BOOLEAN
      BY DEF Init
    <3>3. ops \in 0..MaxOps /\ upsets \in 0..MaxUpsets
      BY BoundsAssumption DEF Init
    <3> QED
      BY <2>2, <2>3, <2>4, <2>5, <3>1, <3>2, <3>3 DEF Types, RowsType, CallType
  <2>7. \A i \in Ids : Saved(i) <=> i = 1
    BY <2>1 DEF Init, Saved, Absent, None
  <2>8. \A i \in OnUndo : i = 1
    BY <2>1 DEF OnUndo
  <2>9. \A c \in Slots : InsertedBy(c) = {} /\ call[c].op = "idle"
    BY DEF Init, Idle, InsertedBy
  <2>10. rows[1].drawing = 1 /\ rows[1].sheet \in Sheets
    BY <2>1 DEF Init
  <2>11. SavedInv
    BY <2>1, <2>7, <2>8, <2>9, <2>10 DEF SavedInv
  <2> QED
    BY <2>6, <2>11, TypeParts DEF SyncTypes
<1>2. SyncTypes /\ [Next]_vars => SyncTypes'
  BY TypeStep, SavedStep DEF SyncTypes
<1> QED
  BY <1>1, <1>2, PTL DEF Spec

\* The lists, stacks, requests and answers in flight keep their shape: an undo stack only
\* names rows, the redo stack drawings, and no request carries an id it was never given.
THEOREM TypeCorrect == Spec => []TypeOK
BY TypesHold, PTL DEF SyncTypes

-----------------------------------------------------------------------------
(* Reloads.  A row that a request of this browser has changed and not yet  *)
(* answered for is held; the other rows are known.  There is a moment n    *)
(* such that every answer in flight that read at or after n shows the      *)
(* known rows as they are, and each list is either going to be reloaded or *)
(* was given an answer that read at or after n.                            *)

HeldBy(c) ==
    IF call[c].op \in {"delete", "undo"} /\ call[c].pc \in {"sent", "ok"} THEN call[c].done
    ELSE IF call[c].op \in {"create", "redo", "patch"} /\ call[c].pc = "ok" THEN {call[c].id}
    ELSE {}
Held  == UNION {HeldBy(c) : c \in Slots}
Known == Ids \ (silent \cup Held)

RemovalsInv ==
    \A c \in Slots : call[c].op \in {"delete", "undo"} /\ call[c].pc \in {"sent", "ok"} =>
        call[c].done \subseteq call[c].tried /\ call[c].tried \subseteq call[c].ids

\* An answer that read at or after n shows the known rows as they are.
Current(n) ==
    \A l \in BagToSet(loads) : l.at >= n => \A i \in Known : l.ids[i] = Rows(l.view, l.sheet)[i]

SheetShown ==
    /\ \A j, k \in DOMAIN sheetList : sheetList[j].id = sheetList[k].id => j = k
    /\ \A i \in Known : rows[i].ver > 0 /\ rows[i].sheet = sheet => i \in Shown(sheetList)
    /\ \A k \in DOMAIN sheetList :
          sheetList[k].id \in Known =>
              /\ sheetList[k].ver = rows[sheetList[k].id].ver /\ sheetList[k].ver > 0
              /\ rows[sheetList[k].id].sheet = sheet
ProjectShown == \A i \in Known : projectList[i] = rows[i].ver
Agrees(v) == (v = "sheet" => SheetShown) /\ (v = "project" => ProjectShown)

Covered(v, n) ==
    \/ timer # Off
    \/ events > 0
    \/ \E l \in BagToSet(loads) : l.view = v /\ l.at >= n
    \/ landed[v] >= n /\ (inOrder[v] => Agrees(v))

Exact ==
    \A l \in BagToSet(loads) :
        /\ l.at <= clock /\ (l.at = clock => l.ids = Rows(l.view, l.sheet))
        /\ l.view = "sheet" => l.sheet # Off
LoadsInv == Exact /\ \E n \in 0..(clock + 1) : Current(n) /\ \A v \in Views : Covered(v, n)

LEMMA HeldFacts ==
    ASSUME CallType, NEW c \in Slots
    PROVE  HeldBy(c) \subseteq Ids
BY CallTypes DEF HeldBy, CallType, RemovalSet

LEMMA ListsFollow ==
    ASSUME TypeOK, LoadsInv
    PROVE  ListsMatchServer
<1> SUFFICES ASSUME Quiet PROVE (inOrder["sheet"] => SheetAgrees) /\ (inOrder["project"] => ProjectAgrees)
  BY DEF ListsMatchServer
<1>1. BagToSet(loads) = {} /\ timer = Off /\ ~(events > 0)
  BY NothingLoading DEF Quiet
<1>2. \A v \in Views : inOrder[v] => Agrees(v)
  BY <1>1 DEF LoadsInv, Covered
<1>3. Known = Ids \ silent
  <2>1. \A c \in Slots : HeldBy(c) = {}
    BY DEF Quiet, HeldBy, Idle
  <2> QED
    BY <2>1 DEF Known, Held
<1>4. sheetList \in Seq(Row) /\ RowsType
  BY TypeParts DEF Types
<1>5. inOrder["project"] => ProjectAgrees
  BY <1>2, <1>3 DEF Views, Agrees, ProjectShown, ProjectAgrees
<1>6. ASSUME SheetShown PROVE SheetAgrees
  <2>1. IsInjective([k \in DOMAIN sheetList |-> sheetList[k].id])
    BY <1>6 DEF SheetShown, IsInjective
  <2>2. ASSUME NEW i \in Ids \ silent
        PROVE  LET there == i \in Live /\ rows[i].sheet = sheet
               IN (i \in Shown(sheetList) <=> there) /\ (there => Version(sheetList, i) = rows[i].ver)
    <3>1. i \in Known
      BY <1>3, <2>2
    <3>2. \A k \in DOMAIN sheetList : sheetList[k].id = i => sheetList[k].ver = rows[i].ver /\ i \in Live /\ rows[i].sheet = sheet
      BY <1>6, <3>1 DEF SheetShown, Live, Known
    <3>3. i \in Live /\ rows[i].sheet = sheet => i \in Shown(sheetList)
      BY <1>6, <3>1 DEF SheetShown, Live
    <3>4. i \in Shown(sheetList) => \E k \in DOMAIN sheetList : sheetList[k].id = i /\ Version(sheetList, i) = sheetList[k].ver
      BY <1>4, VersionFacts
    <3>5. i \in Shown(sheetList) => i \in Live /\ rows[i].sheet = sheet /\ Version(sheetList, i) = rows[i].ver
      BY <3>2, <3>4
    <3> QED
      BY <3>3, <3>5
  <2> QED
    BY <2>1, <2>2 DEF SheetAgrees
<1> QED
  BY <1>2, <1>5, <1>6 DEF Views, Agrees

LEMMA NextMoment == \A k \in Nat : k + 1 \in 0..(k + 1) /\ k \in 0..(k + 1)
OBVIOUS

\* A reload is on its way: nothing has to be known about the answers in flight.
LEMMA LoadsScheduled ==
    ASSUME Exact', clock' \in Nat, timer' # Off \/ events' > 0,
           \A l \in BagToSet(loads') : l.at \in Nat
    PROVE  LoadsInv'
<1>1. PICK n \in 0..(clock' + 1) : n = clock' + 1
  BY NextMoment
<1>2. \A l \in BagToSet(loads') : ~(l.at >= n)
  BY <1>1 DEF Exact
<1>3. Current(n)'
  BY <1>2 DEF Current
<1>4. \A v \in Views : Covered(v, n)'
  BY DEF Covered
<1> QED
  BY <1>1, <1>3, <1>4 DEF LoadsInv

LEMMA LoadsStarted ==
    ASSUME TypeOK, LoadsInv, NEW s \in Sheets, Reload(s), UNCHANGED data
    PROVE  LoadsInv' /\ Exact'
<1>1. /\ BagToSet(loads') = BagToSet(loads) \cup {Load(v, s) : v \in Views}
      /\ \A v \in Views : /\ Load(v, s).view = v /\ Load(v, s).at = clock
                          /\ Load(v, s).ids = Rows(v, Load(v, s).sheet)
  BY ReloadFacts
<1>2. \A v, t : Rows(v, t)' = Rows(v, t)
  BY DEF Rows, data
<1>3. clock' = clock /\ clock \in Nat
  BY TypeParts DEF data, Types
<1>4. \A v \in Views : Load(v, s).view = "sheet" => Load(v, s).sheet # Off
  BY OffAssumption DEF Load
<1>5. \A l \in BagToSet(loads') : /\ l.at <= clock /\ (l.at = clock => l.ids = Rows(l.view, l.sheet))
                                  /\ l.view = "sheet" => l.sheet # Off
  BY <1>1, <1>3, <1>4 DEF LoadsInv, Exact
<1>6. Exact'
  BY <1>2, <1>3, <1>5 DEF Exact
<1>7. \A l \in BagToSet(loads) : l.at \in Nat
  BY TypeParts DEF Types, LoadsType, LoadSet
<1>8. \A l \in BagToSet(loads') : l.at >= clock => l.at = clock
  BY <1>1, <1>3, <1>5, <1>7
<1>9. Current(clock)'
  BY <1>2, <1>3, <1>5, <1>8 DEF Current
<1>10. \A v \in Views : \E l \in BagToSet(loads') : l.view = v /\ l.at >= clock
  BY <1>1, <1>3
<1>11. \A v \in Views : Covered(v, clock)'
  BY <1>3, <1>10 DEF Covered
<1>12. clock \in 0..(clock' + 1)
  BY <1>3, NextMoment
<1> QED
  BY <1>3, <1>6, <1>9, <1>11, <1>12 DEF LoadsInv

\* Rows change only where they become held, and the lists do not change.
LEMMA LoadsKept ==
    ASSUME TypeOK, LoadsInv, (clock' = clock /\ rows' = rows) \/ clock' = clock + 1,
           \A i \in Known' : i \in Known /\ rows'[i] = rows[i],
           UNCHANGED <<loads, timer, events, lists, sheet, landed, inOrder>>
    PROVE  LoadsInv'
<1>1. PICK n \in 0..(clock + 1) : Current(n) /\ \A v \in Views : Covered(v, n)
  BY DEF LoadsInv
<1>2. clock \in Nat /\ \A l \in BagToSet(loads) : l.at \in Nat
  BY TypeParts DEF Types, LoadsType, LoadSet
<1>3. n \in 0..(clock' + 1)
  BY <1>2
<1>4. Exact'
  <2>1. CASE clock' = clock /\ rows' = rows
    BY <2>1 DEF LoadsInv, Exact, Rows
  <2>2. CASE clock' = clock + 1
    BY <1>2, <2>2 DEF LoadsInv, Exact
  <2> QED
    BY <2>1, <2>2
<1>5. \A v, s : \A i \in Known' : Rows(v, s)'[i] = Rows(v, s)[i]
  BY DEF Rows, Known
<1>6. Current(n)'
  BY <1>1, <1>5 DEF Current
<1>7. SheetShown => SheetShown'
  BY DEF SheetShown, lists
<1>8. ProjectShown => ProjectShown'
  BY DEF ProjectShown, lists
<1>9. \A v \in Views : Covered(v, n)'
  BY <1>1, <1>7, <1>8 DEF Covered, Agrees
<1> QED
  BY <1>3, <1>4, <1>6, <1>9 DEF LoadsInv

LEMMA LoadsRead ==
    ASSUME TypeOK, LoadsInv, NEW l \in BagToSet(loads), Read(l)
    PROVE  LoadsInv'
<1> DEFINE r == Reread(l)
<1>1. loads' = (loads (-) SetToBag({l})) (+) SetToBag({r})
  BY DEF Read, Reread
<1>2. r = Reread(l)
  OBVIOUS
<1> HIDE DEF r
<1>3. /\ BagToSet(loads') \subseteq BagToSet(loads) \cup {r}
      /\ BagToSet(loads) \ {l} \subseteq BagToSet(loads') /\ r \in BagToSet(loads')
      /\ r.at = clock /\ r.view = l.view /\ r.sheet = l.sheet /\ r.ids = Rows(l.view, l.sheet)
  BY <1>1, <1>2, ReadFacts
<1>4. UNCHANGED <<data, sheet, lists, stacks, call, timer, events, drag, history, bounds>>
  BY DEF Read
<1>5. clock \in Nat /\ \A m \in BagToSet(loads) : m.at \in Nat /\ m.at <= clock
  BY TypeParts DEF Types, LoadsType, LoadSet, LoadsInv, Exact
<1>6. Known' = Known /\ \A v, s : Rows(v, s)' = Rows(v, s)
  BY <1>4 DEF Known, Held, HeldBy, history, data, Rows
<1>7. \A v : Agrees(v)' <=> Agrees(v)
  BY <1>4, <1>6 DEF Agrees, SheetShown, ProjectShown, lists, data
<1>8. PICK n \in 0..(clock + 1) : Current(n) /\ \A v \in Views : Covered(v, n)
  BY DEF LoadsInv
<1>9. Exact'
  <2>1. clock' = clock
    BY <1>4 DEF data
  <2>2. l.view = "sheet" => l.sheet # Off
    BY DEF LoadsInv, Exact
  <2>3. ASSUME NEW m \in BagToSet(loads')
        PROVE  /\ m.at <= clock /\ (m.at = clock => m.ids = Rows(m.view, m.sheet))
               /\ m.view = "sheet" => m.sheet # Off
    <3>1. CASE m \in BagToSet(loads)
      BY <3>1 DEF LoadsInv, Exact
    <3>2. CASE m = r
      BY <1>3, <1>5, <2>2, <3>2
    <3> QED
      BY <1>3, <3>1, <3>2
  <2> QED
    BY <1>6, <2>1, <2>3 DEF Exact
<1>10. Current(n)'
  BY <1>3, <1>6, <1>8 DEF Current
<1>11. ASSUME NEW v \in Views, NEW m \in BagToSet(loads), m.view = v, m.at >= n
       PROVE  \E k \in BagToSet(loads') : k.view = v /\ k.at >= n
  <2>1. CASE m = l
    <3>1. r.view = v /\ r.at >= n
      BY <1>3, <1>5, <1>11, <2>1
    <3> QED
      BY <1>3, <3>1
  <2>2. CASE m # l
    BY <1>3, <1>11, <2>2
  <2> QED
    BY <2>1, <2>2
<1>12. \A v \in Views : Covered(v, n)'
  BY <1>4, <1>7, <1>8, <1>11 DEF Covered, history
<1>13. n \in 0..(clock' + 1)
  BY <1>4 DEF data
<1> QED
  BY <1>9, <1>10, <1>12, <1>13 DEF LoadsInv

\* The answer is applied: what it shows is current if it read at or after n.
LEMMA LoadsLand ==
    ASSUME TypeOK, LoadsInv, NEW l \in BagToSet(loads), Land(l) \/ LoadFails(l)
    PROVE  LoadsInv'
<1>0. \E list : \E ok \in BOOLEAN : Arrives(l, list, ok) /\ (ok => list = Listed(l))
  <2>1. CASE Land(l)
    <3>1. Arrives(l, Listed(l), TRUE) /\ TRUE \in BOOLEAN
      BY <2>1 DEF Land
    <3> QED
      BY <3>1
  <2>2. CASE LoadFails(l)
    <3>1. Arrives(l, <<>>, FALSE) /\ FALSE \in BOOLEAN
      BY <2>2 DEF LoadFails
    <3> QED
      BY <3>1
  <2> QED
    BY <2>1, <2>2
<1>1. PICK list : \E ok \in BOOLEAN : Arrives(l, list, ok) /\ (ok => list = Listed(l))
  BY <1>0
<1>17. PICK ok \in BOOLEAN : Arrives(l, list, ok) /\ (ok => list = Listed(l))
  BY <1>1
<1>2. PICK n \in 0..(clock + 1) : Current(n) /\ \A v \in Views : Covered(v, n)
  BY DEF LoadsInv
<1>3. /\ loads' = loads (-) SetToBag({l})
      /\ inOrder' = [inOrder EXCEPT ![l.view] = ok /\ l.sheet \in {sheet, Off} /\ l.at >= landed[l.view]]
      /\ landed' = [landed EXCEPT ![l.view] = IF l.at > landed[l.view] THEN l.at ELSE landed[l.view]]
      /\ UNCHANGED <<data, sheet, call, timer, events, silent>>
  BY <1>17 DEF Arrives
<1>4. /\ l.view = "sheet" => sheetList' = list /\ projectList' = projectList
      /\ l.view # "sheet" => sheetList' = sheetList /\ projectList' = IF ok THEN l.ids ELSE [i \in Ids |-> 0]
  BY <1>17 DEF Arrives
<1>5. l \in LoadSet /\ clock \in Nat /\ landed \in [Views -> Nat] /\ inOrder \in [Views -> BOOLEAN] /\ IsABag(loads)
      /\ RowsType /\ sheet \in Sheets
  BY TypeParts DEF Types, LoadsType
<1>6. BagToSet(loads') \subseteq BagToSet(loads) /\ BagToSet(loads) \ {l} \subseteq BagToSet(loads')
  BY <1>3, <1>5, DropBagFacts
<1>7. Known' = Known /\ (\A v, s : Rows(v, s)' = Rows(v, s)) /\ rows' = rows /\ clock' = clock
  BY <1>3 DEF Known, Held, HeldBy, data, Rows
<1>8. Exact'
  BY <1>6, <1>7 DEF LoadsInv, Exact
<1>9. Current(n)'
  BY <1>2, <1>6, <1>7 DEF Current
<1>10. \A v \in Views : v # l.view => landed'[v] = landed[v] /\ inOrder'[v] = inOrder[v] /\ (Agrees(v) => Agrees(v)')
  BY <1>3, <1>4, <1>5, <1>7 DEF Agrees, SheetShown, ProjectShown, Views, LoadSet
<1>11. ASSUME NEW v \in Views, v # l.view PROVE Covered(v, n)'
  BY <1>2, <1>3, <1>6, <1>10, <1>11 DEF Covered
<1>12. /\ inOrder'[l.view] => ok /\ l.sheet \in {sheet, Off} /\ l.at >= landed[l.view]
       /\ landed'[l.view] = IF l.at > landed[l.view] THEN l.at ELSE landed[l.view]
  BY <1>3, <1>5 DEF LoadSet
<1>13. l.view \in Views /\ l.at \in Nat /\ landed[l.view] \in Nat /\ l.ids \in Versions
  BY <1>5 DEF LoadSet
<1>14. ASSUME l.at >= n, inOrder'[l.view] PROVE Agrees(l.view)'
  <2>1. \A i \in Known : l.ids[i] = Rows(l.view, l.sheet)[i]
    BY <1>2, <1>14 DEF Current
  <2>2. ok /\ l.sheet \in {sheet, Off}
    BY <1>12, <1>14
  <2>3. CASE l.view = "sheet"
    <3>1. sheetList' = Listed(l) /\ l.sheet = sheet
      BY <1>17, <1>4, <2>2, <2>3 DEF LoadsInv, Exact
    <3>2. /\ \A j, k \in DOMAIN sheetList' : sheetList'[j].id = sheetList'[k].id => j = k
          /\ \A k \in DOMAIN sheetList' : /\ sheetList'[k].id \in Ids
                                          /\ sheetList'[k].ver = l.ids[sheetList'[k].id] /\ sheetList'[k].ver > 0
          /\ \A i \in Ids : l.ids[i] > 0 => i \in Shown(sheetList')
      BY <1>13, <3>1, ListedFacts
    <3>3. \A i \in Known : i \in Ids /\ l.ids[i] = IF rows[i].sheet = sheet THEN rows[i].ver ELSE 0
      BY <2>1, <2>3, <3>1 DEF Rows, Known
    <3>4. \A i \in Known : rows[i].ver > 0 /\ rows[i].sheet = sheet => i \in Shown(sheetList')
      BY <3>2, <3>3
    <3>5. \A k \in DOMAIN sheetList' :
             sheetList'[k].id \in Known =>
                /\ sheetList'[k].ver = rows[sheetList'[k].id].ver /\ sheetList'[k].ver > 0
                /\ rows[sheetList'[k].id].sheet = sheet
      BY <3>2, <3>3
    <3>6. SheetShown'
      BY <1>3, <1>7, <3>2, <3>4, <3>5 DEF SheetShown
    <3> QED
      BY <2>3, <3>6 DEF Agrees
  <2>4. CASE l.view # "sheet"
    <3>1. l.view = "project" /\ projectList' = l.ids
      BY <1>4, <1>13, <2>2, <2>4 DEF Views
    <3>2. \A i \in Known : l.ids[i] = rows[i].ver
      BY <2>1, <3>1 DEF Rows, Known
    <3> QED
      BY <1>7, <3>1, <3>2 DEF Agrees, ProjectShown
  <2> QED
    BY <2>3, <2>4
<1>15. Covered(l.view, n)'
  <2>1. CASE timer # Off \/ events > 0
    BY <1>3, <2>1 DEF Covered
  <2>2. CASE \E m \in BagToSet(loads) : m # l /\ m.view = l.view /\ m.at >= n
    <3>1. \E m \in BagToSet(loads') : m.view = l.view /\ m.at >= n
      BY <1>6, <2>2
    <3> QED
      BY <3>1 DEF Covered
  <2>3. CASE l.at >= n
    <3>1. landed'[l.view] >= n
      BY <1>12, <1>13, <2>3
    <3> QED
      BY <1>14, <2>3, <3>1 DEF Covered
  <2>4. CASE ~(l.at >= n) /\ landed[l.view] >= n
    <3>1. ~inOrder'[l.view] /\ landed'[l.view] >= n
      BY <1>12, <1>13, <2>4
    <3> QED
      BY <3>1 DEF Covered
  <2>5. Covered(l.view, n)
    BY <1>2, <1>13
  <2> QED
    BY <2>1, <2>2, <2>3, <2>4, <2>5 DEF Covered
<1>16. \A v \in Views : Covered(v, n)'
  BY <1>11, <1>15
<1> QED
  BY <1>7, <1>8, <1>9, <1>16 DEF LoadsInv

LEMMA HeldMoves ==
    ASSUME CallType, NEW c \in Slots, NEW r, Goto(c, r), silent \subseteq silent',
           HeldBy(c) \subseteq HeldBy(c)' \cup silent'
    PROVE  /\ \A i \in Known' : i \in Known /\ i \notin HeldBy(c)'
           /\ call'[c] = r /\ \A d \in Slots \ {c} : call'[d] = call[d]
<1>1. call'[c] = r /\ \A d \in Slots \ {c} : call'[d] = call[d]
  BY GotoFacts DEF CallType
<1>2. \A d \in Slots \ {c} : HeldBy(d)' = HeldBy(d)
  BY <1>1 DEF HeldBy
<1>3. Held \subseteq Held' \cup silent'
  BY <1>2 DEF Held
<1>4. HeldBy(c)' \subseteq Held'
  BY DEF Held
<1> QED
  BY <1>1, <1>3, <1>4 DEF Known

LEMMA LoadsUser ==
    ASSUME TypeOK, LoadsInv, RemovalsInv, NEW c \in Slots, User(c)
    PROVE  LoadsInv' /\ RemovalsInv'
<1>0. CallType
  BY TypeParts DEF Types
<1>1. UNCHANGED <<data, sheet, lists, net, landed, inOrder, silent>> /\ call[c] = Idle
  BY DEF User, Create, DragEnd, Undo, Redo, PatchInPanel, PatchSelected, Delete, Sends
<1>2. \E r : Goto(c, r) /\ r.pc = "sent" /\ (r.op \in {"delete", "undo"} => r.done = {} /\ r.tried = {})
  <2>1. CASE DragEnd(c)
    <3>1. drag \in PatchSet /\ drag.pc = "sent" /\ Goto(c, drag)
      BY <2>1, TypeParts DEF DragEnd, Sends, Types
    <3> QED
      BY <3>1 DEF PatchSet
  <2>2. CASE \E i \in Ids : PatchInPanel(c, i) \/ PatchSelected(c, i)
    <3>1. \E i, b : Goto(c, Patch(i, b))
      BY <2>2 DEF PatchInPanel, PatchSelected, Sends
    <3>2. \A i, b : Patch(i, b).pc = "sent" /\ Patch(i, b).op = "patch"
      BY DEF Patch
    <3> QED
      BY <3>1, <3>2
  <2>3. CASE Create(c)
    BY <2>3 DEF Create, Sends
  <2>4. CASE Undo(c)
    BY <2>4 DEF Undo, Sends
  <2>5. CASE Redo(c)
    BY <2>5 DEF Redo, Sends
  <2>6. CASE \E ids \in SUBSET Ids : Delete(c, ids)
    BY <2>6 DEF Delete, Sends
  <2> QED
    BY <2>1, <2>2, <2>3, <2>4, <2>5, <2>6 DEF User
<1>3. PICK r : Goto(c, r) /\ r.pc = "sent" /\ (r.op \in {"delete", "undo"} => r.done = {} /\ r.tried = {})
  BY <1>2
<1>4. call'[c] = r /\ \A d \in Slots \ {c} : call'[d] = call[d]
  BY <1>0, <1>3, GotoFacts DEF CallType
<1>5. HeldBy(c) = {}
  BY <1>1 DEF HeldBy, Idle
<1>6. \A i \in Known' : i \in Known
  BY <1>0, <1>1, <1>3, <1>5, HeldMoves
<1>7. RemovalsInv'
  BY <1>3, <1>4 DEF RemovalsInv
<1>8. LoadsInv'
  BY <1>1, <1>6, LoadsKept DEF net, data
<1> QED
  BY <1>7, <1>8

\* A row changes only where a request holds it or has reported an error.
LEMMA LoadsServer ==
    ASSUME TypeOK, LoadsInv, RemovalsInv, NEW c \in Slots, Serve(c) \/ CallFails(c)
    PROVE  LoadsInv' /\ RemovalsInv'
<1>0. CallType /\ RowsType
  BY TypeParts DEF Types
<1>1. ASSUME NEW r, Serves(c, r), HeldBy(c) \subseteq HeldBy(c)' \cup silent', silent \subseteq silent',
             UNCHANGED data \/ \E i \in Ids : i \in HeldBy(c)' \cup silent' /\ \E row : Changed(i, row),
             r.op \in {"delete", "undo"} /\ r.pc \in {"sent", "ok"} => r.done \subseteq r.tried /\ r.tried \subseteq r.ids
      PROVE  LoadsInv' /\ RemovalsInv'
  <2>1. /\ \A i \in Known' : i \in Known /\ i \notin HeldBy(c)'
        /\ call'[c] = r /\ \A d \in Slots \ {c} : call'[d] = call[d]
    BY <1>0, <1>1, HeldMoves DEF Serves
  <2>2. \A i \in Known' : i \in Ids /\ i \notin silent'
    BY DEF Known
  <2>3. ((clock' = clock /\ rows' = rows) \/ clock' = clock + 1) /\ \A i \in Known' : rows'[i] = rows[i]
    <3>1. CASE UNCHANGED data
      BY <3>1 DEF data
    <3>2. ASSUME NEW i \in Ids, i \in HeldBy(c)' \cup silent', NEW row, Changed(i, row)
          PROVE  clock' = clock + 1 /\ \A j \in Known' : rows'[j] = rows[j]
      BY <1>0, <2>1, <2>2, <3>2 DEF Changed, RowsType
    <3> QED
      BY <1>1, <3>1, <3>2
  <2>4. UNCHANGED <<loads, timer, events, lists, sheet, landed, inOrder>>
    BY <1>1 DEF Serves, net
  <2>5. LoadsInv'
    BY <2>1, <2>3, <2>4, LoadsKept
  <2>6. RemovalsInv'
    BY <1>1, <2>1 DEF RemovalsInv
  <2> QED
    BY <2>5, <2>6
<1>2. \A pc : Result(c, pc).pc = pc
  BY DEF Result
<1>3. ASSUME NEW pc \in {"error", "conflict"}, Serves(c, Result(c, pc)), HeldBy(c) \subseteq silent', silent \subseteq silent',
             UNCHANGED data \/ \E i \in Ids : i \in silent' /\ \E row : Changed(i, row)
      PROVE  LoadsInv' /\ RemovalsInv'
  <2>1. Result(c, pc).pc = pc
    BY <1>2
  <2> QED
    BY <1>1, <1>3, <2>1
<1>4. ASSUME NEW i \in Ids, Insert(c, i) PROVE LoadsInv' /\ RemovalsInv'
  <2> DEFINE r == [op |-> call[c].op, pc |-> "ok", sheet |-> call[c].sheet, id |-> i]
  <2>1. call[c].op \in {"create", "redo"} /\ call[c].pc = "sent"
    BY <1>4 DEF Insert, Inserting
  <2>2. HeldBy(c) = {}
    BY <2>1 DEF HeldBy
  <2>3. Serves(c, r) /\ UNCHANGED silent /\ \E row : Changed(i, row)
    BY <1>4 DEF Insert
  <2>4. r.op = call[c].op /\ r.pc = "ok" /\ r.id = i
    OBVIOUS
  <2> HIDE DEF r
  <2>5. call'[c] = r
    BY <1>0, <2>3, GotoFacts DEF Serves, CallType
  <2>6. HeldBy(c)' = {i}
    BY <2>1, <2>4, <2>5 DEF HeldBy
  <2> QED
    BY <1>1, <2>1, <2>2, <2>3, <2>4, <2>6
<1>5. CASE Compare(c)
  <2>1. call[c] \in PatchSet /\ call[c].pc = "sent"
    BY <1>0, <1>5, CallTypes DEF Compare, CallType
  <2>2. HeldBy(c) = {}
    BY <2>1 DEF HeldBy, PatchSet
  <2> DEFINE r == [call[c] EXCEPT !.seen = rows[call[c].id].ver, !.pc = "write", !.ver = None]
  <2>3. r.op = "patch"
    BY <2>1 DEF PatchSet
  <2>4. UNCHANGED <<data, silent>> /\ (Serves(c, r) \/ Serves(c, Result(c, "error")) \/ Serves(c, Result(c, "conflict")))
    BY <1>5 DEF Compare
  <2> HIDE DEF r
  <2>5. CASE Serves(c, r)
    BY <1>1, <2>2, <2>3, <2>4, <2>5
  <2>6. CASE Serves(c, Result(c, "error")) \/ Serves(c, Result(c, "conflict"))
    BY <1>3, <2>2, <2>4, <2>6
  <2> QED
    BY <2>4, <2>5, <2>6
<1>6. CASE Write(c)
  <2>1. call[c] \in PatchSet /\ call[c].pc = "write" /\ call[c].id \in Ids
    BY <1>0, <1>6, CallTypes DEF Write, CallType, PatchSet
  <2>2. HeldBy(c) = {}
    BY <2>1 DEF HeldBy, PatchSet
  <2> DEFINE i == call[c].id
             r == [op |-> "patch", pc |-> "ok", sheet |-> call[c].sheet, id |-> i, ver |-> rows[i].ver + 1]
  <2>3. r.op = "patch" /\ r.pc = "ok" /\ r.id = i
    OBVIOUS
  <2>4. UNCHANGED silent /\ \/ Serves(c, r) /\ \E row : Changed(i, row)
                            \/ Serves(c, Result(c, "error")) /\ UNCHANGED data
    BY <1>6 DEF Write
  <2> HIDE DEF r
  <2>5. CASE Serves(c, r) /\ \E row : Changed(i, row)
    <3>1. call'[c] = r
      BY <1>0, <2>5, GotoFacts DEF Serves, CallType
    <3>2. HeldBy(c)' = {i}
      BY <2>3, <3>1 DEF HeldBy
    <3> QED
      BY <1>1, <2>1, <2>2, <2>3, <2>4, <2>5, <3>2
  <2>6. CASE Serves(c, Result(c, "error")) /\ UNCHANGED data
    BY <1>3, <2>2, <2>4, <2>6
  <2> QED
    BY <2>4, <2>5, <2>6
<1>7. ASSUME NEW i \in Ids, Remove1(c, i) PROVE LoadsInv' /\ RemovalsInv'
  <2>1. call[c] \in RemovalSet /\ call[c].pc = "sent" /\ i \in call[c].ids
    BY <1>0, <1>7, CallTypes DEF Remove1, CallType
  <2>2. HeldBy(c) = call[c].done /\ call[c].done \subseteq call[c].tried /\ call[c].tried \subseteq call[c].ids
    BY <2>1 DEF HeldBy, RemovalSet, RemovalsInv
  <2> DEFINE t == call[c].tried \cup {i}
             d == IF i \in Live THEN call[c].done \cup {i} ELSE call[c].done
             p == IF t # call[c].ids THEN "sent" ELSE IF d = t THEN "ok" ELSE "error"
             r == Progress(call[c], t, d, p)
  <2>3. /\ Serves(c, IF p = "error" THEN Result(c, p) ELSE r)
        /\ silent' = IF p = "error" THEN silent \cup d ELSE silent
        /\ UNCHANGED data \/ (i \in d /\ \E row : Changed(i, row))
    BY <1>7 DEF Remove1, Progress
  <2>4. r.op \in {"delete", "undo"} /\ r.pc = p /\ r.tried = t /\ r.done = d /\ r.ids = call[c].ids
    BY <2>1 DEF Progress, RemovalSet
  <2>5. call[c].done \subseteq d /\ d \subseteq t /\ t \subseteq call[c].ids
    BY <2>1, <2>2
  <2>6. p # "error" => p \in {"sent", "ok"}
    OBVIOUS
  <2> HIDE DEF t, d, p, r
  <2>7. CASE p = "error"
    <3>1. HeldBy(c) \subseteq silent' /\ silent \subseteq silent'
      BY <2>2, <2>3, <2>5, <2>7
    <3>2. UNCHANGED data \/ (i \in silent' /\ \E row : Changed(i, row))
      BY <2>3, <2>7
    <3> QED
      BY <1>3, <2>3, <2>7, <3>1, <3>2
  <2>8. CASE p # "error"
    <3>1. Serves(c, r) /\ silent' = silent
      BY <2>3, <2>8
    <3>2. call'[c] = r
      BY <1>0, <3>1, GotoFacts DEF Serves, CallType
    <3>3. HeldBy(c)' = d
      BY <2>4, <2>6, <2>8, <3>2 DEF HeldBy
    <3> QED
      BY <1>1, <2>2, <2>3, <2>4, <2>5, <3>1, <3>3
  <2> QED
    BY <2>7, <2>8
<1>8. CASE CallFails(c)
  <2>1. call[c] # Idle /\ Serves(c, Result(c, "error")) /\ UNCHANGED data
        /\ \/ call[c].pc = "sent" /\ (call[c].op \in {"delete", "undo"} => call[c].tried = {}) /\ UNCHANGED silent
           \/ call[c].pc = "ok" /\ silent' = silent \cup Touched(call[c])
    BY <1>8 DEF CallFails
  <2>2. CASE call[c].pc = "sent"
    <3>1. HeldBy(c) = {}
      BY <2>1, <2>2 DEF HeldBy, RemovalsInv
    <3> QED
      BY <1>3, <2>1, <2>2, <3>1
  <2>3. CASE call[c].pc = "ok"
    <3>1. HeldBy(c) \subseteq Touched(call[c])
      BY <2>3 DEF HeldBy, Touched
    <3> QED
      BY <1>3, <2>1, <2>3, <3>1
  <2> QED
    BY <2>1, <2>2, <2>3
<1> QED
  BY <1>4, <1>5, <1>6, <1>7, <1>8 DEF Serve

LEMMA LoadsAnswer ==
    ASSUME TypeOK, LoadsInv, RemovalsInv, NEW c \in Slots, Respond(c)
    PROVE  LoadsInv' /\ RemovalsInv'
<1>0. CallType /\ clock \in Nat /\ LoadsType
  BY TypeParts DEF Types
<1>1. /\ UNCHANGED <<data, sheet, events, history>> /\ Goto(c, Idle) /\ call[c].sheet \in Sheets
      /\ call[c].op # "idle"
  BY <1>0, CallTypes DEF Respond, CreateOk, RedoOk, PatchOk, PatchConflict, DeleteOk, UndoOk, CallError, Answered, Idle, CallType
<1>2. call'[c] = Idle /\ \A d \in Slots \ {c} : call'[d] = call[d]
  BY <1>0, <1>1, GotoFacts DEF CallType
<1>3. RemovalsInv'
  BY <1>2 DEF RemovalsInv, Idle
<1>4. ASSUME Resync(c), UNCHANGED loads \/ Reload(call[c].sheet) PROVE LoadsInv'
  <2>1. timer' # Off
    BY <1>1, <1>4, OffAssumption DEF Resync
  <2>2. Exact'
    <3>1. CASE UNCHANGED loads
      <4>1. \A v, s : Rows(v, s)' = Rows(v, s)
        BY <1>1 DEF Rows, data
      <4> QED
        BY <1>1, <3>1, <4>1 DEF LoadsInv, Exact, data
    <3>2. CASE Reload(call[c].sheet)
      BY <1>1, <3>2, LoadsStarted
    <3> QED
      BY <1>4, <3>1, <3>2
  <2>3. LoadsType'
    BY TypePartsNext, RespondTypes DEF Types
  <2>4. \A l \in BagToSet(loads') : l.at \in Nat
    BY <2>3 DEF LoadsType, LoadSet
  <2> QED
    BY <1>0, <1>1, <2>1, <2>2, <2>4, LoadsScheduled DEF data
<1>5. CASE CreateOk(c) \/ RedoOk(c) \/ PatchOk(c) \/ DeleteOk(c) \/ UndoOk(c)
  BY <1>3, <1>4, <1>5 DEF CreateOk, RedoOk, PatchOk, DeleteOk, UndoOk, Forget
<1>6. CASE PatchConflict(c)
  <2>1. Reload(call[c].sheet)
    BY <1>6 DEF PatchConflict
  <2> QED
    BY <1>1, <1>3, <2>1, LoadsStarted
<1>7. CASE CallError(c)
  <2>1. HeldBy(c) = {}
    BY <1>7 DEF CallError, Answered, HeldBy
  <2>2. \A i \in Known' : i \in Known
    BY <1>0, <1>1, <2>1, HeldMoves DEF history
  <2>3. UNCHANGED <<loads, timer, lists>>
    BY <1>7 DEF CallError
  <2> QED
    BY <1>1, <1>3, <2>2, <2>3, LoadsKept DEF data, history
<1> QED
  BY <1>3, <1>5, <1>6, <1>7 DEF Respond

LEMMA LoadsStep ==
    ASSUME TypeOK, LoadsInv, RemovalsInv, [Next]_vars
    PROVE  LoadsInv' /\ RemovalsInv'
<1>0. clock \in Nat /\ LoadsType /\ sheet \in Sheets /\ timer \in Sheets \cup {Off} /\ events \in Nat /\ RowsType
  BY TypeParts DEF Types
<1>1. ASSUME UNCHANGED call PROVE RemovalsInv'
  BY <1>1 DEF RemovalsInv
<1>2. ASSUME UNCHANGED <<data, call, silent, loads, timer, events, lists, sheet, landed, inOrder>> PROVE LoadsInv'
  <2>1. Known' = Known
    BY <1>2 DEF Known, Held, HeldBy
  <2> QED
    BY <1>2, <2>1, LoadsKept DEF data
<1>3. CASE UNCHANGED vars
  BY <1>1, <1>2, <1>3 DEF vars, net, history
<1>4. CASE DragAbandoned \/ \E i \in Ids : DragStart(i)
  BY <1>1, <1>2, <1>4 DEF DragAbandoned, DragStart, net, history
<1>5. CASE \E s \in Sheets : SwitchSheet(s)
  <2>1. PICK s \in Sheets : SwitchSheet(s)
    BY <1>5
  <2>2. Reload(s) /\ UNCHANGED data /\ UNCHANGED call
    BY <2>1 DEF SwitchSheet
  <2> QED
    BY <1>1, <2>2, LoadsStarted
<1>6. CASE TimerFires
  <2>1. Reload(timer) /\ timer \in Sheets /\ UNCHANGED data /\ UNCHANGED call
    BY <1>0, <1>6 DEF TimerFires
  <2> QED
    BY <1>1, <2>1, LoadsStarted
<1>7. CASE EventArrives
  <2>1. timer' # Off /\ UNCHANGED <<data, call, loads>>
    BY <1>0, <1>7, OffAssumption DEF EventArrives
  <2>2. \A v, s : Rows(v, s)' = Rows(v, s)
    BY <2>1 DEF Rows, data
  <2>3. Exact'
    BY <2>1, <2>2 DEF LoadsInv, Exact, data
  <2>4. \A l \in BagToSet(loads') : l.at \in Nat
    BY <1>0, <2>1 DEF LoadsType, LoadSet
  <2> QED
    BY <1>0, <1>1, <2>1, <2>3, <2>4, LoadsScheduled DEF data
<1>8. CASE Collaborator
  <2>1. events' > 0 /\ UNCHANGED <<call, loads>>
    BY <1>0, <1>8 DEF Collaborator
  <2>2. clock' = clock + 1
    BY <1>8 DEF Collaborator, Changed
  <2>3. \A l \in BagToSet(loads) : l.at \in Nat /\ l.at <= clock /\ (l.view = "sheet" => l.sheet # Off)
    BY <1>0 DEF LoadsInv, Exact, LoadsType, LoadSet
  <2>4. Exact'
    BY <1>0, <2>1, <2>2, <2>3 DEF Exact
  <2>5. clock' \in Nat /\ \A l \in BagToSet(loads') : l.at \in Nat
    BY <1>0, <2>1, <2>2, <2>3
  <2> QED
    BY <1>1, <2>1, <2>4, <2>5, LoadsScheduled
<1>9. ASSUME NEW l \in BagToSet(loads), Read(l) \/ Land(l) \/ LoadFails(l) PROVE LoadsInv' /\ RemovalsInv'
  <2>1. UNCHANGED call
    BY <1>9 DEF Read, Land, LoadFails, Arrives
  <2> QED
    BY <1>1, <1>9, <2>1, LoadsRead, LoadsLand
<1> QED
  BY <1>3, <1>4, <1>5, <1>6, <1>7, <1>8, <1>9, LoadsUser, LoadsServer, LoadsAnswer DEF Next

LoadsOk == SyncTypes /\ LoadsInv /\ RemovalsInv

LEMMA LoadsHold == Spec => []LoadsOk
<1>1. Init => LoadsInv /\ RemovalsInv
  <2> SUFFICES ASSUME Init PROVE LoadsInv /\ RemovalsInv
    OBVIOUS
  <2>1. 1 \in Ids /\ sheetList = <<[id |-> 1, ver |-> 1]>> /\ clock = 0 /\ landed = [v \in Views |-> 0]
    BY BoundsAssumption DEF Init, Ids
  <2>2. BagToSet(loads) = {}
    BY NothingLoading DEF Init
  <2>3. rows[1].ver = 1 /\ rows[1].sheet = sheet /\ \A i \in Ids : i # 1 => rows[i].ver = 0
    BY <2>1 DEF Init, Absent
  <2>4. DOMAIN sheetList = {1} /\ sheetList[1].id = 1 /\ sheetList[1].ver = 1 /\ 1 \in Shown(sheetList)
    BY <2>1 DEF Shown
  <2>5. SheetShown
    BY <2>3, <2>4 DEF SheetShown, Known
  <2>6. ProjectShown
    BY DEF Init, ProjectShown, Known
  <2>7. \A v \in Views : Covered(v, 0)
    BY <2>1, <2>5, <2>6 DEF Covered, Agrees
  <2>8. Exact /\ Current(0)
    BY <2>2 DEF Exact, Current
  <2>9. RemovalsInv
    BY DEF Init, RemovalsInv, Idle
  <2>10. 0 \in 0..(clock + 1)
    BY <2>1
  <2> QED
    BY <2>7, <2>8, <2>9, <2>10 DEF LoadsInv
<1>2. SyncTypes /\ LoadsInv /\ RemovalsInv /\ [Next]_vars => LoadsInv' /\ RemovalsInv'
  BY LoadsStep DEF SyncTypes
<1> QED
  BY <1>1, <1>2, TypesHold, PTL DEF Spec, LoadsOk

\* When nothing is in flight both lists show what the server has, each row once, however
\* the reloads overlapped, unless a list's last answer was late, failed or of another
\* sheet; rows changed by a request that reported an error are excepted.
THEOREM ListsMatch == Spec => []ListsMatchServer
<1>1. LoadsOk => ListsMatchServer
  BY ListsFollow DEF LoadsOk, SyncTypes
<1> QED
  BY <1>1, LoadsHold, PTL

-----------------------------------------------------------------------------
(* Updates.  What the author was shown is the version the request carries, *)
(* and then the version the server compared.                               *)

Based(r) ==
    r.op = "patch" /\ r.pc \in {"sent", "write"} /\ r.basis # None =>
        IF r.pc = "sent" THEN r.ver = r.basis ELSE r.seen = r.basis
BasisInv == (\A c \in Slots : Based(call[c])) /\ (drag # Idle => Based(drag))

LEMMA PatchBased ==
    ASSUME TypeOK, ListsMatchServer, NEW i \in Ids, NEW b \in Nat,
           b = projectList[i] \/ (i \in Shown(sheetList) /\ b = Version(sheetList, i))
    PROVE  Based(Patch(i, b))
<1>1. /\ Patch(i, b).ver = VersionForId(i) /\ Patch(i, b).pc = "sent"
      /\ Patch(i, b).basis = IF Calm /\ i \notin silent THEN b ELSE None
  BY PatchType
<1>2. ASSUME Calm, i \notin silent PROVE VersionForId(i) = b
  <2>1. SheetAgrees /\ ProjectAgrees
    BY <1>2 DEF Calm, ListsMatchServer, Views
  <2>2. projectList[i] = rows[i].ver
    BY <1>2, <2>1 DEF ProjectAgrees
  <2>3. i \in Shown(sheetList) => Version(sheetList, i) = rows[i].ver
    BY <1>2, <2>1 DEF SheetAgrees
  <2> QED
    BY <2>2, <2>3 DEF VersionForId
<1> QED
  BY <1>1, <1>2 DEF Based

LEMMA BasisStep ==
    ASSUME TypeOK, ListsMatchServer, BasisInv, [Next]_vars
    PROVE  BasisInv'
<1>0. CallType /\ (drag = Idle \/ (drag \in PatchSet /\ drag.pc = "sent")) /\ projectList \in Versions /\ sheetList \in Seq(Row)
  BY TypeParts DEF Types
<1>1. ASSUME UNCHANGED call, drag' = drag \/ drag' = Idle PROVE BasisInv'
  BY <1>1 DEF BasisInv
<1>2. ASSUME NEW c \in Slots, NEW r, Goto(c, r), Based(r), drag' = drag \/ drag' = Idle PROVE BasisInv'
  <2>1. call'[c] = r /\ \A d \in Slots \ {c} : call'[d] = call[d]
    BY <1>0, <1>2, GotoFacts DEF CallType
  <2> QED
    BY <1>2, <2>1 DEF BasisInv
<1>3. \A c, pc : pc \in {"error", "conflict"} => Based(Result(c, pc))
  BY DEF Based, Result
<1>4. Based(Idle)
  BY DEF Based, Idle
<1>5. CASE UNCHANGED vars
  BY <1>1, <1>5 DEF vars
<1>6. CASE \/ TimerFires \/ EventArrives \/ Collaborator \/ DragAbandoned \/ \E s \in Sheets : SwitchSheet(s)
           \/ \E l \in BagToSet(loads) : Read(l) \/ Land(l) \/ LoadFails(l)
  <2>1. UNCHANGED call /\ (drag' = drag \/ drag' = Idle)
    BY <1>6, Zenon DEF TimerFires, EventArrives, Collaborator, DragAbandoned, SwitchSheet, Read, Land, LoadFails, Arrives
  <2> QED
    BY <1>1, <2>1
<1>7. ASSUME NEW i \in Ids, DragStart(i) PROVE BasisInv'
  <2>1. i \in Shown(sheetList) /\ drag' = Patch(i, Version(sheetList, i)) /\ UNCHANGED call
    BY <1>7 DEF DragStart
  <2>2. Version(sheetList, i) \in Nat
    BY <1>0, <2>1, VersionFacts
  <2>3. Based(Patch(i, Version(sheetList, i)))
    BY <2>1, <2>2, PatchBased
  <2> QED
    BY <2>1, <2>3 DEF BasisInv
<1>8. ASSUME NEW c \in Slots, User(c) PROVE BasisInv'
  <2>1. CASE Create(c)
    BY <1>2, <2>1 DEF Create, Sends, Unchanging, Based
  <2>2. CASE DragEnd(c)
    BY <1>2, <2>2 DEF DragEnd, Sends, BasisInv
  <2>3. CASE Undo(c)
    BY <1>2, <2>3 DEF Undo, Sends, Based
  <2>4. CASE Redo(c)
    BY <1>2, <2>4 DEF Redo, Sends, Based
  <2>5. ASSUME NEW ids \in SUBSET Ids, Delete(c, ids) PROVE BasisInv'
    BY <1>2, <2>5 DEF Delete, Sends, Unchanging, Based
  <2>6. ASSUME NEW i \in Ids, PatchInPanel(c, i) PROVE BasisInv'
    <3>1. Goto(c, Patch(i, projectList[i])) /\ drag' = drag
      BY <2>6 DEF PatchInPanel, Sends, Unchanging
    <3>2. Based(Patch(i, projectList[i]))
      BY <1>0, PatchBased DEF Versions
    <3> QED
      BY <1>2, <3>1, <3>2
  <2>7. ASSUME NEW i \in Ids, PatchSelected(c, i) PROVE BasisInv'
    <3>1. i \in Shown(sheetList) /\ Goto(c, Patch(i, Version(sheetList, i))) /\ drag' = drag
      BY <2>7 DEF PatchSelected, Sends, Unchanging
    <3>2. Version(sheetList, i) \in Nat
      BY <1>0, <3>1, VersionFacts
    <3>3. Based(Patch(i, Version(sheetList, i)))
      BY <3>1, <3>2, PatchBased
    <3> QED
      BY <1>2, <3>1, <3>3
  <2> QED
    BY <1>8, <2>1, <2>2, <2>3, <2>4, <2>5, <2>6, <2>7 DEF User
<1>9. ASSUME NEW c \in Slots, Serve(c) \/ CallFails(c) PROVE BasisInv'
  <2>0. ASSUME NEW r, Serves(c, r), Based(r) PROVE BasisInv'
    BY <1>2, <2>0 DEF Serves
  <2>1. ASSUME NEW i \in Ids, Insert(c, i) PROVE BasisInv'
    BY <2>0, <2>1 DEF Insert, Based
  <2>2. CASE Compare(c)
    <3> DEFINE now == rows[call[c].id].ver
               r == [call[c] EXCEPT !.seen = now, !.pc = "write", !.ver = None]
    <3>1. call[c] \in PatchSet /\ call[c].pc = "sent"
      BY <1>0, <2>2, CallTypes DEF Compare, CallType
    <3>2. r.op = "patch" /\ r.pc = "write" /\ r.seen = now /\ r.basis = call[c].basis
      BY <3>1 DEF PatchSet
    <3>3. Serves(c, Result(c, "error")) \/ Serves(c, Result(c, "conflict")) \/ (Serves(c, r) /\ call[c].ver \in {None, now})
      BY <2>2 DEF Compare
    <3>4. call[c].basis # None => call[c].ver = call[c].basis
      BY <3>1 DEF BasisInv, Based, PatchSet
    <3> HIDE DEF now, r
    <3>5. call[c].ver \in {None, now} => Based(r)
      BY <3>2, <3>4 DEF Based
    <3> QED
      BY <1>3, <2>0, <3>3, <3>5
  <2>3. CASE Write(c)
    BY <1>3, <2>0, <2>3 DEF Write, Based
  <2>4. ASSUME NEW i \in Ids, Remove1(c, i) PROVE BasisInv'
    <3>1. call[c] \in RemovalSet
      BY <1>0, <2>4, CallTypes DEF Remove1, CallType
    <3>2. \A t, d, p : Based(Progress(call[c], t, d, p))
      BY <3>1 DEF Progress, RemovalSet, Based
    <3> DEFINE t == call[c].tried \cup {i}
               d == IF i \in Live THEN call[c].done \cup {i} ELSE call[c].done
               p == IF t # call[c].ids THEN "sent" ELSE IF d = t THEN "ok" ELSE "error"
    <3>3. Serves(c, IF p = "error" THEN Result(c, p) ELSE Progress(call[c], t, d, p))
      BY <2>4 DEF Remove1, Progress
    <3> HIDE DEF t, d, p
    <3> QED
      BY <1>3, <2>0, <3>2, <3>3
  <2>5. CASE CallFails(c)
    BY <1>3, <2>0, <2>5 DEF CallFails
  <2> QED
    BY <1>9, <2>1, <2>2, <2>3, <2>4, <2>5 DEF Serve
<1>10. ASSUME NEW c \in Slots, Respond(c) PROVE BasisInv'
  <2>1. Goto(c, Idle) /\ drag' = drag
    BY <1>10 DEF Respond, CreateOk, RedoOk, PatchOk, PatchConflict, DeleteOk, UndoOk, CallError, Answered
  <2> QED
    BY <1>2, <1>4, <2>1
<1> QED
  BY <1>5, <1>6, <1>7, <1>8, <1>9, <1>10 DEF Next

\* An edit made while the lists are in step replaces the version its author was shown,
\* unless another update came between the comparison and the write.
THEOREM NoneBlind == Spec => []NoBlindOverwrite
<1>1. Init => BasisInv
  BY DEF Init, BasisInv, Based, Idle
<1>2. LoadsOk /\ BasisInv /\ [Next]_vars => BasisInv'
  BY BasisStep, ListsFollow DEF LoadsOk, SyncTypes
<1>3. BasisInv => NoBlindOverwrite
  BY DEF BasisInv, Based, NoBlindOverwrite
<1> QED
  BY <1>1, <1>2, <1>3, LoadsHold, PTL DEF Spec

-----------------------------------------------------------------------------
(* Drawings.  A row holds its drawing while it is live, on the undo stack, *)
(* being undone or just inserted.  Rows that are not saved yet are the     *)
(* only ones that can become holders.                                      *)

Mover(c)   == call[c].op \in {"undo", "redo"}
MovedBy(c) == IF call[c].op = "undo" /\ call[c].pc \in {"sent", "ok"} THEN call[c].ids ELSE {}
Holders    == (Live \ silent) \cup OnUndo \cup UNION {MovedBy(c) \cup InsertedBy(c) : c \in Slots}

\* A row that is saved by this step: under its own drawing, or by a redo.
Born(i) ==
    /\ i \in Ids /\ ~Saved(i)
    /\ rows'[i].drawing = i \/ \E c \in Slots : call[c].op = "redo" /\ Insert(c, i)

Advance ==
    /\ RowsKept /\ silent \subseteq silent'
    /\ \A i \in Live' : i \in Live \/ Born(i)
    /\ \A i \in OnUndo' : i \in OnUndo \/ \E c \in Slots : i \in InsertedBy(c) /\ InsertedBy(c)' = {}
    /\ \A c \in Slots : \A i \in InsertedBy(c)' : i \in InsertedBy(c) \/ (Born(i) /\ Insert(c, i))
    /\ \A c \in Slots : \A i \in MovedBy(c)' : i \in MovedBy(c) \/ (i \in OnUndo /\ Undo(c))

LEMMA AdvanceStays ==
    ASSUME RowsType, UNCHANGED <<data, call>>, silent \subseteq silent', OnUndo' \subseteq OnUndo
    PROVE  Advance
<1>1. RowsKept /\ Live' = Live
  BY DEF data, RowsKept, Saved, Live
<1>2. \A c \in Slots : InsertedBy(c)' = InsertedBy(c) /\ MovedBy(c)' = MovedBy(c)
  BY DEF InsertedBy, MovedBy
<1> QED
  BY <1>1, <1>2 DEF Advance

\* What the user sends: nothing to move, an undo, or a redo.
SentBy(c) ==
    \/ ~Mover(c)' /\ redo' = redo /\ overlap' = overlap
    \/ Undo(c) /\ call'[c].op = "undo" /\ call'[c].pc = "sent" /\ call'[c].ids = {Last(undo)}
    \/ /\ Redo(c) /\ redo' = redo
       /\ call'[c].op = "redo" /\ call'[c].pc = "sent" /\ call'[c].drawing = Last(redo).drawing

LEMMA AdvanceUser ==
    ASSUME TypeOK, SavedInv, NEW c \in Slots, User(c)
    PROVE  Advance /\ SentBy(c) /\ ~Mover(c) /\ \A d \in Slots \ {c} : call'[d] = call[d]
<1>0. CallType /\ undo \in Seq(Ids) /\ (drag = Idle \/ (drag \in PatchSet /\ drag.pc = "sent"))
  BY TypeParts DEF Types
<1>1. UNCHANGED <<data, undo, silent>> /\ call[c] = Idle
  BY DEF User, Create, DragEnd, Undo, Redo, PatchInPanel, PatchSelected, Delete, Sends, Unchanging, stacks
<1>2. RowsKept /\ Live' = Live /\ OnUndo' = OnUndo
  BY <1>1 DEF data, RowsKept, Saved, Live, OnUndo
<1>3. ASSUME NEW r, Goto(c, r), r.pc = "sent",
             \/ r.op \notin {"undo", "redo"} /\ redo' = redo /\ overlap' = overlap
             \/ r.op = "undo" /\ Undo(c) /\ r.ids = {Last(undo)}
             \/ r.op = "redo" /\ Redo(c) /\ redo' = redo /\ r.drawing = Last(redo).drawing
      PROVE  Advance /\ SentBy(c) /\ ~Mover(c) /\ \A d \in Slots \ {c} : call'[d] = call[d]
  <2>1. call'[c] = r /\ \A d \in Slots \ {c} : call'[d] = call[d]
    BY <1>0, <1>3, GotoFacts DEF CallType
  <2>2. \A d \in Slots \ {c} : InsertedBy(d)' = InsertedBy(d) /\ MovedBy(d)' = MovedBy(d)
    BY <2>1 DEF InsertedBy, MovedBy
  <2>3. InsertedBy(c)' = {} /\ MovedBy(c)' = IF r.op = "undo" THEN r.ids ELSE {}
    BY <1>3, <2>1 DEF InsertedBy, MovedBy
  <2>4. Undo(c) => Last(undo) \in OnUndo
    BY <1>0, SeqFacts DEF Undo, OnUndo
  <2>5. Advance
    BY <1>1, <1>2, <1>3, <2>2, <2>3, <2>4 DEF Advance
  <2>6. ~Mover(c)
    BY <1>1 DEF Mover, Idle
  <2>7. SentBy(c)
    BY <1>3, <2>1 DEF Mover, SentBy
  <2> QED
    BY <2>1, <2>5, <2>6, <2>7
<1>4. CASE Undo(c)
  <2> DEFINE r == [op |-> "undo", pc |-> "sent", sheet |-> sheet, ids |-> {Last(undo)}, tried |-> {}, done |-> {}]
  <2>1. Goto(c, r)
    BY <1>4 DEF Undo, Sends
  <2>2. r.pc = "sent" /\ r.op = "undo" /\ r.ids = {Last(undo)}
    OBVIOUS
  <2> HIDE DEF r
  <2> QED
    BY <1>3, <1>4, <2>1, <2>2
<1>5. CASE Redo(c)
  <2> DEFINE r == [op |-> "redo", pc |-> "sent", sheet |-> sheet, on |-> Last(redo).on, drawing |-> Last(redo).drawing]
  <2>1. Goto(c, r) /\ redo' = redo
    BY <1>5 DEF Redo, Sends, stacks
  <2>2. r.pc = "sent" /\ r.op = "redo" /\ r.drawing = Last(redo).drawing
    OBVIOUS
  <2> HIDE DEF r
  <2> QED
    BY <1>3, <1>5, <2>1, <2>2
<1>6. CASE ~Undo(c) /\ ~Redo(c)
  <2>0. redo' = redo /\ overlap' = overlap
    BY <1>6 DEF User, Create, DragEnd, PatchInPanel, PatchSelected, Delete, Unchanging, stacks
  <2>1. \E r : Goto(c, r) /\ r.pc = "sent" /\ r.op \notin {"undo", "redo"}
    <3>1. CASE Create(c)
      BY <3>1 DEF Create, Sends
    <3>2. CASE DragEnd(c)
      <4>1. drag \in PatchSet /\ drag.pc = "sent" /\ Goto(c, drag)
        BY <1>0, <3>2 DEF DragEnd, Sends
      <4> QED
        BY <4>1 DEF PatchSet
    <3>3. CASE \E i \in Ids : PatchInPanel(c, i) \/ PatchSelected(c, i)
      <4>1. \E i, b : Goto(c, Patch(i, b))
        BY <3>3 DEF PatchInPanel, PatchSelected, Sends
      <4>2. \A i, b : Patch(i, b).pc = "sent" /\ Patch(i, b).op = "patch"
        BY DEF Patch
      <4> QED
        BY <4>1, <4>2
    <3>4. CASE \E ids \in SUBSET Ids : Delete(c, ids)
      BY <3>4 DEF Delete, Sends
    <3> QED
      BY <1>6, <3>1, <3>2, <3>3, <3>4 DEF User
  <2> QED
    BY <1>3, <2>0, <2>1
<1> QED
  BY <1>4, <1>5, <1>6

LEMMA LiveServed ==
    ASSUME TypeOK, NEW c \in Slots, Serve(c) \/ CallFails(c)
    PROVE  /\ \A i \in Live' : i \in Live \/ Insert(c, i)
           /\ \A i \in Ids : Insert(c, i) => ~Saved(i) /\ i \in Ids /\ (call[c].op # "redo" => rows'[i].drawing = i)
                                             /\ (call[c].op = "redo" => rows'[i].drawing = call[c].drawing)
<1>0. CallType /\ RowsType
  BY TypeParts DEF Types
<1>1. ASSUME UNCHANGED data PROVE Live' = Live
  BY <1>1 DEF data, Live
<1>2. ASSUME NEW i \in Ids, Insert(c, i)
      PROVE  /\ \A j \in Live' : j \in Live \/ j = i
             /\ ~Saved(i) /\ (call[c].op # "redo" => rows'[i].drawing = i) /\ (call[c].op = "redo" => rows'[i].drawing = call[c].drawing)
  <2> DEFINE row == [ver |-> 1, sheet |-> call[c].on, drawing |-> IF call[c].drawing = None THEN i ELSE call[c].drawing]
  <2>1. call[c].op \in {"create", "redo"} /\ call[c].pc = "sent" /\ i \in Unused /\ rows' = [rows EXCEPT ![i] = row]
    BY <1>2 DEF Insert, Inserting, Changed
  <2>2. row.drawing = IF call[c].drawing = None THEN i ELSE call[c].drawing
    OBVIOUS
  <2> HIDE DEF row
  <2>3. rows'[i] = row /\ \A j \in Ids \ {i} : rows'[j] = rows[j]
    BY <1>0, <2>1 DEF RowsType
  <2>4. call[c].op = "create" => call[c].drawing = None
    <3>1. call[c] \in Requests \cup {Idle}
      BY <1>0 DEF CallType
    <3> QED
      BY <2>1, <3>1 DEF Requests, Idle
  <2>5. call[c].op = "redo" => call[c].drawing # None
    BY <1>0, <2>1, CallTypes DEF CallType, Ids, None
  <2> QED
    BY <2>1, <2>2, <2>3, <2>4, <2>5 DEF Live, Unused, Saved
<1>3. ASSUME NEW i \in Live, NEW v, Changed(i, [rows[i] EXCEPT !.ver = v]) PROVE \A j \in Live' : j \in Live
  <2>1. rows' = [rows EXCEPT ![i] = [rows[i] EXCEPT !.ver = v]]
    BY <1>3 DEF Changed
  <2>2. \A j \in Ids \ {i} : rows'[j] = rows[j]
    BY <1>0, <2>1 DEF RowsType
  <2> QED
    BY <2>2 DEF Live
<1>4. CASE Write(c)
  <2>1. UNCHANGED data \/ (call[c].id \in Live /\ Changed(call[c].id, [rows[call[c].id] EXCEPT !.ver = @ + 1]))
    BY <1>4 DEF Write
  <2> QED
    BY <1>1, <1>2, <1>3, <2>1
<1>5. ASSUME NEW i \in Ids, Remove1(c, i)
      PROVE  \A j \in Live' : j \in Live
  <2>1. UNCHANGED data \/ (i \in Live /\ Changed(i, [rows[i] EXCEPT !.ver = 0]))
    BY <1>5 DEF Remove1
  <2> QED
    BY <1>1, <1>3, <2>1
<1>6. CASE Compare(c) \/ CallFails(c)
  BY <1>1, <1>2, <1>6 DEF Compare, CallFails
<1> QED
  BY <1>2, <1>4, <1>5, <1>6 DEF Serve

\* What the server does to a request of an undo or a redo.
ServedAs(c) ==
    \/ call'[c].op = call[c].op /\ call'[c].pc = "error" /\ call[c].pc \in {"sent", "ok"}
       /\ (call[c].op = "redo" /\ call[c].pc = "ok" => call[c].id \in silent')
    \/ \E i \in Ids : Insert(c, i) /\ call'[c].id = i /\ call'[c].pc = "ok" /\ call'[c].op = call[c].op
    \/ call[c].op \notin {"undo", "redo"} /\ call'[c].op \notin {"undo", "redo"}
    \/ /\ call[c].op = "undo" /\ call'[c].op = "undo" /\ call[c].pc = "sent"
       /\ call'[c].pc \in {"sent", "ok"} /\ call'[c].ids = call[c].ids
       /\ call'[c].pc = "ok" /\ (\A i, j \in call[c].ids : i = j) => call[c].ids \cap Live' = {}

LEMMA AdvanceServer ==
    ASSUME TypeOK, SavedInv, RemovalsInv, NEW c \in Slots, Serve(c) \/ CallFails(c)
    PROVE  Advance /\ ServedAs(c) /\ (\A d \in Slots \ {c} : call'[d] = call[d]) /\ UNCHANGED <<undo, redo>>
<1>0. CallType /\ RowsType
  BY TypeParts DEF Types
<1>1. /\ RowsKept
      /\ \A i \in Live' : i \in Live \/ Insert(c, i)
      /\ \A i \in Ids : Insert(c, i) => ~Saved(i) /\ i \in Ids /\ (call[c].op # "redo" => rows'[i].drawing = i)
  BY ServeRows, LiveServed
<1>2. \A i \in Ids : Insert(c, i) => Born(i)
  BY <1>1 DEF Born
<1>3. \A i \in Live' : i \in Ids
  BY DEF Live
<1>4. ASSUME NEW r, Serves(c, r), silent \subseteq silent',
             InsertedBy(c)' = {} \/ (InsertedBy(c)' = InsertedBy(c)) \/ (\E i \in Ids : Insert(c, i) /\ InsertedBy(c)' = {i}),
             MovedBy(c)' \subseteq MovedBy(c)
      PROVE  Advance /\ (\A d \in Slots \ {c} : call'[d] = call[d]) /\ UNCHANGED <<undo, redo>>
  <2>1. call'[c] = r /\ (\A d \in Slots \ {c} : call'[d] = call[d]) /\ UNCHANGED <<undo, redo>>
    BY <1>0, <1>4, GotoFacts DEF Serves, CallType, stacks
  <2>2. \A d \in Slots \ {c} : InsertedBy(d)' = InsertedBy(d) /\ MovedBy(d)' = MovedBy(d)
    BY <2>1 DEF InsertedBy, MovedBy
  <2>3. OnUndo' = OnUndo
    BY <2>1 DEF OnUndo
  <2>4. \A i \in Live' : i \in Live \/ Born(i)
    BY <1>1, <1>2, <1>3
  <2>5. \A d \in Slots : \A i \in InsertedBy(d)' : i \in InsertedBy(d) \/ (Born(i) /\ Insert(d, i))
    BY <1>2, <1>4, <2>2
  <2> QED
    BY <1>1, <1>4, <2>1, <2>2, <2>3, <2>4, <2>5 DEF Advance
<1>5. ASSUME NEW pc \in {"error", "conflict"}, Serves(c, Result(c, pc)), silent \subseteq silent'
      PROVE  Advance /\ (\A d \in Slots \ {c} : call'[d] = call[d]) /\ UNCHANGED <<undo, redo>>
             /\ call'[c].op = call[c].op /\ call'[c].pc = pc
  <2>1. call'[c] = Result(c, pc)
    BY <1>0, <1>5, GotoFacts DEF Serves, CallType
  <2>2. call'[c].op = call[c].op /\ call'[c].pc = pc
    BY <2>1 DEF Result
  <2>3. InsertedBy(c)' = {} /\ MovedBy(c)' = {}
    BY <2>2 DEF InsertedBy, MovedBy
  <2> QED
    BY <1>4, <1>5, <2>2, <2>3
<1>6. ASSUME NEW i \in Ids, Insert(c, i)
      PROVE  Advance /\ ServedAs(c) /\ (\A d \in Slots \ {c} : call'[d] = call[d]) /\ UNCHANGED <<undo, redo>>
  <2> DEFINE r == [op |-> call[c].op, pc |-> "ok", sheet |-> call[c].sheet, id |-> i]
  <2>1. Serves(c, r) /\ UNCHANGED silent /\ call[c].op \in {"create", "redo"}
    BY <1>6 DEF Insert, Inserting
  <2>2. r.op = call[c].op /\ r.pc = "ok" /\ r.id = i
    OBVIOUS
  <2> HIDE DEF r
  <2>3. call'[c] = r
    BY <1>0, <2>1, GotoFacts DEF Serves, CallType
  <2>4. InsertedBy(c)' = {i} /\ MovedBy(c)' = {}
    BY <2>1, <2>2, <2>3 DEF InsertedBy, MovedBy
  <2>5. ServedAs(c)
    BY <1>6, <2>2, <2>3 DEF ServedAs
  <2> QED
    BY <1>4, <1>6, <2>1, <2>4, <2>5
<1>7. CASE Compare(c)
  <2>1. call[c] \in PatchSet /\ call[c].pc = "sent"
    BY <1>0, <1>7, CallTypes DEF Compare, CallType
  <2> DEFINE r == [call[c] EXCEPT !.seen = rows[call[c].id].ver, !.pc = "write", !.ver = None]
  <2>2. r.op = "patch"
    BY <2>1 DEF PatchSet
  <2>3. UNCHANGED silent /\ (Serves(c, r) \/ Serves(c, Result(c, "error")) \/ Serves(c, Result(c, "conflict")))
    BY <1>7 DEF Compare
  <2>4. call[c].op = "patch"
    BY <2>1 DEF PatchSet
  <2> HIDE DEF r
  <2>5. CASE Serves(c, r)
    <3>1. call'[c] = r
      BY <1>0, <2>5, GotoFacts DEF Serves, CallType
    <3>2. InsertedBy(c)' = {} /\ MovedBy(c)' = {} /\ ServedAs(c)
      BY <2>2, <2>4, <3>1 DEF InsertedBy, MovedBy, ServedAs
    <3> QED
      BY <1>4, <2>3, <2>5, <3>2
  <2>6. CASE Serves(c, Result(c, "error")) \/ Serves(c, Result(c, "conflict"))
    <3>1. Advance /\ (\A d \in Slots \ {c} : call'[d] = call[d]) /\ UNCHANGED <<undo, redo>> /\ call'[c].op = call[c].op
      BY <1>5, <2>3, <2>6
    <3>2. ServedAs(c)
      BY <2>4, <3>1 DEF ServedAs
    <3> QED
      BY <3>1, <3>2
  <2> QED
    BY <2>3, <2>5, <2>6
<1>8. CASE Write(c)
  <2>1. call[c].op = "patch" /\ UNCHANGED silent
    BY <1>8 DEF Write
  <2>2. \E r : Serves(c, r) /\ r.op = "patch"
    <3>1. Result(c, "error").op = "patch"
      BY <2>1 DEF Result
    <3> QED
      BY <1>8, <3>1 DEF Write
  <2>3. PICK r : Serves(c, r) /\ r.op = "patch"
    BY <2>2
  <2>4. call'[c] = r
    BY <1>0, <2>3, GotoFacts DEF Serves, CallType
  <2>5. InsertedBy(c)' = {} /\ MovedBy(c)' = {} /\ ServedAs(c)
    BY <2>1, <2>3, <2>4 DEF InsertedBy, MovedBy, ServedAs
  <2> QED
    BY <1>4, <2>1, <2>3, <2>5
<1>9. ASSUME NEW i \in Ids, Remove1(c, i)
      PROVE  Advance /\ ServedAs(c) /\ (\A d \in Slots \ {c} : call'[d] = call[d]) /\ UNCHANGED <<undo, redo>>
  <2>1. call[c] \in RemovalSet /\ call[c].pc = "sent" /\ i \in call[c].ids \ call[c].tried
    BY <1>0, <1>9, CallTypes DEF Remove1, CallType
  <2>2. call[c].done \subseteq call[c].tried /\ call[c].tried \subseteq call[c].ids
    BY <2>1 DEF RemovalSet, RemovalsInv
  <2> DEFINE t == call[c].tried \cup {i}
             d == IF i \in Live THEN call[c].done \cup {i} ELSE call[c].done
             p == IF t # call[c].ids THEN "sent" ELSE IF d = t THEN "ok" ELSE "error"
             r == Progress(call[c], t, d, p)
  <2>3. /\ Serves(c, IF p = "error" THEN Result(c, p) ELSE r)
        /\ silent' = IF p = "error" THEN silent \cup d ELSE silent
        /\ i \in Live => rows' = [rows EXCEPT ![i] = [rows[i] EXCEPT !.ver = 0]]
    BY <1>9 DEF Remove1, Progress, Changed
  <2>4. r.op = call[c].op /\ r.op \in {"delete", "undo"} /\ r.pc = p /\ r.ids = call[c].ids
    BY <2>1 DEF Progress, RemovalSet
  <2>5. p # "error" => p \in {"sent", "ok"}
    OBVIOUS
  <2>6. i \in Live => i \notin Live'
    <3>1. rows[i] \in RowSet
      BY <1>0 DEF RowsType
    <3>2. [rows[i] EXCEPT !.ver = 0].ver = 0
      BY <3>1 DEF RowSet
    <3>3. i \in Live => rows'[i].ver = 0
      BY <1>0, <2>3, <3>2 DEF RowsType
    <3> QED
      BY <3>3 DEF Live
  <2>7. p = "ok" => i \in Live
    BY <2>1, <2>2
  <2> HIDE DEF t, d, p, r
  <2>8. CASE p = "error"
    <3>1. Advance /\ (\A e \in Slots \ {c} : call'[e] = call[e]) /\ UNCHANGED <<undo, redo>>
          /\ call'[c].op = call[c].op /\ call'[c].pc = p
      BY <1>5, <2>3, <2>8
    <3>2. ServedAs(c)
      BY <2>1, <2>8, <3>1 DEF ServedAs
    <3> QED
      BY <3>1, <3>2
  <2>9. CASE p # "error"
    <3>1. Serves(c, r) /\ silent' = silent
      BY <2>3, <2>9
    <3>2. call'[c] = r
      BY <1>0, <3>1, GotoFacts DEF Serves, CallType
    <3>3. InsertedBy(c)' = {} /\ MovedBy(c)' = MovedBy(c)
      BY <2>1, <2>4, <2>5, <2>9, <3>2 DEF InsertedBy, MovedBy, RemovalSet
    <3>4. p = "ok" /\ (\A j, k \in call[c].ids : j = k) => call[c].ids \cap Live' = {}
      BY <2>1, <2>6, <2>7
    <3>5. ServedAs(c)
      BY <2>1, <2>4, <2>5, <2>9, <3>2, <3>4 DEF ServedAs
    <3> QED
      BY <1>4, <3>1, <3>3, <3>5
  <2> QED
    BY <2>8, <2>9
<1>10. CASE CallFails(c)
  <2>1. Serves(c, Result(c, "error")) /\ silent \subseteq silent' /\ call[c].pc \in {"sent", "ok"}
        /\ (call[c].pc = "ok" => silent' = silent \cup Touched(call[c]))
    BY <1>10 DEF CallFails
  <2>2. Advance /\ (\A d \in Slots \ {c} : call'[d] = call[d]) /\ UNCHANGED <<undo, redo>>
        /\ call'[c].op = call[c].op /\ call'[c].pc = "error"
    BY <1>5, <2>1
  <2>3. ServedAs(c)
    BY <2>1, <2>2 DEF ServedAs, Touched
  <2> QED
    BY <2>2, <2>3
<1> QED
  BY <1>6, <1>7, <1>8, <1>9, <1>10 DEF Serve

LEMMA AdvanceAnswer ==
    ASSUME TypeOK, SavedInv, NEW c \in Slots, Respond(c)
    PROVE  /\ Advance /\ call'[c] = Idle /\ (\A d \in Slots \ {c} : call'[d] = call[d])
           /\ UNCHANGED <<data, silent, overlap>> /\ Holders' \subseteq Holders
           /\ InsertedBy(c)' = {} /\ MovedBy(c)' = {}
<1>1. /\ UNCHANGED <<data, silent, overlap>> /\ call'[c] = Idle /\ (\A d \in Slots \ {c} : call'[d] = call[d])
  BY GotoFacts, TypeParts
     DEF Types, Respond, CreateOk, RedoOk, PatchOk, PatchConflict, DeleteOk, UndoOk, CallError, Answered, CallType, history
<1>2. RowsKept /\ Live' = Live
  BY <1>1 DEF data, RowsKept, Saved, Live
<1>3. InsertedBy(c)' = {} /\ MovedBy(c)' = {}
  BY <1>1 DEF InsertedBy, MovedBy, Idle
<1>4. \A d \in Slots \ {c} : InsertedBy(d)' = InsertedBy(d) /\ MovedBy(d)' = MovedBy(d)
  BY <1>1 DEF InsertedBy, MovedBy
<1>5. \A i \in OnUndo' : i \in OnUndo \/ i \in InsertedBy(c)
  BY UndoAnswered
<1>6. Advance
  BY <1>1, <1>2, <1>3, <1>4, <1>5 DEF Advance
<1>7. Holders' \subseteq Holders
  BY <1>1, <1>2, <1>3, <1>4, <1>5 DEF Holders
<1> QED
  BY <1>1, <1>3, <1>6, <1>7

LEMMA AdvanceRest ==
    ASSUME TypeOK, SavedInv,
           \/ UNCHANGED vars \/ TimerFires \/ EventArrives \/ Collaborator \/ DragAbandoned
           \/ (\E i \in Ids : DragStart(i)) \/ (\E s \in Sheets : SwitchSheet(s))
           \/ \E l \in BagToSet(loads) : Read(l) \/ Land(l) \/ LoadFails(l)
    PROVE  Advance /\ UNCHANGED <<call, overlap>> /\ redo' \in {redo, <<>>}
<1>0. RowsType
  BY TypeParts DEF Types
<1>1. CASE UNCHANGED vars \/ TimerFires \/ EventArrives \/ DragAbandoned \/ \E i \in Ids : DragStart(i)
  <2>1. UNCHANGED <<data, call, undo, redo, silent, overlap>>
    BY <1>1 DEF vars, TimerFires, EventArrives, DragAbandoned, DragStart, stacks, history
  <2>2. OnUndo' = OnUndo
    BY <2>1 DEF OnUndo
  <2> QED
    BY <1>0, <2>1, <2>2, AdvanceStays
<1>2. CASE \E s \in Sheets : SwitchSheet(s)
  <2>1. UNCHANGED <<data, call, silent, overlap>> /\ redo' = <<>> /\ undo' = <<>>
    BY <1>2 DEF SwitchSheet, history
  <2>2. OnUndo' = {}
    BY <2>1 DEF OnUndo
  <2> QED
    BY <1>0, <2>1, <2>2, AdvanceStays
<1>3. ASSUME NEW l \in BagToSet(loads), Land(l) \/ LoadFails(l)
      PROVE  Advance /\ UNCHANGED <<call, overlap>> /\ redo' \in {redo, <<>>}
  <2>1. UNCHANGED <<data, call, redo, silent, overlap>>
    BY <1>3 DEF Land, LoadFails, Arrives
  <2>2. OnUndo' \subseteq OnUndo
    BY <1>3, UndoArrives
  <2> QED
    BY <1>0, <2>1, <2>2, AdvanceStays
<1>4. ASSUME NEW l \in BagToSet(loads), Read(l)
      PROVE  Advance /\ UNCHANGED <<call, overlap>> /\ redo' \in {redo, <<>>}
  <2>1. UNCHANGED <<data, call, undo, redo, silent, overlap>>
    BY <1>4, Zenon DEF Read, stacks, history
  <2>2. OnUndo' = OnUndo
    BY <2>1 DEF OnUndo
  <2> QED
    BY <1>0, <2>1, <2>2, AdvanceStays
<1>5. CASE Collaborator
  <2>1. RowsKept
    BY <1>5, CollaboratorRows
  <2>2. UNCHANGED <<call, undo, redo, silent, overlap>>
    BY <1>5 DEF Collaborator, stacks, history
  <2>3. OnUndo' = OnUndo /\ \A c \in Slots : InsertedBy(c)' = InsertedBy(c) /\ MovedBy(c)' = MovedBy(c)
    BY <2>2 DEF OnUndo, InsertedBy, MovedBy
  <2>4. ASSUME NEW i \in Live, NEW w, Changed(i, [rows[i] EXCEPT !.ver = w])
        PROVE  \A j \in Live' : j \in Live
    <3>1. \A j \in Ids \ {i} : rows'[j] = rows[j]
      <4>1. rows' = [rows EXCEPT ![i] = [rows[i] EXCEPT !.ver = w]]
        BY <2>4 DEF Changed
      <4> QED
        BY <1>0, <4>1 DEF RowsType
    <3> QED
      BY <3>1 DEF Live
  <2>5. ASSUME NEW i \in Unused, NEW s \in Sheets, Changed(i, [ver |-> 1, sheet |-> s, drawing |-> i])
        PROVE  \A j \in Live' : j \in Live \/ Born(j)
    <3>1. i \in Ids /\ ~Saved(i)
      BY DEF Unused, Saved
    <3>2. rows'[i].drawing = i /\ \A j \in Ids \ {i} : rows'[j] = rows[j]
      BY <1>0, <2>5, <3>1 DEF Changed, RowsType
    <3> QED
      BY <3>1, <3>2 DEF Live, Born
  <2>6. \A j \in Live' : j \in Live \/ Born(j)
    BY <1>5, <2>4, <2>5 DEF Collaborator
  <2> QED
    BY <2>1, <2>2, <2>3, <2>6 DEF Advance
<1> QED
  BY <1>1, <1>2, <1>3, <1>4, <1>5

LEMMA HoldersAdvance ==
    ASSUME Advance
    PROVE  \A i \in Holders' : i \in Holders \/ Born(i)
<1>1. \A i \in Live' \ silent' : i \in Holders \/ Born(i)
  BY DEF Advance, Holders
<1>2. \A i \in OnUndo' : i \in Holders \/ Born(i)
  BY DEF Advance, Holders
<1>3. \A c \in Slots : \A i \in MovedBy(c)' \cup InsertedBy(c)' : i \in Holders \/ Born(i)
  BY DEF Advance, Holders
<1> QED
  BY <1>1, <1>2, <1>3 DEF Holders

\* Who holds a row is clear: an undo takes one row, and a row just inserted is not on the
\* undo stack yet.
Single(S) == S # {} /\ \A i, j \in S : i = j
HoldersInv ==
    /\ \A c \in Slots : call[c].op = "undo" /\ call[c].pc \in {"sent", "ok"} =>
          Single(call[c].ids) /\ (call[c].pc = "ok" => call[c].ids \cap Live = {})
    /\ \A c \in Slots : \A i \in MovedBy(c) : Saved(i)
    /\ \A c \in Slots : InsertedBy(c) \cap OnUndo = {}
    /\ \A c, d \in Slots : InsertedBy(c) \cap MovedBy(d) = {} /\ (c # d => InsertedBy(c) \cap InsertedBy(d) = {})

LEMMA HoldersSaved ==
    ASSUME TypeOK, SavedInv, HoldersInv
    PROVE  \A i \in Holders : i \in Ids /\ Saved(i)
<1>0. CallType /\ undo \in Seq(Ids)
  BY TypeParts DEF Types
<1>1. \A i \in Live : i \in Ids /\ Saved(i)
  BY LiveSaved
<1>2. \A i \in OnUndo : i \in Ids /\ Saved(i)
  BY <1>0 DEF OnUndo, SavedInv
<1>3. \A c \in Slots : \A i \in MovedBy(c) : i \in Ids /\ Saved(i)
  BY <1>0, CallTypes DEF MovedBy, CallType, RemovalSet, HoldersInv
<1>4. \A c \in Slots : \A i \in InsertedBy(c) : i \in Ids /\ Saved(i)
  BY <1>0, CallTypes DEF InsertedBy, CallType, SavedInv
<1> QED
  BY <1>1, <1>2, <1>3, <1>4 DEF Holders

\* One request moves, and an undo that is under way takes one row that stays dead.
LEMMA HoldersFollow ==
    ASSUME TypeOK, SavedInv, HoldersInv, Advance,
           \A c, d \in Slots : c # d => call'[c] = call[c] \/ call'[d] = call[d],
           \A c \in Slots : call'[c].op = "undo" /\ call'[c].pc \in {"sent", "ok"} =>
              \/ call'[c] = call[c]
              \/ Single(call'[c].ids) /\ (call'[c].pc = "ok" => call'[c].ids \cap Live' = {})
    PROVE  HoldersInv'
<1>1. \A i \in Holders : i \in Ids /\ Saved(i)
  BY HoldersSaved
<1>2. \A c \in Slots : \A i \in MovedBy(c) \cup InsertedBy(c) : i \in Holders
  BY DEF Holders
<1>3. \A i \in OnUndo : i \in Holders
  BY DEF Holders
<1>4. \A c \in Slots : \A i \in MovedBy(c)' : i \in Ids /\ Saved(i) /\ (i \in MovedBy(c) \/ i \in OnUndo)
  BY <1>1, <1>2, <1>3 DEF Advance
<1>5. \A c \in Slots : \A i \in InsertedBy(c)' : i \in InsertedBy(c) \/ ~Saved(i)
  BY DEF Advance, Born
<1>6. \A c \in Slots : \A i \in MovedBy(c)' : Saved(i)'
  BY <1>4 DEF Advance, RowsKept
<1>7. \A c \in Slots : call'[c].op = "undo" /\ call'[c].pc \in {"sent", "ok"} =>
          Single(call'[c].ids) /\ (call'[c].pc = "ok" => call'[c].ids \cap Live' = {})
  <2> SUFFICES ASSUME NEW c \in Slots, call'[c].op = "undo", call'[c].pc \in {"sent", "ok"}, call'[c] = call[c]
               PROVE  Single(call'[c].ids) /\ (call'[c].pc = "ok" => call'[c].ids \cap Live' = {})
    OBVIOUS
  <2>1. Single(call[c].ids) /\ (call[c].pc = "ok" => call[c].ids \cap Live = {})
    BY DEF HoldersInv
  <2>2. \A i \in call[c].ids : Saved(i)
    BY DEF HoldersInv, MovedBy
  <2>3. \A i \in Live' : Saved(i) => i \in Live
    BY DEF Advance, Born
  <2> QED
    BY <2>1, <2>2, <2>3
<1>8. \A c \in Slots : InsertedBy(c)' \cap OnUndo' = {}
  <2> SUFFICES ASSUME NEW c \in Slots, NEW i \in InsertedBy(c)', i \in OnUndo' PROVE FALSE
    OBVIOUS
  <2>1. i \in OnUndo \/ \E d \in Slots : i \in InsertedBy(d) /\ InsertedBy(d)' = {}
    BY DEF Advance
  <2>2. Saved(i)
    BY <1>1, <1>2, <1>3, <2>1
  <2>3. i \in InsertedBy(c)
    BY <1>5, <2>2
  <2>4. \E d \in Slots : d # c /\ i \in InsertedBy(d)
    BY <2>1, <2>3 DEF HoldersInv
  <2> QED
    BY <2>3, <2>4 DEF HoldersInv
<1>9. ASSUME NEW c \in Slots, NEW d \in Slots PROVE InsertedBy(c)' \cap MovedBy(d)' = {}
  BY <1>4, <1>5 DEF HoldersInv
<1>10. ASSUME NEW c \in Slots, NEW d \in Slots, c # d PROVE InsertedBy(c)' \cap InsertedBy(d)' = {}
  <2> SUFFICES ASSUME NEW i \in InsertedBy(c)', i \in InsertedBy(d)' PROVE FALSE
    OBVIOUS
  <2>1. InsertedBy(c)' = InsertedBy(c) \/ InsertedBy(d)' = InsertedBy(d)
    BY <1>10 DEF InsertedBy
  <2>2. Saved(i)
    BY <1>1, <1>2, <2>1
  <2>3. i \in InsertedBy(c) /\ i \in InsertedBy(d)
    BY <1>5, <2>2
  <2> QED
    BY <1>10, <2>3 DEF HoldersInv
<1> QED
  BY <1>6, <1>7, <1>8, <1>9, <1>10 DEF HoldersInv

LEMMA HoldersStep ==
    ASSUME TypeOK, SavedInv, RemovalsInv, HoldersInv, [Next]_vars
    PROVE  HoldersInv'
<1>1. ASSUME NEW c \in Slots, User(c) PROVE HoldersInv'
  <2>1. Advance /\ SentBy(c) /\ ~Mover(c) /\ \A d \in Slots \ {c} : call'[d] = call[d]
    BY <1>1, AdvanceUser
  <2>2. call'[c].op = "undo" => call'[c].pc = "sent" /\ Single(call'[c].ids)
    BY <2>1 DEF SentBy, Mover, Single
  <2> QED
    BY <2>1, <2>2, HoldersFollow
<1>2. ASSUME NEW c \in Slots, Serve(c) \/ CallFails(c) PROVE HoldersInv'
  <2>1. Advance /\ ServedAs(c) /\ (\A d \in Slots \ {c} : call'[d] = call[d])
    BY <1>2, AdvanceServer
  <2>2. ASSUME call'[c].op = "undo", call'[c].pc \in {"sent", "ok"}
        PROVE  Single(call'[c].ids) /\ (call'[c].pc = "ok" => call'[c].ids \cap Live' = {})
    <3>1. \A i \in Ids : Insert(c, i) => call[c].op \in {"create", "redo"}
      BY DEF Insert, Inserting
    <3>2. call[c].op = "undo" /\ call[c].pc = "sent" /\ call'[c].ids = call[c].ids
      BY <2>1, <2>2, <3>1 DEF ServedAs
    <3>3. Single(call[c].ids)
      BY <3>2 DEF HoldersInv
    <3>4. call'[c].pc = "ok" => call[c].ids \cap Live' = {}
      BY <2>1, <2>2, <3>1, <3>2, <3>3 DEF ServedAs, Single
    <3> QED
      BY <3>2, <3>3, <3>4
  <2> QED
    BY <2>1, <2>2, HoldersFollow
<1>3. ASSUME NEW c \in Slots, Respond(c) PROVE HoldersInv'
  <2>1. Advance /\ call'[c] = Idle /\ (\A d \in Slots \ {c} : call'[d] = call[d])
    BY <1>3, AdvanceAnswer
  <2>2. call'[c].op # "undo"
    BY <2>1 DEF Idle
  <2> QED
    BY <2>1, <2>2, HoldersFollow
<1>4. CASE \/ UNCHANGED vars \/ TimerFires \/ EventArrives \/ Collaborator \/ DragAbandoned
           \/ (\E i \in Ids : DragStart(i)) \/ (\E s \in Sheets : SwitchSheet(s))
           \/ \E l \in BagToSet(loads) : Read(l) \/ Land(l) \/ LoadFails(l)
  <2>1. Advance /\ UNCHANGED call
    BY <1>4, AdvanceRest
  <2> QED
    BY <2>1, HoldersFollow
<1> QED
  BY <1>1, <1>2, <1>3, <1>4 DEF Next

\* While no undo or redo overlaps another one: a drawing has one holder, is once on the
\* redo stack, and is in both places only at the top, while its undo or redo is under way.
MovesInv ==
    /\ \A c, d \in Slots : Mover(c) /\ Mover(d) => c = d
    /\ \A i, j \in Holders : rows[i].drawing = rows[j].drawing => i = j
    /\ \A j, k \in DOMAIN redo : redo[j].drawing = redo[k].drawing => j = k
    /\ \A k \in DOMAIN redo, i \in Holders : redo[k].drawing = rows[i].drawing =>
           k = Len(redo) /\ \E c \in Slots : call[c].op = "undo" \/ (call[c].op = "redo" /\ call[c].pc = "ok")
    /\ \A c \in Slots : redo # <<>> => \A i \in MovedBy(c) : Last(redo).drawing = rows[i].drawing
    /\ \A c \in Slots : call[c].op = "redo" /\ call[c].pc = "ok" /\ redo # <<>> =>
           Last(redo).drawing = rows[call[c].id].drawing
    /\ \A c \in Slots : call[c].op = "redo" /\ call[c].pc = "sent" =>
           /\ \A i \in Holders : rows[i].drawing # call[c].drawing
           /\ redo # <<>> => Last(redo).drawing = call[c].drawing

\* Undo and redo stand still: other requests may only save rows under their own drawing.
LEMMA MovesQuiet ==
    ASSUME TypeOK, SavedInv, HoldersInv, MovesInv, Advance, redo' \in {redo, <<>>},
           \A c \in Slots : call'[c] = call[c] \/ (~Mover(c) /\ ~Mover(c)'),
           \A c \in Slots, i \in Ids : call[c].op = "redo" => ~Insert(c, i)
    PROVE  MovesInv'
<1>0. redo \in Seq(Entry) /\ CallType
  BY TypeParts DEF Types
<1>1. \A i \in Holders : i \in Ids /\ Saved(i) /\ rows'[i].drawing = rows[i].drawing /\ Saved(rows[i].drawing)
  BY HoldersSaved DEF Advance, RowsKept, SavedInv
<1>2. \A i \in Holders' : i \in Holders \/ (~Saved(i) /\ rows'[i].drawing = i)
  BY HoldersAdvance DEF Born
<1>3. \A c \in Slots : Mover(c)' => call'[c] = call[c] /\ Mover(c)
  BY DEF Mover
<1>4. \A c, d \in Slots : Mover(c)' /\ Mover(d)' => c = d
  BY <1>3 DEF MovesInv
<1>5. \A i, j \in Holders' : rows'[i].drawing = rows'[j].drawing => i = j
  <2> SUFFICES ASSUME NEW i \in Holders', NEW j \in Holders', rows'[i].drawing = rows'[j].drawing PROVE i = j
    OBVIOUS
  <2>1. CASE i \in Holders /\ j \in Holders
    BY <1>1, <2>1 DEF MovesInv
  <2>2. CASE i \notin Holders \/ j \notin Holders
    BY <1>1, <1>2, <2>2
  <2> QED
    BY <2>1, <2>2
<1>6. \A j, k \in DOMAIN redo' : redo'[j].drawing = redo'[k].drawing => j = k
  BY DEF MovesInv
<1>7. \A k \in DOMAIN redo : Saved(redo[k].drawing)
  BY DEF SavedInv
<1>8. \A k \in DOMAIN redo', i \in Holders' : redo'[k].drawing = rows'[i].drawing =>
           k = Len(redo') /\ \E c \in Slots : call'[c].op = "undo" \/ (call'[c].op = "redo" /\ call'[c].pc = "ok")
  <2> SUFFICES ASSUME NEW k \in DOMAIN redo', NEW i \in Holders', redo'[k].drawing = rows'[i].drawing
               PROVE  k = Len(redo') /\ \E c \in Slots : call'[c].op = "undo" \/ (call'[c].op = "redo" /\ call'[c].pc = "ok")
    OBVIOUS
  <2>1. redo' = redo
    OBVIOUS
  <2>2. i \in Holders
    BY <1>2, <1>7, <2>1
  <2>3. k = Len(redo) /\ \E c \in Slots : call[c].op = "undo" \/ (call[c].op = "redo" /\ call[c].pc = "ok")
    BY <1>1, <2>1, <2>2 DEF MovesInv
  <2>4. \A c \in Slots : call[c].op \in {"undo", "redo"} => call'[c] = call[c]
    BY DEF Mover
  <2> QED
    BY <2>1, <2>3, <2>4
<1>9. ASSUME NEW c \in Slots, redo' # <<>>, NEW i \in MovedBy(c)' PROVE Last(redo').drawing = rows'[i].drawing
  <2>1. call'[c].op = "undo"
    BY <1>9 DEF MovedBy
  <2>2. call'[c] = call[c] /\ redo' = redo
    BY <1>3, <1>9, <2>1 DEF Mover
  <2>3. i \in MovedBy(c) /\ i \in Holders
    BY <1>9, <2>2 DEF MovedBy, Holders
  <2> QED
    BY <1>1, <1>9, <2>2, <2>3 DEF MovesInv
<1>10. ASSUME NEW c \in Slots, call'[c].op = "redo", call'[c].pc = "ok", redo' # <<>>
       PROVE  Last(redo').drawing = rows'[call'[c].id].drawing
  <2>1. call'[c] = call[c] /\ redo' = redo
    BY <1>3, <1>10 DEF Mover
  <2>2. call[c].id \in Holders
    BY <1>10, <2>1 DEF InsertedBy, Holders
  <2> QED
    BY <1>1, <1>10, <2>1, <2>2 DEF MovesInv
<1>11. ASSUME NEW c \in Slots, call'[c].op = "redo", call'[c].pc = "sent"
       PROVE  /\ \A i \in Holders' : rows'[i].drawing # call'[c].drawing
              /\ redo' # <<>> => Last(redo').drawing = call'[c].drawing
  <2>1. call'[c] = call[c]
    BY <1>3, <1>11 DEF Mover
  <2>2. Saved(call[c].drawing)
    BY <1>11, <2>1 DEF SavedInv
  <2> QED
    BY <1>1, <1>2, <1>11, <2>1, <2>2 DEF MovesInv
<1> QED
  BY <1>4, <1>5, <1>6, <1>8, <1>9, <1>10, <1>11 DEF MovesInv

\* An undo or a redo is sent while no other one is under way.
LEMMA MovesSent ==
    ASSUME TypeOK, SavedInv, HoldersInv, MovesInv, NEW c \in Slots, User(c), Undo(c) \/ Redo(c), ~overlap'
    PROVE  MovesInv'
<1>0. redo \in Seq(Entry) /\ undo \in Seq(Ids) /\ CallType
  BY TypeParts DEF Types
<1>1. Advance /\ SentBy(c) /\ ~Mover(c) /\ \A d \in Slots \ {c} : call'[d] = call[d]
  BY AdvanceUser
<1>2. \A d \in Slots : ~Mover(d)
  BY <1>1 DEF Undo, Redo, Overlaps, Mover
<1>3. \A d \in Slots \ {c} : ~Mover(d)' /\ MovedBy(d)' = {} /\ call'[d].op \notin {"undo", "redo"}
  BY <1>1, <1>2 DEF Mover, MovedBy
<1>4. UNCHANGED rows
  BY DEF Undo, Redo, Sends, data
<1>5. \A i \in Holders' : i \in Holders
  <2>1. \A i \in Ids : ~Insert(c, i)
    BY <1>2 DEF Undo, Redo, Sends, Insert, Inserting, Idle
  <2>2. \A d \in Slots \ {c}, i \in Ids : ~(call[d].op = "redo" /\ Insert(d, i))
    BY <1>2 DEF Mover
  <2>3. \A i \in Holders' : i \in Holders \/ (~Saved(i) /\ i \in Ids /\ rows'[i].drawing = i)
    BY <1>1, <2>1, <2>2, HoldersAdvance DEF Born
  <2>4. \A i \in Live' : i \in Live
    BY <1>4 DEF Live
  <2>5. \A d \in Slots \ {c} : InsertedBy(d)' = InsertedBy(d)
    BY <1>1 DEF InsertedBy
  <2>6. InsertedBy(c)' = {} \/ ~Mover(c)'
    BY <1>1 DEF SentBy, InsertedBy, Mover
  <2>7. InsertedBy(c)' = {} /\ MovedBy(c)' \subseteq OnUndo
    <3>1. CASE Undo(c)
      <4>1. call'[c].op = "undo" /\ call'[c].ids = {Last(undo)}
        <5>1. Goto(c, [op |-> "undo", pc |-> "sent", sheet |-> sheet, ids |-> {Last(undo)}, tried |-> {}, done |-> {}])
          BY <3>1 DEF Undo, Sends
        <5> QED
          BY <1>0, <5>1, GotoFacts DEF CallType
      <4>2. Last(undo) \in OnUndo
        BY <1>0, <3>1, SeqFacts DEF Undo, OnUndo
      <4> QED
        BY <4>1, <4>2 DEF InsertedBy, MovedBy
    <3>2. CASE Redo(c)
      <4>1. Goto(c, [op |-> "redo", pc |-> "sent", sheet |-> sheet, on |-> Last(redo).on, drawing |-> Last(redo).drawing])
        BY <3>2 DEF Redo, Sends
      <4>2. call'[c].op = "redo" /\ call'[c].pc = "sent"
        BY <1>0, <4>1, GotoFacts DEF CallType
      <4> QED
        BY <4>2 DEF InsertedBy, MovedBy
    <3> QED
      BY <3>1, <3>2
  <2>8. OnUndo' = OnUndo /\ silent' = silent
    BY DEF Undo, Redo, Sends, stacks, OnUndo
  <2> QED
    BY <1>3, <2>4, <2>5, <2>7, <2>8 DEF Holders
<1>6. \A k \in DOMAIN redo, i \in Holders : redo[k].drawing # rows[i].drawing
  BY <1>2 DEF MovesInv, Mover
<1>7. \A j, k \in Slots : Mover(j)' /\ Mover(k)' => j = k
  BY <1>3
<1>8. \A i, j \in Holders' : rows'[i].drawing = rows'[j].drawing => i = j
  BY <1>4, <1>5 DEF MovesInv
<1>9. CASE Undo(c)
  <2> DEFINE r == [op |-> "undo", pc |-> "sent", sheet |-> sheet, ids |-> {Last(undo)}, tried |-> {}, done |-> {}]
             e == [drawing |-> rows[Last(undo)].drawing, on |-> rows[Last(undo)].sheet]
  <2>1. Goto(c, r) /\ redo' = Append(redo, e)
    BY <1>9 DEF Undo, Sends
  <2>2. r.op = "undo" /\ r.pc = "sent" /\ r.ids = {Last(undo)} /\ e.drawing = rows[Last(undo)].drawing
    OBVIOUS
  <2>13. Last(undo) \in OnUndo /\ Last(undo) \in Ids
    BY <1>0, <1>9, SeqFacts DEF Undo, OnUndo
  <2>3. e \in Entry
    BY <2>13 DEF SavedInv, Entry
  <2> HIDE DEF r, e
  <2>4. call'[c] = r
    BY <1>0, <2>1, GotoFacts DEF CallType
  <2>5. Last(undo) \in Holders
    BY <2>13 DEF Holders
  <2>6. /\ Len(redo') = Len(redo) + 1 /\ redo'[Len(redo')] = e /\ Len(redo) \in Nat
        /\ DOMAIN redo = 1..Len(redo) /\ DOMAIN redo' = 1..(Len(redo) + 1)
        /\ \A k \in DOMAIN redo : redo'[k] = redo[k]
        /\ redo' # <<>> /\ Last(redo') = e
    BY <1>0, <2>1, <2>3 DEF Last
  <2>7. \A k \in DOMAIN redo' : k \in DOMAIN redo \/ k = Len(redo')
    BY <2>6
  <2>8. \A k \in DOMAIN redo : redo[k].drawing # e.drawing
    BY <1>6, <2>2, <2>5
  <2>9. \A j, k \in DOMAIN redo' : redo'[j].drawing = redo'[k].drawing => j = k
    <3>1. \A j, k \in DOMAIN redo : redo[j].drawing = redo[k].drawing => j = k
      BY DEF MovesInv
    <3> QED
      BY <2>6, <2>7, <2>8, <3>1
  <2>10. call'[c].op = "undo"
    BY <2>2, <2>4
  <2>11. \A k \in DOMAIN redo', i \in Holders' : redo'[k].drawing = rows'[i].drawing => k = Len(redo')
    BY <1>4, <1>5, <1>6, <2>6, <2>7
  <2>12. \A d \in Slots : redo' # <<>> => \A i \in MovedBy(d)' : Last(redo').drawing = rows'[i].drawing
    <3>1. MovedBy(c)' \subseteq {Last(undo)}
      BY <2>2, <2>4 DEF MovedBy
    <3> QED
      BY <1>3, <1>4, <2>2, <2>6, <3>1
  <2> QED
    BY <1>3, <1>7, <1>8, <2>9, <2>10, <2>11, <2>12 DEF MovesInv
<1>10. CASE Redo(c)
  <2>1. redo' = redo /\ redo # <<>>
    BY <1>10 DEF Redo, stacks
  <2>2. Goto(c, [op |-> "redo", pc |-> "sent", sheet |-> sheet, on |-> Last(redo).on, drawing |-> Last(redo).drawing])
    BY <1>10 DEF Redo, Sends
  <2>3. call'[c].op = "redo" /\ call'[c].pc = "sent" /\ call'[c].drawing = Last(redo).drawing
    BY <1>0, <2>2, GotoFacts DEF CallType
  <2>4. MovedBy(c)' = {}
    BY <2>3 DEF MovedBy
  <2>5. \E k \in DOMAIN redo : redo[k] = Last(redo)
    BY <1>0, <2>1, SeqFacts
  <2>6. \A i \in Holders' : rows'[i].drawing # call'[c].drawing
    BY <1>4, <1>5, <1>6, <2>3, <2>5
  <2>7. \A k \in DOMAIN redo', i \in Holders' : redo'[k].drawing # rows'[i].drawing
    BY <1>4, <1>5, <1>6, <2>1
  <2>8. \A j, k \in DOMAIN redo' : redo'[j].drawing = redo'[k].drawing => j = k
    BY <2>1 DEF MovesInv
  <2> QED
    BY <1>3, <1>7, <1>8, <2>1, <2>3, <2>4, <2>6, <2>7, <2>8 DEF MovesInv
<1> QED
  BY <1>9, <1>10

\* The server inserts the row of a redo.
LEMMA MovesInserted ==
    ASSUME TypeOK, SavedInv, RemovalsInv, HoldersInv, MovesInv, NEW c \in Slots, NEW i \in Ids,
           Serve(c), Insert(c, i), call[c].op = "redo"
    PROVE  MovesInv'
<1>0. redo \in Seq(Entry) /\ CallType
  BY TypeParts DEF Types
<1>1. Advance /\ (\A d \in Slots \ {c} : call'[d] = call[d]) /\ redo' = redo
  BY AdvanceServer
<1>2. ~Saved(i) /\ rows'[i].drawing = call[c].drawing
  BY LiveServed
<1>3. call'[c].op = "redo" /\ call'[c].pc = "ok" /\ call'[c].id = i
  <2>1. Goto(c, [op |-> call[c].op, pc |-> "ok", sheet |-> call[c].sheet, id |-> i])
    BY DEF Insert, Serves
  <2> QED
    BY <1>0, <2>1, GotoFacts DEF CallType
<1>4. call[c].pc = "sent" /\ Saved(call[c].drawing) /\ Mover(c)
  BY DEF Insert, Inserting, SavedInv, Mover
<1>5. \A d \in Slots \ {c} : ~Mover(d) /\ ~Mover(d)' /\ MovedBy(d)' = {} /\ call'[d].op \notin {"undo", "redo"}
  <2>1. \A d \in Slots \ {c} : ~Mover(d)
    BY <1>4 DEF MovesInv
  <2> QED
    BY <1>1, <2>1 DEF Mover, MovedBy
<1>6. \A j \in Holders : j \in Ids /\ Saved(j) /\ rows'[j].drawing = rows[j].drawing /\ Saved(rows[j].drawing)
                         /\ rows[j].drawing # call[c].drawing
  BY <1>1, <1>4, HoldersSaved DEF Advance, RowsKept, SavedInv, MovesInv
<1>7. \A j \in Holders' : j \in Holders \/ j = i \/ (~Saved(j) /\ rows'[j].drawing = j)
  <2>1. \A d \in Slots, j \in Ids : call[d].op = "redo" /\ Insert(d, j) => j = i
    <3>1. \A d \in Slots, j \in Ids : call[d].op = "redo" /\ Insert(d, j) => j \in Unused /\ \A k \in Unused : j <= k
      BY DEF Insert
    <3>2. i \in Unused /\ \A k \in Unused : i <= k
      BY DEF Insert
    <3> QED
      BY <3>1, <3>2, BoundsAssumption DEF Ids
  <2> QED
    BY <1>1, <2>1, HoldersAdvance DEF Born
<1>8. \A j, k \in Slots : Mover(j)' /\ Mover(k)' => j = k
  BY <1>5
<1>9. \A j, k \in Holders' : rows'[j].drawing = rows'[k].drawing => j = k
  <2> SUFFICES ASSUME NEW j \in Holders', NEW k \in Holders', rows'[j].drawing = rows'[k].drawing PROVE j = k
    OBVIOUS
  <2>1. CASE j \in Holders /\ k \in Holders
    BY <1>6, <2>1 DEF MovesInv
  <2>2. CASE j \notin Holders \/ k \notin Holders
    BY <1>2, <1>4, <1>6, <1>7, <2>2
  <2> QED
    BY <2>1, <2>2
<1>10. \A j, k \in DOMAIN redo' : redo'[j].drawing = redo'[k].drawing => j = k
  BY <1>1 DEF MovesInv
<1>11. \A k \in DOMAIN redo : redo[k].drawing = call[c].drawing => k = Len(redo)
  <2>1. redo # <<>> => Last(redo).drawing = call[c].drawing /\ Last(redo) = redo[Len(redo)] /\ Len(redo) \in DOMAIN redo
    <3>1. ASSUME redo # <<>> PROVE Last(redo) = redo[Len(redo)] /\ Len(redo) \in Nat \ {0}
      BY <1>0, <3>1 DEF Last
    <3>2. redo # <<>> => Len(redo) \in DOMAIN redo
      BY <1>0, <3>1
    <3> QED
      BY <1>4, <3>1, <3>2 DEF MovesInv
  <2> QED
    BY <2>1 DEF MovesInv
<1>12. \A k \in DOMAIN redo, j \in Holders : redo[k].drawing # rows[j].drawing
  BY <1>4, <1>5 DEF MovesInv, Mover
<1>13. \A k \in DOMAIN redo', j \in Holders' : redo'[k].drawing = rows'[j].drawing => k = Len(redo')
  <2>1. \A k \in DOMAIN redo : Saved(redo[k].drawing)
    BY DEF SavedInv
  <2> QED
    BY <1>1, <1>2, <1>6, <1>7, <1>11, <1>12, <2>1
<1>14. MovedBy(c)' = {}
  BY <1>3 DEF MovedBy
<1>15. redo' # <<>> => Last(redo').drawing = rows'[i].drawing
  BY <1>1, <1>2, <1>4 DEF MovesInv
<1> QED
  BY <1>3, <1>5, <1>8, <1>9, <1>10, <1>13, <1>14, <1>15 DEF MovesInv

LEMMA InsertedOne ==
    ASSUME TypeOK, NEW c \in Slots, \A d \in Slots \ {c} : call'[d] = call[d]
    PROVE  \A d \in Slots \ {c}, i \in Ids : ~Insert(d, i)
<1> SUFFICES ASSUME NEW d \in Slots \ {c}, NEW i \in Ids, Insert(d, i) PROVE FALSE
  OBVIOUS
<1>0. CallType
  BY TypeParts DEF Types
<1>1. call[d].pc = "sent"
  BY DEF Insert, Inserting
<1>2. Goto(d, [op |-> call[d].op, pc |-> "ok", sheet |-> call[d].sheet, id |-> i])
  BY DEF Insert, Serves
<1>3. call'[d].pc = "ok"
  BY <1>0, <1>2, GotoFacts DEF CallType
<1> QED
  BY <1>1, <1>3

\* The server moves an undo on, or refuses an undo or a redo.
LEMMA MovesServed ==
    ASSUME TypeOK, SavedInv, RemovalsInv, HoldersInv, MovesInv, NEW c \in Slots, Serve(c) \/ CallFails(c),
           \A i \in Ids : ~Insert(c, i)
    PROVE  MovesInv'
<1>0. redo \in Seq(Entry) /\ CallType
  BY TypeParts DEF Types
<1>1. Advance /\ ServedAs(c) /\ (\A d \in Slots \ {c} : call'[d] = call[d]) /\ UNCHANGED <<undo, redo>>
  BY AdvanceServer
<1>2. CASE ~Mover(c)
  <2>1. \A d \in Slots \ {c}, i \in Ids : ~Insert(d, i)
    BY <1>1, InsertedOne
  <2>2. ~Mover(c)'
    BY <1>1, <1>2 DEF ServedAs, Mover
  <2> QED
    BY <1>1, <1>2, <2>1, <2>2, MovesQuiet
<1>3. CASE Mover(c)
  <2>1. \A d \in Slots \ {c} : ~Mover(d) /\ ~Mover(d)' /\ MovedBy(d)' = {} /\ call'[d].op \notin {"undo", "redo"}
    <3>1. \A d \in Slots \ {c} : ~Mover(d)
      BY <1>3 DEF MovesInv
    <3> QED
      BY <1>1, <3>1 DEF Mover, MovedBy
  <2>2. \A i \in Holders : i \in Ids /\ Saved(i) /\ rows'[i].drawing = rows[i].drawing /\ Saved(rows[i].drawing)
    BY <1>1, HoldersSaved DEF Advance, RowsKept, SavedInv
  <2>3. \A i \in Holders' : i \in Holders \/ (~Saved(i) /\ rows'[i].drawing = i)
    <3>1. \A d \in Slots, i \in Ids : ~(call[d].op = "redo" /\ Insert(d, i))
      BY <2>1 DEF Mover
    <3> QED
      BY <1>1, <3>1, HoldersAdvance DEF Born
  <2>4. \A j, k \in Slots : Mover(j)' /\ Mover(k)' => j = k
    BY <2>1
  <2>5. \A i, j \in Holders' : rows'[i].drawing = rows'[j].drawing => i = j
    <3> SUFFICES ASSUME NEW i \in Holders', NEW j \in Holders', rows'[i].drawing = rows'[j].drawing PROVE i = j
      OBVIOUS
    <3>1. CASE i \in Holders /\ j \in Holders
      BY <2>2, <3>1 DEF MovesInv
    <3>2. CASE i \notin Holders \/ j \notin Holders
      BY <2>2, <2>3, <3>2
    <3> QED
      BY <3>1, <3>2
  <2>6. \A j, k \in DOMAIN redo' : redo'[j].drawing = redo'[k].drawing => j = k
    BY <1>1 DEF MovesInv
  <2>7. \A k \in DOMAIN redo, i \in Holders' :
           redo[k].drawing = rows'[i].drawing => i \in Holders /\ redo[k].drawing = rows[i].drawing
    <3>1. \A k \in DOMAIN redo : Saved(redo[k].drawing)
      BY DEF SavedInv
    <3> QED
      BY <2>2, <2>3, <3>1
  <2>8. CASE call[c].op = "undo"
    <3>1. call'[c].op = "undo"
      BY <1>1, <2>8 DEF ServedAs
    <3>2. \A i \in MovedBy(c)' : i \in MovedBy(c) /\ i \in Holders
      BY <1>1, <2>8 DEF ServedAs, MovedBy, Holders
    <3>3. \A i \in MovedBy(c)' : redo' # <<>> => Last(redo').drawing = rows'[i].drawing
      BY <1>1, <2>2, <3>2 DEF MovesInv
    <3>4. \A k \in DOMAIN redo', i \in Holders' : redo'[k].drawing = rows'[i].drawing => k = Len(redo')
      BY <1>1, <2>7 DEF MovesInv
    <3> QED
      BY <2>1, <2>4, <2>5, <2>6, <3>1, <3>3, <3>4 DEF MovesInv
  <2>9. CASE call[c].op = "redo"
    <3>1. call'[c].op = "redo" /\ call'[c].pc = "error" /\ call[c].pc \in {"sent", "ok"}
          /\ (call[c].pc = "ok" => call[c].id \in silent')
      BY <1>1, <2>9 DEF ServedAs
    <3>2. MovedBy(c)' = {} /\ InsertedBy(c)' = {}
      BY <3>1 DEF MovedBy, InsertedBy
    <3>3. CASE call[c].pc = "sent"
      <4>1. \A k \in DOMAIN redo, i \in Holders : redo[k].drawing # rows[i].drawing
        BY <2>1, <2>9, <3>3 DEF MovesInv, Mover
      <4>2. \A k \in DOMAIN redo', i \in Holders' : redo'[k].drawing # rows'[i].drawing
        BY <1>1, <2>7, <4>1
      <4> QED
        BY <2>1, <2>4, <2>5, <2>6, <3>1, <3>2, <4>2 DEF MovesInv
    <3>4. CASE call[c].pc = "ok"
      <4> DEFINE i == call[c].id
      <4>1. i \in InsertedBy(c) /\ i \in Holders
        BY <2>9, <3>4 DEF InsertedBy, Holders
      <4>2. i \notin Holders'
        <5>1. i \notin Live' \ silent'
          BY <3>1, <3>4
        <5>2. i \notin OnUndo'
          BY <1>1, <4>1 DEF OnUndo, HoldersInv
        <5>3. \A d \in Slots : i \notin MovedBy(d)'
          BY <2>1, <3>2
        <5>4. \A d \in Slots \ {c} : InsertedBy(d)' = InsertedBy(d)
          BY <1>1 DEF InsertedBy
        <5>5. \A d \in Slots : i \notin InsertedBy(d)'
          BY <3>2, <4>1, <5>4 DEF HoldersInv
        <5> QED
          BY <5>1, <5>2, <5>3, <5>5 DEF Holders
      <4>3. \A k \in DOMAIN redo, j \in Holders : redo[k].drawing = rows[j].drawing => j = i
        <5> SUFFICES ASSUME NEW k \in DOMAIN redo, NEW j \in Holders, redo[k].drawing = rows[j].drawing PROVE j = i
          OBVIOUS
        <5>1. k = Len(redo)
          BY DEF MovesInv
        <5>4. redo # <<>>
          OBVIOUS
        <5>2. redo # <<>> /\ Last(redo) = redo[k]
          BY <1>0, <5>1, <5>4 DEF Last
        <5>3. Last(redo).drawing = rows[i].drawing
          BY <2>9, <3>4, <5>2 DEF MovesInv
        <5>5. i \in Holders /\ rows[i].drawing = rows[j].drawing
          BY <4>1, <5>2, <5>3
        <5>6. \A a, b \in Holders : rows[a].drawing = rows[b].drawing => a = b
          BY DEF MovesInv
        <5> HIDE DEF i
        <5> QED
          BY <5>5, <5>6
      <4> HIDE DEF i
      <4>4. \A k \in DOMAIN redo', j \in Holders' : redo'[k].drawing # rows'[j].drawing
        BY <1>1, <2>7, <4>2, <4>3
      <4> QED
        BY <2>1, <2>4, <2>5, <2>6, <3>1, <3>2, <4>4 DEF MovesInv
    <3> QED
      BY <3>1, <3>3, <3>4
  <2> QED
    BY <1>3, <2>8, <2>9 DEF Mover
<1> QED
  BY <1>2, <1>3

\* The answer of an undo or a redo, and what it does to the redo stack.
LEMMA MovesAnswered ==
    ASSUME TypeOK, SavedInv, HoldersInv, MovesInv, NEW c \in Slots, Respond(c), Mover(c)
    PROVE  MovesInv'
<1>0. redo \in Seq(Entry) /\ CallType /\ sheetList \in Seq(Row) /\ undo \in Seq(Ids)
  BY TypeParts DEF Types
<1>1. /\ call'[c] = Idle /\ (\A d \in Slots \ {c} : call'[d] = call[d])
      /\ UNCHANGED data /\ Holders' \subseteq Holders /\ InsertedBy(c)' = {} /\ MovedBy(c)' = {}
  BY AdvanceAnswer
<1>2. \A d \in Slots : ~Mover(d)' /\ MovedBy(d)' = {} /\ call'[d].op \notin {"undo", "redo"}
  <2>1. \A d \in Slots \ {c} : ~Mover(d)
    BY DEF MovesInv
  <2> QED
    BY <1>1, <2>1 DEF Mover, MovedBy, Idle
<1>3. \A i, j \in Holders' : rows'[i].drawing = rows'[j].drawing => i = j
  BY <1>1 DEF MovesInv, data
<1>4. ASSUME redo' = redo \/ (redo # <<>> /\ redo' = Front(redo)),
             \A k \in DOMAIN redo', i \in Holders' : redo'[k].drawing # rows'[i].drawing
      PROVE  MovesInv'
  <2>1. redo # <<>> => \A k \in DOMAIN Front(redo) : k \in DOMAIN redo /\ Front(redo)[k] = redo[k]
    BY <1>0, SeqFacts
  <2>2. \A j, k \in DOMAIN redo' : redo'[j].drawing = redo'[k].drawing => j = k
    BY <1>4, <2>1 DEF MovesInv
  <2> QED
    BY <1>2, <1>3, <1>4, <2>2 DEF MovesInv
<1>5. ASSUME redo' = IF redo # <<>> THEN Front(redo) ELSE redo PROVE MovesInv'
  <2>1. CASE redo = <<>>
    BY <1>4, <1>5, <2>1
  <2>2. CASE redo # <<>>
    <3>1. \A k \in DOMAIN Front(redo) : k \in DOMAIN redo /\ Front(redo)[k] = redo[k] /\ k # Len(redo)
      <4>1. /\ DOMAIN Front(redo) = 1..(Len(redo) - 1) /\ Len(redo) \in Nat \ {0}
            /\ \A k \in DOMAIN Front(redo) : k \in DOMAIN redo /\ Front(redo)[k] = redo[k]
        BY <1>0, <2>2, SeqFacts
      <4> QED
        BY <4>1
    <3>2. \A k \in DOMAIN redo', i \in Holders' : redo'[k].drawing # rows'[i].drawing
      BY <1>1, <1>5, <2>2, <3>1 DEF MovesInv, data
    <3> QED
      BY <1>4, <1>5, <2>2, <3>2
  <2> QED
    BY <2>1, <2>2
<1>6. CASE RedoOk(c)
  BY <1>5, <1>6 DEF RedoOk
<1>7. CASE CallError(c) /\ call[c].op = "undo"
  BY <1>5, <1>7 DEF CallError
<1>8. CASE CallError(c) /\ call[c].op = "redo"
  <2>1. redo' = redo /\ call[c].pc = "error"
    BY <1>8 DEF CallError, Answered
  <2>2. \A d \in Slots : ~(call[d].op = "undo" \/ (call[d].op = "redo" /\ call[d].pc = "ok"))
    BY <1>8, <2>1 DEF MovesInv, Mover
  <2>3. \A k \in DOMAIN redo, i \in Holders : redo[k].drawing # rows[i].drawing
    BY <2>2 DEF MovesInv
  <2>4. \A k \in DOMAIN redo', i \in Holders' : redo'[k].drawing # rows'[i].drawing
    BY <1>1, <2>1, <2>3 DEF data
  <2> QED
    BY <1>4, <2>1, <2>4
<1>9. CASE UndoOk(c)
  <2>1. redo' = redo /\ call[c].op = "undo" /\ call[c].pc = "ok" /\ sheetList' = Without(sheetList, call[c].ids)
    BY <1>9 DEF UndoOk, Forget, Answered
  <2>2. \A i \in OnUndo' : i \in Shown(sheetList')
    <3>1. \E u \in Seq(Ids) : undo' = Pruned(u, sheetList')
      <4>1. undo' = Pruned(IF undo = <<>> THEN undo ELSE Front(undo), sheetList')
        BY <1>9 DEF UndoOk, Forget
      <4>2. (IF undo = <<>> THEN undo ELSE Front(undo)) \in Seq(Ids)
        BY <1>0, SeqFacts
      <4> QED
        BY <4>1, <4>2
    <3> QED
      BY <3>1, PrunedFacts DEF OnUndo
  <2>3. Shown(sheetList') \cap call[c].ids = {}
    BY <1>0, <2>1, WithoutFacts
  <2>4. MovedBy(c) = call[c].ids
    BY <2>1 DEF MovedBy
  <2>5. ASSUME NEW i \in MovedBy(c) PROVE i \notin Holders'
    <3>1. i \notin Live'
      BY <1>1, <2>1, <2>4, <2>5 DEF HoldersInv, Live, data
    <3>2. i \notin OnUndo'
      BY <2>2, <2>3, <2>4, <2>5
    <3>3. \A d \in Slots \ {c} : InsertedBy(d)' = InsertedBy(d)
      BY <1>1 DEF InsertedBy
    <3>4. \A d \in Slots : i \notin InsertedBy(d)'
      BY <1>1, <2>5, <3>3 DEF HoldersInv
    <3> QED
      BY <1>2, <3>1, <3>2, <3>4 DEF Holders
  <2>6. \A k \in DOMAIN redo', i \in Holders' : redo'[k].drawing # rows'[i].drawing
    <3> SUFFICES ASSUME NEW k \in DOMAIN redo, NEW i \in Holders', redo[k].drawing = rows[i].drawing PROVE FALSE
      BY <1>1, <2>1 DEF data
    <3>1. i \in Holders /\ k = Len(redo)
      BY <1>1 DEF MovesInv
    <3>6. redo # <<>>
      OBVIOUS
    <3>2. redo # <<>> /\ Last(redo) = redo[k]
      BY <1>0, <3>1, <3>6 DEF Last
    <3>3. \A j \in MovedBy(c) : Last(redo).drawing = rows[j].drawing /\ j \in Holders
      BY <3>2 DEF MovesInv, Holders
    <3>4. \A j \in MovedBy(c) : j = i
      BY <3>1, <3>2, <3>3 DEF MovesInv
    <3>5. MovedBy(c) = {}
      BY <2>5, <3>4
    <3> QED
      BY <2>1, <2>4, <3>5 DEF HoldersInv, Single
  <2> QED
    BY <1>4, <2>1, <2>6
<1> QED
  BY <1>6, <1>7, <1>8, <1>9 DEF Respond, CreateOk, PatchOk, PatchConflict, DeleteOk, CallError, Answered, Mover

LEMMA MovesStep ==
    ASSUME TypeOK, SavedInv, RemovalsInv, HoldersInv, ~overlap => MovesInv, [Next]_vars
    PROVE  ~overlap' => MovesInv'
<1> SUFFICES ASSUME ~overlap' PROVE MovesInv'
  OBVIOUS
<1>1. ASSUME NEW c \in Slots, User(c) PROVE MovesInv'
  <2>1. Advance /\ SentBy(c) /\ ~Mover(c) /\ \A d \in Slots \ {c} : call'[d] = call[d]
    BY <1>1, AdvanceUser
  <2>2. CASE Undo(c) \/ Redo(c)
    <3>1. ~overlap
      BY <2>2 DEF Undo, Redo
    <3> QED
      BY <1>1, <2>2, <3>1, MovesSent
  <2>3. CASE ~Undo(c) /\ ~Redo(c)
    <3>1. ~Mover(c)' /\ redo' = redo /\ ~overlap
      BY <2>1, <2>3 DEF SentBy
    <3>2. \A d \in Slots, i \in Ids : call[d].op = "redo" => ~Insert(d, i)
      BY <2>1, InsertedOne DEF Mover
    <3> QED
      BY <2>1, <3>1, <3>2, MovesQuiet
  <2> QED
    BY <2>2, <2>3
<1>2. ASSUME NEW c \in Slots, Serve(c) \/ CallFails(c) PROVE MovesInv'
  <2>1. Advance /\ ServedAs(c) /\ (\A d \in Slots \ {c} : call'[d] = call[d]) /\ UNCHANGED <<undo, redo>>
    BY <1>2, AdvanceServer
  <2>2. ~overlap
    <3>1. CASE CallFails(c) \/ Compare(c) \/ Write(c)
      BY <3>1 DEF CallFails, Compare, Write, Serves
    <3>2. ASSUME NEW i \in Ids, Insert(c, i) \/ Remove1(c, i) PROVE ~overlap
      <4>1. \E r : Serves(c, r)
        BY <3>2, Zenon DEF Insert, Remove1
      <4> QED
        BY <4>1 DEF Serves
    <3> QED
      BY <1>2, <3>1, <3>2 DEF Serve
  <2>3. CASE \A i \in Ids : ~Insert(c, i)
    BY <1>2, <2>2, <2>3, MovesServed
  <2>4. ASSUME NEW i \in Ids, Insert(c, i) PROVE MovesInv'
    <3>1. call[c].op \in {"create", "redo"}
      BY <2>4 DEF Insert, Inserting
    <3>2. CASE call[c].op = "redo"
      BY <2>2, <2>4, <3>2, MovesInserted DEF Serve
    <3>3. CASE call[c].op = "create"
      <4>1. ~Mover(c) /\ ~Mover(c)'
        BY <2>1, <3>3 DEF ServedAs, Mover
      <4>2. \A d \in Slots, j \in Ids : call[d].op = "redo" => ~Insert(d, j)
        BY <2>1, <3>3, InsertedOne
      <4> QED
        BY <2>1, <2>2, <4>1, <4>2, MovesQuiet
    <3> QED
      BY <3>1, <3>2, <3>3
  <2> QED
    BY <2>3, <2>4
<1>3. ASSUME NEW c \in Slots, Respond(c) PROVE MovesInv'
  <2>1. Advance /\ call'[c] = Idle /\ (\A d \in Slots \ {c} : call'[d] = call[d]) /\ UNCHANGED <<data, silent, overlap>>
    BY <1>3, AdvanceAnswer
  <2>2. CASE Mover(c)
    BY <1>3, <2>1, <2>2, MovesAnswered
  <2>3. CASE ~Mover(c)
    <3>1. ~Mover(c)'
      BY <2>1 DEF Mover, Idle
    <3>2. redo' \in {redo, <<>>}
      BY <1>3, <2>3 DEF Respond, CreateOk, RedoOk, PatchOk, PatchConflict, DeleteOk, UndoOk, CallError,
                        Answered, Forget, stacks, Mover
    <3>3. \A d \in Slots, i \in Ids : call[d].op = "redo" => ~Insert(d, i)
      BY <2>1, <2>3, InsertedOne DEF Mover
    <3> QED
      BY <2>1, <2>3, <3>1, <3>2, <3>3, MovesQuiet
  <2> QED
    BY <2>2, <2>3
<1>4. CASE \/ UNCHANGED vars \/ TimerFires \/ EventArrives \/ Collaborator \/ DragAbandoned
           \/ (\E i \in Ids : DragStart(i)) \/ (\E s \in Sheets : SwitchSheet(s))
           \/ \E l \in BagToSet(loads) : Read(l) \/ Land(l) \/ LoadFails(l)
  <2>1. Advance /\ UNCHANGED <<call, overlap>> /\ redo' \in {redo, <<>>}
    BY <1>4, AdvanceRest
  <2>2. \A d \in Slots, i \in Ids : ~Insert(d, i)
    <3> SUFFICES ASSUME NEW d \in Slots, NEW i \in Ids, Insert(d, i) PROVE FALSE
      OBVIOUS
    <3>0. CallType
      BY TypeParts DEF Types
    <3>1. call[d].pc = "sent"
      BY DEF Insert, Inserting
    <3>2. Goto(d, [op |-> call[d].op, pc |-> "ok", sheet |-> call[d].sheet, id |-> i])
      BY DEF Insert, Serves
    <3>3. call'[d].pc = "ok"
      BY <3>0, <3>2, GotoFacts DEF CallType
    <3> QED
      BY <2>1, <3>1, <3>3
  <2> QED
    BY <2>1, <2>2, MovesQuiet
<1> QED
  BY <1>1, <1>2, <1>3, <1>4 DEF Next

DrawingsInv == HoldersInv /\ (~overlap => MovesInv)

LEMMA DrawingsFollow ==
    ASSUME DrawingsInv
    PROVE  OneRowPerDrawing
<1>1. \A i \in Live \ silent : i \in Holders
  BY DEF Holders
<1>2. ASSUME ~overlap, NEW i \in Live \ silent, NEW j \in Live \ silent, i # j
      PROVE  rows[i].drawing # rows[j].drawing
  BY <1>1, <1>2 DEF DrawingsInv, MovesInv
<1>3. ASSUME ~overlap, Undoing = {}, \A c \in Slots : call[c].op # "redo",
             NEW i \in Live \ silent, NEW k \in DOMAIN redo
      PROVE  redo[k].drawing # rows[i].drawing
  BY <1>1, <1>3 DEF DrawingsInv, MovesInv, Undoing
<1> QED
  BY <1>2, <1>3 DEF OneRowPerDrawing

\* A drawing is in at most one row, and not in a row and on the redo stack, however the
\* undos and redos of a browser and the changes of others interleave; excepted are
\* overlapping undos and redos, and requests that took effect but reported an error.
THEOREM OneRow == Spec => []OneRowPerDrawing
<1>1. Init => DrawingsInv
  <2> SUFFICES ASSUME Init PROVE DrawingsInv
    OBVIOUS
  <2>1. \A c \in Slots : call[c] = Idle
    BY DEF Init
  <2>2. undo = <<1>> /\ redo = <<>> /\ 1 \in Ids
    BY BoundsAssumption DEF Init, Ids
  <2>3. OnUndo \subseteq {1} /\ DOMAIN redo = {}
    BY <2>2 DEF OnUndo
  <2>4. Live \subseteq {1}
    BY DEF Init, Live, Absent
  <2>5. \A c \in Slots : MovedBy(c) = {} /\ InsertedBy(c) = {} /\ ~Mover(c)
    BY <2>1 DEF MovedBy, InsertedBy, Mover, Idle
  <2>6. Holders \subseteq {1}
    BY <2>3, <2>4, <2>5 DEF Holders
  <2>7. HoldersInv
    BY <2>1, <2>5 DEF HoldersInv, Idle
  <2>8. MovesInv
    <3>1. \A i, j \in Holders : i = j
      BY <2>6
    <3>2. \A c \in Slots : call[c].op \notin {"undo", "redo"}
      BY <2>1 DEF Idle
    <3> QED
      BY <2>2, <2>3, <2>5, <3>1, <3>2 DEF MovesInv
  <2> QED
    BY <2>7, <2>8 DEF DrawingsInv
<1>2. LoadsOk /\ DrawingsInv /\ [Next]_vars => DrawingsInv'
  BY HoldersStep, MovesStep DEF LoadsOk, SyncTypes, DrawingsInv
<1>3. DrawingsInv => OneRowPerDrawing
  BY DrawingsFollow
<1> QED
  BY <1>1, <1>2, <1>3, LoadsHold, PTL DEF Spec
=============================================================================
