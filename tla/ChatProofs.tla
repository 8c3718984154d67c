------------------------------ MODULE ChatProofs ------------------------------
(***************************************************************************)
(* The message lists of the chat page, for any number of channels, sends   *)
(* and messages: no list shows a message twice, what is shown leaves a list *)
(* only by an answer, and a message goes where its placeholder was put.    *)
(*                                                                         *)
(* A GET carries three lists through time: the one on screen, the answer   *)
(* it has read and the list it reverts to.  The invariant speaks of all    *)
(* three, since each may become the one on screen, and of whose            *)
(* placeholders they may hold.                                             *)
(***************************************************************************)
EXTENDS Chat, SequenceTheorems, FiniteSetTheorems, WellFoundedInduction, TLAPS

-----------------------------------------------------------------------------
(* Sets of numbers in ascending order.                                     *)

Below(S, x) == {y \in S : y < x}

LEMMA LeastNumber ==
    ASSUME NEW T, \A y \in T : y \in Nat, T # {}
    PROVE  \E m \in T : \A k \in T : m <= k
<1>1. IsWellFoundedOn(OpToRel(<, Nat), Nat)
  BY NatLessThanWellFounded
<1>2. T \in SUBSET Nat
  OBVIOUS
<1>3. PICK m \in T : \A k \in T : ~(<<k, m>> \in OpToRel(<, Nat))
  BY <1>1, <1>2, WFMin
<1>4. ASSUME NEW k \in T PROVE m <= k
  <2>1. m \in Nat /\ k \in Nat
    OBVIOUS
  <2>2. ~(k < m)
    BY <1>3, <2>1 DEF OpToRel
  <2> QED
    BY <2>1, <2>2
<1> QED
  BY <1>4

LEMMA BelowIsFinite ==
    ASSUME NEW S, IsFiniteSet(S), \A y \in S : y \in Nat, NEW x \in S
    PROVE  /\ IsFiniteSet(Below(S, x)) /\ Cardinality(Below(S, x)) \in Nat
           /\ Cardinality(Below(S, x) \cup {x}) = Cardinality(Below(S, x)) + 1
           /\ Cardinality(Below(S, x)) < Cardinality(S)
<1>1. x \in Nat /\ Below(S, x) \subseteq S
  BY DEF Below
<1>2. x \notin Below(S, x)
  BY <1>1 DEF Below
<1>3. IsFiniteSet(Below(S, x)) /\ Cardinality(Below(S, x)) \in Nat /\ Cardinality(S) \in Nat
  BY <1>1, FS_Subset, FS_CardinalityType
<1>4. Cardinality(Below(S, x) \cup {x}) = Cardinality(Below(S, x)) + 1
  BY <1>2, <1>3, FS_AddElement
<1>5. Cardinality(Below(S, x) \cup {x}) <= Cardinality(S)
  BY <1>1, FS_Subset
<1> QED
  BY <1>3, <1>4, <1>5

\* Every place in the order is taken.
LEMMA NthExists ==
    ASSUME NEW S, IsFiniteSet(S), \A y \in S : y \in Nat, NEW n \in 1..Cardinality(S)
    PROVE  \E x \in S : Cardinality(Below(S, x)) = n - 1
<1> DEFINE Missed == {i \in 1..Cardinality(S) : ~\E x \in S : Cardinality(Below(S, x)) = i - 1}
<1>0. Cardinality(S) \in Nat
  BY FS_CardinalityType
<1> SUFFICES ASSUME Missed # {} PROVE FALSE
  OBVIOUS
<1>1. PICK i \in Missed : \A j \in Missed : i <= j
  <2>1. \A j \in Missed : j \in Nat
    BY <1>0
  <2> HIDE DEF Missed
  <2> QED
    BY <2>1, LeastNumber
<1> HIDE DEF Missed
<1>2. i \in 1..Cardinality(S) /\ i \in Nat /\ ~\E x \in S : Cardinality(Below(S, x)) = i - 1
  BY <1>0 DEF Missed
<1>3. CASE i = 1
  <2>1. S # {}
    BY <1>0, <1>2, FS_EmptySet
  <2>2. PICK m \in S : \A k \in S : m <= k
    BY <2>1, LeastNumber
  <2>3. m \in Nat
    OBVIOUS
  <2>4. ASSUME NEW y \in S PROVE ~(y < m)
    <3>1. y \in Nat /\ m <= y
      BY <2>2
    <3> QED
      BY <2>3, <3>1
  <2>5. Below(S, m) = {}
    BY <2>4 DEF Below
  <2> QED
    BY <1>2, <1>3, <2>5, FS_EmptySet
<1>4. CASE i # 1
  <2>0. i - 1 \in 1..Cardinality(S)
    BY <1>0, <1>2, <1>4
  <2>1. i - 1 \notin Missed
    BY <1>1, <1>2, <2>0
  <2>2. PICK x \in S : Cardinality(Below(S, x)) = (i - 1) - 1
    BY <2>0, <2>1 DEF Missed
  <2> DEFINE Above == {y \in S : x < y}
  <2>3. x \in Nat /\ Cardinality(Below(S, x) \cup {x}) = i - 1
    BY <1>2, <2>2, BelowIsFinite
  <2>4. Above # {}
    <3> SUFFICES ASSUME Above = {} PROVE FALSE
      OBVIOUS
    <3>1. ASSUME NEW y \in S PROVE y \in Below(S, x) \cup {x}
      <4>1. y \in Nat /\ ~(x < y)
        OBVIOUS
      <4> QED
        BY <2>3, <4>1 DEF Below
    <3>2. S = Below(S, x) \cup {x}
      BY <3>1 DEF Below
    <3>3. Cardinality(S) = i - 1
      BY <2>3, <3>2
    <3> QED
      BY <1>0, <1>2, <3>3
  <2>5. PICK z \in Above : \A k \in Above : z <= k
    BY <2>4, LeastNumber
  <2>6. z \in S /\ z \in Nat /\ x < z
    OBVIOUS
  <2>7. ASSUME NEW y \in S PROVE y < z <=> (y < x \/ y = x)
    <3>1. y \in Nat /\ (x < y => z <= y)
      BY <2>5
    <3> QED
      BY <2>3, <2>6, <3>1
  <2>8. Below(S, z) = Below(S, x) \cup {x}
    BY <2>7 DEF Below
  <2> QED
    BY <1>2, <2>3, <2>6, <2>8
<1> QED
  BY <1>3, <1>4

\* A number has more below it than a smaller one has.
LEMMA MoreBelow ==
    ASSUME NEW S, IsFiniteSet(S), \A y \in S : y \in Nat, NEW x \in S, NEW z \in S, x < z
    PROVE  Cardinality(Below(S, x)) < Cardinality(Below(S, z))
<1>1. x \in Nat /\ z \in Nat /\ IsFiniteSet(Below(S, z)) /\ Cardinality(Below(S, z)) \in Nat
  BY BelowIsFinite
<1>2. ASSUME NEW y \in Below(S, x) \cup {x} PROVE y \in Below(S, z)
  <2>1. y \in S /\ y \in Nat /\ (y < x \/ y = x)
    BY DEF Below
  <2> QED
    BY <1>1, <2>1 DEF Below
<1>3. Cardinality(Below(S, x) \cup {x}) <= Cardinality(Below(S, z))
  BY <1>1, <1>2, FS_Subset
<1>4. /\ Cardinality(Below(S, x)) \in Nat
      /\ Cardinality(Below(S, x) \cup {x}) = Cardinality(Below(S, x)) + 1
  BY BelowIsFinite
<1> QED
  BY <1>1, <1>3, <1>4

LEMMA NthIsThere ==
    ASSUME NEW S, IsFiniteSet(S), \A y \in S : y \in Nat, NEW n \in 1..Cardinality(S)
    PROVE  Nth(S, n) \in S /\ Cardinality(Below(S, Nth(S, n))) = n - 1
<1>1. \E x \in S : Cardinality({y \in S : y < x}) = n - 1
  BY NthExists DEF Below
<1> QED
  BY <1>1 DEF Nth, Below

\* Ascending lists every member of the set once, the smaller ones first.
LEMMA AscendingLists ==
    ASSUME NEW S, IsFiniteSet(S), \A y \in S : y \in Nat
    PROVE  /\ Cardinality(S) \in Nat
           /\ Ascending(S) \in [1..Cardinality(S) -> S]
           /\ \A i, j \in 1..Cardinality(S) : i < j => Ascending(S)[i] < Ascending(S)[j]
           /\ \A x \in S : \E i \in 1..Cardinality(S) : Ascending(S)[i] = x
<1>0. Cardinality(S) \in Nat
  BY FS_CardinalityType
<1>1. Ascending(S) \in [1..Cardinality(S) -> S]
  BY NthIsThere DEF Ascending
<1>2. ASSUME NEW i \in 1..Cardinality(S), NEW j \in 1..Cardinality(S), i < j
      PROVE  Ascending(S)[i] < Ascending(S)[j]
  <2>1. /\ Nth(S, i) \in S /\ Cardinality(Below(S, Nth(S, i))) = i - 1
        /\ Nth(S, j) \in S /\ Cardinality(Below(S, Nth(S, j))) = j - 1
    BY NthIsThere
  <2>2. i \in Nat /\ j \in Nat /\ Nth(S, i) \in Nat /\ Nth(S, j) \in Nat
    BY <1>0, <2>1
  <2>3. Nth(S, i) # Nth(S, j)
    BY <1>2, <2>1, <2>2
  <2>4. ~(Nth(S, j) < Nth(S, i))
    <3>1. SUFFICES ASSUME Nth(S, j) < Nth(S, i) PROVE FALSE
      OBVIOUS
    <3>2. Cardinality(Below(S, Nth(S, j))) < Cardinality(Below(S, Nth(S, i)))
      BY <2>1, <3>1, MoreBelow
    <3> QED
      BY <1>2, <2>1, <2>2, <3>2
  <2>5. Ascending(S)[i] = Nth(S, i) /\ Ascending(S)[j] = Nth(S, j)
    BY DEF Ascending
  <2> QED
    BY <2>2, <2>3, <2>4, <2>5
<1>3. ASSUME NEW x \in S PROVE \E i \in 1..Cardinality(S) : Ascending(S)[i] = x
  <2> DEFINE c == Cardinality(Below(S, x))
  <2>0. c \in Nat /\ c < Cardinality(S)
    BY BelowIsFinite
  <2> HIDE DEF c
  <2>1. PICK n \in 1..Cardinality(S) : n - 1 = c
    <3>1. c + 1 \in 1..Cardinality(S) /\ (c + 1) - 1 = c
      BY <1>0, <2>0
    <3> QED
      BY <3>1
  <2>2. Nth(S, n) \in S /\ Cardinality(Below(S, Nth(S, n))) = c
    BY <2>1, NthIsThere
  <2>3. x \in Nat /\ Nth(S, n) \in Nat
    BY <2>2
  <2>4. ~(Nth(S, n) < x)
    <3> SUFFICES ASSUME Nth(S, n) < x PROVE FALSE
      OBVIOUS
    <3>1. Cardinality(Below(S, Nth(S, n))) < Cardinality(Below(S, x))
      BY <2>2, MoreBelow
    <3> QED
      BY <2>0, <2>2, <3>1 DEF c
  <2>5. ~(x < Nth(S, n))
    <3> SUFFICES ASSUME x < Nth(S, n) PROVE FALSE
      OBVIOUS
    <3>1. Cardinality(Below(S, x)) < Cardinality(Below(S, Nth(S, n)))
      BY <2>2, MoreBelow
    <3> QED
      BY <2>0, <2>2, <3>1 DEF c
  <2>6. Nth(S, n) = x
    BY <2>3, <2>4, <2>5
  <2> QED
    BY <2>6 DEF Ascending
<1> QED
  BY <1>0, <1>1, <1>2, <1>3

-----------------------------------------------------------------------------
(* The lists: which rows they hold, and that they hold none twice.         *)

Distinct(list) ==
    list # Unloaded => \A i, j \in DOMAIN list : list[i].id = list[j].id => i = j

LEMMA IsList ==
    ASSUME NEW l \in Seq(Item)
    PROVE  /\ Len(l) \in Nat /\ DOMAIN l = 1..Len(l) /\ l \in [1..Len(l) -> Item]
           /\ \A i \in DOMAIN l : l[i] \in Item
           /\ l # Unloaded
<1>1. Len(l) \in Nat /\ DOMAIN l = 1..Len(l) /\ l \in [1..Len(l) -> Item]
  BY LenProperties
<1>2. l # Unloaded
  BY NamesAssumption
<1> QED
  BY <1>1, <1>2

LEMMA MakesList ==
    ASSUME NEW n \in Nat, NEW m \in [1..n -> Item]
    PROVE  m \in Seq(Item)
  BY SeqDef

\* A list whose rows are rewritten in place.
LEMMA SameRows ==
    ASSUME NEW l \in Seq(Item), NEW m \in [DOMAIN l -> Item],
           \A i \in DOMAIN l : m[i].id = l[i].id
    PROVE  /\ m \in Seq(Item)
           /\ \A id : HasRow(m, id) <=> HasRow(l, id)
           /\ Distinct(l) => Distinct(m)
<1>1. Len(l) \in Nat /\ DOMAIN l = 1..Len(l) /\ l # Unloaded /\ DOMAIN m = DOMAIN l
  BY IsList
<1>2. m \in Seq(Item)
  BY <1>1, MakesList
<1>3. m # Unloaded
  BY <1>2, IsList
<1> QED
  BY <1>1, <1>2, <1>3 DEF HasRow, Distinct

LEMMA PatchedRows ==
    ASSUME NEW l \in Seq(Item), NEW id, NEW row \in Row
    PROVE  /\ Patched(l, id, row) \in Seq(Item)
           /\ \A other : HasRow(Patched(l, id, row), other) <=> HasRow(l, other)
           /\ Distinct(l) => Distinct(Patched(l, id, row))
<1>1. \A i \in DOMAIN l : l[i] \in Item
  BY IsList
<1>2. ASSUME NEW i \in DOMAIN l
      PROVE  /\ [l[i] EXCEPT !.row = row] \in Item
             /\ [l[i] EXCEPT !.row = row].id = l[i].id
  BY <1>1 DEF Item
<1>3. /\ Patched(l, id, row) \in [DOMAIN l -> Item]
      /\ \A i \in DOMAIN l : Patched(l, id, row)[i].id = l[i].id
  BY <1>1, <1>2 DEF Patched
<1> QED
  BY <1>3, SameRows

\* The list with the reaction of one row set.
Reacted(l, id, reacted) ==
    [i \in DOMAIN l |-> IF l[i].id = id THEN [l[i] EXCEPT !.row.reacted = reacted] ELSE l[i]]

LEMMA ReactedRows ==
    ASSUME NEW l \in Seq(Item), NEW id, NEW reacted \in BOOLEAN
    PROVE  /\ Reacted(l, id, reacted) \in Seq(Item)
           /\ \A other : HasRow(Reacted(l, id, reacted), other) <=> HasRow(l, other)
           /\ Distinct(l) => Distinct(Reacted(l, id, reacted))
<1>1. \A i \in DOMAIN l : l[i] \in Item
  BY IsList
<1>2. ASSUME NEW i \in DOMAIN l
      PROVE  /\ [l[i] EXCEPT !.row.reacted = reacted] \in Item
             /\ [l[i] EXCEPT !.row.reacted = reacted].id = l[i].id
  <2>1. l[i].id \in Ids \cup Sends /\ l[i].row \in Row /\ l[i] = [id |-> l[i].id, row |-> l[i].row]
    BY <1>1 DEF Item
  <2>2. [l[i].row EXCEPT !.reacted = reacted] \in Row
    BY <2>1 DEF Row
  <2> QED
    BY <2>1, <2>2 DEF Item
<1>3. /\ Reacted(l, id, reacted) \in [DOMAIN l -> Item]
      /\ \A i \in DOMAIN l : Reacted(l, id, reacted)[i].id = l[i].id
  BY <1>1, <1>2 DEF Reacted
<1> QED
  BY <1>3, SameRows

LEMMA AppendedRow ==
    ASSUME NEW l \in Seq(Item), NEW item \in Item
    PROVE  /\ Append(l, item) \in Seq(Item)
           /\ \A id : HasRow(Append(l, item), id) <=> HasRow(l, id) \/ id = item.id
           /\ Distinct(l) /\ ~HasRow(l, item.id) => Distinct(Append(l, item))
<1> DEFINE m == Append(l, item)  n == Len(l)
<1>1. n \in Nat /\ DOMAIN l = 1..n /\ l # Unloaded
  BY IsList
<1>2. /\ m \in Seq(Item) /\ DOMAIN m = 1..(n + 1) /\ m # Unloaded
      /\ \A i \in 1..n : m[i] = l[i]
      /\ m[n + 1] = item
  BY AppendProperties, IsList
<1> HIDE DEF m, n
<1>3. DOMAIN m = DOMAIN l \cup {n + 1} /\ n + 1 \notin DOMAIN l
  BY <1>1, <1>2
<1>4. \A id : HasRow(m, id) <=> HasRow(l, id) \/ id = item.id
  BY <1>1, <1>2, <1>3 DEF HasRow
<1>5. ASSUME Distinct(l), ~HasRow(l, item.id) PROVE Distinct(m)
  BY <1>1, <1>2, <1>3, <1>5 DEF HasRow, Distinct
<1> QED
  BY <1>2, <1>4, <1>5 DEF m

\* What is taken out is gone, the rest stays, in its order.
LEMMA WithoutRows ==
    ASSUME NEW l \in Seq(Item), NEW ids
    PROVE  /\ Without(l, ids) \in Seq(Item)
           /\ \A id : HasRow(Without(l, ids), id) <=> HasRow(l, id) /\ id \notin ids
           /\ Distinct(l) => Distinct(Without(l, ids))
<1> DEFINE S == {i \in DOMAIN l : l[i].id \notin ids}  f == Ascending(S)  n == Cardinality(S)
           m == Without(l, ids)
<1>1. Len(l) \in Nat /\ DOMAIN l = 1..Len(l) /\ l # Unloaded /\ \A i \in DOMAIN l : l[i] \in Item
  BY IsList
<1>2. IsFiniteSet(S) /\ \A i \in S : i \in Nat
  <2>1. IsFiniteSet(1..Len(l))
    BY <1>1, FS_Interval
  <2>2. S \subseteq 1..Len(l) /\ \A i \in 1..Len(l) : i \in Nat
    BY <1>1
  <2> HIDE DEF S
  <2> QED
    BY <2>1, <2>2, FS_Subset
<1>3. /\ n \in Nat /\ f \in [1..n -> S]
      /\ \A i, j \in 1..n : i < j => f[i] < f[j]
      /\ \A x \in S : \E i \in 1..n : f[i] = x
  <2> HIDE DEF S
  <2> QED
    BY <1>2, AscendingLists
<1>4. m = [i \in 1..n |-> l[f[i]]]
  <2>1. DOMAIN f = 1..n
    BY <1>3
  <2> QED
    BY <2>1 DEF Without
<1>5. S \subseteq DOMAIN l /\ \A i \in DOMAIN l : i \in S <=> l[i].id \notin ids
  OBVIOUS
<1>6. \A i, j \in 1..n : f[i] = f[j] => i = j
  <2> SUFFICES ASSUME NEW i \in 1..n, NEW j \in 1..n, f[i] = f[j] PROVE i = j
    OBVIOUS
  <2>1. f[i] \in Nat /\ f[j] \in Nat /\ i \in Nat /\ j \in Nat
    BY <1>2, <1>3
  <2>2. ~(i < j) /\ ~(j < i)
    BY <1>3, <2>1
  <2> QED
    BY <2>1, <2>2
<1> HIDE DEF S, f, n, m
<1>7. \A i \in 1..n : f[i] \in DOMAIN l /\ m[i] = l[f[i]] /\ m[i] \in Item /\ l[f[i]].id \notin ids
  BY <1>1, <1>3, <1>4, <1>5
<1>8. m \in Seq(Item) /\ DOMAIN m = 1..n /\ m # Unloaded
  BY <1>3, <1>4, <1>7, MakesList, IsList
<1>9. ASSUME NEW id PROVE HasRow(m, id) <=> HasRow(l, id) /\ id \notin ids
  <2>1. ASSUME HasRow(m, id) PROVE HasRow(l, id) /\ id \notin ids
    BY <1>1, <1>7, <1>8, <2>1 DEF HasRow
  <2>2. ASSUME HasRow(l, id), id \notin ids PROVE HasRow(m, id)
    <3>1. PICK i \in DOMAIN l : l[i].id = id
      BY <2>2 DEF HasRow
    <3>2. PICK j \in 1..n : f[j] = i
      BY <1>3, <1>5, <2>2, <3>1
    <3> QED
      BY <1>7, <1>8, <3>1, <3>2 DEF HasRow
  <2> QED
    BY <2>1, <2>2
<1>10. ASSUME Distinct(l) PROVE Distinct(m)
  <2>1. \A i, j \in DOMAIN l : l[i].id = l[j].id => i = j
    BY <1>1, <1>10 DEF Distinct
  <2> QED
    BY <1>6, <1>7, <1>8, <2>1 DEF Distinct
<1> QED
  BY <1>8, <1>9, <1>10 DEF m

LEMMA OrEmptyRows ==
    ASSUME NEW l \in List
    PROVE  /\ OrEmpty(l) \in Seq(Item)
           /\ \A id : HasRow(OrEmpty(l), id) <=> HasRow(l, id)
           /\ Distinct(l) => Distinct(OrEmpty(l))
<1>1. << >> \in Seq(Item)
  BY EmptySeq
<1>2. DOMAIN << >> = {} /\ << >> # Unloaded
  <2>1. DOMAIN << >> = 1..0
    BY <1>1, EmptySeq, LenProperties
  <2>2. DOMAIN << >> = {}
    BY <2>1
  <2>3. \A l2 \in Seq(Item) : l2 # Unloaded
    BY IsList
  <2> QED
    BY <1>1, <2>2, <2>3
<1> QED
  BY <1>1, <1>2 DEF List, OrEmpty, HasRow, Distinct

\* The server's answer: oldest first, no row twice, no placeholder.
LEMMA AnswerRows ==
    ASSUME TypeOK, NEW k \in Keys
    PROVE  /\ list_channel_messages(k) \in Seq(Item)
           /\ Distinct(list_channel_messages(k))
           /\ \A s \in Sends : ~HasRow(list_channel_messages(k), s)
<1> DEFINE found == Selected(k)
           all == Ascending(found)
           n == IF Len(all) < PageCap THEN Len(all) ELSE PageCap
           m == list_channel_messages(k)
<1>1. found \subseteq Ids /\ \A id \in found : rows[id] \in Row
  BY DEF Selected, Exists
<1>2. IsFiniteSet(found) /\ \A id \in found : id \in Nat
  BY <1>1, ChatAssumption, FS_Interval, FS_Subset DEF Ids
<1>3. m = [i \in 1..n |-> [id |-> all[i], row |-> rows[all[i]]]]
  BY DEF list_channel_messages
<1> HIDE DEF found, m
<1>4. /\ Cardinality(found) \in Nat /\ all \in [1..Cardinality(found) -> found]
      /\ \A i, j \in 1..Cardinality(found) : i < j => all[i] < all[j]
  BY <1>2, AscendingLists
<1>5. Len(all) = Cardinality(found)
  <2>1. all \in Seq(found)
    BY <1>4, SeqDef
  <2> HIDE DEF all
  <2>2. Len(all) \in Nat /\ 1..Len(all) = 1..Cardinality(found)
    BY <1>4, <2>1, LenProperties
  <2> QED
    BY <1>4, <2>2
<1>6. n \in Nat /\ 1..n \subseteq 1..Cardinality(found)
  BY <1>4, <1>5, ChatAssumption
<1> HIDE DEF all, n
<1>7. \A i \in 1..n : all[i] \in found /\ m[i] = [id |-> all[i], row |-> rows[all[i]]]
  BY <1>3, <1>4, <1>6
<1>8. \A i \in 1..n : m[i] \in Item /\ m[i].id \in Ids /\ m[i].id = all[i]
  <2> SUFFICES ASSUME NEW i \in 1..n
               PROVE  m[i] \in Item /\ m[i].id \in Ids /\ m[i].id = all[i]
    OBVIOUS
  <2>1. all[i] \in Ids /\ rows[all[i]] \in Row /\ m[i] = [id |-> all[i], row |-> rows[all[i]]]
    BY <1>1, <1>7
  <2> QED
    BY <2>1 DEF Item
<1>9. m \in Seq(Item) /\ DOMAIN m = 1..n
  BY <1>3, <1>6, <1>8, MakesList
<1>10. Distinct(m)
  <2> SUFFICES ASSUME NEW i \in 1..n, NEW j \in 1..n, all[i] = all[j] PROVE i = j
    BY <1>8, <1>9 DEF Distinct
  <2>1. i \in Nat /\ j \in Nat
    BY <1>6
  <2>3. all[i] \in Nat /\ all[j] \in Nat
    BY <1>2, <1>7
  <2>2. ~(i < j) /\ ~(j < i)
    BY <1>4, <1>6, <2>1, <2>3
  <2> QED
    BY <2>1, <2>2
<1>11. \A s \in Sends : ~HasRow(m, s)
  BY <1>8, <1>9, NamesAssumption DEF HasRow
<1> QED
  BY <1>9, <1>10, <1>11 DEF m

-----------------------------------------------------------------------------
(* The entries of the cache.                                               *)

\* Only the list a send was made in shows its placeholder, S being the sends.
AtHome(list, k, S) ==
    \A s \in Sends : HasRow(list, s) => S[s] = Ended \/ (S[s] \in Send /\ S[s].key = k)

EntryFits(e, k, S) ==
    /\ e \in Entry
    /\ Distinct(e.data) /\ Distinct(e.before) /\ Distinct(e.answer)
    /\ AtHome(e.data, k, S) /\ AtHome(e.before, k, S)
    /\ \A s \in Sends : ~HasRow(e.answer, s)

\* A send ends for good, and keeps its list until then.
GoesOn(S, T) ==
    \A s \in Sends :
        /\ S[s] = Ended => T[s] = Ended
        /\ S[s] \in Send => T[s] = Ended \/ (T[s] \in Send /\ T[s].key = S[s].key)

LEMMA Ageing ==
    ASSUME NEW e, NEW k, NEW S, NEW T, EntryFits(e, k, S), GoesOn(S, T)
    PROVE  EntryFits(e, k, T)
<1>1. ASSUME NEW l, AtHome(l, k, S) PROVE AtHome(l, k, T)
  BY <1>1 DEF AtHome, GoesOn
<1> QED
  BY <1>1 DEF EntryFits

LEMMA UnloadedFits ==
    /\ Distinct(Unloaded) /\ \A id : ~HasRow(Unloaded, id) /\ Unloaded \in List
    /\ \A k, S : AtHome(Unloaded, k, S)
  BY DEF Distinct, HasRow, AtHome, List

LEMMA NewKeyFits ==
    ASSUME NEW k, NEW S
    PROVE  EntryFits(NewKey, k, S)
  BY UnloadedFits DEF EntryFits, NewKey, Entry

\* A fetch only moves lists from one field to another.
LEMMA MovedFits ==
    ASSUME NEW e, NEW k, NEW S, EntryFits(e, k, S),
           NEW r \in Entry,
           r.data \in {e.data, e.before, e.answer},
           r.before \in {e.before, e.data, Unloaded},
           r.answer \in {e.answer, Unloaded}
    PROVE  EntryFits(r, k, S)
<1>1. AtHome(e.answer, k, S)
  BY DEF EntryFits, AtHome
<1>2. /\ Distinct(r.data) /\ AtHome(r.data, k, S)
      /\ Distinct(r.before) /\ AtHome(r.before, k, S)
      /\ Distinct(r.answer) /\ \A s \in Sends : ~HasRow(r.answer, s)
  BY <1>1, UnloadedFits DEF EntryFits
<1> QED
  BY <1>2 DEF EntryFits

LEMMA AskFits ==
    ASSUME NEW e, NEW k, NEW S, EntryFits(e, k, S)
    PROVE  EntryFits(Ask(e), k, S) /\ Ask(e).data = e.data
<1>1. e \in Entry
  BY DEF EntryFits
<1>2. CASE Fetching(e) /\ e.data = Unloaded
  BY <1>2 DEF Ask
<1>3. CASE ~(Fetching(e) /\ e.data = Unloaded)
  <2> DEFINE r == [e EXCEPT !.get = "asked", !.answer = Unloaded, !.before = e.data]
  <2>1. r \in Entry /\ r.data = e.data /\ r.before = e.data /\ r.answer = Unloaded
    BY <1>1, UnloadedFits DEF Entry
  <2>2. Ask(e) = r
    BY <1>3 DEF Ask
  <2> HIDE DEF r
  <2> QED
    BY <2>1, <2>2, MovedFits
<1> QED
  BY <1>2, <1>3

LEMMA InvalidateFits ==
    ASSUME NEW e, NEW k, NEW S, EntryFits(e, k, S), NEW shown \in BOOLEAN
    PROVE  /\ EntryFits(invalidateQueries(e, shown), k, S)
           /\ invalidateQueries(e, shown).data = e.data
<1> DEFINE marked == [e EXCEPT !.invalid = TRUE]
<1>1. /\ marked \in Entry /\ marked.data = e.data /\ marked.before = e.before
      /\ marked.answer = e.answer
  BY DEF Entry, EntryFits
<1>2. invalidateQueries(e, shown) = IF e = NewKey THEN e ELSE IF shown THEN Ask(marked) ELSE marked
  BY DEF invalidateQueries
<1> HIDE DEF marked
<1>3. EntryFits(marked, k, S)
  BY <1>1, MovedFits
<1> QED
  BY <1>1, <1>2, <1>3, AskFits

LEMMA CancelFits ==
    ASSUME NEW e, NEW k, NEW S, EntryFits(e, k, S)
    PROVE  /\ EntryFits(cancelQueries(e), k, S)
           /\ cancelQueries(e).data = IF Fetching(e) THEN e.before ELSE e.data
<1>1. CASE ~Fetching(e)
  BY <1>1 DEF cancelQueries
<1>2. CASE Fetching(e)
  <2> DEFINE r == [e EXCEPT !.get = "none", !.data = e.before, !.answer = Unloaded,
                            !.before = Unloaded]
  <2>1. r \in Entry /\ r.data = e.before /\ r.before = Unloaded /\ r.answer = Unloaded
    BY UnloadedFits DEF Entry, EntryFits
  <2>2. cancelQueries(e) = r
    BY <1>2 DEF cancelQueries
  <2> HIDE DEF r
  <2> QED
    BY <1>2, <2>1, <2>2, MovedFits
<1> QED
  BY <1>1, <1>2

LEMMA SetFits ==
    ASSUME NEW e, NEW k, NEW S, EntryFits(e, k, S),
           NEW l \in Seq(Item), Distinct(l), AtHome(l, k, S)
    PROVE  EntryFits(setQueryData(e, l), k, S) /\ setQueryData(e, l).data = l
<1> DEFINE r == setQueryData(e, l)
<1>1. r \in Entry /\ r.data = l /\ r.before = e.before /\ r.answer = e.answer
  BY DEF setQueryData, EntryFits, Entry, List
<1> HIDE DEF r
<1>2. EntryFits(r, k, S)
  BY <1>1 DEF EntryFits
<1> QED
  BY <1>1, <1>2 DEF r

-----------------------------------------------------------------------------
(* The invariant.                                                          *)

CacheFits == \A k \in Keys : EntryFits(cache[k], k, sends)

\* Only a send that waited for the network may leave its channel.
SendsFit ==
    \A s \in Sends : sends[s] \in Send =>
        /\ sends[s].phase = "paused" => sends[s].waited
        /\ ~sends[s].waited => sends[s].channel = sends[s].key.channel

\* What goes by the channel on screen needs one.
PageFits ==
    /\ view = None =>
        /\ socket = "closed" /\ composer = None
        /\ reaction # NoReaction => reaction.key # None
    /\ frames # {} => socket = "open"

\* What a frame says is deleted stays so.
DeletedAreGone ==
    \A f \in frames : f.type = "message_deleted" => \A id \in f.ids : rows[id] = Gone

ChatInv == TypeOK /\ CacheFits /\ SendsFit /\ PageFits /\ DeletedAreGone

-----------------------------------------------------------------------------
(* The server.                                                             *)

LEMMA FrameKinds ==
    ASSUME NEW f \in Frame
    PROVE  /\ f.type \in {"new_message", "message_updated", "reaction_update", "message_deleted"}
           /\ f.type \in {"new_message", "message_updated"} => f.id \in Ids /\ f.row \in Row
           /\ f.type = "reaction_update" => f.id \in Ids /\ f.reacted \in BOOLEAN
           /\ f.type = "message_deleted" => f.ids \in SUBSET Ids
  BY DEF Frame

ServerFits ==
    /\ rows \in [Ids -> Row \cup {Unborn, Gone}] /\ writes \in 0..MaxWrites
    /\ frames \subseteq Frame /\ DeletedAreGone
    /\ frames # {} => socket = "open"

LEMMA WriteKeeps ==
    ASSUME ServerFits, joined => socket = "open", socket' = socket,
           NEW newRows \in [Ids -> Row \cup {Unborn, Gone}], NEW frame \in Frame, NEW c,
           Write(newRows, frame, c),
           \A id \in Ids : rows[id] = Gone => newRows[id] = Gone,
           frame.type = "message_deleted" => \A id \in frame.ids : newRows[id] = Gone
    PROVE  ServerFits'
<1>1. rows' = newRows /\ writes' \in 0..MaxWrites
  BY ChatAssumption DEF Write, ServerFits
<1>2. frames' = frames \/ (joined /\ frames' = frames \cup {frame})
  BY DEF Write
<1>3. \A f \in frames' : f \in Frame /\ (f \in frames \/ f = frame)
  BY <1>2 DEF ServerFits
<1>4. DeletedAreGone'
  <2> SUFFICES ASSUME NEW f \in frames', f.type = "message_deleted", NEW id \in f.ids
               PROVE  newRows[id] = Gone
    BY <1>1 DEF DeletedAreGone
  <2>1. id \in Ids
    BY <1>3, FrameKinds
  <2> QED
    BY <1>3, <2>1 DEF ServerFits, DeletedAreGone
<1> QED
  BY <1>1, <1>2, <1>3, <1>4 DEF ServerFits

LEMMA PostKeeps ==
    ASSUME ServerFits, joined => socket = "open", socket' = socket,
           NEW c \in Channels, NEW text \in Texts, NEW parent \in Ids \cup {None},
           create_message(c, text, parent)
    PROVE  /\ ServerFits'
           /\ \E id \in Ids : rows[id] = Unborn /\ rows'[id] # Unborn /\ rows'[id].channel = c
<1> DEFINE row == [channel |-> c, text |-> text, reacted |-> FALSE, parent |-> parent]
<1>1. PICK id \in Ids : /\ rows[id] = Unborn
                        /\ Write([rows EXCEPT ![id] = row],
                                 [type |-> "new_message", id |-> id, row |-> row], c)
  BY DEF create_message
<1>2. row \in Row /\ row # Unborn /\ row.channel = c
  <2>1. row \in Row
    BY DEF Row
  <2> QED
    BY <2>1, NamesAssumption
<1> HIDE DEF row
<1> DEFINE newRows == [rows EXCEPT ![id] = row]
           frame == [type |-> "new_message", id |-> id, row |-> row]
<1>3. /\ newRows \in [Ids -> Row \cup {Unborn, Gone}]
      /\ \A r \in Ids : rows[r] = Gone => newRows[r] = Gone
      /\ newRows[id] = row
  BY <1>1, <1>2, NamesAssumption DEF ServerFits
<1>4. frame \in Frame /\ frame.type # "message_deleted"
  BY <1>2 DEF Frame
<1>5. Write(newRows, frame, c) /\ rows' = newRows
  BY <1>1 DEF Write
<1> HIDE DEF newRows, frame
<1>6. ServerFits'
  BY <1>3, <1>4, <1>5, WriteKeeps
<1> QED
  BY <1>1, <1>2, <1>3, <1>5, <1>6

LEMMA EditKeeps ==
    ASSUME ServerFits, joined => socket = "open", socket' = socket,
           NEW id \in Ids, update_message(id)
    PROVE  ServerFits'
<1>1. PICK text \in Texts :
        LET row == [rows[id] EXCEPT !.text = text] IN
        Exists(id) /\ Write([rows EXCEPT ![id] = row],
                            [type |-> "message_updated", id |-> id, row |-> row], row.channel)
  BY DEF update_message
<1> DEFINE row == [rows[id] EXCEPT !.text = text]
<1>2. rows[id] \in Row /\ rows[id] # Gone
  BY <1>1, NamesAssumption DEF Exists
<1>3. row \in Row
  BY <1>2 DEF Row
<1>4. Write([rows EXCEPT ![id] = row],
            [type |-> "message_updated", id |-> id, row |-> row], row.channel)
  BY <1>1
<1> HIDE DEF row
<1> DEFINE newRows == [rows EXCEPT ![id] = row]
           frame == [type |-> "message_updated", id |-> id, row |-> row]
<1>5. /\ newRows \in [Ids -> Row \cup {Unborn, Gone}]
      /\ \A r \in Ids : rows[r] = Gone => newRows[r] = Gone
  BY <1>2, <1>3 DEF ServerFits
<1>6. frame \in Frame /\ frame.type # "message_deleted"
  BY <1>3 DEF Frame
<1>7. Write(newRows, frame, row.channel)
  BY <1>4
<1> HIDE DEF newRows, frame
<1> QED
  BY <1>5, <1>6, <1>7, WriteKeeps

LEMMA ToggleKeeps ==
    ASSUME ServerFits, joined => socket = "open", socket' = socket,
           NEW id \in Ids, toggle_reaction(id)
    PROVE  ServerFits' /\ rows[id].reacted \in BOOLEAN
<1> DEFINE row == [rows[id] EXCEPT !.reacted = ~@]
           newRows == [rows EXCEPT ![id] = row]
           frame == [type |-> "reaction_update", id |-> id, channel |-> row.channel,
                     reacted |-> row.reacted]
<1>1. Exists(id) /\ Write(newRows, frame, row.channel)
  BY DEF toggle_reaction
<1>2. rows[id] \in Row /\ rows[id] # Gone
  BY <1>1, NamesAssumption DEF Exists
<1>3. row \in Row
  BY <1>2 DEF Row
<1>4. rows[id].reacted \in BOOLEAN /\ row.reacted \in BOOLEAN /\ row.channel \in Channels
  BY <1>2, <1>3 DEF Row
<1> HIDE DEF row
<1>5. /\ newRows \in [Ids -> Row \cup {Unborn, Gone}]
      /\ \A r \in Ids : rows[r] = Gone => newRows[r] = Gone
  BY <1>2, <1>3 DEF ServerFits
<1>6. frame \in Frame /\ frame.type # "message_deleted"
  BY <1>4 DEF Frame
<1> HIDE DEF newRows, frame
<1> QED
  BY <1>1, <1>4, <1>5, <1>6, WriteKeeps

LEMMA DeleteKeeps ==
    ASSUME ServerFits, joined => socket = "open", socket' = socket,
           NEW id \in Ids, delete_message(id)
    PROVE  ServerFits'
<1> DEFINE removed == _message_subtree_ids(id)
           newRows == [r \in Ids |-> IF r \in removed THEN Gone ELSE rows[r]]
           frame == [type |-> "message_deleted", ids |-> removed, channel |-> rows[id].channel]
<1>1. Exists(id) /\ Write(newRows, frame, rows[id].channel)
  BY DEF delete_message
<1>2. removed \subseteq Ids
  BY DEF _message_subtree_ids
<1> HIDE DEF removed
<1>3. rows[id].channel \in Channels
  BY <1>1 DEF Exists, Row
<1>4. /\ newRows \in [Ids -> Row \cup {Unborn, Gone}]
      /\ \A r \in Ids : rows[r] = Gone => newRows[r] = Gone
      /\ \A r \in removed : newRows[r] = Gone
  BY <1>2 DEF ServerFits
<1>5. frame \in Frame /\ frame.ids = removed
  BY <1>2, <1>3 DEF Frame
<1> HIDE DEF newRows, frame
<1> QED
  BY <1>1, <1>4, <1>5, WriteKeeps

-----------------------------------------------------------------------------
(* The sends, the page and the socket.                                     *)

LEMMA SendKinds ==
    /\ Unsent # Ended /\ Unsent \notin Send /\ Ended \notin Send
    /\ \A e \in Send \cup {Unsent, Ended} :
            e.phase \in {"paused", "sent", "done", "failed"} => e \in Send
<1>1. Unsent.phase = "unsent" /\ Ended.phase = "ended"
  BY DEF Unsent, Ended
<1>2. \A e \in Send : e.phase \in {"paused", "sent", "done", "failed"}
  BY DEF Send
<1> QED
  BY <1>1, <1>2

LEMMA ReactionKinds ==
    ASSUME reaction \in Reaction \cup {NoReaction}
    PROVE  /\ reaction.phase \in {"sent", "done"} => reaction \in Reaction
           /\ reaction \in Reaction =>
                /\ reaction # NoReaction /\ reaction.id \in Ids /\ reaction.key \in Keys \cup {None}
                /\ reaction.phase = "done" => reaction.reacted \in BOOLEAN
<1>1. NoReaction.phase = "none"
  BY DEF NoReaction
<1>2. reaction \in Reaction =>
        /\ reaction.id \in Ids /\ reaction.key \in Keys \cup {None}
        /\ reaction.phase \in {"sent", "done"}
        /\ reaction.phase = "done" => reaction.reacted \in BOOLEAN
  BY DEF Reaction
<1> QED
  BY <1>1, <1>2

PageTyped ==
    /\ view \in Keys \cup {None}
    /\ composer \in Sends \cup {None} /\ replyingTo \in Ids \cup {None}
    /\ reaction \in Reaction \cup {NoReaction}
    /\ joined \in BOOLEAN /\ socket \in {"closed", "open"}
    /\ joined => socket = "open" /\ view # None

LEMMA InvParts ==
    ASSUME ChatInv
    PROVE  /\ ServerFits /\ PageTyped /\ PageFits /\ CacheFits /\ SendsFit
           /\ sends \in [Sends -> Send \cup {Unsent, Ended}]
           /\ cache \in [Keys -> Entry]
  BY DEF ChatInv, TypeOK, ServerFits, PageTyped, PageFits

SendsTyped == sends \in [Sends -> Send \cup {Unsent, Ended}]

\* One send moves on.
LEMMA OneSendMoves ==
    ASSUME SendsTyped, SendsFit, NEW s \in Sends, NEW e \in Send \cup {Ended},
           sends' = [sends EXCEPT ![s] = e], sends[s] # Ended,
           sends[s] \in Send => e = Ended \/ e.key = sends[s].key,
           e \in Send => /\ e.phase = "paused" => e.waited
                         /\ ~e.waited => e.channel = e.key.channel
    PROVE  SendsTyped' /\ SendsFit' /\ GoesOn(sends, sends')
<1>1. sends'[s] = e /\ \A o \in Sends : o # s => sends'[o] = sends[o]
  BY DEF SendsTyped
<1>2. SendsTyped'
  BY DEF SendsTyped
<1>3. SendsFit'
  <2> SUFFICES ASSUME NEW o \in Sends, sends'[o] \in Send
               PROVE  /\ sends'[o].phase = "paused" => sends'[o].waited
                      /\ ~sends'[o].waited => sends'[o].channel = sends'[o].key.channel
    BY DEF SendsFit
  <2> QED
    BY <1>1 DEF SendsFit
<1>4. GoesOn(sends, sends')
  BY <1>1 DEF GoesOn
<1> QED
  BY <1>2, <1>3, <1>4

LEMMA SendsStay ==
    ASSUME SendsTyped, SendsFit, UNCHANGED sends
    PROVE  SendsTyped' /\ SendsFit' /\ GoesOn(sends, sends')
  BY DEF SendsTyped, SendsFit, GoesOn

LEMMA LeaveKeepsSends ==
    ASSUME ChatInv, Leave
    PROVE  SendsTyped' /\ SendsFit' /\ GoesOn(sends, sends')
<1>1. SendsTyped /\ SendsFit /\ view \in Keys /\ replyingTo \in Ids \cup {None}
  BY InvParts DEF Leave, SendsTyped, PageTyped
<1>2. view.channel \in Channels
  BY <1>1 DEF Keys
<1> DEFINE moved(s) == [sends[s] EXCEPT !.channel = view.channel, !.parent = replyingTo]
<1>3. ASSUME NEW s \in Sends
      PROVE  \/ sends'[s] = sends[s]
             \/ /\ sends[s] \in Send /\ sends[s].phase = "paused"
                /\ sends'[s] = moved(s)
  BY <1>1, SendKinds DEF Leave, SendsTyped
<1>4. ASSUME NEW s \in Sends, sends[s] \in Send, sends[s].phase = "paused"
      PROVE  /\ moved(s) \in Send /\ moved(s).key = sends[s].key /\ moved(s).waited
  <2>1. sends[s].waited
    BY <1>1, <1>4 DEF SendsFit
  <2> QED
    BY <1>1, <1>2, <1>4, <2>1 DEF Send
<1>5. ASSUME NEW s \in Sends
      PROVE  /\ sends'[s] \in Send \cup {Unsent, Ended}
             /\ sends'[s] = sends[s] \/ (/\ sends[s] \in Send /\ sends'[s] \in Send
                                       /\ sends'[s].key = sends[s].key /\ sends'[s].waited)
  <2> HIDE DEF moved
  <2> QED
    BY <1>1, <1>3, <1>4 DEF SendsTyped
<1>6. DOMAIN sends' = Sends /\ sends' = [s \in Sends |-> sends'[s]]
  BY DEF Leave
<1>7. SendsTyped'
  BY <1>5, <1>6 DEF SendsTyped
<1>8. SendsFit'
  BY <1>1, <1>5 DEF SendsFit
<1>9. GoesOn(sends, sends')
  BY <1>5, SendKinds DEF GoesOn
<1> QED
  BY <1>7, <1>8, <1>9

LEMMA SendsKeep ==
    ASSUME ChatInv, [Next]_vars
    PROVE  SendsTyped' /\ SendsFit' /\ GoesOn(sends, sends')
<1>0. SendsTyped /\ SendsFit /\ PageTyped /\ PageFits
  BY InvParts DEF SendsTyped
<1>1. CASE Leave
  BY <1>1, LeaveKeepsSends
<1>2. ASSUME NEW s \in Sends, NEW text \in Texts, handleSend(s, text)
      PROVE  SendsTyped' /\ SendsFit' /\ GoesOn(sends, sends')
  <2>1. PICK offline \in BOOLEAN :
          sends' = [sends EXCEPT ![s] =
             [phase |-> IF offline THEN "paused" ELSE "sent", key |-> view,
              channel |-> view.channel, text |-> text, parent |-> replyingTo,
              waited |-> offline]]
    BY <1>2 DEF handleSend
  <2> DEFINE e == [phase |-> IF offline THEN "paused" ELSE "sent", key |-> view,
                   channel |-> view.channel, text |-> text, parent |-> replyingTo,
                   waited |-> offline]
  <2>2. sends[s] = Unsent /\ view \in Keys /\ view.channel \in Channels
        /\ replyingTo \in Ids \cup {None}
    BY <1>0, <1>2 DEF handleSend, ComposerEnabled, PageTyped, Keys
  <2>3. e \in Send /\ (e.phase = "paused" => e.waited) /\ e.channel = e.key.channel
    BY <2>2 DEF Send
  <2>4. sends' = [sends EXCEPT ![s] = e] /\ sends[s] # Ended /\ sends[s] \notin Send
    BY <2>1, <2>2, SendKinds
  <2> HIDE DEF e
  <2> QED
    BY <1>0, <2>3, <2>4, OneSendMoves
<1>3. ASSUME NEW s \in Sends, Resume(s)
      PROVE  SendsTyped' /\ SendsFit' /\ GoesOn(sends, sends')
  <2>1. sends[s].phase = "paused" /\ sends[s] \in Send /\ sends[s] # Ended
    BY <1>0, <1>3, SendKinds DEF Resume, SendsTyped
  <2>2. sends[s].waited
    BY <1>0, <2>1 DEF SendsFit
  <2>3. CASE composer = s
    <3> DEFINE e == [sends[s] EXCEPT !.phase = "sent", !.channel = view.channel,
                                     !.parent = replyingTo]
    <3>1. view \in Keys /\ view.channel \in Channels /\ replyingTo \in Ids \cup {None}
      BY <1>0, <2>3, ChatAssumption DEF PageTyped, PageFits, Keys
    <3>2. e \in Send /\ e.key = sends[s].key /\ e.waited
      BY <2>1, <2>2, <3>1 DEF Send
    <3>3. sends' = [sends EXCEPT ![s] = e]
      BY <1>3, <2>3 DEF Resume
    <3> HIDE DEF e
    <3> QED
      BY <1>0, <2>1, <3>2, <3>3, OneSendMoves
  <2>4. CASE composer # s
    <3> DEFINE e == [sends[s] EXCEPT !.phase = "sent"]
    <3>1. e \in Send /\ e.key = sends[s].key /\ e.waited
      BY <2>1, <2>2 DEF Send
    <3>2. sends' = [sends EXCEPT ![s] = e]
      BY <1>3, <2>4 DEF Resume
    <3> HIDE DEF e
    <3> QED
      BY <1>0, <2>1, <3>1, <3>2, OneSendMoves
  <2> QED
    BY <2>3, <2>4
<1>4. ASSUME NEW s \in Sends, NEW phase \in {"done", "failed"}, sends[s].phase \in {"sent", "done"},
             sends' = [sends EXCEPT ![s].phase = phase]
      PROVE  SendsTyped' /\ SendsFit' /\ GoesOn(sends, sends')
  <2> DEFINE e == [sends[s] EXCEPT !.phase = phase]
  <2>1. sends[s] \in Send /\ sends[s] # Ended
    BY <1>0, <1>4, SendKinds DEF SendsTyped
  <2>2. e \in Send /\ e.key = sends[s].key /\ e.phase # "paused"
        /\ (~e.waited => e.channel = e.key.channel)
    BY <1>0, <2>1 DEF Send, SendsFit
  <2>3. sends' = [sends EXCEPT ![s] = e]
    BY <1>4
  <2> HIDE DEF e
  <2> QED
    BY <1>0, <2>1, <2>2, <2>3, OneSendMoves
<1>5. ASSUME NEW s \in Sends, sendMessage(s) \/ SendFails(s)
      PROVE  SendsTyped' /\ SendsFit' /\ GoesOn(sends, sends')
  BY <1>4, <1>5 DEF sendMessage, SendFails
<1>6. ASSUME NEW s \in Sends, onSettled(s)
      PROVE  SendsTyped' /\ SendsFit' /\ GoesOn(sends, sends')
  <2>1. sends[s] # Ended /\ sends' = [sends EXCEPT ![s] = Ended]
    BY <1>6 DEF onSettled, Ended
  <2> QED
    BY <1>0, <2>1, OneSendMoves, SendKinds
<1>7. CASE OthersWrite
  BY <1>0, <1>7, SendsStay DEF OthersWrite
<1>8. CASE Refetch \/ \E k \in Keys : ServerReads(k) \/ GetLands(k) \/ GetFails(k)
  BY <1>0, <1>8, SendsStay DEF Refetch, ServerReads, GetLands, GetFails, restVars
<1>9. CASE Enter \/ \E k \in Keys : Select(k)
  BY <1>0, <1>9, SendsStay DEF Enter, Select
<1>10. CASE onCancelReply \/ \E id \in Ids : onReply(id) \/ handleToggleReaction(id)
  BY <1>0, <1>10, SendsStay DEF onCancelReply, onReply, handleToggleReaction
<1>11. CASE toggleReaction \/ ReactionFails \/ onReacted
  BY <1>0, <1>11, SendsStay DEF toggleReaction, ReactionFails, onReacted
<1>12. CASE onOpen \/ JoinRoom \/ onClose \/ \E f \in frames : onMessage(f)
  BY <1>0, <1>12, SendsStay DEF onOpen, JoinRoom, onClose, onMessage
<1>13. CASE UNCHANGED vars
  BY <1>0, <1>13, SendsStay DEF vars
<1> QED
  BY <1>1, <1>2, <1>3, <1>5, <1>6, <1>7, <1>8, <1>9, <1>10, <1>11, <1>12, <1>13 DEF Next

LEMMA OthersKeep ==
    ASSUME ServerFits, joined => socket = "open", OthersWrite
    PROVE  ServerFits'
<1>1. socket' = socket
  BY DEF OthersWrite, socketVars
<1>2. ASSUME NEW c \in Channels, NEW text \in Texts, NEW parent \in Ids \cup {None},
             create_message(c, text, parent)
      PROVE  ServerFits'
  BY <1>1, <1>2, PostKeeps
<1>3. ASSUME NEW id \in Ids, update_message(id) \/ toggle_reaction(id) \/ delete_message(id)
      PROVE  ServerFits'
  BY <1>1, <1>3, EditKeeps, ToggleKeeps, DeleteKeeps
<1> QED
  BY <1>2, <1>3 DEF OthersWrite

\* The room loses what was on its way, or some of it.
LEMMA ServerStays ==
    ASSUME ServerFits, UNCHANGED serverVars,
           frames' \subseteq frames, frames' # {} => socket' = socket
    PROVE  ServerFits'
  BY DEF ServerFits, DeletedAreGone, serverVars

LEMMA ServerKeeps ==
    ASSUME ChatInv, [Next]_vars
    PROVE  ServerFits'
<1>0. ServerFits /\ PageTyped /\ PageFits /\ SendsTyped
  BY InvParts DEF SendsTyped
<1>1. joined => socket = "open"
  BY <1>0 DEF PageTyped
<1>2. CASE OthersWrite
  BY <1>0, <1>1, <1>2, OthersKeep
<1>3. ASSUME NEW s \in Sends, sendMessage(s) PROVE ServerFits'
  <2>1. sends[s] \in Send
    BY <1>0, <1>3, SendKinds DEF sendMessage, SendsTyped
  <2>2. sends[s].channel \in Channels /\ sends[s].text \in Texts /\ sends[s].parent \in Ids \cup {None}
    BY <2>1 DEF Send
  <2>3. create_message(sends[s].channel, sends[s].text, sends[s].parent) /\ socket' = socket
    BY <1>3 DEF sendMessage
  <2> QED
    BY <1>0, <1>1, <2>2, <2>3, PostKeeps
<1>4. CASE toggleReaction
  <2>1. reaction.id \in Ids
    BY <1>0, <1>4, ReactionKinds DEF toggleReaction, PageTyped
  <2>2. toggle_reaction(reaction.id) /\ socket' = socket
    BY <1>4 DEF toggleReaction
  <2> QED
    BY <1>0, <1>1, <2>1, <2>2, ToggleKeeps
<1>5. ASSUME NEW k \in Keys, ServerReads(k) \/ GetLands(k) \/ GetFails(k)
      PROVE  ServerFits'
  BY <1>0, <1>5, ServerStays DEF ServerReads, GetLands, GetFails, restVars, socketVars
<1>6. ASSUME NEW k \in Keys, Select(k) PROVE ServerFits'
  BY <1>0, <1>6, ServerStays DEF Select, socketVars
<1>7. ASSUME NEW id \in Ids, onReply(id) \/ handleToggleReaction(id)
      PROVE  ServerFits'
  BY <1>0, <1>7, ServerStays DEF onReply, handleToggleReaction, socketVars
<1>8. ASSUME NEW s \in Sends, NEW text \in Texts,
             handleSend(s, text)
      PROVE  ServerFits'
  BY <1>0, <1>8, ServerStays DEF handleSend, socketVars
<1>9. CASE ReactionFails \/ onReacted
  BY <1>0, <1>9, ServerStays DEF ReactionFails, onReacted, socketVars
<1>10. CASE onOpen
  <2>1. UNCHANGED <<serverVars, frames>> /\ frames = {}
    BY <1>0, <1>10 DEF onOpen, PageFits
  <2> QED
    BY <1>0, <2>1, ServerStays
<1>11. CASE JoinRoom \/ onClose
  BY <1>0, <1>11, ServerStays DEF JoinRoom, onClose
<1>12. ASSUME NEW f \in frames, onMessage(f) PROVE ServerFits'
  BY <1>0, <1>12, ServerStays DEF onMessage
<1>13. CASE UNCHANGED vars
  BY <1>0, <1>13, ServerStays DEF vars, socketVars
<1>14. ASSUME NEW s \in Sends, Resume(s) \/ SendFails(s) \/ onSettled(s) PROVE ServerFits'
  BY <1>0, <1>14, ServerStays DEF Resume, SendFails, onSettled, socketVars
<1>15. CASE Refetch \/ Enter \/ Leave \/ onCancelReply
  BY <1>0, <1>15, ServerStays DEF Refetch, restVars, Enter, Leave, onCancelReply, socketVars
<1> QED
  BY <1>2, <1>3, <1>4, <1>5, <1>6, <1>7, <1>8, <1>9, <1>10, <1>11, <1>12, <1>13, <1>14, <1>15 DEF Next

PageStep == PageTyped' /\ PageFits'

\* Steps that leave the page on screen and its socket alone.
LEMMA PageStays ==
    ASSUME PageTyped, PageFits, UNCHANGED <<view, joined, socket>>,
           composer' \in {composer, None}, replyingTo' \in {replyingTo, None},
           reaction' \in {reaction, NoReaction}, frames' # {} => socket = "open"
    PROVE  PageStep
  BY DEF PageTyped, PageFits, PageStep

LEMMA LeaveKeepsPage ==
    ASSUME PageTyped, PageFits, Leave
    PROVE  PageStep
<1>1. /\ view \in Keys /\ view # None /\ view' = None /\ composer' = None /\ replyingTo' = None
      /\ socket' = "closed" /\ joined' = FALSE /\ frames' = {}
  BY DEF PageTyped, Leave
<1>2. reaction' = IF reaction = NoReaction \/ reaction.key # None THEN reaction
                  ELSE [reaction EXCEPT !.key = view]
  BY DEF Leave
<1>3. reaction' \in Reaction \cup {NoReaction} /\ (reaction' # NoReaction => reaction'.key # None)
  <2>1. CASE reaction = NoReaction \/ reaction.key # None
    BY <1>2, <2>1 DEF PageTyped
  <2>2. CASE ~(reaction = NoReaction \/ reaction.key # None)
    <3>1. reaction \in Reaction /\ reaction' = [reaction EXCEPT !.key = view]
      BY <1>2, <2>2 DEF PageTyped
    <3>2. reaction' \in Reaction /\ reaction'.key = view
      BY <1>1, <3>1 DEF Reaction
    <3> QED
      BY <1>1, <3>2
  <2> QED
    BY <2>1, <2>2
<1> QED
  BY <1>1, <1>3 DEF PageTyped, PageFits, PageStep

LEMMA PageKeeps ==
    ASSUME ChatInv, [Next]_vars
    PROVE  PageStep
<1>0. PageTyped /\ PageFits /\ ServerFits' /\ ServerFits
  BY InvParts, ServerKeeps
<1>1. frames' # {} => socket' = "open"
  BY <1>0 DEF ServerFits
<1>2. CASE Leave
  BY <1>0, <1>2, LeaveKeepsPage
<1>3. CASE Enter
  <2>1. /\ view = None /\ view' \in Keys /\ view' # None
        /\ UNCHANGED <<composer, replyingTo, reaction, joined, socket, frames>>
    BY <1>3, NamesAssumption DEF Enter, socketVars
  <2> QED
    BY <1>0, <2>1 DEF PageTyped, PageFits, PageStep
<1>4. ASSUME NEW k \in Keys, Select(k) PROVE PageStep
  <2>1. /\ view # None /\ view' = k /\ k # None
        /\ UNCHANGED <<composer, replyingTo, reaction>>
    BY <1>4, NamesAssumption DEF Select
  <2>2. CASE UNCHANGED <<joined, socket, frames>>
    BY <1>0, <2>1, <2>2 DEF PageTyped, PageFits, PageStep
  <2>3. CASE socket' = "closed" /\ joined' = FALSE /\ frames' = {}
    BY <1>0, <2>1, <2>3 DEF PageTyped, PageFits, PageStep
  <2> QED
    BY <1>4, <2>2, <2>3 DEF Select, socketVars
<1>5. ASSUME NEW s \in Sends, NEW text \in Texts, handleSend(s, text) PROVE PageStep
  <2>1. /\ view # None /\ composer' = s
        /\ UNCHANGED <<view, replyingTo, reaction, joined, socket, frames>>
    BY <1>5 DEF handleSend, ComposerEnabled, socketVars
  <2> QED
    BY <1>0, <2>1 DEF PageTyped, PageFits, PageStep
<1>6. ASSUME NEW id \in Ids, onReply(id) PROVE PageStep
  <2>1. /\ view # None /\ replyingTo' = id
        /\ UNCHANGED <<view, composer, reaction, joined, socket, frames>>
    BY <1>6 DEF onReply, socketVars
  <2> QED
    BY <1>0, <2>1 DEF PageTyped, PageFits, PageStep
<1>7. ASSUME NEW id \in Ids, handleToggleReaction(id) PROVE PageStep
  <2>1. /\ view # None /\ reaction' = [phase |-> "sent", id |-> id, key |-> None]
        /\ UNCHANGED <<view, composer, replyingTo, joined, socket, frames>>
    BY <1>7 DEF handleToggleReaction, socketVars, pageVars
  <2>2. reaction' \in Reaction
    BY <2>1 DEF Reaction
  <2> QED
    BY <1>0, <2>1, <2>2 DEF PageTyped, PageFits, PageStep
<1>8. CASE toggleReaction
  <2>1. reaction \in Reaction /\ reaction # NoReaction
        /\ reaction.id \in Ids /\ reaction.key \in Keys \cup {None}
    BY <1>0, <1>8, ReactionKinds DEF toggleReaction, PageTyped
  <2>2. toggle_reaction(reaction.id) /\ UNCHANGED <<view, composer, replyingTo, joined, socket>>
    BY <1>8 DEF toggleReaction, pageVars
  <2>3. rows[reaction.id].reacted \in BOOLEAN
    BY <1>0, <2>1, <2>2, ToggleKeeps DEF PageTyped
  <2>4. reaction' = [phase |-> "done", id |-> reaction.id, key |-> reaction.key,
                     reacted |-> ~rows[reaction.id].reacted]
    BY <1>8 DEF toggleReaction
  <2>5. reaction' \in Reaction /\ reaction'.key = reaction.key
    BY <2>1, <2>3, <2>4 DEF Reaction
  <2> QED
    BY <1>0, <1>1, <2>1, <2>2, <2>5 DEF PageTyped, PageFits, PageStep
<1>9. CASE onOpen
  BY <1>0, <1>9 DEF onOpen, pageVars, PageTyped, PageFits, PageStep
<1>10. CASE JoinRoom
  BY <1>0, <1>10 DEF JoinRoom, pageVars, PageTyped, PageFits, PageStep
<1>11. CASE onClose
  BY <1>0, <1>11 DEF onClose, pageVars, PageTyped, PageFits, PageStep
<1>12. ASSUME NEW s \in Sends, sendMessage(s) \/ Resume(s) \/ SendFails(s) \/ onSettled(s)
       PROVE  PageStep
  BY <1>0, <1>1, <1>12, PageStays
     DEF sendMessage, Resume, SendFails, onSettled, pageVars, socketVars
<1>13. CASE OthersWrite
  BY <1>0, <1>1, <1>13, PageStays DEF OthersWrite, pageVars
<1>14. CASE Refetch \/ \E k \in Keys : ServerReads(k) \/ GetLands(k) \/ GetFails(k)
  BY <1>0, <1>1, <1>14, PageStays
     DEF Refetch, ServerReads, GetLands, GetFails, restVars, pageVars, socketVars
<1>15. CASE onCancelReply \/ ReactionFails \/ onReacted
  BY <1>0, <1>1, <1>15, PageStays
     DEF onCancelReply, ReactionFails, onReacted, pageVars, socketVars
<1>16. ASSUME NEW f \in frames, onMessage(f) PROVE PageStep
  BY <1>0, <1>1, <1>16, PageStays DEF onMessage, pageVars
<1>17. CASE UNCHANGED vars
  BY <1>0, <1>1, <1>17, PageStays DEF vars, pageVars, socketVars
<1> QED
  BY <1>2, <1>3, <1>4, <1>5, <1>6, <1>7, <1>8, <1>9, <1>10, <1>11, <1>12, <1>13, <1>14, <1>15,
     <1>16, <1>17 DEF Next

-----------------------------------------------------------------------------
(* The lists, step by step.                                                *)

NoneRevived(k) ==
    \A s \in Sends : sends'[s] = Ended /\ HasRow(cache'[k].data, s) =>
        \/ sends[s] = Ended /\ HasRow(cache[k].data, s)
        \/ HasRow(cache[k].before, s) /\ \E other \in Sends :
                sends[other] = Unsent /\ sends'[other] # Unsent

NoneDropped(k) ==
    \A id \in Ids : HasRow(cache[k].data, id) /\ ~HasRow(cache'[k].data, id) /\ Exists(id) =>
        \/ cache[k].get = "read" /\ cache'[k].get = "none"
        \/ Fetching(cache[k]) /\ ~HasRow(cache[k].before, id)

ListStep(k) == EntryFits(cache'[k], k, sends') /\ NoneRevived(k) /\ NoneDropped(k)
CacheStep == cache' = [k \in Keys |-> cache'[k]] /\ \A k \in Keys : ListStep(k)

\* No send ends with the step.
NoneEnds == \A s \in Sends : sends'[s] = Ended => sends[s] = Ended

\* The list keeps its rows, or gets one of somebody's posting.
LEMMA QuietStep ==
    ASSUME NEW k \in Keys, GoesOn(sends, sends'), NoneEnds,
           EntryFits(cache'[k], k, sends),
           \A id \in Ids : HasRow(cache[k].data, id) => HasRow(cache'[k].data, id),
           \A s \in Sends : HasRow(cache'[k].data, s) => HasRow(cache[k].data, s)
    PROVE  ListStep(k)
<1>1. EntryFits(cache'[k], k, sends')
  BY Ageing
<1>2. NoneRevived(k)
  BY DEF NoneRevived, NoneEnds
<1>3. NoneDropped(k)
  BY DEF NoneDropped
<1> QED
  BY <1>1, <1>2, <1>3 DEF ListStep

LEMMA OneListMoves ==
    ASSUME cache \in [Keys -> Entry], CacheFits, GoesOn(sends, sends'), NoneEnds,
           NEW key \in Keys, NEW e, cache' = [cache EXCEPT ![key] = e],
           cache'[key] = e => ListStep(key)
    PROVE  CacheStep
<1>1. cache'[key] = e /\ \A k \in Keys \ {key} : cache'[k] = cache[k]
  OBVIOUS
<1>2. ASSUME NEW k \in Keys \ {key} PROVE ListStep(k)
  <2>1. cache'[k] = cache[k] /\ EntryFits(cache[k], k, sends)
    BY <1>1 DEF CacheFits
  <2> QED
    BY <2>1, QuietStep
<1>3. cache' = [k \in Keys |-> cache'[k]]
  OBVIOUS
<1> QED
  BY <1>1, <1>2, <1>3 DEF CacheStep

LEMMA CacheStays ==
    ASSUME cache \in [Keys -> Entry], CacheFits, GoesOn(sends, sends'), NoneEnds, UNCHANGED cache
    PROVE  CacheStep
<1>1. ASSUME NEW k \in Keys PROVE ListStep(k)
  <2>1. cache'[k] = cache[k] /\ EntryFits(cache[k], k, sends)
    BY DEF CacheFits
  <2> QED
    BY <2>1, QuietStep
<1> QED
  BY <1>1 DEF CacheStep

\* A list that is asked for, or marked, keeps its rows.
LEMMA AskedList ==
    ASSUME NEW k \in Keys, CacheFits, GoesOn(sends, sends'), NoneEnds,
           cache'[k] \in {cache[k], Ask(cache[k]), invalidateQueries(cache[k], TRUE),
                         invalidateQueries(cache[k], FALSE)}
    PROVE  ListStep(k)
<1>1. EntryFits(cache[k], k, sends)
  BY DEF CacheFits
<1>2. EntryFits(cache'[k], k, sends) /\ cache'[k].data = cache[k].data
  BY <1>1, AskFits, InvalidateFits
<1> QED
  BY <1>2, QuietStep

LEMMA AnswerArrives ==
    ASSUME ChatInv, NEW k \in Keys, ServerReads(k) \/ GetLands(k) \/ GetFails(k),
           GoesOn(sends, sends'), NoneEnds
    PROVE  CacheStep
<1>0. cache \in [Keys -> Entry] /\ CacheFits /\ TypeOK /\ EntryFits(cache[k], k, sends)
      /\ cache[k] \in Entry
  BY InvParts DEF ChatInv, CacheFits
<1>1. CASE ServerReads(k)
  <2> DEFINE m == list_channel_messages(k)  e == [cache[k] EXCEPT !.get = "read", !.answer = m]
  <2>1. m \in Seq(Item) /\ Distinct(m) /\ \A s \in Sends : ~HasRow(m, s)
    BY <1>0, AnswerRows
  <2>2. cache' = [cache EXCEPT ![k] = e]
    BY <1>0, <1>1 DEF ServerReads
  <2> HIDE DEF m
  <2>3. /\ e \in Entry /\ e.data = cache[k].data /\ e.before = cache[k].before
        /\ e.answer = m
    BY <1>0, <2>1 DEF Entry, List
  <2>4. EntryFits(e, k, sends)
    BY <1>0, <2>1, <2>3 DEF EntryFits
  <2> HIDE DEF e
  <2>5. cache'[k] = e => ListStep(k)
    BY <2>3, <2>4, QuietStep
  <2> QED
    BY <1>0, <2>2, <2>5, OneListMoves
<1>2. CASE GetLands(k)
  <2> DEFINE e == [data |-> cache[k].answer, get |-> "none", answer |-> Unloaded,
                   before |-> Unloaded, invalid |-> FALSE]
  <2>1. cache' = [cache EXCEPT ![k] = e] /\ cache[k].get = "read"
    BY <1>2 DEF GetLands
  <2>2. /\ e \in Entry /\ e.data = cache[k].answer /\ e.before = Unloaded
        /\ e.answer = Unloaded /\ e.get = "none"
    BY <1>0, UnloadedFits DEF Entry
  <2> HIDE DEF e
  <2>3. EntryFits(e, k, sends)
    BY <1>0, <2>2, MovedFits
  <2>4. EntryFits(e, k, sends')
    BY <2>3, Ageing
  <2>5. cache'[k] = e => ListStep(k)
    BY <1>0, <2>1, <2>2, <2>4 DEF ListStep, NoneRevived, NoneDropped, EntryFits
  <2> QED
    BY <1>0, <2>1, <2>5, OneListMoves
<1>3. CASE GetFails(k)
  <2> DEFINE e == [cache[k] EXCEPT !.get = "none", !.answer = Unloaded, !.before = Unloaded,
                                   !.invalid = TRUE]
  <2>1. cache' = [cache EXCEPT ![k] = e]
    BY <1>0, <1>3 DEF GetFails
  <2>2. e \in Entry /\ e.data = cache[k].data /\ e.before = Unloaded /\ e.answer = Unloaded
    BY <1>0, UnloadedFits DEF Entry
  <2> HIDE DEF e
  <2>3. EntryFits(e, k, sends)
    BY <1>0, <2>2, MovedFits
  <2>4. cache'[k] = e => ListStep(k)
    BY <2>2, <2>3, QuietStep
  <2> QED
    BY <1>0, <2>1, <2>4, OneListMoves
<1> QED
  BY <1>1, <1>2, <1>3

LEMMA ListShown ==
    ASSUME cache \in [Keys -> Entry], CacheFits, GoesOn(sends, sends'), NoneEnds,
           NEW k \in Keys, ShownFrom(k) \/ cache' = [cache EXCEPT ![k] = Ask(@)]
    PROVE  CacheStep
<1>1. CASE UNCHANGED cache
  BY <1>1, CacheStays
<1>2. CASE cache' = [cache EXCEPT ![k] = Ask(@)]
  <2>1. cache' = [cache EXCEPT ![k] = Ask(cache[k])]
    BY <1>2
  <2>2. cache'[k] = Ask(cache[k]) => ListStep(k)
    BY AskedList
  <2> QED
    BY <2>1, <2>2, OneListMoves
<1> QED
  BY <1>1, <1>2 DEF ShownFrom

LEMMA ChannelMarked ==
    ASSUME cache \in [Keys -> Entry], CacheFits, GoesOn(sends, sends'), NoneEnds, onOpen
    PROVE  CacheStep
<1>1. cache' = [k \in Keys |-> IF k.channel = view.channel
                               THEN invalidateQueries(cache[k], k = view) ELSE cache[k]]
  BY DEF onOpen
<1>2. ASSUME NEW k \in Keys PROVE ListStep(k)
  <2>1. cache'[k] \in {cache[k], invalidateQueries(cache[k], TRUE), invalidateQueries(cache[k], FALSE)}
    BY <1>1
  <2> QED
    BY <2>1, AskedList
<1>3. cache' = [k \in Keys |-> cache'[k]]
  BY <1>1
<1> QED
  BY <1>2, <1>3 DEF CacheStep

\* The placeholder is appended to what is left when the GET is called off.
LEMMA PlaceholderAdded ==
    ASSUME ChatInv, NEW s \in Sends, NEW text \in Texts, handleSend(s, text),
           GoesOn(sends, sends')
    PROVE  CacheStep
<1>0. cache \in [Keys -> Entry] /\ CacheFits /\ PageTyped /\ SendsTyped
  BY InvParts DEF SendsTyped
<1>1. view \in Keys /\ sends[s] = Unsent /\ view.channel \in Channels
      /\ replyingTo \in Ids \cup {None}
  BY <1>0 DEF handleSend, ComposerEnabled, PageTyped, Keys
<1>2. EntryFits(cache[view], view, sends)
  BY <1>0, <1>1 DEF CacheFits
<1>3. PICK offline \in BOOLEAN : sends' = [sends EXCEPT ![s] =
             [phase |-> IF offline THEN "paused" ELSE "sent", key |-> view,
              channel |-> view.channel, text |-> text, parent |-> replyingTo,
              waited |-> offline]]
  BY DEF handleSend
<1>4. sends'[s] \in Send /\ sends'[s].key = view /\ sends'[s] # Unsent
      /\ \A o \in Sends : o # s => sends'[o] = sends[o]
  <2> DEFINE new == [phase |-> IF offline THEN "paused" ELSE "sent", key |-> view,
                     channel |-> view.channel, text |-> text, parent |-> replyingTo,
                     waited |-> offline]
  <2>1. new \in Send /\ new.key = view
    BY <1>1 DEF Send
  <2>2. sends' = [sends EXCEPT ![s] = new]
    BY <1>3
  <2> HIDE DEF new
  <2> QED
    BY <1>0, <2>1, <2>2, SendKinds DEF SendsTyped
<1>5. NoneEnds
  BY <1>4, SendKinds DEF NoneEnds
<1> DEFINE e == cancelQueries(cache[view])
           item == buildOptimisticMessage(s, text)
           l == OrEmpty(e.data)
           m == Append(l, item)
<1>6. EntryFits(e, view, sends) /\ e.data = IF Fetching(cache[view]) THEN cache[view].before
                                            ELSE cache[view].data
  BY <1>2, CancelFits
<1>7. item \in Item /\ item.id = s
  BY <1>1 DEF buildOptimisticMessage, Item, Row
<1>8. cache' = [cache EXCEPT ![view] = setQueryData(e, m)]
  BY DEF handleSend
<1> HIDE DEF e, item
<1>9. /\ l \in Seq(Item) /\ Distinct(l) /\ \A id : HasRow(l, id) <=> HasRow(e.data, id)
  <2>1. e.data \in List /\ Distinct(e.data)
    BY <1>6 DEF EntryFits, Entry
  <2> QED
    BY <2>1, OrEmptyRows
<1>10. ~HasRow(e.data, s)
  BY <1>1, <1>6, SendKinds DEF EntryFits, AtHome
<1> HIDE DEF l
<1>11. /\ m \in Seq(Item) /\ Distinct(m)
       /\ \A id : HasRow(m, id) <=> HasRow(e.data, id) \/ id = s
  BY <1>7, <1>9, <1>10, AppendedRow
<1> HIDE DEF m
<1>12. AtHome(m, view, sends')
  <2>1. EntryFits(e, view, sends')
    BY <1>6, Ageing
  <2> QED
    BY <1>4, <1>11, <2>1 DEF AtHome, EntryFits
<1>13. EntryFits(setQueryData(e, m), view, sends') /\ setQueryData(e, m).data = m
  <2>1. EntryFits(e, view, sends')
    BY <1>6, Ageing
  <2> QED
    BY <1>11, <1>12, <2>1, SetFits
<1>14. ASSUME cache'[view] = setQueryData(e, m) PROVE ListStep(view)
  <2>1. cache'[view].data = m /\ EntryFits(cache'[view], view, sends')
    BY <1>13, <1>14
  <2>2. NoneRevived(view)
    <3> SUFFICES ASSUME NEW o \in Sends, sends'[o] = Ended, HasRow(m, o)
                 PROVE  \/ sends[o] = Ended /\ HasRow(cache[view].data, o)
                        \/ HasRow(cache[view].before, o) /\ \E other \in Sends :
                                sends[other] = Unsent /\ sends'[other] # Unsent
      BY <2>1 DEF NoneRevived
    <3>1. o # s
      BY <1>4, SendKinds
    <3>2. HasRow(e.data, o) /\ sends[o] = Ended
      BY <1>4, <1>11, <3>1
    <3>3. \E other \in Sends : sends[other] = Unsent /\ sends'[other] # Unsent
      BY <1>1, <1>4
    <3> QED
      BY <1>6, <3>2, <3>3
  <2>3. NoneDropped(view)
    <3> SUFFICES ASSUME NEW id \in Ids, HasRow(cache[view].data, id), ~HasRow(m, id)
                 PROVE  Fetching(cache[view]) /\ ~HasRow(cache[view].before, id)
      BY <2>1 DEF NoneDropped
    <3> QED
      BY <1>6, <1>11
  <2> QED
    BY <2>1, <2>2, <2>3 DEF ListStep
<1>15. CacheStep
  BY <1>0, <1>1, <1>5, <1>8, <1>14, OneListMoves
<1> QED
  BY <1>15

\* The placeholder goes with its send, from the only list that may hold it.
LEMMA PlaceholderRemoved ==
    ASSUME ChatInv, NEW s \in Sends, onSettled(s), GoesOn(sends, sends')
    PROVE  CacheStep
<1>0. cache \in [Keys -> Entry] /\ CacheFits /\ SendsTyped
  BY InvParts DEF SendsTyped
<1>1. sends[s] \in Send /\ sends[s] # Ended /\ sends' = [sends EXCEPT ![s] = Ended]
  BY <1>0, SendKinds DEF onSettled, SendsTyped
<1>2. sends'[s] = Ended /\ \A o \in Sends : o # s => sends'[o] = sends[o]
  BY <1>0, <1>1 DEF SendsTyped
<1> DEFINE key == sends[s].key
           l == OrEmpty(cache[key].data)
           m == Without(l, {s})
           e == setQueryData(cache[key], m)
           r == invalidateQueries(e, key = view)
<1>3. key \in Keys /\ cache' = [cache EXCEPT ![key] = r]
  <2>1. key \in Keys
    BY <1>1 DEF Send
  <2>2. cache' = [cache EXCEPT ![key] = r]
    BY DEF onSettled
  <2> QED
    BY <2>1, <2>2
<1> HIDE DEF key
<1>4. EntryFits(cache[key], key, sends) /\ cache[key].data \in List /\ Distinct(cache[key].data)
  BY <1>0, <1>3 DEF CacheFits, EntryFits, Entry
<1>5. /\ l \in Seq(Item) /\ Distinct(l) /\ \A id : HasRow(l, id) <=> HasRow(cache[key].data, id)
  BY <1>4, OrEmptyRows
<1> HIDE DEF l
<1>6. /\ m \in Seq(Item) /\ Distinct(m)
      /\ \A id : HasRow(m, id) <=> HasRow(cache[key].data, id) /\ id # s
  BY <1>5, WithoutRows
<1> HIDE DEF m
<1>7. AtHome(m, key, sends)
  BY <1>4, <1>6 DEF EntryFits, AtHome
<1>8. EntryFits(e, key, sends) /\ e.data = m
  BY <1>4, <1>6, <1>7, SetFits
<1> HIDE DEF e
<1>9. EntryFits(r, key, sends) /\ r.data = m
  BY <1>8, InvalidateFits
<1> HIDE DEF r
<1>10. ASSUME NEW k \in Keys PROVE ListStep(k)
  <2>1. CASE k = key
    <3>1. cache'[k] = r
      BY <1>0, <1>3, <2>1
    <3>2. EntryFits(cache'[k], k, sends')
      BY <1>9, <2>1, <3>1, Ageing
    <3>3. NoneRevived(k)
      BY <1>2, <1>6, <1>9, <2>1, <3>1 DEF NoneRevived
    <3>4. NoneDropped(k)
      BY <1>6, <1>9, <2>1, <3>1, NamesAssumption DEF NoneDropped
    <3> QED
      BY <3>2, <3>3, <3>4 DEF ListStep
  <2>2. CASE k # key
    <3>1. cache'[k] = cache[k] /\ EntryFits(cache[k], k, sends)
      BY <1>0, <1>3, <2>2 DEF CacheFits
    <3>2. EntryFits(cache'[k], k, sends')
      BY <3>1, Ageing
    <3>3. ~HasRow(cache[k].data, s)
      BY <1>1, <2>2, <3>1 DEF EntryFits, AtHome, key
    <3>4. NoneRevived(k)
      BY <1>2, <3>1, <3>3 DEF NoneRevived
    <3>5. NoneDropped(k)
      BY <3>1 DEF NoneDropped
    <3> QED
      BY <3>2, <3>4, <3>5 DEF ListStep
  <2> QED
    BY <2>1, <2>2
<1>11. cache' = [k \in Keys |-> cache'[k]]
  BY <1>0, <1>3
<1> QED
  BY <1>10, <1>11 DEF CacheStep

\* A list written to the entry on screen, or to the one a reaction's answer is for.
LEMMA ListWritten ==
    ASSUME cache \in [Keys -> Entry], CacheFits, GoesOn(sends, sends'), NoneEnds,
           NEW k \in Keys, NEW m \in Seq(Item), Distinct(m),
           \A s \in Sends : HasRow(m, s) => HasRow(cache[k].data, s),
           cache' = [cache EXCEPT ![k] = setQueryData(@, m)],
           \A id \in Ids : HasRow(cache[k].data, id) /\ ~HasRow(m, id) => ~Exists(id)
    PROVE  CacheStep
<1>1. EntryFits(cache[k], k, sends)
  BY DEF CacheFits
<1>2. AtHome(m, k, sends)
  BY <1>1 DEF EntryFits, AtHome
<1> DEFINE e == setQueryData(cache[k], m)
<1>3. EntryFits(e, k, sends) /\ e.data = m
  BY <1>1, <1>2, SetFits
<1>4. cache' = [cache EXCEPT ![k] = e]
  OBVIOUS
<1> HIDE DEF e
<1>5. EntryFits(e, k, sends')
  BY <1>3, Ageing
<1>6. cache'[k] = e => ListStep(k)
  BY <1>3, <1>5 DEF ListStep, NoneRevived, NoneDropped, NoneEnds
<1> QED
  BY <1>4, <1>6, OneListMoves

LEMMA ReactionShown ==
    ASSUME ChatInv, onReacted, GoesOn(sends, sends'), NoneEnds
    PROVE  CacheStep
<1>0. cache \in [Keys -> Entry] /\ CacheFits /\ PageTyped /\ PageFits
  BY InvParts
<1>1. reaction \in Reaction /\ reaction # NoReaction /\ reaction.reacted \in BOOLEAN
      /\ reaction.key \in Keys \cup {None}
  BY <1>0, ReactionKinds DEF onReacted, PageTyped
<1> DEFINE key == IF reaction.key = None THEN view ELSE reaction.key
           l == OrEmpty(cache[key].data)
           m == Reacted(l, reaction.id, reaction.reacted)
<1>2. key \in Keys
  BY <1>0, <1>1 DEF PageTyped, PageFits
<1>3. cache' = [cache EXCEPT ![key] = setQueryData(@, m)]
  BY DEF onReacted, Reacted
<1> HIDE DEF key
<1>4. cache[key].data \in List /\ Distinct(cache[key].data)
  BY <1>0, <1>2 DEF CacheFits, EntryFits, Entry
<1>5. /\ l \in Seq(Item) /\ Distinct(l) /\ \A id : HasRow(l, id) <=> HasRow(cache[key].data, id)
  BY <1>4, OrEmptyRows
<1> HIDE DEF l
<1>6. /\ m \in Seq(Item) /\ Distinct(m)
      /\ \A id : HasRow(m, id) <=> HasRow(cache[key].data, id)
  BY <1>1, <1>5, ReactedRows
<1> HIDE DEF m
<1> QED
  BY <1>0, <1>2, <1>3, <1>6, ListWritten

\* What each kind of frame makes of a list.
LEMMA AppliedRows ==
    ASSUME DeletedAreGone, NEW f \in frames, f \in Frame, NEW l \in List, Distinct(l),
           f.type = "reaction_update" => HasRow(l, f.id)
    PROVE  /\ Applied(l, f) \in Seq(Item) /\ Distinct(Applied(l, f))
           /\ \A s \in Sends : HasRow(Applied(l, f), s) => HasRow(l, s)
           /\ \A id \in Ids : HasRow(l, id) /\ ~HasRow(Applied(l, f), id) => ~Exists(id)
<1>1. /\ OrEmpty(l) \in Seq(Item) /\ Distinct(OrEmpty(l))
      /\ \A id : HasRow(OrEmpty(l), id) <=> HasRow(l, id)
  BY OrEmptyRows
<1>2. CASE f.type = "new_message"
  <2>1. Applied(l, f) = onNewMessage(l, f) /\ f.id \in Ids /\ f.row \in Row
    BY <1>2, FrameKinds DEF Applied
  <2>2. CASE HasRow(l, f.id)
    <3>1. Applied(l, f) = l /\ l \in Seq(Item)
      BY <2>1, <2>2 DEF onNewMessage, HasRow, List
    <3> QED
      BY <3>1
  <2>3. CASE ~HasRow(l, f.id)
    <3> DEFINE item == [id |-> f.id, row |-> f.row]
    <3>1. item \in Item /\ item.id = f.id
      BY <2>1 DEF Item
    <3>2. Applied(l, f) = Append(OrEmpty(l), item)
      BY <2>1, <2>3 DEF onNewMessage
    <3> HIDE DEF item
    <3> QED
      BY <1>1, <2>1, <2>3, <3>1, <3>2, AppendedRow, NamesAssumption
  <2> QED
    BY <2>2, <2>3
<1>3. CASE f.type = "message_updated"
  <2>1. Applied(l, f) = Patched(OrEmpty(l), f.id, f.row) /\ f.row \in Row
    BY <1>3, FrameKinds DEF Applied
  <2> QED
    BY <1>1, <2>1, PatchedRows
<1>4. CASE f.type = "reaction_update"
  <2>1. Applied(l, f) = Reacted(l, f.id, f.reacted) /\ f.reacted \in BOOLEAN
    BY <1>4, FrameKinds DEF Applied, Reacted
  <2>2. l \in Seq(Item)
    BY <1>4 DEF HasRow, List
  <2> QED
    BY <2>1, <2>2, ReactedRows
<1>5. CASE f.type = "message_deleted"
  <2>1. Applied(l, f) = Without(OrEmpty(l), f.ids)
    BY <1>5 DEF Applied
  <2>2. \A id \in f.ids : ~Exists(id)
    BY <1>5, NamesAssumption DEF DeletedAreGone, Exists
  <2> QED
    BY <1>1, <2>1, <2>2, WithoutRows
<1> QED
  BY <1>2, <1>3, <1>4, <1>5, FrameKinds

LEMMA FrameShown ==
    ASSUME ChatInv, NEW f \in frames, onMessage(f), GoesOn(sends, sends'), NoneEnds
    PROVE  CacheStep
<1>0. cache \in [Keys -> Entry] /\ CacheFits /\ PageTyped /\ PageFits /\ ServerFits
  BY InvParts
<1>1. CASE Ignored(f)
  BY <1>0, <1>1, CacheStays DEF onMessage
<1>2. CASE ~Ignored(f)
  <2> DEFINE m == Applied(cache[view].data, f)
  <2>1. view \in Keys /\ cache' = [cache EXCEPT ![view] = setQueryData(@, m)]
    BY <1>0, <1>2 DEF onMessage, PageTyped, PageFits
  <2>2. /\ cache[view].data \in List /\ Distinct(cache[view].data) /\ f \in Frame /\ DeletedAreGone
        /\ f.type = "reaction_update" => HasRow(cache[view].data, f.id)
    BY <1>0, <1>2, <2>1 DEF CacheFits, EntryFits, Entry, ServerFits, Ignored
  <2>3. /\ m \in Seq(Item) /\ Distinct(m)
        /\ \A s \in Sends : HasRow(m, s) => HasRow(cache[view].data, s)
        /\ \A id \in Ids : HasRow(cache[view].data, id) /\ ~HasRow(m, id) => ~Exists(id)
    BY <2>2, AppliedRows
  <2> HIDE DEF m
  <2> QED
    BY <1>0, <2>1, <2>3, ListWritten
<1> QED
  BY <1>1, <1>2

LEMMA LeaveEndsNone ==
    ASSUME ChatInv, Leave
    PROVE  NoneEnds
<1>1. SendsTyped
  BY InvParts DEF SendsTyped
<1>2. ASSUME NEW s \in Sends, sends'[s] # sends[s]
      PROVE  sends'[s] # Ended
  <2>1. /\ sends[s] \in Send
        /\ sends'[s] = [sends[s] EXCEPT !.channel = view.channel, !.parent = replyingTo]
        /\ sends[s].phase = "paused"
    BY <1>1, <1>2, SendKinds DEF Leave, SendsTyped
  <2>2. sends'[s].phase = "paused"
    BY <2>1 DEF Send
  <2> QED
    BY <2>2 DEF Ended
<1> QED
  BY <1>2 DEF NoneEnds

LEMMA CacheKeeps ==
    ASSUME ChatInv, [Next]_vars
    PROVE  CacheStep
<1>0. cache \in [Keys -> Entry] /\ CacheFits /\ PageTyped /\ GoesOn(sends, sends') /\ SendsTyped
  BY InvParts, SendsKeep DEF SendsTyped
<1>1. UNCHANGED sends => NoneEnds
  BY DEF NoneEnds
<1>2. ASSUME NEW s \in Sends, NEW text \in Texts, handleSend(s, text) PROVE CacheStep
  BY <1>0, <1>2, PlaceholderAdded
<1>3. ASSUME NEW s \in Sends, onSettled(s) PROVE CacheStep
  BY <1>0, <1>3, PlaceholderRemoved
<1>4. ASSUME NEW s \in Sends, Resume(s) \/ sendMessage(s) \/ SendFails(s) PROVE CacheStep
  <2>1. UNCHANGED cache /\ \A o \in Sends : o # s => sends'[o] = sends[o]
    BY <1>0, <1>4 DEF Resume, sendMessage, SendFails, SendsTyped
  <2>2. sends'[s].phase \in {"sent", "done", "failed"}
    <3>1. sends[s] \in Send
      BY <1>0, <1>4, SendKinds DEF Resume, sendMessage, SendFails, SendsTyped
    <3> QED
      BY <1>0, <1>4, <3>1 DEF Resume, sendMessage, SendFails, SendsTyped, Send
  <2>3. NoneEnds
    BY <2>1, <2>2 DEF NoneEnds, Ended
  <2> QED
    BY <1>0, <2>1, <2>3, CacheStays
<1>5. CASE Leave
  BY <1>0, <1>5, LeaveEndsNone, CacheStays DEF Leave
<1>6. ASSUME NEW k \in Keys, ServerReads(k) \/ GetLands(k) \/ GetFails(k) PROVE CacheStep
  <2>1. NoneEnds
    BY <1>1, <1>6 DEF ServerReads, GetLands, GetFails, restVars
  <2> QED
    BY <1>0, <1>6, <2>1, AnswerArrives
<1>7. CASE Refetch
  <2>1. view \in Keys /\ cache' = [cache EXCEPT ![view] = Ask(@)] /\ NoneEnds
    BY <1>0, <1>1, <1>7 DEF Refetch, restVars, PageTyped
  <2> QED
    BY <1>0, <2>1, ListShown
<1>8. CASE Enter
  <2>1. PICK k \in Keys : ShownFrom(k)
    BY <1>8 DEF Enter
  <2>2. NoneEnds
    BY <1>1, <1>8 DEF Enter
  <2> QED
    BY <1>0, <2>1, <2>2, ListShown
<1>9. ASSUME NEW k \in Keys, Select(k) PROVE CacheStep
  BY <1>0, <1>1, <1>9, ListShown DEF Select
<1>10. CASE onOpen
  BY <1>0, <1>1, <1>10, ChannelMarked DEF onOpen
<1>11. CASE onReacted
  BY <1>0, <1>1, <1>11, ReactionShown DEF onReacted
<1>12. ASSUME NEW f \in frames, onMessage(f) PROVE CacheStep
  BY <1>0, <1>1, <1>12, FrameShown DEF onMessage
<1>13. CASE OthersWrite
  BY <1>0, <1>1, <1>13, CacheStays DEF OthersWrite
<1>14. CASE onCancelReply \/ \E id \in Ids : onReply(id) \/ handleToggleReaction(id)
  BY <1>0, <1>1, <1>14, CacheStays DEF onCancelReply, onReply, handleToggleReaction
<1>15. CASE toggleReaction \/ ReactionFails \/ JoinRoom \/ onClose
  BY <1>0, <1>1, <1>15, CacheStays DEF toggleReaction, ReactionFails, JoinRoom, onClose
<1>16. CASE UNCHANGED vars
  BY <1>0, <1>1, <1>16, CacheStays DEF vars
<1> QED
  BY <1>2, <1>3, <1>4, <1>5, <1>6, <1>7, <1>8, <1>9, <1>10, <1>11, <1>12, <1>13, <1>14, <1>15,
     <1>16 DEF Next

-----------------------------------------------------------------------------
(* The theorems.                                                           *)

LEMMA ChatInvHolds == Spec => []ChatInv
<1>1. Init => ChatInv
  <2> SUFFICES ASSUME Init PROVE ChatInv
    OBVIOUS
  <2>1. cache \in [Keys -> Entry] /\ CacheFits
    <3>1. \A k \in Keys : cache[k] = NewKey
      BY DEF Init
    <3>2. \A k \in Keys : EntryFits(cache[k], k, sends)
      BY <3>1, NewKeyFits
    <3> QED
      BY <3>2 DEF Init, CacheFits, EntryFits
  <2>2. TypeOK
    <3>1. rows \in [Ids -> Row \cup {Unborn, Gone}] /\ sends \in [Sends -> Send \cup {Unsent, Ended}]
      BY DEF Init
    <3>2. writes \in 0..MaxWrites
      BY ChatAssumption DEF Init
    <3> QED
      BY <2>1, <3>1, <3>2 DEF Init, TypeOK
  <2>3. SendsFit
    BY SendKinds DEF Init, SendsFit
  <2>4. PageFits /\ DeletedAreGone
    BY DEF Init, PageFits, DeletedAreGone
  <2> QED
    BY <2>1, <2>2, <2>3, <2>4 DEF ChatInv
<1>2. ChatInv /\ [Next]_vars => ChatInv'
  <2> SUFFICES ASSUME ChatInv, [Next]_vars PROVE ChatInv'
    OBVIOUS
  <2>1. ServerFits' /\ PageTyped' /\ PageFits' /\ SendsTyped' /\ SendsFit' /\ CacheStep
    BY ServerKeeps, PageKeeps, SendsKeep, CacheKeeps DEF PageStep
  <2>2. CacheFits' /\ cache' \in [Keys -> Entry]
    <3>1. \A k \in Keys : EntryFits(cache'[k], k, sends')
      BY <2>1 DEF CacheStep, ListStep
    <3>2. \A k \in Keys : cache'[k] \in Entry
      BY <3>1 DEF EntryFits
    <3> QED
      BY <2>1, <3>1, <3>2 DEF CacheFits, CacheStep
  <2>3. TypeOK'
    BY <2>1, <2>2 DEF TypeOK, ServerFits, PageTyped, SendsTyped
  <2> QED
    BY <2>1, <2>2, <2>3 DEF ChatInv, ServerFits
<1> QED
  BY <1>1, <1>2, PTL DEF Spec

\* Every state has its type: above all, every list is a list of messages and
\* placeholders, and the page has a channel whenever a handler asks for one.
THEOREM ChatTyped == Spec => []TypeOK
<1>1. ChatInv => TypeOK
  BY DEF ChatInv
<1> QED
  BY <1>1, ChatInvHolds, PTL

\* No list of messages shows one twice, whether its frame, the author's own
\* refetch or another GET's answer comes first.
THEOREM ListsShowEachMessageOnce == Spec => []NoRowTwice
<1>1. ChatInv => NoRowTwice
  <2> SUFFICES ASSUME ChatInv, NEW k \in Keys
               PROVE  LET list == OrEmpty(cache[k].data) IN
                      \A i, j \in DOMAIN list : list[i].id = list[j].id => i = j
    BY DEF NoRowTwice
  <2>1. cache[k].data \in List /\ Distinct(cache[k].data)
    BY DEF ChatInv, CacheFits, EntryFits, Entry
  <2>2. OrEmpty(cache[k].data) \in Seq(Item) /\ Distinct(OrEmpty(cache[k].data))
    BY <2>1, OrEmptyRows
  <2>3. OrEmpty(cache[k].data) # Unloaded
    BY <2>2, IsList
  <2> QED
    BY <2>2, <2>3 DEF Distinct
<1> QED
  BY <1>1, ChatInvHolds, PTL

\* The placeholder of a send that has ended comes back only by a later send that
\* calls off a GET older than its removal.
THEOREM RevivedByCancelledFetches == Spec => OnlyACancelledFetchRevivesPlaceholders
<1>1. ChatInv /\ [Next]_vars =>
        \A k \in Keys, s \in Sends :
            sends'[s] = Ended /\ HasRow(cache'[k].data, s) =>
                \/ sends[s] = Ended /\ HasRow(cache[k].data, s)
                \/ HasRow(cache[k].before, s) /\ \E other \in Sends :
                        sends[other] = Unsent /\ sends'[other] # Unsent
  BY CacheKeeps DEF CacheStep, ListStep, NoneRevived
<1> QED
  BY <1>1, ChatInvHolds, PTL DEF Spec, OnlyACancelledFetchRevivesPlaceholders

\* A message that still exists leaves a list only by an answer without it or by
\* a GET that is called off.
THEOREM RowsDroppedByAnswers == Spec => OnlyAnswersDropRows
<1>1. ChatInv /\ [Next]_vars =>
        \A k \in Keys, id \in Ids :
            HasRow(cache[k].data, id) /\ ~HasRow(cache'[k].data, id) /\ Exists(id) =>
                \/ cache[k].get = "read" /\ cache'[k].get = "none"
                \/ Fetching(cache[k]) /\ ~HasRow(cache[k].before, id)
  BY CacheKeeps DEF CacheStep, ListStep, NoneDropped
<1> QED
  BY <1>1, ChatInvHolds, PTL DEF Spec, OnlyAnswersDropRows

\* A message is posted in the channel that shows its placeholder, unless it had
\* to wait for the network.
THEOREM PostedWhereShown == Spec => OnlyWaitingSendsMove
<1> DEFINE Stays ==
        \A s \in Sends :
            sends[s].phase = "sent" /\ sends'[s].phase = "done" /\ ~sends[s].waited =>
                \E id \in Ids : rows[id] = Unborn /\ rows'[id] # Unborn
                                  /\ rows'[id].channel = sends[s].key.channel
<1>1. ChatInv /\ [Next]_vars => Stays
  <2> SUFFICES ASSUME ChatInv, [Next]_vars, NEW s \in Sends,
                      sends[s].phase = "sent", sends'[s].phase = "done", ~sends[s].waited
               PROVE  \E id \in Ids : rows[id] = Unborn /\ rows'[id] # Unborn
                                        /\ rows'[id].channel = sends[s].key.channel
    OBVIOUS
  <2>0. SendsTyped /\ SendsFit /\ ServerFits /\ PageTyped
    BY InvParts DEF SendsTyped
  <2>1. sends[s] \in Send /\ sends[s].channel = sends[s].key.channel
    BY <2>0, SendKinds DEF SendsTyped, SendsFit
  <2>2. sends'[s] # sends[s]
    OBVIOUS
  <2>3. CASE sendMessage(s)
    <3>1. /\ sends[s].channel \in Channels /\ sends[s].text \in Texts
          /\ sends[s].parent \in Ids \cup {None}
      BY <2>1 DEF Send
    <3>2. create_message(sends[s].channel, sends[s].text, sends[s].parent) /\ socket' = socket
      BY <2>3 DEF sendMessage
    <3> QED
      BY <2>0, <2>1, <3>1, <3>2, PostKeeps DEF PageTyped
  <2>4. ASSUME NEW o \in Sends, NEW text \in Texts, handleSend(o, text) PROVE FALSE
    <3>1. o # s /\ sends'[s] = sends[s]
      BY <2>0, <2>1, <2>4, SendKinds DEF handleSend, SendsTyped
    <3> QED
      BY <2>2, <3>1
  <2>5. ASSUME NEW o \in Sends, Resume(o) PROVE FALSE
    BY <2>0, <2>5 DEF Resume, SendsTyped
  <2>6. ASSUME NEW o \in Sends, sendMessage(o), o # s PROVE FALSE
    BY <2>0, <2>2, <2>6 DEF sendMessage, SendsTyped
  <2>7. ASSUME NEW o \in Sends, SendFails(o) \/ onSettled(o) PROVE FALSE
    <3>1. Ended.phase = "ended"
      BY DEF Ended
    <3> QED
      BY <2>0, <2>1, <2>2, <2>7, <3>1 DEF SendFails, onSettled, SendsTyped, Send
  <2>8. ~Leave
    <3> SUFFICES ASSUME Leave PROVE FALSE
      OBVIOUS
    <3>1. sends'[s] = sends[s] \/ sends[s].phase = "paused"
      BY DEF Leave
    <3> QED
      BY <2>2, <3>1
  <2>9. UNCHANGED sends => FALSE
    BY <2>2
  <2>10. CASE OthersWrite \/ Refetch \/ \E k \in Keys : ServerReads(k) \/ GetLands(k) \/ GetFails(k)
    BY <2>9, <2>10 DEF OthersWrite, Refetch, ServerReads, GetLands, GetFails, restVars
  <2>11. CASE Enter \/ (\E k \in Keys : Select(k)) \/ onCancelReply
              \/ \E id \in Ids : onReply(id) \/ handleToggleReaction(id)
    BY <2>9, <2>11 DEF Enter, Select, onCancelReply, onReply, handleToggleReaction
  <2>12. CASE \/ toggleReaction \/ ReactionFails \/ onReacted
              \/ onOpen \/ JoinRoom \/ onClose \/ \E f \in frames : onMessage(f)
    BY <2>9, <2>12 DEF toggleReaction, ReactionFails, onReacted, onOpen, JoinRoom, onClose, onMessage
  <2>13. CASE UNCHANGED vars
    BY <2>9, <2>13 DEF vars
  <2> QED
    BY <2>3, <2>4, <2>5, <2>6, <2>7, <2>8, <2>10, <2>11, <2>12, <2>13 DEF Next
<1> QED
  BY <1>1, ChatInvHolds, PTL DEF Spec, OnlyWaitingSendsMove
=============================================================================
