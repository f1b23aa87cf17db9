------------------------------ MODULE ListingProofs ------------------------------
(***************************************************************************)
(* Proofs about the tools that list what there is: handle_list,            *)
(* handle_find_column, and the tables and keys of describe_database. For   *)
(* every database, every call and any number of changes meanwhile.         *)
(***************************************************************************)
EXTENDS CatalogProofs

-----------------------------------------------------------------------------
\* Names of indexes: one table to a name.
NamesApart == \A o, p \in db : o # p => IndexesApart(o, p)

LEMMA NamesApartInit == Init => NamesApart
  BY CatalogAssumption DEF Init, CatalogInit, NamesApart

LEMMA NamesApartNext ==
    ASSUME TypeOK, NamesApart, [Next]_vars
    PROVE  NamesApart'
<1>1. CASE Step
  BY <1>1, CatalogStays DEF NamesApart, catalogVars
<1>2. CASE Others /\ UNCHANGED handlerVars
  <2>1. PICK o \in Object : Create(o) \/ Drop(o)
    BY <1>2 DEF Others
  <2>2. \A p, q : IndexesApart(p, q) <=> IndexesApart(q, p)
    BY DEF IndexesApart
  <2>3. CASE Create(o)
    BY <2>2, <2>3 DEF Create, NamesApart
  <2>4. CASE Drop(o)
    BY <2>4 DEF Drop, NamesApart
  <2> QED
    BY <2>1, <2>3, <2>4
<1>3. CASE UNCHANGED vars
  BY <1>3 DEF NamesApart, vars, catalogVars
<1> QED
  BY <1>1, <1>2, <1>3 DEF Next, Over

\* The keys of the set are all of must, and within may.
KeyedWithin(S, key, must, may) ==
    /\ \A x \in S : key[x] \in may
    /\ \A n \in must : \E x \in S : key[x] = n

\* A finite set put in order and cut at CAP is a list of it.
LEMMA SortedInList ==
    ASSUME NEW S, IsFiniteSet(S), NEW key, Tells(S, key), NEW may, IsFiniteSet(may),
           NEW must, KeyedWithin(S, key, must, may),
           NEW r, r = First(Sorted(S, key)), NEW rows, rows = [k \in 1 .. Len(r) |-> key[r[k]]]
    PROVE  InList(rows, must, may)
<1> DEFINE all == Sorted(S, key)
<1>0. (\A x \in S : key[x] \in may) /\ \A n \in must : \E x \in S : key[x] = n
  BY DEF KeyedWithin
<1>1. /\ all \in Seq(S) /\ DOMAIN all = 1 .. Cardinality(S) /\ Cardinality(S) \in Nat
      /\ \A j, k \in 1 .. Cardinality(S) : j < k <=> key[all[j]] < key[all[k]]
  BY SortedIs
<1>2. \A n \in must : Cardinality({m \in may : m < n}) < CAP =>
          \E k \in 1 .. CAP : k <= Cardinality(S) /\ key[all[k]] = n
  <2> SUFFICES ASSUME NEW n \in must, Cardinality({m \in may : m < n}) < CAP
               PROVE  \E k \in 1 .. CAP : k <= Cardinality(S) /\ key[all[k]] = n
    OBVIOUS
  <2>1. PICK x \in S : key[x] = n
    BY <1>0
  <2>2. CAP \in Nat
    BY CatalogAssumption
  <2>3. \E k \in 1 .. CAP : k <= Cardinality(S) /\ all[k] = x
    BY <1>0, <2>1, <2>2, WithinFirst
  <2> QED
    BY <2>1, <2>3
<1> HIDE DEF all
<1>3. /\ r \in Seq(S) /\ Len(r) \in Nat /\ DOMAIN r = 1 .. Len(r)
      /\ \A k \in DOMAIN r : k \in DOMAIN all /\ r[k] = all[k]
      /\ \A k \in DOMAIN all : k <= CAP => k \in DOMAIN r
  BY <1>1, FirstIs DEF all
<1>4. Len(rows) = Len(r) /\ DOMAIN rows = 1 .. Len(r)
  BY <1>3
<1>5. \A k \in 1 .. Len(r) : rows[k] = key[all[k]] /\ rows[k] = key[r[k]] /\ r[k] \in S
  BY <1>3
<1>6. \A k \in 1 .. Len(rows) - 1 : rows[k] < rows[k + 1]
  <2> SUFFICES ASSUME NEW k \in 1 .. Len(rows) - 1
               PROVE  rows[k] < rows[k + 1]
    OBVIOUS
  <2>1. PICK l \in Nat : l = k + 1
    OBVIOUS
  <2>2. k \in 1 .. Len(r) /\ l \in 1 .. Len(r) /\ k < l
    BY <1>3, <1>4, <2>1
  <2>3. k \in 1 .. Cardinality(S) /\ l \in 1 .. Cardinality(S)
    BY <1>1, <1>3, <2>2
  <2>4. key[all[k]] < key[all[l]]
    BY <1>1, <2>2, <2>3
  <2> QED
    BY <1>5, <2>1, <2>2, <2>4
<1>7. ToSet(rows) \subseteq may
  <2>1. \A k \in DOMAIN rows : rows[k] \in may
    BY <1>0, <1>4, <1>5
  <2> QED
    BY <2>1 DEF ToSet
<1>8. ASSUME NEW n \in must, Cardinality({m \in may : m < n}) < CAP
      PROVE  n \in ToSet(rows)
  <2>1. PICK k \in 1 .. CAP : k <= Cardinality(S) /\ key[all[k]] = n
    BY <1>2, <1>8
  <2>2. k \in DOMAIN all /\ k <= CAP
    BY <1>1, <2>1, CatalogAssumption
  <2>3. k \in 1 .. Len(r)
    BY <1>3, <2>2
  <2>4. k \in DOMAIN rows /\ rows[k] = n
    BY <1>4, <1>5, <2>1, <2>3
  <2> QED
    BY <2>4 DEF ToSet
<1> QED
  BY <1>6, <1>7, <1>8 DEF InList

\* A list stays one when objects come and go.
LEMMA ListStays ==
    ASSUME NEW rows, NEW must, NEW may, InList(rows, must, may),
           NEW must1 \in SUBSET must, NEW may1, IsFiniteSet(may1), may \subseteq may1
    PROVE  InList(rows, must1, may1)
<1>1. ASSUME NEW n \in must1, Cardinality({m \in may1 : m < n}) < CAP
      PROVE  n \in ToSet(rows)
  <2> DEFINE A == {m \in may : m < n}
             B == {m \in may1 : m < n}
  <2>1. A \in SUBSET B /\ B \in SUBSET may1
    OBVIOUS
  <2> HIDE DEF A, B
  <2>2. IsFiniteSet(B)
    BY <2>1, FS_Subset
  <2>3. Cardinality(A) <= Cardinality(B) /\ IsFiniteSet(A)
    BY <2>1, <2>2, FS_Subset
  <2>4. Cardinality(A) \in Nat /\ Cardinality(B) \in Nat
    BY <2>2, <2>3, FS_CardinalityType
  <2>5. Cardinality(B) < CAP
    BY <1>1 DEF B
  <2>6. Cardinality(A) < CAP
    BY <2>3, <2>4, <2>5, CatalogAssumption
  <2> QED
    BY <2>6 DEF A, InList
<1> QED
  BY <1>1 DEF InList

-----------------------------------------------------------------------------
\* What a list of some kinds may hold of some objects.
ListedOf(kinds, objects) ==
    IF kinds = {} THEN IndexNames(objects) ELSE Numbers(OfKinds(objects, kinds))

LEMMA NumbersFinite ==
    ASSUME NEW S, IsFiniteSet(S)
    PROVE  IsFiniteSet(Numbers(S))
<1> DEFINE f == [o \in S |-> name(o)]
           T == Numbers(S)
<1>1. (\A x \in S : f[x] \in T) /\ \A y \in T : \E x \in S : f[x] = y
  BY DEF Numbers
<1> HIDE DEF f, T
<1>2. IsFiniteSet(T)
  BY <1>1, ImageFinite
<1> QED
  BY <1>2 DEF T

LEMMA ToSetFinite ==
    ASSUME NEW X, NEW s \in Seq(X)
    PROVE  IsFiniteSet(ToSet(s)) /\ ToSet(s) \subseteq X
<1>1. DOMAIN s = 1 .. Len(s) /\ Len(s) \in Nat
  OBVIOUS
<1>2. IsFiniteSet(DOMAIN s)
  BY <1>1, FS_Interval
<1>3. \A y \in ToSet(s) : \E k \in DOMAIN s : s[k] = y
  BY DEF ToSet
<1>4. \A k \in DOMAIN s : s[k] \in ToSet(s)
  BY DEF ToSet
<1>5. IsFiniteSet(ToSet(s))
  BY <1>2, <1>3, <1>4, ImageFinite
<1> QED
  BY <1>5 DEF ToSet

\* The constraints with an index, and the indexes, of a table.
LEMMA KeysAre ==
    ASSUME NEW o \in Object, kind(o) = "table"
    PROVE  /\ World[o].cons \in Seq(ConstraintData) /\ NamesDiffer(World[o].cons)
           /\ World[o].idx \in Seq(IndexData) /\ NamesDiffer(World[o].idx)
           /\ Keyed(World[o].cons) \in Seq(ConstraintData) /\ NamesDiffer(Keyed(World[o].cons))
           /\ \A c \in ToSet(Keyed(World[o].cons)), i \in ToSet(World[o].idx) : c.name # i.name
<1> DEFINE s == World[o].cons
           places == {k \in DOMAIN s : s[k].type \in {"PRIMARY KEY", "UNIQUE", "FOREIGN KEY"}}
<1>1. /\ s \in Seq(ConstraintData) /\ NamesDiffer(s)
      /\ World[o].idx \in Seq(IndexData) /\ NamesDiffer(World[o].idx)
      /\ \A c \in ToSet(Keyed(s)), i \in ToSet(World[o].idx) : c.name # i.name
  BY WorldAssumption
<1>2. Keyed(s) = Chosen(s, places)
  BY DEF Keyed, Where
<1>3. places \in SUBSET DOMAIN s
  OBVIOUS
<1> HIDE DEF s, places
<1>4. Keyed(s) \in Seq(ConstraintData) /\ NamesDiffer(Keyed(s))
  BY <1>1, <1>2, <1>3, ChosenDiffer
<1> QED
  BY <1>1, <1>4 DEF s

LEMMA IndexNamesAre ==
    ASSUME NEW o \in Object, kind(o) = "table"
    PROVE  IsFiniteSet(IndexNamesOf(o)) /\ IndexNamesOf(o) \subseteq Nat
<1> DEFINE S == ToSet(Keyed(World[o].cons)) \cup ToSet(World[o].idx)
           f == [i \in S |-> i.name]
           T == IndexNamesOf(o)
<1>1. /\ IsFiniteSet(ToSet(Keyed(World[o].cons))) /\ IsFiniteSet(ToSet(World[o].idx))
      /\ ToSet(Keyed(World[o].cons)) \subseteq ConstraintData
      /\ ToSet(World[o].idx) \subseteq IndexData
  BY KeysAre, ToSetFinite
<1>2. IsFiniteSet(S) /\ \A i \in S : i.name \in Nat
  BY <1>1, FS_Union DEF ConstraintData, IndexData
<1>3. T = {i.name : i \in S}
  BY DEF IndexNamesOf
<1> HIDE DEF S
<1>4. (\A x \in S : f[x] \in T) /\ \A y \in T : \E x \in S : f[x] = y
  BY <1>3
<1> HIDE DEF f, T
<1>5. IsFiniteSet(T)
  BY <1>2, <1>4, ImageFinite
<1> QED
  BY <1>2, <1>3, <1>5 DEF T

LEMMA ListedOfFinite ==
    ASSUME NEW S, IsFiniteSet(S), S \subseteq Object, NEW kinds
    PROVE  IsFiniteSet(ListedOf(kinds, S))
<1>1. ASSUME NEW k
      PROVE  IsFiniteSet(OfKinds(S, k))
  <2>1. OfKinds(S, k) \in SUBSET S
    BY DEF OfKinds
  <2> QED
    BY <2>1, FS_Subset
<1>2. CASE kinds = {}
  <2> DEFINE D == OfKinds(S, {"table"})
             f == [o \in D |-> IndexNamesOf(o)]
             T == {IndexNamesOf(o) : o \in D}
  <2>1. \A o \in D : IsFiniteSet(IndexNamesOf(o))
    BY IndexNamesAre DEF OfKinds
  <2>2. IsFiniteSet(D)
    BY <1>1
  <2> HIDE DEF D
  <2>3. (\A x \in D : f[x] \in T) /\ \A y \in T : \E x \in D : f[x] = y
    OBVIOUS
  <2>4. \A y \in T : IsFiniteSet(y)
    BY <2>1
  <2> HIDE DEF f, T
  <2>5. IsFiniteSet(T)
    BY <2>2, <2>3, ImageFinite
  <2>6. IsFiniteSet(UNION T)
    BY <2>4, <2>5, FS_UNION
  <2> QED
    BY <1>2, <2>6 DEF ListedOf, IndexNames, T, D
<1>3. CASE kinds # {}
  BY <1>1, <1>3, NumbersFinite DEF ListedOf
<1> QED
  BY <1>2, <1>3

LEMMA ListedOfGrows ==
    ASSUME NEW A, NEW B, A \subseteq B, NEW kinds
    PROVE  ListedOf(kinds, A) \subseteq ListedOf(kinds, B)
<1>1. \A k : OfKinds(A, k) \subseteq OfKinds(B, k)
  BY DEF OfKinds
<1>2. IndexNames(A) \subseteq IndexNames(B)
  BY <1>1 DEF IndexNames
<1>3. Numbers(OfKinds(A, kinds)) \subseteq Numbers(OfKinds(B, kinds))
  BY <1>1 DEF Numbers
<1> QED
  BY <1>2, <1>3 DEF ListedOf

-----------------------------------------------------------------------------
\* The indexes of a table that is there: those of its constraints and its own.
LEMMA AllIndexesAre ==
    ASSUME TypeOK, Slots, NEW o \in User({"table"}), NEW all, all = AllIndexes(name(o))
    PROVE  /\ o \in Object /\ kind(o) = "table"
           /\ IsFiniteSet(ToSet(all))
           /\ \A i, j \in ToSet(all) : i.name = j.name => i = j
           /\ \A i \in ToSet(all) : i.name \in IndexNamesOf(o)
           /\ \A n \in IndexNamesOf(o) : \E i \in ToSet(all) : i.name = n
<1>1. o \in db /\ o \in Object /\ kind(o) = "table" /\ o \in Called({"table"}, name(o))
  BY DEF User, Called, TypeOK, CatalogTypeOK
<1>2. The(Called({"table"}, name(o))) = o
  <2>1. kind(o) \in {"table"} /\ Called({"table"}, name(o)) # {} /\ Shares({"table"})
    BY <1>1, RelationShares
  <2> QED
    BY <1>1, <2>1, TheIs
<1> DEFINE keyed == Keyed(World[o].cons)
           of == ForEach(keyed, KeyIndex)
           idx == World[o].idx
<1>3. all = of \o idx
  BY <1>1, <1>2 DEF AllIndexes, Constraints, Indexes
<1>4. /\ keyed \in Seq(ConstraintData) /\ NamesDiffer(keyed)
      /\ idx \in Seq(IndexData) /\ NamesDiffer(idx)
      /\ \A c \in ToSet(keyed), i \in ToSet(idx) : c.name # i.name
  BY <1>1, KeysAre
<1>5. IndexNamesOf(o) = {i.name : i \in ToSet(keyed) \cup ToSet(idx)}
  BY DEF IndexNamesOf
<1> HIDE DEF keyed
<1>6. of = [k \in 1 .. Len(keyed) |-> KeyIndex(keyed[k])]
  BY DEF ForEach
<1> HIDE DEF of, idx
<1>7. Len(keyed) \in Nat /\ DOMAIN keyed = 1 .. Len(keyed)
      /\ Len(idx) \in Nat /\ DOMAIN idx = 1 .. Len(idx)
  BY <1>4
<1>8. \E B : of \in Seq(B) /\ DOMAIN of = 1 .. Len(keyed) /\ Len(of) = Len(keyed)
  <2> DEFINE B == {KeyIndex(keyed[k]) : k \in 1 .. Len(keyed)}
  <2>1. of \in [1 .. Len(keyed) -> B]
    BY <1>6
  <2>2. PICK m \in Nat : m = Len(keyed)
    BY <1>7
  <2> HIDE DEF B
  <2>3. of \in Seq(B) /\ DOMAIN of = 1 .. m /\ Len(of) = m
    BY <2>1, <2>2
  <2> QED
    BY <2>2, <2>3
<1>9. PICK B : of \in Seq(B)
  BY <1>8
<1>10. /\ all \in Seq(B \cup IndexData)
       /\ \A k \in DOMAIN of : k \in DOMAIN all /\ all[k] = of[k]
       /\ \A k \in DOMAIN idx : Len(of) + k \in DOMAIN all /\ all[Len(of) + k] = idx[k]
       /\ \A k \in DOMAIN all :
             \/ k \in DOMAIN of /\ all[k] = of[k]
             \/ (k - Len(of) \in DOMAIN idx /\ all[k] = idx[k - Len(of)])
  BY <1>3, <1>4, <1>9, AppendedIs
<1>11. \A k \in DOMAIN of : k \in DOMAIN keyed /\ of[k] = KeyIndex(keyed[k])
          /\ of[k].name = keyed[k].name
  BY <1>6, <1>7, <1>8 DEF KeyIndex
<1>12. \A i \in ToSet(all) :
          \/ \E k \in DOMAIN keyed : i = KeyIndex(keyed[k]) /\ i.name = keyed[k].name
          \/ \E k \in DOMAIN idx : i = idx[k]
  BY <1>10, <1>11 DEF ToSet
<1>13. /\ \A k \in DOMAIN keyed : keyed[k] \in ToSet(keyed)
       /\ \A k \in DOMAIN idx : idx[k] \in ToSet(idx)
  BY DEF ToSet
<1>14. IsFiniteSet(ToSet(all))
  BY <1>10, ToSetFinite
<1>15. \A i, j \in ToSet(all) : i.name = j.name => i = j
  <2> SUFFICES ASSUME NEW i \in ToSet(all), NEW j \in ToSet(all), i.name = j.name
               PROVE  i = j
    OBVIOUS
  <2>1. CASE (\E k \in DOMAIN keyed : i = KeyIndex(keyed[k]) /\ i.name = keyed[k].name)
             /\ \E k \in DOMAIN keyed : j = KeyIndex(keyed[k]) /\ j.name = keyed[k].name
    BY <1>4, <2>1 DEF NamesDiffer
  <2>2. CASE (\E k \in DOMAIN idx : i = idx[k]) /\ \E k \in DOMAIN idx : j = idx[k]
    BY <1>4, <2>2 DEF NamesDiffer
  <2>3. CASE (\E k \in DOMAIN keyed : i = KeyIndex(keyed[k]) /\ i.name = keyed[k].name)
             /\ \E k \in DOMAIN idx : j = idx[k]
    BY <1>4, <1>13, <2>3
  <2>4. CASE (\E k \in DOMAIN idx : i = idx[k])
             /\ \E k \in DOMAIN keyed : j = KeyIndex(keyed[k]) /\ j.name = keyed[k].name
    BY <1>4, <1>13, <2>4
  <2> QED
    BY <1>12, <2>1, <2>2, <2>3, <2>4
<1>16. \A i \in ToSet(all) : i.name \in IndexNamesOf(o)
  BY <1>5, <1>12, <1>13
<1>17. ASSUME NEW n \in IndexNamesOf(o)
       PROVE  \E i \in ToSet(all) : i.name = n
  <2>1. \/ \E k \in DOMAIN keyed : keyed[k].name = n
        \/ \E k \in DOMAIN idx : idx[k].name = n
    BY <1>5, <1>17 DEF ToSet
  <2>2. CASE \E k \in DOMAIN keyed : keyed[k].name = n
    <3>1. PICK k \in DOMAIN keyed : keyed[k].name = n
      BY <2>2
    <3>2. k \in DOMAIN of /\ of[k].name = n
      BY <1>7, <1>8, <1>11, <3>1
    <3> QED
      BY <1>10, <3>2 DEF ToSet
  <2>3. CASE \E k \in DOMAIN idx : idx[k].name = n
    BY <1>10, <2>3 DEF ToSet
  <2> QED
    BY <2>1, <2>2, <2>3
<1> QED
  BY <1>1, <1>14, <1>15, <1>16, <1>17

-----------------------------------------------------------------------------
\* handle_list: one query.
Names(rows) == ForEach(rows, LAMBDA r : r.name)
Listing == out = <<>> /\ work = <<Do("list")>>
ListRead ==
    /\ work = <<>>
    /\ InList(Names(out[1].rows), ListedOf(call.kinds, stable), ListedOf(call.kinds, seen))
ListInv ==
    call.tool = "list" =>
        /\ status = "start" => out = <<>>
        /\ status \in {"run", "done"} => Listing \/ ListRead

LEMMA ListInit == Init => ListInv
  BY DEF Init, ListInv

LEMMA ListHeads ==
    ASSUME ListInv, call.tool = "list", NEW ops, Heads(ops)
    PROVE  Listing /\ "list" \in ops
  BY DEF ListInv, Heads, Listing, ListRead, Do, Item

LEMMA KindsShare ==
    ASSUME TypeOK, call.kinds # {}
    PROVE  Shares(call.kinds)
<1>1. call.kinds \in ListType
  BY CallsAssumption DEF TypeOK
<1> QED
  BY <1>1, RelationShares DEF ListType, Relation

LEMMA SeenFinite ==
    ASSUME TypeOK, Slots, NEW kinds
    PROVE  /\ IsFiniteSet(ListedOf(kinds, seen)) /\ stable \subseteq db /\ db \subseteq seen
           /\ ListedOf(kinds, db) \subseteq ListedOf(kinds, seen)
           /\ ListedOf(kinds, stable) \subseteq ListedOf(kinds, db)
  BY ListedOfFinite, ListedOfGrows DEF TypeOK, CatalogTypeOK, Slots

\* Objects by their names.
LEMMA KindsListed ==
    ASSUME TypeOK, Slots, NEW kinds, kinds # {}, Shares(kinds), NEW S, S = OfKinds(db, kinds),
           NEW r, r = First(ByName(S)), NEW rows, rows = [k \in 1 .. Len(r) |-> name(r[k])]
    PROVE  InList(rows, ListedOf(kinds, stable), ListedOf(kinds, seen))
<1> DEFINE key == [o \in S |-> name(o)]
           must == ListedOf(kinds, stable)
           may == ListedOf(kinds, seen)
<1>1. S \in SUBSET db /\ \A o \in S : kind(o) \in kinds
  BY DEF OfKinds
<1>2. IsFiniteSet(S) /\ Tells(S, key) /\ ByName(S) \in Seq(S)
  BY <1>1, ByNameIs
<1>3. \A n \in ListedOf(kinds, db) : \E o \in S : name(o) = n
  BY DEF ListedOf, Numbers
<1>4. \A o \in S : name(o) \in ListedOf(kinds, db)
  BY DEF ListedOf, Numbers
<1>5. r = First(Sorted(S, key)) /\ r \in Seq(S)
  BY <1>2, FirstIs DEF ByName
<1>6. \A k \in 1 .. Len(r) : r[k] \in S /\ key[r[k]] = name(r[k])
  BY <1>5
<1>7. rows = [k \in 1 .. Len(r) |-> key[r[k]]]
  BY <1>6
<1>8. \A o \in S : key[o] \in may
  BY <1>4, SeenFinite
<1>9. KeyedWithin(S, key, must, may)
  <2>1. \A n \in must : \E o \in S : key[o] = n
    BY <1>3, SeenFinite
  <2> QED
    BY <1>8, <2>1 DEF KeyedWithin
<1>10. IsFiniteSet(may)
  BY SeenFinite
<1>11. IsFiniteSet(S)
  BY <1>2
<1> HIDE DEF key, must, may
<1>12. InList(rows, must, may)
  BY <1>2, <1>5, <1>7, <1>9, <1>10, <1>11, SortedInList
<1> QED
  BY <1>12 DEF must, may

\* Indexes by their names.
LEMMA IndexesListed ==
    ASSUME TypeOK, Slots, NamesApart, NEW r, r = IndexList,
           NEW rows, rows = [k \in 1 .. Len(r) |-> r[k].name]
    PROVE  InList(rows, ListedOf({}, stable), ListedOf({}, seen))
<1> DEFINE D == User({"table"})
           of(o) == {[name |-> i.name, is |-> "index", shows |-> <<name(o), i.unique>>] :
                         i \in ToSet(AllIndexes(name(o)))}
           S == UNION {of(o) : o \in D}
           key == [i \in S |-> i.name]
           must == ListedOf({}, stable)
           may == ListedOf({}, seen)
<1>1. \A o \in D : /\ o \in db /\ o \in Object /\ kind(o) = "table"
                   /\ IsFiniteSet(ToSet(AllIndexes(name(o))))
                   /\ \A i, j \in ToSet(AllIndexes(name(o))) : i.name = j.name => i = j
                   /\ \A i \in ToSet(AllIndexes(name(o))) : i.name \in IndexNamesOf(o)
                   /\ \A n \in IndexNamesOf(o) : \E i \in ToSet(AllIndexes(name(o))) : i.name = n
  <2>1. \A o \in D : o \in db
    BY DEF User
  <2> QED
    BY <2>1, AllIndexesAre
<1>2. \A o \in D : \A x \in of(o) : x.name \in IndexNamesOf(o)
  BY <1>1
<1>3. \A o \in D : \A x, y \in of(o) : x.name = y.name => x = y
  BY <1>1
<1>4. \A o \in D : \A n \in IndexNamesOf(o) : \E x \in of(o) : x.name = n
  <2> SUFFICES ASSUME NEW o \in D, NEW n \in IndexNamesOf(o)
               PROVE  \E x \in of(o) : x.name = n
    OBVIOUS
  <2>1. PICK i \in ToSet(AllIndexes(name(o))) : i.name = n
    BY <1>1
  <2> DEFINE x == [name |-> i.name, is |-> "index", shows |-> <<name(o), i.unique>>]
  <2>2. x \in of(o) /\ x.name = n
    BY <2>1
  <2> QED
    BY <2>2
<1>5. IsFiniteSet(S)
  <2> DEFINE f == [o \in D |-> of(o)]
             T == {of(o) : o \in D}
  <2>1. ASSUME NEW o \in D
        PROVE  IsFiniteSet(of(o))
    <3> DEFINE A == ToSet(AllIndexes(name(o)))
               g == [i \in A |-> [name |-> i.name, is |-> "index", shows |-> <<name(o), i.unique>>]]
               B == of(o)
    <3>1. (\A x \in A : g[x] \in B) /\ \A y \in B : \E x \in A : g[x] = y
      OBVIOUS
    <3>2. IsFiniteSet(A)
      BY <1>1
    <3> HIDE DEF A, g, B
    <3>3. IsFiniteSet(B)
      BY <3>1, <3>2, ImageFinite
    <3> QED
      BY <3>3 DEF B
  <2>2. (\A x \in D : f[x] \in T) /\ \A y \in T : \E x \in D : f[x] = y
    OBVIOUS
  <2>3. IsFiniteSet(D)
    <3>1. D \in SUBSET seen /\ IsFiniteSet(seen)
      BY DEF User, TypeOK, CatalogTypeOK, Slots
    <3> HIDE DEF D
    <3> QED
      BY <3>1, FS_Subset
  <2>4. \A y \in T : IsFiniteSet(y)
    BY <2>1
  <2> HIDE DEF f, T, D, of
  <2>5. IsFiniteSet(T)
    BY <2>2, <2>3, ImageFinite
  <2>6. IsFiniteSet(UNION T)
    BY <2>4, <2>5, FS_UNION
  <2> QED
    BY <2>6 DEF T
<1>6. r = First(Sorted(S, key))
  BY DEF IndexList
<1>7. IndexNames(db) = UNION {IndexNamesOf(o) : o \in D}
  BY DEF IndexNames, OfKinds, User
<1> HIDE DEF of
<1>8. \A x, y \in S : x.name = y.name => x = y
  <2> SUFFICES ASSUME NEW x \in S, NEW y \in S, x.name = y.name
               PROVE  x = y
    OBVIOUS
  <2>1. PICK o \in D, p \in D : x \in of(o) /\ y \in of(p)
    OBVIOUS
  <2>2. x.name \in IndexNamesOf(o) /\ y.name \in IndexNamesOf(p)
    BY <1>2, <2>1
  <2>3. o = p
    BY <1>1, <2>2 DEF NamesApart, IndexesApart
  <2> QED
    BY <1>3, <2>1, <2>3
<1>9. \A x \in S : x.name \in IndexNames(db)
  BY <1>2, <1>7
<1>10. \A n \in IndexNames(db) : \E x \in S : x.name = n
  BY <1>4, <1>7
<1>11. \A n \in IndexNames(db) : n \in Nat
  BY <1>1, <1>7, IndexNamesAre
<1>12. IndexNames(db) = ListedOf({}, db)
  BY DEF ListedOf
<1> HIDE DEF S, D
<1>13. Tells(S, key)
  BY <1>8, <1>9, <1>11 DEF Tells
<1>14. IsFiniteSet(may) /\ KeyedWithin(S, key, must, may)
  <2>1. /\ IsFiniteSet(may) /\ (\A x \in S : key[x] \in may)
        /\ \A n \in must : \E x \in S : key[x] = n
    BY <1>9, <1>10, <1>12, SeenFinite
  <2> QED
    BY <2>1 DEF KeyedWithin
<1>15. r \in Seq(S)
  BY <1>5, <1>6, <1>13, SortedIs, FirstIs
<1>16. rows = [k \in 1 .. Len(r) |-> key[r[k]]]
  <2>1. \A k \in 1 .. Len(r) : r[k] \in S
    BY <1>15
  <2> QED
    BY <2>1
<1> HIDE DEF key, must, may
<1>17. InList(rows, must, may)
  BY <1>5, <1>6, <1>13, <1>14, <1>16, SortedInList
<1> QED
  BY <1>17 DEF must, may

LEMMA ListFirst ==
    ASSUME TypeOK, Slots, NamesApart, Listing, handle_list
    PROVE  ListRead'
<1>1. /\ work' = <<>> \o Rest /\ UNCHANGED <<stable, seen, call>>
      /\ out' = out \o <<[told |-> "list", rows |-> IF call.kinds = {} THEN IndexList
                                              ELSE ForEach(ListRows(call.kinds), ListRow)]>>
  BY DEF handle_list, Goes, catalogVars
<1>2. /\ work' = <<>>
      /\ out'[1].rows = IF call.kinds = {} THEN IndexList
                        ELSE ForEach(ListRows(call.kinds), ListRow)
  <2>1. PICK rows : rows = IF call.kinds = {} THEN IndexList
                           ELSE ForEach(ListRows(call.kinds), ListRow)
    OBVIOUS
  <2>2. out' = <<>> \o <<[told |-> "list", rows |-> rows]>> /\ work' = <<>> \o Tail(<<Do("list")>>)
    BY <1>1, <2>1 DEF Listing, Rest
  <2>3. out'[1] = [told |-> "list", rows |-> rows]
    BY <2>2
  <2> QED
    BY <2>1, <2>2, <2>3
<1>3. InList(Names(out'[1].rows), ListedOf(call.kinds, stable), ListedOf(call.kinds, seen))
  <2>1. CASE call.kinds = {}
    <3>1. PICK r : r = IndexList
      OBVIOUS
    <3>2. Names(r) = [k \in 1 .. Len(r) |-> r[k].name]
      BY DEF Names, ForEach
    <3>3. InList(Names(r), ListedOf({}, stable), ListedOf({}, seen))
      BY <3>1, <3>2, IndexesListed
    <3> QED
      BY <1>2, <2>1, <3>1, <3>3
  <2>2. CASE call.kinds # {}
    <3> DEFINE kinds == call.kinds
    <3>1. PICK S : S = OfKinds(db, kinds)
      OBVIOUS
    <3>2. PICK r : r = First(ByName(S))
      OBVIOUS
    <3>3. ListRows(kinds) = r
      <4>1. S = IF kinds \subseteq {"procedure", "function"} THEN Every(kinds) ELSE User(kinds)
        BY <3>1 DEF OfKinds, Every, User
      <4> QED
        BY <3>2, <4>1 DEF ListRows
    <3>4. Shares(kinds)
      BY <2>2, KindsShare
    <3> HIDE DEF kinds
    <3>5. r \in Seq(S)
      <4>1. S \in SUBSET db /\ \A o \in S : kind(o) \in kinds
        BY <3>1 DEF OfKinds
      <4> QED
        BY <3>2, <3>4, <4>1, ByNameIs, FirstIs
    <3>6. PICK n \in Nat : n = Len(r)
      BY <3>5
    <3>7. PICK rows : rows = ForEach(r, ListRow)
      OBVIOUS
    <3>8. rows = [k \in 1 .. n |-> ListRow(r[k])]
      BY <3>6, <3>7 DEF ForEach
    <3>9. Len(rows) = n /\ \A k \in 1 .. n : rows[k].name = name(r[k])
      BY <3>8 DEF ListRow
    <3>10. Names(rows) = [k \in 1 .. Len(r) |-> name(r[k])]
      BY <3>6, <3>9 DEF Names, ForEach
    <3>11. InList(Names(rows), ListedOf(kinds, stable), ListedOf(kinds, seen))
      BY <2>2, <3>1, <3>2, <3>4, <3>10, KindsListed DEF kinds
    <3>12. out'[1].rows = rows
      BY <1>2, <2>2, <3>3, <3>7 DEF kinds
    <3> QED
      BY <3>11, <3>12 DEF kinds
  <2> QED
    BY <2>1, <2>2
<1>4. PICK rows : rows = Names(out'[1].rows)
  OBVIOUS
<1>5. PICK must : must = ListedOf(call.kinds, stable)
  OBVIOUS
<1>6. PICK may : may = ListedOf(call.kinds, seen)
  OBVIOUS
<1>7. InList(rows, must, may)
  BY <1>3, <1>4, <1>5, <1>6
<1>8. Names(out[1].rows)' = rows
  BY <1>4
<1>9. ListedOf(call.kinds, stable)' = must
  BY <1>1, <1>5
<1>10. ListedOf(call.kinds, seen)' = may
  BY <1>1, <1>6
<1> QED
  BY <1>2, <1>7, <1>8, <1>9, <1>10 DEF ListRead

LEMMA ListPlan ==
    ASSUME call.tool = "list"
    PROVE  Plan = <<Do("list")>>
  BY DEF Plan

LEMMA ListStep ==
    ASSUME TypeOK, Slots, NamesApart, ListInv, call.tool = "list", Step
    PROVE  ListInv'
<1>0. call' = call
  BY CatalogStays
<1>9. status' # "start"
  BY StepIs DEF GoesOn, Starts, Stops, Fails, Finish
<1> SUFFICES ASSUME status' \in {"run", "done"}
             PROVE  Listing' \/ ListRead'
  BY <1>9 DEF ListInv
<1>1. CASE Begin
  <2>1. status = "start" /\ out = <<>> /\ work' = Plan /\ out' = out
    BY <1>1 DEF Begin, Fails, ListInv
  <2> QED
    BY <1>0, <2>1, ListPlan DEF Listing
<1>2. CASE ErrorEnds
  BY <1>2 DEF ErrorEnds, Fails
<1>3. CASE Finish
  <2>1. status = "run" /\ work = <<>> /\ UNCHANGED <<stable, seen, call, work, out>>
    BY <1>3 DEF Finish, catalogVars
  <2>2. ListRead
    BY <2>1 DEF ListInv, Listing
  <2> QED
    BY <2>1, <2>2 DEF ListRead
<1>4. CASE handle_list
  BY <1>4, ToolHeads, ListHeads, ListFirst
<1>6. CASE Extract \/ Describe \/ SchemaRead \/ schema_fails
  BY <1>6, ExtractHeads, DescribeHeads, SchemaHeads, ListHeads
     DEF ExtractOps, DescribeOps, SchemaOps
<1>7. CASE \/ handle_find_column \/ domain_list \/ domain_uses \/ column_types
           \/ handle_check_duplicates \/ duplicate_rows
  BY <1>7, ToolHeads, ListHeads
<1>8. CASE health \/ database_tables \/ database_keys \/ count \/ generate_keys \/ view_row
  BY <1>8, ToolHeads, ListHeads
<1> QED
  BY <1>1, <1>2, <1>3, <1>4, <1>6, <1>7, <1>8 DEF Step

\* The other session: what stayed grows less, what was seen grows.
LEMMA OthersListed ==
    ASSUME TypeOK, Slots, Slots', TypeOK', Others, UNCHANGED handlerVars, NEW kinds, NEW rows,
           InList(rows, ListedOf(kinds, stable), ListedOf(kinds, seen))
    PROVE  InList(rows, ListedOf(kinds, stable), ListedOf(kinds, seen))'
<1>1. PICK must : must = ListedOf(kinds, stable)
  OBVIOUS
<1>2. PICK may : may = ListedOf(kinds, seen)
  OBVIOUS
<1>3. PICK S : S = stable'
  OBVIOUS
<1>4. PICK T : T = seen'
  OBVIOUS
<1>5. S \subseteq stable /\ seen \subseteq T /\ IsFiniteSet(T) /\ T \subseteq Object
  <2>1. IsFiniteSet(seen') /\ seen' \subseteq Object
    BY DEF Slots, TypeOK, CatalogTypeOK
  <2> QED
    BY <1>3, <1>4, <2>1, OthersKeep
<1>6. ListedOf(kinds, S) \in SUBSET must /\ may \subseteq ListedOf(kinds, T)
  BY <1>1, <1>2, <1>5, ListedOfGrows
<1>7. IsFiniteSet(ListedOf(kinds, T))
  BY <1>5, ListedOfFinite
<1>8. InList(rows, ListedOf(kinds, S), ListedOf(kinds, T))
  BY <1>1, <1>2, <1>6, <1>7, ListStays
<1>9. ListedOf(kinds, stable)' = ListedOf(kinds, S) /\ ListedOf(kinds, seen)' = ListedOf(kinds, T)
  BY <1>3, <1>4
<1> QED
  BY <1>8, <1>9

LEMMA ListNext ==
    ASSUME TypeOK, Slots, TypeOK', Slots', NamesApart, ListInv, [Next]_vars
    PROVE  ListInv'
<1>1. CASE Step
  <2>1. CASE call.tool = "list"
    BY <1>1, <2>1, ListStep
  <2>2. CASE call.tool # "list"
    BY <1>1, <2>2, CatalogStays DEF ListInv
  <2> QED
    BY <2>1, <2>2
<1>2. CASE Others /\ UNCHANGED handlerVars
  <2>1. UNCHANGED <<call, status, work, out>>
    BY <1>2 DEF handlerVars
  <2>2. ListRead => ListRead'
    <3> SUFFICES ASSUME ListRead
                 PROVE  ListRead'
      OBVIOUS
    <3>1. PICK rows, kinds : rows = Names(out[1].rows) /\ kinds = call.kinds
      OBVIOUS
    <3>2. InList(rows, ListedOf(kinds, stable), ListedOf(kinds, seen))
      BY <3>1 DEF ListRead
    <3>3. InList(rows, ListedOf(kinds, stable), ListedOf(kinds, seen))'
      BY <1>2, <3>2, OthersListed
    <3>4. Names(out[1].rows)' = rows /\ call.kinds' = kinds
      BY <2>1, <3>1
    <3>5. PICK m, n : m = ListedOf(kinds, stable)' /\ n = ListedOf(kinds, seen)'
      OBVIOUS
    <3>6. ListedOf(call.kinds, stable)' = m /\ ListedOf(call.kinds, seen)' = n
      BY <3>4, <3>5
    <3>7. InList(rows, m, n)
      BY <3>3, <3>5
    <3> QED
      BY <2>1, <3>4, <3>6, <3>7 DEF ListRead
  <2> QED
    BY <2>1, <2>2 DEF ListInv, Listing
<1>3. CASE UNCHANGED vars
  BY <1>3 DEF vars, catalogVars, handlerVars, ListInv, Listing, ListRead
<1> QED
  BY <1>1, <1>2, <1>3 DEF Next, Over

-----------------------------------------------------------------------------
\* handle_find_column: one query.
Searched(o) == o \in stable /\ kind(o) \in Relation /\ ~ World[o].system
Finding == out = <<>> /\ work = <<Do("find")>>
AllFound ==
    \A o \in Object : Searched(o) =>
        Where(out[1].rows, LAMBDA r : r[1] = name(o)) = Matches(o)
Found == work = <<>> /\ AllFound
FindInv ==
    call.tool = "find_column" =>
        /\ status = "start" => out = <<>>
        /\ status \in {"run", "done"} => Finding \/ Found

LEMMA FindInit == Init => FindInv
  BY DEF Init, FindInv

LEMMA FindHeads ==
    ASSUME FindInv, call.tool = "find_column", NEW ops, Heads(ops)
    PROVE  Finding /\ "find" \in ops
  BY DEF FindInv, Heads, Finding, Found, Do, Item

\* The rows of one table bear its name.
MatchRow(o, c) == <<name(o), c.name, format_column_type(c.type), c.null = 1>>
MatchRows == {MatchRow(o, c) : o \in Object, c \in ColumnData}

LEMMA MatchesAre ==
    ASSUME NEW o \in Object, kind(o) \in Relation
    PROVE  /\ Matches(o) \in Seq(MatchRows)
           /\ \A k \in DOMAIN Matches(o) : Matches(o)[k][1] = name(o)
<1> DEFINE cols == World[o].cols
           places == {k \in DOMAIN cols : cols[k].name \in ToSet(call.names)}
           chosen == Chosen(cols, places)
           m == [k \in 1 .. Len(chosen) |-> MatchRow(o, chosen[k])]
<1>1. cols \in Seq(ColumnData)
  BY WorldAssumption DEF Relation
<1>2. Matches(o) = m
  BY DEF Matches, Where, ForEach, MatchRow
<1> HIDE DEF cols
<1>3. chosen \in Seq(ColumnData)
  <2>1. places \in SUBSET DOMAIN cols
    OBVIOUS
  <2> HIDE DEF places
  <2> QED
    BY <1>1, <2>1, ChosenIs
<1> HIDE DEF chosen
<1>4. PICK n \in Nat : n = Len(chosen) /\ \A k \in 1 .. n : chosen[k] \in ColumnData
  BY <1>3
<1>5. m \in [1 .. n -> MatchRows]
  BY <1>4 DEF MatchRows
<1>6. \A k \in 1 .. n : m[k] = MatchRow(o, chosen[k])
  BY <1>4
<1> HIDE DEF m
<1>7. m \in Seq(MatchRows) /\ DOMAIN m = 1 .. n
  BY <1>5
<1>8. \A k \in 1 .. n : m[k][1] = name(o)
  BY <1>6 DEF MatchRow
<1> QED
  BY <1>2, <1>7, <1>8

LEMMA FindRows ==
    ASSUME TypeOK, Slots, NEW rows, rows = FlattenSeq(ForEach(ByName(User(Relation)), Matches)),
           NEW o \in Object, Searched(o)
    PROVE  Where(rows, LAMBDA r : r[1] = name(o)) = Matches(o)
<1> DEFINE S == User(Relation)
           list == ByName(S)
           ss == [k \in 1 .. Len(list) |-> Matches(list[k])]
           places == {p \in DOMAIN rows : rows[p][1] = name(o)}
<1>1. S \in SUBSET db /\ (\A p \in S : p \in Object /\ kind(p) \in Relation) /\ o \in S
  BY DEF User, Searched, TypeOK, CatalogTypeOK
<1>2. rows = FlattenSeq(ss)
  BY DEF ForEach
<1>3. Where(rows, LAMBDA r : r[1] = name(o)) = Chosen(rows, places)
  BY DEF Where
<1> HIDE DEF S
<1>4. /\ list \in Seq(S)
      /\ \A j, k \in DOMAIN list : j < k <=> name(list[j]) < name(list[k])
      /\ \A p \in S : \E k \in DOMAIN list : list[k] = p
  BY <1>1, RelationShares, ByNameIs
<1> HIDE DEF list
<1>5. PICK n \in Nat : n = Len(list) /\ DOMAIN list = 1 .. n /\ \A k \in 1 .. n : list[k] \in S
  BY <1>4
<1>6. DOMAIN ss = 1 .. n /\ Len(ss) = n /\ \A k \in 1 .. n : ss[k] = Matches(list[k])
  BY <1>5
<1> HIDE DEF ss
<1>7. \A k \in 1 .. n : ss[k] \in Seq(MatchRows)
  BY <1>1, <1>5, <1>6, MatchesAre
<1>8. \A k \in 1 .. n : \A j \in DOMAIN ss[k] : ss[k][j][1] = name(list[k])
  BY <1>1, <1>5, <1>6, MatchesAre
<1>9. rows \in Seq(MatchRows)
  BY <1>2, <1>6, <1>7, FlattenIs
<1>10. PICK at : Joins(rows, ss, n, at)
  BY <1>2, <1>6, <1>7, FlattenIs
<1>11. PICK i \in 1 .. n : list[i] = o
  BY <1>1, <1>4, <1>5
<1>12. places = {p \in DOMAIN rows : at[p][1] = i}
  <2> SUFFICES ASSUME NEW p \in DOMAIN rows
               PROVE  rows[p][1] = name(o) <=> at[p][1] = i
    OBVIOUS
  <2>1. at \in [DOMAIN rows -> (1 .. n) \X Nat]
    BY <1>10 DEF Joins
  <2>2. PICK u \in 1 .. n, v \in Nat : at[p] = <<u, v>>
    BY <2>1
  <2>3. v \in DOMAIN ss[u] /\ rows[p] = ss[u][v]
    BY <1>10, <2>2 DEF Joins
  <2>4. rows[p][1] = name(list[u])
    BY <1>8, <2>3
  <2>5. name(list[u]) = name(o) <=> u = i
    <3>1. ~ (u < i) /\ ~ (i < u) => u = i
      OBVIOUS
    <3>2. name(o) \in Nat
      BY CatalogAssumption DEF name
    <3>3. (u < i <=> name(list[u]) < name(o)) /\ (i < u <=> name(o) < name(list[u]))
      BY <1>4, <1>5, <1>11
    <3> QED
      BY <1>11, <3>1, <3>2, <3>3
  <2> QED
    BY <2>2, <2>4, <2>5
<1> HIDE DEF places
<1>13. Chosen(rows, places) = ss[i]
  <2>1. PICK X : X = MatchRows
    OBVIOUS
  <2>2. ListsOf(X, ss, n) /\ rows \in Seq(X)
    BY <1>7, <1>9, <2>1 DEF ListsOf
  <2> QED
    BY <1>10, <1>12, <2>2, BlockIs
<1> QED
  BY <1>3, <1>6, <1>11, <1>13

LEMMA MatchesStay ==
    ASSUME call' = call, NEW o \in Object
    PROVE  Matches(o)' = Matches(o)
<1>1. PICK names : names = ToSet(call.names)
  OBVIOUS
<1>2. ToSet(call.names)' = names
  BY <1>1
<1> DEFINE cols == World[o].cols
           chosen == Chosen(cols, {k \in DOMAIN cols : cols[k].name \in names})
           m == [k \in 1 .. Len(chosen) |-> <<name(o), chosen[k].name,
                    format_column_type(chosen[k].type), chosen[k].null = 1>>]
<1>3. Matches(o) = m
  BY <1>1 DEF Matches, Where, ForEach
<1>4. Matches(o)' = m
  BY <1>2 DEF Matches, Where, ForEach, name
<1> QED
  BY <1>3, <1>4

LEMMA FindFirst ==
    ASSUME TypeOK, Slots, Finding, handle_find_column
    PROVE  Found'
<1>1. PICK rows : rows = FlattenSeq(ForEach(ByName(User(Relation)), Matches))
  OBVIOUS
<1>2. /\ work' = <<>> \o Rest /\ UNCHANGED <<stable, call>>
      /\ out' = out \o <<[told |-> "columns", rows |-> rows]>>
  BY <1>1 DEF handle_find_column, Goes, catalogVars
<1>3. out' = <<>> \o <<[told |-> "columns", rows |-> rows]>> /\ work' = <<>> \o Tail(<<Do("find")>>)
  BY <1>2 DEF Finding, Rest
<1>4. out'[1] = [told |-> "columns", rows |-> rows] /\ work' = <<>>
  BY <1>3
<1>5. out'[1].rows = rows
  BY <1>4
<1>6. \A o \in Object : Searched(o) => Where(rows, LAMBDA r : r[1] = name(o)) = Matches(o)
  BY <1>1, FindRows
<1>7. \A o \in Object : Searched(o)' => Searched(o)
  BY <1>2 DEF Searched, kind
<1>8. \A o \in Object : Matches(o)' = Matches(o)
  BY <1>2, MatchesStay
<1>9. \A o \in Object : Where(out[1].rows, LAMBDA r : r[1] = name(o))'
                          = Where(rows, LAMBDA r : r[1] = name(o))
  BY <1>5 DEF Where, name
<1> QED
  BY <1>4, <1>6, <1>7, <1>8, <1>9 DEF Found, AllFound

LEMMA FindPlan ==
    ASSUME call.tool = "find_column"
    PROVE  Plan = <<Do("find")>>
  BY DEF Plan

LEMMA FoundStays ==
    ASSUME Found, UNCHANGED <<call, work, out>>, stable' \subseteq stable
    PROVE  Found'
<1>1. \A o \in Object : Searched(o)' => Searched(o)
  BY DEF Searched, kind
<1>2. \A o \in Object : Matches(o)' = Matches(o)
  BY MatchesStay
<1>3. \A o \in Object : Where(out[1].rows, LAMBDA r : r[1] = name(o))'
                          = Where(out[1].rows, LAMBDA r : r[1] = name(o))
  BY DEF Where, name
<1> QED
  BY <1>1, <1>2, <1>3 DEF Found, AllFound

LEMMA FindStep ==
    ASSUME TypeOK, Slots, FindInv, call.tool = "find_column", Step
    PROVE  FindInv'
<1>0. call' = call
  BY CatalogStays
<1>9. status' # "start"
  BY StepIs DEF GoesOn, Starts, Stops, Fails, Finish
<1> SUFFICES ASSUME status' \in {"run", "done"}
             PROVE  Finding' \/ Found'
  BY <1>9 DEF FindInv
<1>1. CASE Begin
  <2>1. status = "start" /\ out = <<>> /\ work' = Plan /\ out' = out
    BY <1>1 DEF Begin, Fails, FindInv
  <2> QED
    BY <1>0, <2>1, FindPlan DEF Finding
<1>2. CASE ErrorEnds
  BY <1>2 DEF ErrorEnds, Fails
<1>3. CASE Finish
  <2>1. status = "run" /\ work = <<>> /\ UNCHANGED <<stable, call, work, out>>
    BY <1>3 DEF Finish, catalogVars
  <2>2. Found
    BY <2>1 DEF FindInv, Finding
  <2> QED
    BY <2>1, <2>2, FoundStays
<1>4. CASE handle_find_column
  BY <1>4, ToolHeads, FindHeads, FindFirst
<1>6. CASE Extract \/ Describe \/ SchemaRead \/ schema_fails
  BY <1>6, ExtractHeads, DescribeHeads, SchemaHeads, FindHeads
     DEF ExtractOps, DescribeOps, SchemaOps
<1>7. CASE \/ handle_list \/ domain_list \/ domain_uses \/ column_types
           \/ handle_check_duplicates \/ duplicate_rows
  BY <1>7, ToolHeads, FindHeads
<1>8. CASE health \/ database_tables \/ database_keys \/ count \/ generate_keys \/ view_row
  BY <1>8, ToolHeads, FindHeads
<1> QED
  BY <1>1, <1>2, <1>3, <1>4, <1>6, <1>7, <1>8 DEF Step

LEMMA FindNext ==
    ASSUME TypeOK, Slots, FindInv, [Next]_vars
    PROVE  FindInv'
<1>1. CASE Step
  <2>1. CASE call.tool = "find_column"
    BY <1>1, <2>1, FindStep
  <2>2. CASE call.tool # "find_column"
    BY <1>1, <2>2, CatalogStays DEF FindInv
  <2> QED
    BY <2>1, <2>2
<1>2. CASE Others /\ UNCHANGED handlerVars
  <2>1. UNCHANGED <<call, status, work, out>> /\ stable' \subseteq stable
    BY <1>2, OthersKeep DEF handlerVars
  <2> QED
    BY <2>1, FoundStays DEF FindInv, Finding
<1>3. CASE UNCHANGED vars
  <2>1. UNCHANGED <<call, status, work, out, stable>>
    BY <1>3 DEF vars, catalogVars, handlerVars
  <2> QED
    BY <2>1, FoundStays DEF FindInv, Finding
<1> QED
  BY <1>1, <1>2, <1>3 DEF Next, Over

-----------------------------------------------------------------------------
\* Lists put together: what they hold, and that nothing stands there twice.
LEMMA JoinedHolds ==
    ASSUME NEW X, NEW ss, NEW n \in Nat, DOMAIN ss = 1 .. n, Len(ss) = n, ListsOf(X, ss, n),
           NEW s, s = FlattenSeq(ss)
    PROVE  /\ s \in Seq(X)
           /\ \A x : x \in ToSet(s) <=> \E i \in 1 .. n : x \in ToSet(ss[i])
<1>1. s \in Seq(X)
  BY FlattenIs DEF ListsOf
<1>2. PICK at : Joins(s, ss, n, at)
  BY FlattenIs DEF ListsOf
<1>0. at \in [DOMAIN s -> (1 .. n) \X Nat]
  BY <1>2 DEF Joins
<1>3. ASSUME NEW x \in ToSet(s)
      PROVE  \E i \in 1 .. n : x \in ToSet(ss[i])
  <2>1. PICK p \in DOMAIN s : s[p] = x
    BY DEF ToSet
  <2>2. PICK u \in 1 .. n, v \in Nat : at[p] = <<u, v>>
    BY <1>0
  <2>3. v \in DOMAIN ss[u] /\ ss[u][v] = x
    BY <1>2, <2>1, <2>2 DEF Joins
  <2> QED
    BY <2>3 DEF ToSet
<1>4. ASSUME NEW i \in 1 .. n, NEW x \in ToSet(ss[i])
      PROVE  x \in ToSet(s)
  <2>1. PICK j \in DOMAIN ss[i] : ss[i][j] = x
    BY DEF ToSet
  <2>2. PICK p \in DOMAIN s : at[p] = <<i, j>>
    BY <1>2 DEF Joins
  <2>3. j \in Nat
    <3>1. ss[i] \in Seq(X)
      BY DEF ListsOf
    <3> QED
      BY <3>1
  <2>4. at[p][1] = i /\ at[p][2] = j
    BY <2>2, <2>3
  <2>5. s[p] = ss[at[p][1]][at[p][2]]
    BY <1>2 DEF Joins
  <2>6. s[p] = x
    BY <2>1, <2>4, <2>5
  <2> QED
    BY <2>6 DEF ToSet
<1> QED
  BY <1>1, <1>3, <1>4

Unlike(ss, n) ==
    \A i, k \in 1 .. n : \A j \in DOMAIN ss[i] : \A l \in DOMAIN ss[k] :
        ss[i][j] = ss[k][l] => i = k /\ j = l

LEMMA JoinedDistinct ==
    ASSUME NEW X, NEW ss, NEW n \in Nat, DOMAIN ss = 1 .. n, Len(ss) = n, ListsOf(X, ss, n),
           Unlike(ss, n), NEW s, s = FlattenSeq(ss)
    PROVE  Distinct(s)
<1>1. s \in Seq(X)
  BY FlattenIs DEF ListsOf
<1>2. PICK at : Joins(s, ss, n, at)
  BY FlattenIs DEF ListsOf
<1>0. at \in [DOMAIN s -> (1 .. n) \X Nat]
  BY <1>2 DEF Joins
<1> SUFFICES ASSUME NEW p \in DOMAIN s, NEW q \in DOMAIN s, s[p] = s[q]
             PROVE  p = q
  BY DEF Distinct
<1>3. PICK u \in 1 .. n, v \in Nat : at[p] = <<u, v>>
  BY <1>0
<1>4. PICK w \in 1 .. n, x \in Nat : at[q] = <<w, x>>
  BY <1>0
<1>5. v \in DOMAIN ss[u] /\ s[p] = ss[u][v]
  BY <1>2, <1>3 DEF Joins
<1>6. x \in DOMAIN ss[w] /\ s[q] = ss[w][x]
  BY <1>2, <1>4 DEF Joins
<1>7. u = w /\ v = x
  <2>1. ss[u][v] = ss[w][x]
    BY <1>5, <1>6
  <2>2. \A j \in DOMAIN ss[u] : \A l \in DOMAIN ss[w] : ss[u][j] = ss[w][l] => u = w /\ j = l
    BY <1>3, <1>4 DEF Unlike
  <2> QED
    BY <1>5, <1>6, <2>1, <2>2
<1>8. p \in Nat /\ q \in Nat
  BY <1>1
<1>9. ~ (p < q) /\ ~ (q < p)
  <2>1. p < q => u < w \/ (u = w /\ v < x)
    BY <1>2, <1>3, <1>4 DEF Joins
  <2>2. q < p => w < u \/ (w = u /\ x < v)
    BY <1>2, <1>3, <1>4 DEF Joins
  <2> QED
    BY <1>7, <2>1, <2>2
<1> QED
  BY <1>8, <1>9

-----------------------------------------------------------------------------
\* The keys of one table, column by column.
EdgeRow(c, o, k) == <<c.name, name(o), c.cols[k], c.ref>>
EdgeData == Nat \X Nat \X Nat \X Nat

LEMMA KeyRowsAre ==
    ASSUME NEW o \in Object, NEW c \in ConstraintData, Distinct(c.cols),
           NEW r, r = [k \in 1 .. Len(c.cols) |-> EdgeRow(c, o, k)]
    PROVE  /\ r \in Seq(EdgeData) /\ DOMAIN r = 1 .. Len(c.cols)
           /\ \A k \in DOMAIN r : r[k][1] = c.name /\ r[k][2] = name(o) /\ r[k][3] = c.cols[k]
           /\ Distinct(r)
           /\ \A x : x \in ToSet(r) <=> x \in KeyRows(c, o)
<1>1. c.cols \in Seq(Nat) /\ c.name \in Nat /\ c.ref \in Nat
  BY DEF ConstraintData
<1>2. PICK n \in Nat : n = Len(c.cols) /\ DOMAIN c.cols = 1 .. n
  BY <1>1
<1>3. name(o) \in Nat
  BY CatalogAssumption DEF name
<1>4. \A k \in 1 .. n : c.cols[k] \in Nat
  BY <1>1, <1>2
<1>5. \A k \in 1 .. n : EdgeRow(c, o, k) \in EdgeData
  BY <1>1, <1>3, <1>4 DEF EdgeRow, EdgeData
<1>6. r \in [1 .. n -> EdgeData]
  BY <1>2, <1>5
<1>7. r \in Seq(EdgeData) /\ DOMAIN r = 1 .. n
  BY <1>6
<1>8. \A k \in DOMAIN r : r[k][1] = c.name /\ r[k][2] = name(o) /\ r[k][3] = c.cols[k]
  BY <1>2, <1>7 DEF EdgeRow
<1>9. Distinct(r)
  <2> SUFFICES ASSUME NEW j \in DOMAIN r, NEW k \in DOMAIN r, r[j] = r[k]
               PROVE  j = k
    BY DEF Distinct
  <2>1. r[j][3] = r[k][3]
    OBVIOUS
  <2>2. c.cols[j] = c.cols[k]
    BY <1>8, <2>1
  <2>3. j \in DOMAIN c.cols /\ k \in DOMAIN c.cols
    BY <1>2, <1>7
  <2> QED
    BY <2>2, <2>3, Zenon DEF Distinct
<1>10. ASSUME NEW x
       PROVE  x \in ToSet(r) <=> x \in KeyRows(c, o)
  <2>1. x \in ToSet(r) <=> \E k \in 1 .. n : x = EdgeRow(c, o, k)
    BY <1>2, <1>7 DEF ToSet
  <2>2. x \in KeyRows(c, o) <=> \E col \in ToSet(c.cols) : x = <<c.name, name(o), col, c.ref>>
    BY DEF KeyRows
  <2>3. (\A k \in 1 .. n : c.cols[k] \in ToSet(c.cols))
        /\ \A col \in ToSet(c.cols) : \E k \in 1 .. n : c.cols[k] = col
    BY <1>2 DEF ToSet
  <2> QED
    BY <2>1, <2>2, <2>3 DEF EdgeRow
<1> QED
  BY <1>2, <1>7, <1>8, <1>9, <1>10

LEMMA EdgesAre ==
    ASSUME NEW o \in Object, kind(o) = "table", NEW e, e = Edges(o)
    PROVE  /\ e \in Seq(EdgeData) /\ Distinct(e)
           /\ \A k \in DOMAIN e : e[k][2] = name(o)
           /\ \A x : x \in ToSet(e) <=> \E c \in KeysOf(o) : x \in KeyRows(c, o)
<1> DEFINE cons == World[o].cons
           places == {k \in DOMAIN cons : cons[k].type = "FOREIGN KEY"}
           keys == Chosen(cons, places)
           ss == [i \in 1 .. Len(keys) |->
                     [k \in 1 .. Len(keys[i].cols) |-> EdgeRow(keys[i], o, k)]]
<1>1. cons \in Seq(ConstraintData) /\ NamesDiffer(cons) /\ \A c \in ToSet(cons) : Distinct(c.cols)
  BY WorldAssumption
<1>2. e = FlattenSeq(ss)
  BY DEF Edges, Where, ForEach, EdgeRow
<1>3. KeysOf(o) = {c \in ToSet(cons) : c.type = "FOREIGN KEY"}
  BY DEF KeysOf
<1> HIDE DEF cons
<1>4. /\ places \in SUBSET DOMAIN cons
      /\ \A k \in DOMAIN cons : k \in places <=> cons[k].type = "FOREIGN KEY"
  OBVIOUS
<1> HIDE DEF places
<1>5. keys \in Seq(ConstraintData) /\ NamesDiffer(keys)
  BY <1>1, <1>4, ChosenIs, ChosenDiffer
<1>6. PICK b : Picks(keys, cons, places, b)
  BY <1>1, <1>4, ChosenIs
<1> HIDE DEF keys
<1>7. PICK n \in Nat : /\ n = Len(keys) /\ DOMAIN keys = 1 .. n
                       /\ \A i \in 1 .. n : keys[i] \in ConstraintData
  BY <1>5
<1>8. \A i \in 1 .. n : keys[i] \in KeysOf(o) /\ Distinct(keys[i].cols)
  <2> SUFFICES ASSUME NEW i \in 1 .. n
               PROVE  keys[i] \in KeysOf(o) /\ Distinct(keys[i].cols)
    OBVIOUS
  <2>1. b[i] \in places /\ keys[i] = cons[b[i]]
    BY <1>6, <1>7 DEF Picks
  <2>2. keys[i] \in ToSet(cons) /\ keys[i].type = "FOREIGN KEY"
    BY <1>4, <2>1 DEF ToSet
  <2> QED
    BY <1>1, <1>3, <2>2
<1>9. \A c \in KeysOf(o) : \E i \in 1 .. n : keys[i] = c
  <2> SUFFICES ASSUME NEW c \in KeysOf(o)
               PROVE  \E i \in 1 .. n : keys[i] = c
    OBVIOUS
  <2>1. PICK k \in DOMAIN cons : cons[k] = c /\ c.type = "FOREIGN KEY"
    BY <1>3 DEF ToSet
  <2>2. k \in places
    BY <1>4, <2>1
  <2>3. PICK i \in DOMAIN keys : b[i] = k
    BY <1>6, <2>2 DEF Picks
  <2> QED
    BY <1>6, <1>7, <2>1, <2>3 DEF Picks
<1>10. DOMAIN ss = 1 .. n /\ Len(ss) = n
       /\ \A i \in 1 .. n : ss[i] = [k \in 1 .. Len(keys[i].cols) |-> EdgeRow(keys[i], o, k)]
  BY <1>7
<1> HIDE DEF ss
<1>11. ASSUME NEW i \in 1 .. n
       PROVE  /\ ss[i] \in Seq(EdgeData)
              /\ \A k \in DOMAIN ss[i] : ss[i][k][1] = keys[i].name /\ ss[i][k][2] = name(o)
              /\ Distinct(ss[i])
              /\ \A x : x \in ToSet(ss[i]) <=> x \in KeyRows(keys[i], o)
  <2>1. PICK c \in ConstraintData : c = keys[i] /\ Distinct(c.cols)
    BY <1>7, <1>8
  <2>2. PICK r : r = ss[i]
    OBVIOUS
  <2>3. r = [k \in 1 .. Len(c.cols) |-> EdgeRow(c, o, k)]
    BY <1>10, <2>1, <2>2
  <2>4. /\ r \in Seq(EdgeData) /\ Distinct(r)
        /\ \A k \in DOMAIN r : r[k][1] = c.name /\ r[k][2] = name(o)
        /\ \A x : x \in ToSet(r) <=> x \in KeyRows(c, o)
    BY <2>1, <2>3, KeyRowsAre
  <2> QED
    BY <2>1, <2>2, <2>4
<1>12. ListsOf(EdgeData, ss, n)
  BY <1>11 DEF ListsOf
<1>13. Unlike(ss, n)
  <2> SUFFICES ASSUME NEW i \in 1 .. n, NEW k \in 1 .. n, NEW j \in DOMAIN ss[i],
                      NEW l \in DOMAIN ss[k], ss[i][j] = ss[k][l]
               PROVE  i = k /\ j = l
    BY DEF Unlike
  <2>1. keys[i].name = keys[k].name
    BY <1>11
  <2>2. i = k
    BY <1>5, <1>7, <2>1 DEF NamesDiffer
  <2> QED
    BY <1>11, <2>2 DEF Distinct
<1>14. e \in Seq(EdgeData) /\ \A x : x \in ToSet(e) <=> \E i \in 1 .. n : x \in ToSet(ss[i])
  BY <1>2, <1>10, <1>12, JoinedHolds
<1>15. Distinct(e)
  BY <1>2, <1>10, <1>12, <1>13, JoinedDistinct
<1>16. \A x : x \in ToSet(e) <=> \E c \in KeysOf(o) : x \in KeyRows(c, o)
  <2>1. \A i \in 1 .. n : \A x : x \in ToSet(ss[i]) <=> x \in KeyRows(keys[i], o)
    BY <1>11
  <2>2. ASSUME NEW x
        PROVE  (\E i \in 1 .. n : x \in ToSet(ss[i])) <=> \E c \in KeysOf(o) : x \in KeyRows(c, o)
    <3>1. ASSUME NEW i \in 1 .. n, x \in ToSet(ss[i])
          PROVE  \E c \in KeysOf(o) : x \in KeyRows(c, o)
      BY <1>8, <2>1, <3>1
    <3>2. ASSUME NEW c \in KeysOf(o), x \in KeyRows(c, o)
          PROVE  \E i \in 1 .. n : x \in ToSet(ss[i])
      BY <1>9, <2>1, <3>2
    <3> QED
      BY <3>1, <3>2
  <2> QED
    BY <1>14, <2>2
<1>17. ASSUME NEW k \in DOMAIN e
       PROVE  e[k][2] = name(o)
  <2>1. e[k] \in ToSet(e)
    BY DEF ToSet
  <2>2. PICK i \in 1 .. n : e[k] \in ToSet(ss[i])
    BY <1>14, <2>1
  <2>3. PICK j \in DOMAIN ss[i] : ss[i][j] = e[k]
    BY <2>2 DEF ToSet
  <2> QED
    BY <1>11, <2>3
<1> QED
  BY <1>14, <1>15, <1>16, <1>17

-----------------------------------------------------------------------------
\* The keys of all tables.
LEMMA EdgesOf ==
    ASSUME NEW o \in Object, kind(o) = "table"
    PROVE  /\ UNION {KeyRows(c, o) : c \in KeysOf(o)} = ToSet(Edges(o))
           /\ IsFiniteSet(ToSet(Edges(o)))
<1>1. \A x : x \in ToSet(Edges(o)) <=> \E c \in KeysOf(o) : x \in KeyRows(c, o)
  BY EdgesAre
<1>2. Edges(o) \in Seq(EdgeData)
  BY EdgesAre
<1>3. IsFiniteSet(ToSet(Edges(o)))
  BY <1>2, ToSetFinite
<1> QED
  BY <1>1, <1>3

LEMMA EdgesFinite ==
    ASSUME NEW S, IsFiniteSet(S), S \subseteq Object
    PROVE  IsFiniteSet(AllEdges(Tables(S)))
<1> DEFINE D == Tables(S)
           f == [o \in D |-> ToSet(Edges(o))]
           T == {ToSet(Edges(o)) : o \in D}
<1>1. D \in SUBSET S /\ \A o \in D : o \in Object /\ kind(o) = "table"
  BY DEF Tables
<1>2. AllEdges(D) = UNION T
  BY <1>1, EdgesOf DEF AllEdges
<1>3. IsFiniteSet(D)
  BY <1>1, FS_Subset
<1>4. \A y \in T : IsFiniteSet(y)
  BY <1>1, EdgesOf
<1>5. (\A x \in D : f[x] \in T) /\ \A y \in T : \E x \in D : f[x] = y
  OBVIOUS
<1> HIDE DEF D, f, T
<1>6. IsFiniteSet(T)
  BY <1>3, <1>5, ImageFinite
<1>7. IsFiniteSet(UNION T)
  BY <1>4, <1>6, FS_UNION
<1> QED
  BY <1>2, <1>7 DEF D

LEMMA EdgesGrow ==
    ASSUME NEW A, NEW B, A \subseteq B
    PROVE  AllEdges(Tables(A)) \subseteq AllEdges(Tables(B))
  BY DEF AllEdges, Tables

LEMMA AllKeysAre ==
    ASSUME TypeOK, Slots, NEW l, l = FlattenSeq(ForEach(ByName(User({"table"})), Edges))
    PROVE  /\ l \in Seq(EdgeData) /\ Distinct(l)
           /\ \A x : x \in ToSet(l) <=> x \in AllEdges(Tables(db))
<1> DEFINE S == User({"table"})
           list == ByName(S)
           ss == [k \in 1 .. Len(list) |-> Edges(list[k])]
<1>1. S \in SUBSET db /\ \A p \in S : p \in Object /\ kind(p) = "table" /\ kind(p) \in {"table"}
  BY DEF User, TypeOK, CatalogTypeOK
<1>2. l = FlattenSeq(ss)
  BY DEF ForEach
<1>3. S = Tables(db)
  BY DEF User, Tables
<1> HIDE DEF S
<1>4. /\ list \in Seq(S)
      /\ \A j, k \in DOMAIN list : j < k <=> name(list[j]) < name(list[k])
      /\ \A p \in S : \E k \in DOMAIN list : list[k] = p
  BY <1>1, RelationShares, ByNameIs
<1> HIDE DEF list
<1>5. PICK n \in Nat : n = Len(list) /\ DOMAIN list = 1 .. n /\ \A k \in 1 .. n : list[k] \in S
  BY <1>4
<1>6. DOMAIN ss = 1 .. n /\ Len(ss) = n /\ \A k \in 1 .. n : ss[k] = Edges(list[k])
  BY <1>5
<1> HIDE DEF ss
<1>7. ASSUME NEW i \in 1 .. n
      PROVE  /\ ss[i] \in Seq(EdgeData) /\ Distinct(ss[i])
             /\ \A k \in DOMAIN ss[i] : ss[i][k][2] = name(list[i])
             /\ \A x : x \in ToSet(ss[i]) <=> \E c \in KeysOf(list[i]) : x \in KeyRows(c, list[i])
  <2>1. PICK o \in Object : o = list[i] /\ kind(o) = "table"
    BY <1>1, <1>5
  <2>2. PICK e : e = ss[i]
    OBVIOUS
  <2>3. e = Edges(o)
    BY <1>6, <2>1, <2>2
  <2>4. /\ e \in Seq(EdgeData) /\ Distinct(e)
        /\ \A k \in DOMAIN e : e[k][2] = name(o)
        /\ \A x : x \in ToSet(e) <=> \E c \in KeysOf(o) : x \in KeyRows(c, o)
    BY <2>1, <2>3, EdgesAre
  <2> QED
    BY <2>1, <2>2, <2>4
<1>8. ListsOf(EdgeData, ss, n)
  BY <1>7 DEF ListsOf
<1>9. ASSUME NEW i \in 1 .. n, NEW k \in 1 .. n, name(list[i]) = name(list[k])
      PROVE  i = k
  <2>1. name(list[i]) \in Nat
    BY <1>1, <1>5, CatalogAssumption DEF name
  <2>2. ~ (i < k) /\ ~ (k < i)
    <3>1. i \in DOMAIN list /\ k \in DOMAIN list
      BY <1>5
    <3>2. (i < k <=> name(list[i]) < name(list[k])) /\ (k < i <=> name(list[k]) < name(list[i]))
      BY <1>4, <3>1
    <3> QED
      BY <1>9, <2>1, <3>2
  <2> QED
    BY <2>2
<1>10. Unlike(ss, n)
  <2> SUFFICES ASSUME NEW i \in 1 .. n, NEW k \in 1 .. n, NEW j \in DOMAIN ss[i],
                      NEW m \in DOMAIN ss[k], ss[i][j] = ss[k][m]
               PROVE  i = k /\ j = m
    BY DEF Unlike
  <2>1. name(list[i]) = name(list[k])
    BY <1>7
  <2>2. i = k
    BY <1>9, <2>1
  <2> QED
    BY <1>7, <2>2 DEF Distinct
<1>11. l \in Seq(EdgeData) /\ \A x : x \in ToSet(l) <=> \E i \in 1 .. n : x \in ToSet(ss[i])
  BY <1>2, <1>6, <1>8, JoinedHolds
<1>12. Distinct(l)
  BY <1>2, <1>6, <1>8, <1>10, JoinedDistinct
<1>13. ASSUME NEW x
       PROVE  x \in ToSet(l) <=> x \in AllEdges(Tables(db))
  <2>1. x \in AllEdges(Tables(db)) <=> \E o \in S : \E c \in KeysOf(o) : x \in KeyRows(c, o)
    BY <1>3 DEF AllEdges
  <2>2. (\E o \in S : \E c \in KeysOf(o) : x \in KeyRows(c, o))
           <=> \E i \in 1 .. n : \E c \in KeysOf(list[i]) : x \in KeyRows(c, list[i])
    BY <1>4, <1>5
  <2> QED
    BY <1>7, <1>11, <2>1, <2>2
<1> QED
  BY <1>11, <1>12, <1>13

\* What get_foreign_keys tells, while there are CAP rows at most.
KeysListed(keys) ==
    Cardinality(AllEdges(Tables(seen))) <= CAP =>
        /\ AllEdges(Tables(stable)) \subseteq ToSet(keys)
        /\ ToSet(keys) \subseteq AllEdges(Tables(seen))

LEMMA KeysNow ==
    ASSUME TypeOK, Slots
    PROVE  KeysListed(ForeignKeys)
<1> SUFFICES ASSUME Cardinality(AllEdges(Tables(seen))) <= CAP
             PROVE  /\ AllEdges(Tables(stable)) \subseteq ToSet(ForeignKeys)
                    /\ ToSet(ForeignKeys) \subseteq AllEdges(Tables(seen))
  BY DEF KeysListed
<1>1. PICK l : l = FlattenSeq(ForEach(ByName(User({"table"})), Edges))
  OBVIOUS
<1>2. /\ l \in Seq(EdgeData) /\ Distinct(l)
      /\ \A x : x \in ToSet(l) <=> x \in AllEdges(Tables(db))
  BY <1>1, AllKeysAre
<1>3. stable \subseteq db /\ db \subseteq seen /\ seen \subseteq Object /\ IsFiniteSet(seen)
  BY DEF TypeOK, CatalogTypeOK, Slots
<1> DEFINE All == AllEdges(Tables(seen))
<1>4. /\ AllEdges(Tables(stable)) \subseteq AllEdges(Tables(db))
      /\ AllEdges(Tables(db)) \subseteq All
  BY <1>3, EdgesGrow
<1>5. IsFiniteSet(All)
  BY <1>3, EdgesFinite
<1> HIDE DEF All
<1>6. Cardinality(All) \in Nat /\ Cardinality(All) <= CAP /\ CAP \in Nat
  BY <1>5, FS_CardinalityType, CatalogAssumption DEF All
<1>7. PICK n \in Nat : n = Len(l) /\ DOMAIN l = 1 .. n
  BY <1>2
<1>8. \A k \in 1 .. n : l[k] \in All
  BY <1>2, <1>4, <1>7 DEF ToSet
<1>9. l \in Seq(All)
  <2>1. l = [k \in 1 .. n |-> l[k]]
    BY <1>2, <1>7
  <2>2. l \in [1 .. n -> All]
    BY <1>8, <2>1
  <2> QED
    BY <2>2
<1>10. Len(l) <= Cardinality(All)
  BY <1>2, <1>5, <1>9, DistinctBound DEF Distinct
<1>11. \A k \in DOMAIN l : k <= CAP
  BY <1>6, <1>7, <1>10
<1>12. PICK f : f = First(l)
  OBVIOUS
<1>13. /\ \A k \in DOMAIN f : k \in DOMAIN l /\ f[k] = l[k]
       /\ \A k \in DOMAIN l : k \in DOMAIN f
  BY <1>2, <1>11, <1>12, FirstIs
<1>14. ToSet(f) = ToSet(l)
  <2>1. ToSet(f) \subseteq ToSet(l)
    BY <1>13 DEF ToSet
  <2>2. ToSet(l) \subseteq ToSet(f)
    BY <1>13 DEF ToSet
  <2> QED
    BY <2>1, <2>2
<1>15. ForeignKeys = f
  BY <1>1, <1>12 DEF ForeignKeys
<1>16. AllEdges(Tables(stable)) \subseteq ToSet(l) /\ ToSet(l) \subseteq All
  BY <1>2, <1>4
<1> QED
  BY <1>14, <1>15, <1>16 DEF All

LEMMA KeysStay ==
    ASSUME TypeOK, Slots, TypeOK', Slots', stable' \subseteq stable, seen \subseteq seen',
           NEW keys, KeysListed(keys)
    PROVE  KeysListed(keys)'
<1>1. PICK S, T : S = stable' /\ T = seen'
  OBVIOUS
<1>2. S \subseteq stable /\ seen \subseteq T /\ T \subseteq Object /\ IsFiniteSet(T)
  BY <1>1 DEF TypeOK, CatalogTypeOK, Slots
<1> DEFINE All == AllEdges(Tables(seen))
           More == AllEdges(Tables(T))
<1>3. AllEdges(Tables(S)) \subseteq AllEdges(Tables(stable)) /\ All \in SUBSET More
  BY <1>2, EdgesGrow
<1>4. IsFiniteSet(More)
  BY <1>2, EdgesFinite
<1> HIDE DEF All, More
<1>5. Cardinality(All) <= Cardinality(More) /\ IsFiniteSet(All)
  BY <1>3, <1>4, FS_Subset
<1>6. Cardinality(All) \in Nat /\ Cardinality(More) \in Nat /\ CAP \in Nat
  BY <1>4, <1>5, FS_CardinalityType, CatalogAssumption
<1>7. ASSUME Cardinality(More) <= CAP
      PROVE  AllEdges(Tables(S)) \subseteq ToSet(keys) /\ ToSet(keys) \subseteq More
  <2>1. Cardinality(All) <= CAP
    BY <1>5, <1>6, <1>7
  <2>2. AllEdges(Tables(stable)) \subseteq ToSet(keys) /\ ToSet(keys) \subseteq All
    BY <2>1 DEF KeysListed, All
  <2> QED
    BY <1>3, <2>2
<1>8. AllEdges(Tables(stable))' = AllEdges(Tables(S)) /\ AllEdges(Tables(seen))' = More
  BY <1>1 DEF AllEdges, Tables, KeysOf, KeyRows, kind, name, More
<1> QED
  BY <1>7, <1>8 DEF KeysListed

-----------------------------------------------------------------------------
\* handle_describe_database: what is left to do after the keys, a schema for each
\* section of one.
DatabaseOps == SchemaOps \cup {"count"}
Closes(w) ==
    /\ \A k \in DOMAIN w : w[k].op \in DatabaseOps
    /\ \A j \in DOMAIN w : w[j].op \in TableQuery =>
          \E k \in DOMAIN w : j < k /\ w[k].op = "schema"
Sections(w) == (\E A : w \in Seq(A)) /\ Closes(w)

\* What is left of a list when its first rows are gone.
EndOf(u, w, d) ==
    /\ DOMAIN u = 1 .. Len(w) - d
    /\ \A k \in DOMAIN u : k + d \in DOMAIN w /\ u[k] = w[k + d]

LEMMA EndKeeps ==
    ASSUME NEW w, Sections(w), NEW d \in 0 .. Len(w), NEW A, NEW u \in Seq(A), EndOf(u, w, d)
    PROVE  Sections(u)
<1>1. PICK n \in Nat : n = Len(w) /\ DOMAIN w = 1 .. n
  BY DEF Sections
<1>2. d \in Nat /\ d <= n /\ DOMAIN u = 1 .. n - d
  BY <1>1 DEF EndOf
<1>3. \A k \in DOMAIN u : u[k].op \in DatabaseOps
  BY DEF EndOf, Sections, Closes
<1>4. ASSUME NEW j \in DOMAIN u, u[j].op \in TableQuery
      PROVE  \E k \in DOMAIN u : j < k /\ u[k].op = "schema"
  <2>1. PICK i \in Nat : i = j + d
    BY <1>2
  <2>2. i \in DOMAIN w /\ w[i] = u[j]
    BY <2>1 DEF EndOf
  <2>3. PICK m \in DOMAIN w : i < m /\ w[m].op = "schema"
    BY <1>4, <2>2 DEF Sections, Closes
  <2>4. PICK k \in Int : k = m - d
    BY <1>1, <1>2, <2>3
  <2>5. k \in DOMAIN u /\ j < k /\ k + d = m
    BY <1>1, <1>2, <2>1, <2>3, <2>4
  <2>6. u[k] = w[m]
    BY <2>5 DEF EndOf
  <2> QED
    BY <2>3, <2>5, <2>6
<1> QED
  BY <1>3, <1>4 DEF Sections, Closes

LEMMA TailEnds ==
    ASSUME NEW w, Sections(w), w # <<>>
    PROVE  Sections(Tail(w))
<1>1. PICK A : w \in Seq(A)
  BY DEF Sections
<1>2. PICK u : u = Tail(w)
  OBVIOUS
<1>3. u \in Seq(A) /\ 1 \in 0 .. Len(w)
  BY <1>1, <1>2
<1>4. EndOf(u, w, 1)
  BY <1>1, <1>2 DEF EndOf
<1>5. Sections(u)
  BY <1>3, <1>4, EndKeeps
<1> QED
  BY <1>2, <1>5

\* A schema that fails: what comes after it is left.
LEMMA AfterSchemaEnds ==
    ASSUME Sections(work), work # <<>>, Head(work).op \in TableQuery
    PROVE  Sections(AfterSchema)
<1>1. PICK A : work \in Seq(A)
  BY DEF Sections
<1>2. PICK n \in Nat : /\ n = Len(work) /\ DOMAIN work = 1 .. n
                       /\ 1 \in DOMAIN work /\ Head(work) = work[1]
  BY <1>1
<1> DEFINE P(k) == work[k].op = "schema" /\ \A j \in 1 .. k - 1 : work[j].op # "schema"
           S == {k \in 1 .. n : work[k].op = "schema"}
<1>3. S # {}
  BY <1>2 DEF Sections, Closes
<1>4. S \in SUBSET Nat
  OBVIOUS
<1>5. PICK m \in S : \A k \in S : m <= k
  BY <1>3, <1>4, LeastNumber
<1>6. m \in 1 .. n /\ P(m)
  BY <1>5
<1> HIDE DEF P, S
<1>7. PICK last : last = CHOOSE k \in 1 .. n : P(k)
  OBVIOUS
<1>8. last \in 1 .. n
  BY <1>6, <1>7
<1>9. AfterSchema = SubSeq(work, last + 1, n)
  BY <1>2, <1>7 DEF AfterSchema, P
<1>10. PICK u : u = SubSeq(work, last + 1, n)
  OBVIOUS
<1>11. u \in Seq(A)
  BY <1>1, <1>2, <1>8, <1>10
<1>12. /\ DOMAIN u = 1 .. n - last
       /\ \A k \in DOMAIN u : k + last \in DOMAIN work /\ u[k] = work[k + last]
  BY <1>1, <1>2, <1>8, <1>10
<1>13. EndOf(u, work, last)
  BY <1>2, <1>12 DEF EndOf
<1>14. Sections(u)
  BY <1>2, <1>8, <1>11, <1>13, EndKeeps
<1> QED
  BY <1>9, <1>10, <1>14

-----------------------------------------------------------------------------
\* The work of each table, and of all of them.
Counting(n) == <<Item("count", n, <<>>)>>
SectionsOf(o, counts, describes) ==
    (IF counts THEN Counting(name(o)) ELSE <<>>)
      \o (IF describes THEN describe_table(name(o)) ELSE <<>>)
DatabaseItem == [op : DatabaseOps, of : Nat, row : {<<>>}]

LEMMA ItemOps ==
    ASSUME NEW s \in Seq(DatabaseItem)
    PROVE  \A k \in DOMAIN s : s[k].op \in DatabaseOps
<1>1. \A i \in DatabaseItem : i.op \in DatabaseOps
  BY DEF DatabaseItem
<1>2. \A k \in DOMAIN s : s[k] \in DatabaseItem
  OBVIOUS
<1> QED
  BY <1>1, <1>2

LEMMA PieceIs ==
    ASSUME NEW o \in Object, NEW counts \in BOOLEAN, NEW describes \in BOOLEAN,
           NEW p, p = SectionsOf(o, counts, describes)
    PROVE  p \in Seq(DatabaseItem) /\ Closes(p)
<1>1. PICK n \in Nat : n = name(o)
  BY CatalogAssumption DEF name
<1>2. \A op \in DatabaseOps : Item(op, n, <<>>) \in DatabaseItem /\ Item(op, n, <<>>).op = op
  BY <1>1 DEF Item, DatabaseItem
<1>3. {"count", "columns_of", "comments_of", "indexes_of", "constraints_of", "triggers_of",
       "schema"} \subseteq DatabaseOps /\ "count" \notin TableQuery /\ "schema" \notin TableQuery
  BY DEF DatabaseOps, SchemaOps, TableQuery
<1>4. PICK c : c = Counting(n)
  OBVIOUS
<1>5. c \in Seq(DatabaseItem) /\ Len(c) = 1 /\ c[1].op = "count"
  BY <1>2, <1>3, <1>4 DEF Counting
<1>6. PICK t : t = describe_table(n)
  OBVIOUS
<1>7. /\ t \in Seq(DatabaseItem) /\ Len(t) = 6 /\ t[6].op = "schema"
      /\ \A k \in 1 .. 6 : t[k].op \in DatabaseOps
  BY <1>2, <1>3, <1>6 DEF describe_table
<1>8. CASE counts /\ describes
  <2>1. p = c \o t
    BY <1>1, <1>4, <1>6, <1>8 DEF SectionsOf
  <2>7. PICK B : B = DatabaseItem
    OBVIOUS
  <2>8. c \in Seq(B) /\ t \in Seq(B)
    BY <1>5, <1>7, <2>7
  <2>9. /\ p \in Seq(B \cup B) /\ Len(p) = Len(c) + Len(t) /\ DOMAIN t = 1 .. Len(t)
        /\ \A k \in DOMAIN t : p[Len(c) + k] = t[k]
    BY <2>1, <2>8, AppendedIs
  <2>5. /\ p \in Seq(DatabaseItem \cup DatabaseItem)
        /\ Len(p) = Len(c) + Len(t) /\ DOMAIN t = 1 .. Len(t)
        /\ \A k \in DOMAIN t : p[Len(c) + k] = t[k]
    BY <2>7, <2>9
  <2>6. p \in Seq(DatabaseItem) /\ Len(p) = 7
    BY <1>5, <1>7, <2>5
  <2>2. p \in Seq(DatabaseItem) /\ DOMAIN p = 1 .. 7 /\ p[7] = t[6]
    BY <1>5, <1>7, <2>5, <2>6
  <2>3. \A k \in DOMAIN p : p[k].op \in DatabaseOps
    BY <2>2, ItemOps
  <2>4. \A j \in DOMAIN p : p[j].op \in TableQuery => j < 7 /\ 7 \in DOMAIN p /\ p[7].op = "schema"
    BY <1>3, <1>7, <2>2
  <2> QED
    BY <2>2, <2>3, <2>4 DEF Closes
<1>9. CASE ~ counts /\ describes
  <2>1. p = <<>> \o t
    BY <1>1, <1>6, <1>9 DEF SectionsOf
  <2>2. p \in Seq(DatabaseItem) /\ DOMAIN p = 1 .. 6 /\ p[6] = t[6]
    BY <1>7, <2>1
  <2>3. \A k \in DOMAIN p : p[k].op \in DatabaseOps
    BY <2>2, ItemOps
  <2>4. \A j \in DOMAIN p : p[j].op \in TableQuery => j < 6 /\ 6 \in DOMAIN p /\ p[6].op = "schema"
    BY <1>3, <1>7, <2>2
  <2> QED
    BY <2>2, <2>3, <2>4 DEF Closes
<1>10. CASE counts /\ ~ describes
  <2>1. p = c \o <<>>
    BY <1>1, <1>4, <1>10 DEF SectionsOf
  <2>2. p \in Seq(DatabaseItem) /\ DOMAIN p = {1} /\ p[1] = c[1]
    BY <1>5, <2>1
  <2> QED
    BY <1>3, <1>5, <2>2 DEF Closes
<1>11. CASE ~ counts /\ ~ describes
  <2>1. p = <<>> \o <<>>
    BY <1>11 DEF SectionsOf
  <2>2. p \in Seq(DatabaseItem) /\ DOMAIN p = {}
    BY <2>1
  <2> QED
    BY <2>2 DEF Closes
<1> QED
  BY <1>8, <1>9, <1>10, <1>11

LEMMA PiecesAre ==
    ASSUME NEW rows \in Seq(Object), NEW counts \in BOOLEAN, NEW describes \in BOOLEAN,
           NEW w, w = FlattenSeq([k \in 1 .. Len(rows) |-> SectionsOf(rows[k], counts, describes)])
    PROVE  Sections(w)
<1> DEFINE ss == [k \in 1 .. Len(rows) |-> SectionsOf(rows[k], counts, describes)]
<1>1. PICK n \in Nat : n = Len(rows) /\ \A k \in 1 .. n : rows[k] \in Object
  OBVIOUS
<1>2. DOMAIN ss = 1 .. n /\ Len(ss) = n
      /\ \A k \in 1 .. n : ss[k] = SectionsOf(rows[k], counts, describes)
  BY <1>1
<1>3. w = FlattenSeq(ss)
  OBVIOUS
<1> HIDE DEF ss
<1>4. \A k \in 1 .. n : ss[k] \in Seq(DatabaseItem) /\ Closes(ss[k])
  BY <1>1, <1>2, PieceIs
<1>5. w \in Seq(DatabaseItem)
  BY <1>2, <1>3, <1>4, FlattenIs
<1>6. PICK at : Joins(w, ss, n, at)
  BY <1>2, <1>3, <1>4, FlattenIs
<1>7. at \in [DOMAIN w -> (1 .. n) \X Nat]
  BY <1>6 DEF Joins
<1>8. \A k \in DOMAIN w : w[k].op \in DatabaseOps
  BY <1>5, ItemOps
<1>9. ASSUME NEW p \in DOMAIN w, w[p].op \in TableQuery
      PROVE  \E q \in DOMAIN w : p < q /\ w[q].op = "schema"
  <2>1. PICK u \in 1 .. n, v \in Nat : at[p] = <<u, v>>
    <3>1. at[p] \in (1 .. n) \X Nat
      BY <1>7
    <3> QED
      BY <3>1
  <2>2. v \in DOMAIN ss[u] /\ w[p] = ss[u][v]
    BY <1>6, <2>1 DEF Joins
  <2>3. PICK x \in DOMAIN ss[u] : v < x /\ ss[u][x].op = "schema"
    <3>1. Closes(ss[u])
      BY <1>4, <2>1
    <3> QED
      BY <1>9, <2>2, <3>1 DEF Closes
  <2>4. x \in Nat
    BY <1>4, <2>1, <2>3
  <2>5. PICK q \in DOMAIN w : at[q] = <<u, x>>
    BY <1>6, <2>1, <2>3 DEF Joins
  <2>6. at[q][1] = u /\ at[q][2] = x /\ w[q] = ss[at[q][1]][at[q][2]]
    BY <1>6, <2>5 DEF Joins
  <2>7. w[q].op = "schema"
    BY <2>3, <2>6
  <2>8. p \in Nat /\ q \in Nat /\ p # q
    BY <1>5, <2>1, <2>3, <2>5
  <2>9. ~ (q < p)
    <3>1. q < p => x < v
      <4>1. q < p => at[q][1] < at[p][1] \/ (at[q][1] = at[p][1] /\ at[q][2] < at[p][2])
        BY <1>6, <2>5 DEF Joins
      <4> QED
        BY <2>1, <2>5, <4>1
    <3> QED
      BY <2>1, <2>3, <2>4, <3>1
  <2>10. p < q
    BY <2>8, <2>9
  <2> QED
    BY <2>7, <2>10
<1> QED
  BY <1>5, <1>8, <1>9 DEF Sections, Closes

\* The phases of the call: the first two queries, the keys, the sections.
TablesListed(tables) == InList(tables, ListedOf(Relation, stable), ListedOf(Relation, seen))
AtHealth == out = <<>> /\ work = <<Do("health"), Do("database_tables")>>
AtTables == out = <<>> /\ work = <<Do("database_tables")>>
AtKeys ==
    /\ out = <<>>
    /\ \E rows \in Seq(Object) :
          work = <<Item("database_keys", 0, rows)>> /\ TablesListed(ForEach(rows, name))
AtSections ==
    /\ out # <<>> /\ \E B : out \in Seq(B)
    /\ TablesListed(out[1].tables) /\ KeysListed(out[1].keys)
    /\ Sections(work)
DatabaseInv ==
    call.tool = "describe_database" =>
        /\ status = "start" => out = <<>>
        /\ status \in {"run", "done"} => AtHealth \/ AtTables \/ AtKeys \/ AtSections

LEMMA DatabaseInit == Init => DatabaseInv
  BY DEF Init, DatabaseInv

LEMMA DatabaseHeads ==
    ASSUME DatabaseInv, call.tool = "describe_database", NEW ops, Heads(ops)
    PROVE  \/ AtHealth /\ "health" \in ops
           \/ AtTables /\ "database_tables" \in ops
           \/ AtKeys /\ "database_keys" \in ops
           \/ AtSections /\ work # <<>> /\ Head(work).op \in ops \cap DatabaseOps
<1>1. work # <<>> /\ Head(work).op \in ops
  BY DEF Heads
<1>2. AtHealth \/ AtTables \/ AtKeys \/ AtSections
  BY DEF Heads, DatabaseInv
<1>3. CASE AtHealth
  BY <1>1, <1>3 DEF AtHealth, Do, Item
<1>4. CASE AtTables
  BY <1>1, <1>4 DEF AtTables, Do, Item
<1>5. CASE AtKeys
  BY <1>1, <1>5 DEF AtKeys, Item
<1>6. CASE AtSections
  <2>1. PICK A : work \in Seq(A)
    BY <1>6 DEF AtSections, Sections
  <2>2. 1 \in DOMAIN work /\ Head(work) = work[1]
    BY <1>1, <2>1
  <2>3. Head(work).op \in DatabaseOps
    BY <1>6, <2>2 DEF AtSections, Sections, Closes
  <2> QED
    BY <1>1, <1>6, <2>3
<1> QED
  BY <1>2, <1>3, <1>4, <1>5, <1>6

LEMMA HealthGoes ==
    ASSUME AtHealth, health
    PROVE  AtTables'
<1>1. work' = Tail(<<Do("health"), Do("database_tables")>>) /\ out' = <<>>
  BY DEF AtHealth, health, Rest
<1>2. work' = <<Do("database_tables")>>
  BY <1>1
<1> QED
  BY <1>1, <1>2 DEF AtTables

LEMMA TablesGo ==
    ASSUME TypeOK, Slots, AtTables, database_tables
    PROVE  AtKeys'
<1>1. PICK rows : rows = TableList
  OBVIOUS
<1>2. /\ work' = <<Item("database_keys", 0, rows)>> \o Tail(<<Do("database_tables")>>)
      /\ out' = <<>> \o <<>> /\ UNCHANGED <<catalogVars, call>>
  BY <1>1 DEF AtTables, database_tables, Goes, Rest
<1>3. work' = <<Item("database_keys", 0, rows)>> /\ out' = <<>>
  BY <1>2
<1>4. PICK S : S = OfKinds(db, Relation)
  OBVIOUS
<1>5. /\ S = User(Relation) /\ S \in SUBSET db /\ S \subseteq Object
      /\ \A o \in S : kind(o) \in Relation
  BY <1>4 DEF OfKinds, User, Relation, TypeOK, CatalogTypeOK
<1>6. rows = First(ByName(S))
  BY <1>1, <1>5 DEF TableList
<1>7. ByName(S) \in Seq(S)
  BY <1>5, RelationShares, ByNameIs
<1>8. rows \in Seq(S)
  BY <1>6, <1>7, FirstIs
<1>9. rows \in Seq(Object)
  BY <1>5, <1>8
<1>10. PICK names : names = [k \in 1 .. Len(rows) |-> name(rows[k])]
  OBVIOUS
<1>11. Relation # {} /\ Shares(Relation)
  BY RelationShares DEF Relation
<1>12. InList(names, ListedOf(Relation, stable), ListedOf(Relation, seen))
  BY <1>4, <1>6, <1>10, <1>11, KindsListed
<1>13. TablesListed(names)'
  BY <1>2, <1>12 DEF TablesListed, catalogVars, ListedOf, IndexNames, Numbers, OfKinds, kind, name,
         IndexNamesOf, Relation
<1>14. names = ForEach(rows, name)
  BY <1>10 DEF ForEach
<1>15. TablesListed(ForEach(rows, name))'
  BY <1>13, <1>14 DEF ForEach, name
<1> QED
  BY <1>3, <1>9, <1>15 DEF AtKeys

LEMMA SectionsStay ==
    ASSUME AtSections, UNCHANGED <<db, stable, seen>>, Sections(work)', NEW C, NEW st \in Seq(C),
           out' = out \o st
    PROVE  AtSections'
<1>1. PICK B : out \in Seq(B)
  BY DEF AtSections
<1>2. out' \in Seq(B \cup C) /\ Len(out') = Len(out) + Len(st) /\ out'[1] = out[1]
  <2>1. PICK u : u = out'
    OBVIOUS
  <2>2. /\ u \in Seq(B \cup C) /\ Len(u) = Len(out) + Len(st)
        /\ DOMAIN out = 1 .. Len(out) /\ Len(out) \in Nat
        /\ \A k \in DOMAIN out : u[k] = out[k]
    BY <1>1, <2>1, AppendedIs
  <2>3. Len(out) # 0
    BY <1>1 DEF AtSections
  <2>4. 1 \in DOMAIN out
    BY <2>2, <2>3
  <2> QED
    BY <2>1, <2>2, <2>4
<1>3. out' # <<>>
  <2>1. Len(out) \in Nat /\ Len(out) # 0 /\ Len(st) \in Nat
    BY <1>1 DEF AtSections
  <2>2. Len(out') # 0
    BY <1>2, <2>1
  <2> QED
    BY <2>2
<1>4. PICK r : r = out[1]
  OBVIOUS
<1>5. TablesListed(r.tables) /\ KeysListed(r.keys) /\ out'[1] = r
  BY <1>2, <1>4 DEF AtSections
<1>6. TablesListed(r.tables)' /\ KeysListed(r.keys)'
  BY <1>5 DEF TablesListed, KeysListed, ListedOf, IndexNames, Numbers, OfKinds, kind, name,
         IndexNamesOf, Relation, AllEdges, Tables, KeysOf, KeyRows
<1> QED
  BY <1>2, <1>3, <1>5, <1>6 DEF AtSections

\* The third query: the keys, and the work of each table among the rows at hand.
TablePlaces(rows) == {k \in DOMAIN rows : kind(rows[k]) = "table"}
TablesOf(rows) == Chosen(rows, TablePlaces(rows))
KeysRead(rows, counts, describes, w, r) ==
    /\ rows \in Seq(Object) /\ TablesOf(rows) \in Seq(Object)
    /\ counts \in BOOLEAN /\ describes \in BOOLEAN
    /\ work = <<Item("database_keys", 0, rows)>> /\ TablesListed(ForEach(rows, name))
    /\ w = FlattenSeq([k \in 1 .. Len(TablesOf(rows)) |->
                          SectionsOf(TablesOf(rows)[k], counts, describes)])
    /\ r = [told |-> "database", tables |-> ForEach(rows, name), keys |-> ForeignKeys,
            schemas |-> describes]
    /\ work' = w \o <<>> /\ out' = <<r>>
    /\ UNCHANGED <<catalogVars, call, status, faulted>>

LEMMA KeysAct ==
    ASSUME AtKeys, database_keys
    PROVE  \E rows, counts, describes, w, r : KeysRead(rows, counts, describes, w, r)
<1>1. PICK rows \in Seq(Object) :
          work = <<Item("database_keys", 0, rows)>> /\ TablesListed(ForEach(rows, name))
  BY DEF AtKeys
<1>2. Row = rows /\ Rest = <<>> /\ out = <<>>
  BY <1>1 DEF AtKeys, Row, Rest, Item
<1>3. PICK counts \in BOOLEAN, describes \in BOOLEAN :
          Goes(FlattenSeq(ForEach(Where(Row, LAMBDA o : kind(o) = "table"), LAMBDA o :
                   (IF counts THEN <<Item("count", name(o), <<>>)>> ELSE <<>>)
                     \o (IF describes THEN describe_table(name(o)) ELSE <<>>))),
               <<[told |-> "database", tables |-> ForEach(Row, name), keys |-> ForeignKeys,
                  schemas |-> describes]>>)
  BY DEF database_keys
<1>4. PICK w : w = FlattenSeq([k \in 1 .. Len(TablesOf(rows)) |->
                                  SectionsOf(TablesOf(rows)[k], counts, describes)])
  OBVIOUS
<1>5. FlattenSeq(ForEach(Where(rows, LAMBDA o : kind(o) = "table"), LAMBDA o :
                   (IF counts THEN <<Item("count", name(o), <<>>)>> ELSE <<>>)
                     \o (IF describes THEN describe_table(name(o)) ELSE <<>>))) = w
  BY <1>4 DEF ForEach, Where, SectionsOf, Counting, TablesOf, TablePlaces
<1>6. PICK r : r = [told |-> "database", tables |-> ForEach(rows, name), keys |-> ForeignKeys,
                    schemas |-> describes]
  OBVIOUS
<1>7. Goes(w, <<r>>)
  BY <1>2, <1>3, <1>5, <1>6
<1>8. /\ work' = w \o <<>> /\ out' = <<>> \o <<r>>
      /\ UNCHANGED <<catalogVars, call, status, faulted>>
  BY <1>2, <1>7 DEF Goes
<1>9. TablesOf(rows) \in Seq(Object)
  <2>1. TablePlaces(rows) \in SUBSET DOMAIN rows
    BY DEF TablePlaces
  <2> QED
    BY <1>1, <2>1, ChosenIs DEF TablesOf
<1>10. out' = <<r>>
  BY <1>8
<1>11. KeysRead(rows, counts, describes, w, r)
  BY <1>1, <1>3, <1>4, <1>6, <1>8, <1>9, <1>10 DEF KeysRead
<1> QED
  BY <1>11

LEMMA KeysGo ==
    ASSUME TypeOK, Slots, AtKeys, database_keys
    PROVE  AtSections'
<1>1. PICK rows, counts, describes, w, r : KeysRead(rows, counts, describes, w, r)
  BY KeysAct
<1>2. PICK names, keys : names = ForEach(rows, name) /\ keys = ForeignKeys
  OBVIOUS
<1>3. /\ r.tables = names /\ r.keys = keys /\ TablesListed(names)
      /\ work' = w \o <<>> /\ out' = <<r>> /\ UNCHANGED <<catalogVars, call>>
      /\ TablesOf(rows) \in Seq(Object)
  BY <1>1, <1>2 DEF KeysRead
<1>4. /\ counts \in BOOLEAN /\ describes \in BOOLEAN
      /\ w = FlattenSeq([k \in 1 .. Len(TablesOf(rows)) |->
                            SectionsOf(TablesOf(rows)[k], counts, describes)])
  BY <1>1 DEF KeysRead
<1>5. Sections(w)
  BY <1>3, <1>4, PiecesAre
<1>6. work' = w
  <2>1. PICK A : w \in Seq(A)
    BY <1>5 DEF Sections
  <2> QED
    BY <1>3, <2>1
<1>7. out' \in Seq({r}) /\ out' # <<>> /\ out'[1] = r
  BY <1>3
<1>8. TablesListed(names) /\ KeysListed(keys)
  BY <1>2, <1>3, KeysNow
<1>9. TablesListed(names)' /\ KeysListed(keys)'
  BY <1>3, <1>8 DEF catalogVars, TablesListed, KeysListed, ListedOf, IndexNames, Numbers, OfKinds,
         kind, name, IndexNamesOf, Relation, AllEdges, Tables, KeysOf, KeyRows
<1>10. Sections(work)'
  BY <1>5, <1>6
<1> QED
  BY <1>3, <1>7, <1>9, <1>10 DEF AtSections

LEMMA SectionGoes ==
    ASSUME AtSections, work # <<>>, \/ SchemaRead \/ schema_fails \/ count,
           call.tool = "describe_database"
    PROVE  AtSections'
<1>1. Sections(work) /\ Sections(Tail(work))
  BY TailEnds DEF AtSections
<1>2. PICK t : t = Tail(work)
  OBVIOUS
<1>3. PICK A, B : t \in Seq(A) /\ out \in Seq(B)
  BY <1>1, <1>2 DEF AtSections, Sections
<1>4. out = out \o <<>> /\ t = <<>> \o t
  BY <1>3
<1>9. <<>> \in Seq({})
  OBVIOUS
<1>5. CASE columns_of \/ indexes_of \/ constraints_of \/ triggers_of
  <2>1. work' = <<>> \o t /\ out' = out \o <<>> /\ UNCHANGED <<db, stable, seen>>
    BY <1>2, <1>5 DEF columns_of, indexes_of, constraints_of, triggers_of, Goes, Rest, catalogVars
  <2>2. Sections(work)'
    BY <1>1, <1>2, <1>4, <2>1
  <2> QED
    BY <1>9, <2>1, <2>2, SectionsStay
<1>6. CASE schema
  <2>1. PICK r : r = [told |-> "schema", name |-> Of, sections |-> part]
    OBVIOUS
  <2>2. work' = <<>> \o t /\ out' = out \o <<r>> /\ UNCHANGED <<db, stable, seen>>
    BY <1>2, <1>6, <2>1 DEF schema, Goes, Rest, catalogVars
  <2>3. Sections(work)' /\ <<r>> \in Seq({r})
    BY <1>1, <1>2, <1>4, <2>2
  <2> QED
    BY <2>2, <2>3, SectionsStay
<1>7. CASE get_comments \/ count
  <2>1. work' = t /\ out' = out /\ UNCHANGED <<db, stable, seen>>
    BY <1>2, <1>7 DEF get_comments, count, Rest, catalogVars
  <2>2. Sections(work)' /\ out' = out \o <<>>
    BY <1>1, <1>2, <1>4, <2>1
  <2> QED
    BY <1>9, <2>1, <2>2, SectionsStay
<1>8. CASE schema_fails
  <2>1. PICK r : r = Told("no schema", <<>>)
    OBVIOUS
  <2>2. /\ work' = AfterSchema /\ out' = Append(out, r) /\ UNCHANGED <<db, stable, seen>>
        /\ Head(work).op \in TableQuery
    BY <1>8, <2>1 DEF schema_fails, catalogVars
  <2>3. PICK u : u = AfterSchema
    OBVIOUS
  <2>4. Sections(u)
    BY <1>1, <2>2, <2>3, AfterSchemaEnds
  <2>5. Sections(work)'
    BY <2>2, <2>3, <2>4
  <2>6. out' = out \o <<r>> /\ <<r>> \in Seq({r})
    BY <1>3, <2>2
  <2> QED
    BY <2>2, <2>5, <2>6, SectionsStay
<1> QED
  BY <1>5, <1>6, <1>7, <1>8 DEF SchemaRead

LEMMA DatabasePlan ==
    ASSUME call.tool = "describe_database"
    PROVE  Plan = <<Do("health"), Do("database_tables")>>
  BY DEF Plan

LEMMA DatabaseStep ==
    ASSUME TypeOK, Slots, DatabaseInv, call.tool = "describe_database", Step
    PROVE  DatabaseInv'
<1>0. call' = call
  BY CatalogStays
<1>9. status' # "start"
  BY StepIs DEF GoesOn, Starts, Stops, Fails, Finish
<1> SUFFICES ASSUME status' \in {"run", "done"}
             PROVE  AtHealth' \/ AtTables' \/ AtKeys' \/ AtSections'
  BY <1>9 DEF DatabaseInv
<1>1. CASE Begin
  <2>1. status = "start" /\ out = <<>> /\ work' = Plan /\ out' = out
    BY <1>1 DEF Begin, Fails, DatabaseInv
  <2> QED
    BY <1>0, <2>1, DatabasePlan DEF AtHealth
<1>2. CASE ErrorEnds
  BY <1>2 DEF ErrorEnds, Fails
<1>3. CASE Finish
  <2>1. status = "run" /\ work = <<>> /\ UNCHANGED <<db, stable, seen, call, work, out>>
    BY <1>3 DEF Finish, catalogVars
  <2>2. AtSections
    BY <2>1 DEF DatabaseInv, AtHealth, AtTables, AtKeys
  <2>3. out \in Seq(Range(out)) /\ out = out \o <<>> /\ Sections(work)'
    <3>1. PICK B : out \in Seq(B)
      BY <2>2 DEF AtSections
    <3>2. Sections(work)
      BY <2>2 DEF AtSections
    <3> QED
      BY <2>1, <3>1, <3>2 DEF Range
  <2>4. out' = out \o <<>> /\ <<>> \in Seq({})
    BY <2>1, <2>3
  <2> QED
    BY <2>1, <2>2, <2>3, <2>4, SectionsStay
<1>4. CASE health
  BY <1>4, ToolHeads, DatabaseHeads, HealthGoes DEF DatabaseOps, SchemaOps
<1>5. CASE database_tables
  BY <1>5, ToolHeads, DatabaseHeads, TablesGo DEF DatabaseOps, SchemaOps
<1>6. CASE database_keys
  BY <1>6, ToolHeads, DatabaseHeads, KeysGo DEF DatabaseOps, SchemaOps
<1>7. CASE SchemaRead \/ schema_fails
  <2>1. AtSections /\ work # <<>>
    BY <1>7, SchemaHeads, DatabaseHeads DEF SchemaOps
  <2> QED
    BY <1>7, <2>1, SectionGoes
<1>8. CASE count
  <2>1. AtSections /\ work # <<>>
    BY <1>8, ToolHeads, DatabaseHeads
  <2> QED
    BY <1>8, <2>1, SectionGoes
<1>10. CASE Extract \/ Describe
  BY <1>10, ExtractHeads, DescribeHeads, DatabaseHeads
     DEF ExtractOps, DescribeOps, SchemaOps, DatabaseOps
<1>11. CASE \/ handle_list \/ handle_find_column \/ domain_list \/ domain_uses \/ column_types
            \/ generate_keys \/ view_row \/ handle_check_duplicates \/ duplicate_rows
  BY <1>11, ToolHeads, DatabaseHeads DEF SchemaOps, DatabaseOps
<1> QED
  BY <1>1, <1>2, <1>3, <1>4, <1>5, <1>6, <1>7, <1>8, <1>10, <1>11 DEF Step

LEMMA DatabaseOthers ==
    ASSUME TypeOK, Slots, TypeOK', Slots', DatabaseInv, Others, UNCHANGED handlerVars
    PROVE  DatabaseInv'
<1>1. UNCHANGED <<call, status, work, out>>
  BY DEF handlerVars
<1>2. stable' \subseteq stable /\ seen \subseteq seen'
  BY OthersKeep
<1>3. ASSUME NEW tables, TablesListed(tables)
      PROVE  TablesListed(tables)'
  <2>1. PICK kinds : kinds = Relation
    OBVIOUS
  <2>2. InList(tables, ListedOf(kinds, stable), ListedOf(kinds, seen))
    BY <1>3, <2>1 DEF TablesListed
  <2>3. InList(tables, ListedOf(kinds, stable), ListedOf(kinds, seen))'
    BY <2>2, OthersListed
  <2>4. Relation' = kinds
    BY <2>1 DEF Relation
  <2>5. PICK m, n : m = ListedOf(kinds, stable)' /\ n = ListedOf(kinds, seen)'
    OBVIOUS
  <2>6. ListedOf(Relation, stable)' = m /\ ListedOf(Relation, seen)' = n
    BY <2>4, <2>5
  <2>7. InList(tables, m, n)
    BY <2>3, <2>5
  <2> QED
    BY <2>6, <2>7 DEF TablesListed
<1>4. AtKeys => AtKeys'
  <2> SUFFICES ASSUME AtKeys
               PROVE  AtKeys'
    OBVIOUS
  <2>1. PICK rows \in Seq(Object) :
            work = <<Item("database_keys", 0, rows)>> /\ TablesListed(ForEach(rows, name))
    BY DEF AtKeys
  <2>2. PICK names : names = ForEach(rows, name)
    OBVIOUS
  <2>3. TablesListed(names)'
    BY <1>3, <2>1, <2>2
  <2>4. ForEach(rows, name)' = names
    BY <2>2 DEF ForEach, name
  <2>5. TablesListed(ForEach(rows, name))'
    BY <2>3, <2>4
  <2> QED
    BY <1>1, <2>1, <2>5 DEF AtKeys
<1>5. AtSections => AtSections'
  <2> SUFFICES ASSUME AtSections
               PROVE  AtSections'
    OBVIOUS
  <2>1. PICK r : r = out[1]
    OBVIOUS
  <2>2. TablesListed(r.tables) /\ KeysListed(r.keys) /\ Sections(work)
    BY <2>1 DEF AtSections
  <2>3. TablesListed(r.tables)' /\ KeysListed(r.keys)'
    BY <1>2, <1>3, <2>2, KeysStay
  <2>4. Sections(work)' /\ out'[1] = r
    BY <1>1, <2>1, <2>2
  <2> QED
    BY <1>1, <2>3, <2>4 DEF AtSections
<1> QED
  BY <1>1, <1>4, <1>5 DEF DatabaseInv, AtHealth, AtTables

LEMMA DatabaseNext ==
    ASSUME TypeOK, Slots, TypeOK', Slots', DatabaseInv, [Next]_vars
    PROVE  DatabaseInv'
<1>1. CASE Step
  <2>1. CASE call.tool = "describe_database"
    BY <1>1, <2>1, DatabaseStep
  <2>2. CASE call.tool # "describe_database"
    BY <1>1, <2>2, CatalogStays DEF DatabaseInv
  <2> QED
    BY <2>1, <2>2
<1>2. CASE Others /\ UNCHANGED handlerVars
  BY <1>2, DatabaseOthers
<1>3. CASE UNCHANGED vars
  <2>1. UNCHANGED <<call, status, work, out, db, stable, seen>>
    BY <1>3 DEF vars, catalogVars, handlerVars
  <2> QED
    BY <2>1 DEF DatabaseInv, AtHealth, AtTables, AtKeys, AtSections, TablesListed, KeysListed,
         ListedOf, IndexNames, Numbers, OfKinds, kind, name, IndexNamesOf, Relation, AllEdges,
         Tables, KeysOf, KeyRows, Sections, Closes, DatabaseOps, SchemaOps, ForEach
<1> QED
  BY <1>1, <1>2, <1>3 DEF Next, Over

-----------------------------------------------------------------------------
\* What the readers of names keep.
ListingInv == TypeOK /\ Slots /\ NamesApart /\ ListInv /\ FindInv /\ DatabaseInv

LEMMA ListingInit == Init => ListingInv
  BY InitTypeOK, SlotsInit, NamesApartInit, ListInit, FindInit, DatabaseInit DEF ListingInv

LEMMA ListingNext == ListingInv /\ [Next]_vars => ListingInv'
<1> SUFFICES ASSUME TypeOK, Slots, NamesApart, ListInv, FindInv, DatabaseInv, [Next]_vars
             PROVE  ListingInv'
  BY DEF ListingInv
<1>1. TypeOK' /\ Slots'
  BY NextTypeOK, SlotsNext
<1>2. NamesApart'
  BY NamesApartNext
<1>3. ListInv' /\ FindInv' /\ DatabaseInv'
  BY <1>1, ListNext, FindNext, DatabaseNext
<1> QED
  BY <1>1, <1>2, <1>3 DEF ListingInv

\* A list holds, in order and once each, objects there were during the call, and
\* those that stayed and are within its limit; a search for a column finds it in
\* every table and view that stayed.
THEOREM StableAreListed == Spec => []StableIsListed
<1>1. ListingInv => StableIsListed
  <2> SUFFICES ASSUME ListingInv
               PROVE  StableIsListed
    OBVIOUS
  <2>0. TypeOK /\ ListInv /\ FindInv /\ DatabaseInv
    BY DEF ListingInv
  <2>1. ASSUME Done("list")
        PROVE  InList(ForEach(out[1].rows, LAMBDA r : r.name), Listable(stable), Listable(seen))
    <3>1. ListRead \/ Listing
      BY <2>0, <2>1 DEF Done, ListInv
    <3>2. work = <<>>
      BY <2>0, <2>1 DEF Done, TypeOK
    <3>3. ListRead
      BY <3>1, <3>2 DEF Listing
    <3>4. /\ Listable(stable) = ListedOf(call.kinds, stable)
          /\ Listable(seen) = ListedOf(call.kinds, seen)
      BY DEF Listable, ListedOf
    <3> QED
      BY <3>3, <3>4 DEF ListRead, Names
  <2>2. ASSUME Done("describe_database")
        PROVE  InList(out[1].tables, Numbers(OfKinds(stable, Relation)),
                      Numbers(OfKinds(seen, Relation)))
    <3>1. AtHealth \/ AtTables \/ AtKeys \/ AtSections
      BY <2>0, <2>2 DEF Done, DatabaseInv
    <3>2. work = <<>>
      BY <2>0, <2>2 DEF Done, TypeOK
    <3>3. AtSections
      BY <3>1, <3>2 DEF AtHealth, AtTables, AtKeys
    <3>4. Relation # {}
      BY DEF Relation
    <3> QED
      BY <3>3, <3>4 DEF AtSections, TablesListed, ListedOf
  <2>3. ASSUME Done("find_column"), NEW o \in stable, kind(o) \in Relation, ~ World[o].system
        PROVE  Where(out[1].rows, LAMBDA r : r[1] = name(o)) = Matches(o)
    <3>1. Finding \/ Found
      BY <2>0, <2>3 DEF Done, FindInv
    <3>2. work = <<>>
      BY <2>0, <2>3 DEF Done, TypeOK
    <3>3. AllFound
      BY <3>1, <3>2 DEF Finding, Found
    <3>4. o \in Object /\ Searched(o)
      BY <2>0, <2>3 DEF TypeOK, CatalogTypeOK, Searched
    <3> QED
      BY <3>3, <3>4 DEF AllFound
  <2> QED
    BY <2>1, <2>2, <2>3 DEF StableIsListed
<1> QED
  BY <1>1, ListingInit, ListingNext, PTL DEF Spec

\* The keys that describe_database goes by are those of the tables that stayed, each
\* with the table it refers to, and of tables there were.
THEOREM KeysAreShown == Spec => []KeysShown
<1>1. ListingInv => KeysShown
  <2> SUFFICES ASSUME ListingInv, Done("describe_database"),
                      Cardinality(AllEdges(Tables(seen))) <= CAP
               PROVE  /\ AllEdges(Tables(stable)) \subseteq ToSet(out[1].keys)
                      /\ ToSet(out[1].keys) \subseteq AllEdges(Tables(seen))
    BY DEF KeysShown
  <2>1. AtHealth \/ AtTables \/ AtKeys \/ AtSections
    BY DEF ListingInv, Done, DatabaseInv
  <2>2. work = <<>>
    BY DEF ListingInv, Done, TypeOK
  <2>3. AtSections
    BY <2>1, <2>2 DEF AtHealth, AtTables, AtKeys
  <2> QED
    BY <2>3 DEF AtSections, KeysListed
<1> QED
  BY <1>1, ListingInit, ListingNext, PTL DEF Spec
=============================================================================
