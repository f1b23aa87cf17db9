---------------------------- MODULE ExtractionProofs ----------------------------
(***************************************************************************)
(* Proofs about the extraction of a script: what of each object is there   *)
(* throughout, is asked for and can be said, the work that is left still   *)
(* owes and the script says already, put together are the statements of    *)
(* the object, whole and in their order. When the work is done the script  *)
(* says them all, and what they make is the object. And the script is in   *)
(* the order of kinds and names: the engine refuses a statement of it      *)
(* exactly when the database is not orderly, and what it takes is the      *)
(* whole of the database.                                                  *)
(***************************************************************************)
EXTENDS DescriptionProofs

-----------------------------------------------------------------------------
\* What a script is to say of an object.
Unindexed(o) == \E c \in ToSet(World[o].cons) : c.type \in {"CHECK", "NOT NULL"}
ShownRows(o) == IF Unindexed(o) THEN <<>> ELSE First(Segments(World[o].idx))
TableSaid(o) == [stmt |-> "table", name |-> name(o), cols |-> ForEach(World[o].cols, ColumnDef)]
KeySaid(o, c) == [stmt |-> "key", on |-> name(o), name |-> c.name, type |-> c.type,
                  cols |-> c.cols, ref |-> c.ref]
IndexSaid(o, i) == [stmt |-> "index", on |-> name(o), name |-> i.name, cols |-> i.cols]
KeysSaid(o) == LET keys == Keyed(World[o].cons) IN [k \in 1 .. Len(keys) |-> KeySaid(o, keys[k])]
IndexesSaid(o) ==
    LET g == Grouped(ShownRows(o)) IN [k \in 1 .. Len(g) |-> IndexSaid(o, g[k])]
Def(p) == [name |-> p.name, out |-> p.out,
           type |-> IF p.source = 0 THEN <<"VARCHAR", <<100>> >> ELSE format_column_type(p.type)]
Defs(o) == ForEach(World[o].params, Def)
ProcedureSaid(o) ==
    [stmt |-> "procedure", name |-> name(o), uses |-> Needs(o),
     ins |-> Where(Defs(o), LAMBDA p : ~ p.out), outs |-> Where(Defs(o), LAMBDA p : p.out)]
ArgsSaid(o) == ForEach(World[o].args, LAMBDA a : [name |-> a.name, type |-> format_column_type(a.type)])
FunctionSaid(o) ==
    [stmt |-> "function", name |-> name(o), ins |-> ArgsSaid(o),
     returns |-> format_column_type(World[o].returns), uses |-> Needs(o)]
Script(o) ==
    CASE kind(o) = "domain"    -> <<DomainStmt(o)>>
      [] kind(o) = "table"     -> Concat(<<TableSaid(o)>>, Concat(KeysSaid(o), IndexesSaid(o)))
      [] kind(o) = "view"      -> <<ViewStmt(o)>>
      [] kind(o) = "sequence"  -> <<SequenceStmt(o)>>
      [] kind(o) = "trigger"   -> <<TriggerStmt(o)>>
      [] kind(o) = "procedure" -> <<ProcedureSaid(o)>>
      [] kind(o) = "function"  -> <<FunctionSaid(o)>>

\* What an item of the work is still to say of it.
ListOp == [domain |-> "domains", table |-> "tables", view |-> "views", sequence |-> "sequences",
           trigger |-> "triggers", procedure |-> "procedures", function |-> "functions"]
OfTable(o, i) ==
    CASE i.op = "columns"     -> <<TableSaid(o)>>
      [] i.op = "constraints" -> KeysSaid(o)
      [] i.op = "indexes"     -> IndexesSaid(o)
      [] i.op \in {"key", "foreign_key"} -> <<KeySaid(o, i.row)>>
      [] OTHER -> <<>>
OfRoutine(o, i) ==
    CASE kind(o) = "procedure" /\ i.op \in {"params", "procedure"} -> <<ProcedureSaid(o)>>
      [] kind(o) = "function" /\ i.op = "returns" -> <<FunctionSaid(o)>>
      [] OTHER -> <<>>
Says(o, i) ==
    CASE i.op = ListOp[kind(o)] -> Script(o)
      [] i.op # ListOp[kind(o)] /\ i.of = name(o) /\ kind(o) = "table" -> OfTable(o, i)
      [] i.op # ListOp[kind(o)] /\ i.of = name(o) /\ kind(o) \in {"procedure", "function"} ->
            OfRoutine(o, i)
      [] OTHER -> <<>>

Regards(o, s) == What(s) = kind(o) /\ Whose(s) = name(o)
Told1(o, s) == IF Regards(o, s) THEN <<s>> ELSE <<>>
Said(o, t) == FlattenSeq([k \in 1 .. Len(t) |-> Told1(o, t[k])])
Due(o, w) == FlattenSeq([k \in 1 .. Len(w) |-> Says(o, w[k])])
Story(o, w, t) == Concat(Said(o, t), Due(o, w)) = Script(o)

-----------------------------------------------------------------------------
\* These are lists.
LEMMA OneIsSome ==
    ASSUME NEW x
    PROVE  IsSome(<<x>>)
<1>1. <<x>> \in Seq({x})
  OBVIOUS
<1> QED
  BY <1>1 DEF IsSome

LEMMA NoneIsSome == IsSome(<<>>)
<1>1. <<>> \in Seq({})
  OBVIOUS
<1> QED
  BY <1>1 DEF IsSome

LEMMA ConcatIsSome ==
    ASSUME NEW s, NEW t, IsSome(s), IsSome(t)
    PROVE  IsSome(Concat(s, t))
<1>1. PICK X : s \in Seq(X)
  BY DEF IsSome
<1>2. PICK Y : t \in Seq(Y)
  BY DEF IsSome
<1>3. s \in Seq(X \cup Y) /\ t \in Seq(X \cup Y)
  BY <1>1, <1>2, SeqGrows
<1>4. Concat(s, t) \in Seq(X \cup Y)
  BY <1>3, ConcatIs
<1> QED
  BY <1>4 DEF IsSome

LEMMA EachIsSome ==
    ASSUME NEW n \in Nat, NEW f, f = [k \in 1 .. n |-> f[k]]
    PROVE  IsSome(f)
  BY RowsAreSeq DEF IsSome

LEMMA GroupedIsSome ==
    ASSUME NEW rows, IsSome(rows)
    PROVE  IsSome(Grouped(rows)) /\ Len(Grouped(rows)) \in Nat
<1> DEFINE places == {k \in DOMAIN rows : k = 1 \/ rows[k - 1][1] # rows[k][1]}
<1>1. PICK X : rows \in Seq(X)
  BY DEF IsSome
<1>2. IsFiniteSet(places) /\ \A k \in places : k \in Int
  <2>1. DOMAIN rows = 1 .. Len(rows) /\ Len(rows) \in Nat
    BY <1>1
  <2>2. IsFiniteSet(DOMAIN rows)
    BY <2>1, FS_Interval
  <2>3. IsFiniteSet(places)
    BY <2>2, FS_Subset
  <2> QED
    BY <2>1, <2>3
<1>3. PICK n : n = Cardinality(places)
  OBVIOUS
<1>4. PICK starts : starts = Ascending(places)
  OBVIOUS
<1> HIDE DEF places
<1>5. n \in Nat /\ starts \in [1 .. n -> places]
  BY <1>2, <1>3, <1>4, AscendingIs
<1>6. Len(starts) = n
  BY <1>5
<1>7. Grouped(rows) = [k \in 1 .. Len(starts) |-> Grouped(rows)[k]]
  BY <1>4 DEF Grouped, places
<1>8. PICK g : g = Grouped(rows)
  OBVIOUS
<1>9. g = [k \in 1 .. n |-> g[k]]
  BY <1>6, <1>7, <1>8
<1> HIDE DEF places
<1>10. IsSome(g) /\ Len(g) = n
  BY <1>5, <1>9, RowsAreSeq DEF IsSome
<1> QED
  BY <1>5, <1>8, <1>10

LEMMA ShownIsSome ==
    ASSUME NEW o \in Object, kind(o) = "table"
    PROVE  IsSome(ShownRows(o))
<1>1. World[o].idx \in Seq(IndexData)
  BY KeysAre
<1>2. PICK idx : idx = World[o].idx
  OBVIOUS
<1>3. \E at : IndexRowsOf(Segments(idx), idx, at)
  BY <1>1, <1>2, SegmentsAre
<1>4. Segments(idx) \in Seq(IndexData \X Nat)
  BY <1>3 DEF IndexRowsOf
<1>5. First(Segments(idx)) \in Seq(IndexData \X Nat)
  BY <1>4, FirstIs
<1>6. IsSome(First(Segments(idx)))
  BY <1>5 DEF IsSome
<1> QED
  BY <1>2, <1>6, NoneIsSome DEF ShownRows

LEMMA SaidAreSome ==
    ASSUME NEW o \in Object
    PROVE  /\ kind(o) = "table" => IsSome(KeysSaid(o)) /\ IsSome(IndexesSaid(o))
           /\ IsSome(Script(o))
<1>0. kind(o) \in Kind
  BY CatalogAssumption DEF kind
<1>1. ASSUME kind(o) = "table" PROVE IsSome(KeysSaid(o))
  <2>1. PICK keys : keys = Keyed(World[o].cons)
    OBVIOUS
  <2>2. keys \in Seq(ConstraintData)
    BY <1>1, <2>1, KeysAre
  <2>3. Len(keys) \in Nat
    BY <2>2
  <2>4. PICK f : f = [k \in 1 .. Len(keys) |-> KeySaid(o, keys[k])]
    OBVIOUS
  <2>5. IsSome(f)
    BY <2>3, <2>4, EachIsSome
  <2> QED
    BY <2>1, <2>4, <2>5 DEF KeysSaid
<1>2. ASSUME kind(o) = "table" PROVE IsSome(IndexesSaid(o))
  <2>1. PICK g : g = Grouped(ShownRows(o))
    OBVIOUS
  <2>2. Len(g) \in Nat
    BY <1>2, <2>1, ShownIsSome, GroupedIsSome
  <2>3. PICK f : f = [k \in 1 .. Len(g) |-> IndexSaid(o, g[k])]
    OBVIOUS
  <2>4. IsSome(f)
    BY <2>2, <2>3, EachIsSome
  <2> QED
    BY <2>1, <2>3, <2>4 DEF IndexesSaid
<1>3. IsSome(Script(o))
  <2>1. CASE kind(o) = "table"
    <3>1. IsSome(Concat(KeysSaid(o), IndexesSaid(o)))
      BY <1>1, <1>2, <2>1, ConcatIsSome
    <3>2. IsSome(Concat(<<TableSaid(o)>>, Concat(KeysSaid(o), IndexesSaid(o))))
      BY <3>1, OneIsSome, ConcatIsSome
    <3> QED
      BY <2>1, <3>2 DEF Script
  <2>2. CASE kind(o) # "table"
    BY <1>0, <2>2, OneIsSome DEF Script, Kind
  <2> QED
    BY <2>1, <2>2
<1> QED
  BY <1>1, <1>2, <1>3

LEMMA SaysIsSome ==
    ASSUME NEW o \in Object, NEW i
    PROVE  IsSome(Says(o, i))
<1>1. ASSUME kind(o) = "table" PROVE IsSome(OfTable(o, i))
  BY <1>1, SaidAreSome, OneIsSome, NoneIsSome DEF OfTable
<1>2. IsSome(OfRoutine(o, i))
  BY OneIsSome, NoneIsSome DEF OfRoutine
<1> QED
  BY <1>1, <1>2, SaidAreSome, NoneIsSome DEF Says

\* What the items of a list are to say, and what has been said, are lists of a kind.
LEMMA DueStands ==
    ASSUME NEW o \in Object, NEW A
    PROVE  \E X : Stands([i \in A |-> Says(o, i)], A, X)
<1>1. PICK G : G = [i \in A |-> Says(o, i)]
  OBVIOUS
<1>2. DOMAIN G = A /\ G = [x \in A |-> G[x]] /\ \A x \in A : IsSome(G[x])
  BY <1>1, SaysIsSome
<1> QED
  BY <1>1, <1>2, StandsForSome

LEMMA SaidStands ==
    ASSUME NEW o, NEW B
    PROVE  Stands([s \in B |-> Told1(o, s)], B, B)
<1>1. \A s \in B : Told1(o, s) \in Seq(B)
  BY DEF Told1
<1> QED
  BY <1>1 DEF Stands

LEMMA DueIsOver ==
    ASSUME NEW o, NEW A, NEW w \in Seq(A), NEW G, G = [i \in A |-> Says(o, i)]
    PROVE  Due(o, w) = Across(G, w)
<1>1. \A k \in 1 .. Len(w) : w[k] \in A
  OBVIOUS
<1>2. [k \in 1 .. Len(w) |-> Says(o, w[k])] = [k \in 1 .. Len(w) |-> G[w[k]]]
  BY <1>1
<1> QED
  BY <1>2 DEF Due, Across

LEMMA SaidIsOver ==
    ASSUME NEW o, NEW B, NEW t \in Seq(B), NEW G, G = [s \in B |-> Told1(o, s)]
    PROVE  Said(o, t) = Across(G, t)
<1>1. \A k \in 1 .. Len(t) : t[k] \in B
  OBVIOUS
<1>2. [k \in 1 .. Len(t) |-> Told1(o, t[k])] = [k \in 1 .. Len(t) |-> G[t[k]]]
  BY <1>1
<1> QED
  BY <1>2 DEF Said, Across

LEMMA DueConcat ==
    ASSUME NEW o \in Object, NEW A, NEW v \in Seq(A), NEW w \in Seq(A)
    PROVE  /\ Due(o, Concat(v, w)) = Concat(Due(o, v), Due(o, w))
           /\ \E X : Due(o, v) \in Seq(X) /\ Due(o, w) \in Seq(X)
<1>1. PICK G : G = [i \in A |-> Says(o, i)]
  OBVIOUS
<1>2. PICK X : Stands(G, A, X)
  BY <1>1, DueStands
<1>3. Across(G, Concat(v, w)) = Concat(Across(G, v), Across(G, w))
  BY <1>2, OverConcat
<1>4. Across(G, v) \in Seq(X) /\ Across(G, w) \in Seq(X)
  BY <1>2, OverIs
<1>5. PICK u : u = Concat(v, w)
  OBVIOUS
<1>6. u \in Seq(A)
  BY <1>5, ConcatIs
<1>7. Due(o, u) = Across(G, u) /\ Due(o, v) = Across(G, v) /\ Due(o, w) = Across(G, w)
  BY <1>1, <1>6, DueIsOver
<1> QED
  BY <1>3, <1>4, <1>5, <1>7

LEMMA SaidConcat ==
    ASSUME NEW o, NEW B, NEW s \in Seq(B), NEW t \in Seq(B)
    PROVE  /\ Said(o, Concat(s, t)) = Concat(Said(o, s), Said(o, t))
           /\ Said(o, s) \in Seq(B) /\ Said(o, t) \in Seq(B)
<1>1. PICK G : G = [x \in B |-> Told1(o, x)]
  OBVIOUS
<1>2. Stands(G, B, B)
  BY <1>1, SaidStands
<1>3. Across(G, Concat(s, t)) = Concat(Across(G, s), Across(G, t))
  BY <1>2, OverConcat
<1>4. Across(G, s) \in Seq(B) /\ Across(G, t) \in Seq(B)
  BY <1>2, OverIs
<1>5. PICK u : u = Concat(s, t)
  OBVIOUS
<1>6. u \in Seq(B)
  BY <1>5, ConcatIs
<1>7. Said(o, u) = Across(G, u) /\ Said(o, s) = Across(G, s) /\ Said(o, t) = Across(G, t)
  BY <1>1, <1>6, SaidIsOver
<1> QED
  BY <1>3, <1>4, <1>5, <1>7

LEMMA DueOne ==
    ASSUME NEW o \in Object, NEW i
    PROVE  Due(o, <<i>>) = Says(o, i)
<1>1. PICK G : G = [x \in {i} |-> Says(o, x)]
  OBVIOUS
<1>2. PICK X : Stands(G, {i}, X)
  BY <1>1, DueStands
<1>3. Across(G, <<i>>) = G[i]
  BY <1>2, OverSingle
<1>4. PICK w : w = <<i>>
  OBVIOUS
<1>5. w \in Seq({i})
  BY <1>4
<1>6. Due(o, w) = Across(G, w)
  BY <1>1, <1>5, DueIsOver
<1> QED
  BY <1>1, <1>3, <1>4, <1>6

LEMMA DueNone ==
    ASSUME NEW o \in Object
    PROVE  Due(o, <<>>) = <<>>
<1>1. PICK G : G = [x \in {} |-> Says(o, x)]
  OBVIOUS
<1>2. PICK X : Stands(G, {}, X)
  BY <1>1, DueStands
<1>3. Across(G, <<>>) = <<>>
  BY <1>2, OverEmpty
<1>4. PICK e : e = <<>>
  OBVIOUS
<1>5. e \in Seq({})
  BY <1>4
<1>6. Due(o, e) = Across(G, e)
  BY <1>1, <1>5, DueIsOver
<1> QED
  BY <1>3, <1>4, <1>6

LEMMA SaidOne ==
    ASSUME NEW o, NEW s
    PROVE  Said(o, <<s>>) = Told1(o, s) /\ Said(o, <<>>) = <<>>
<1>1. PICK G : G = [x \in {s} |-> Told1(o, x)]
  OBVIOUS
<1>2. Stands(G, {s}, {s})
  BY <1>1, SaidStands
<1>3. Across(G, <<s>>) = G[s] /\ Across(G, <<>>) = <<>>
  BY <1>2, OverSingle, OverEmpty
<1>4. PICK w, e : w = <<s>> /\ e = <<>>
  OBVIOUS
<1>5. w \in Seq({s}) /\ e \in Seq({s})
  BY <1>4
<1>6. Said(o, w) = Across(G, w) /\ Said(o, e) = Across(G, e)
  BY <1>1, <1>5, SaidIsOver
<1> QED
  BY <1>1, <1>3, <1>4, <1>6

LEMMA HeadTail ==
    ASSUME NEW A, NEW w \in Seq(A), w # <<>>
    PROVE  w = Concat(<<Head(w)>>, Tail(w)) /\ Head(w) \in A /\ Tail(w) \in Seq(A)
<1> DEFINE s == <<Head(w)>> \o Tail(w)
<1>1. Head(w) \in A /\ Tail(w) \in Seq(A) /\ Len(Tail(w)) = Len(w) - 1 /\ Len(w) \in Nat \ {0}
  OBVIOUS
<1>2. <<Head(w)>> \in Seq(A)
  BY <1>1
<1>3. s \in Seq(A) /\ Len(s) = Len(w)
  BY <1>1, <1>2
<1>4. \A k \in 1 .. Len(w) : s[k] = w[k]
  OBVIOUS
<1> HIDE DEF s
<1>5. s = w
  BY <1>3, <1>4, SeqEqual
<1> QED
  BY <1>1, <1>5 DEF s, Concat

LEMMA Common ==
    ASSUME NEW s, NEW t, IsSome(s), IsSome(t)
    PROVE  \E X : s \in Seq(X) /\ t \in Seq(X)
<1>1. PICK X, Y : s \in Seq(X) /\ t \in Seq(Y)
  BY DEF IsSome
<1>2. s \in Seq(X \cup Y) /\ t \in Seq(X \cup Y)
  BY <1>1, SeqGrows
<1> QED
  BY <1>2

\* A step: the head of the work is done, and what was still to be said of it is
\* said or is left for the items that come in its place.
LEMMA StoryGoes ==
    ASSUME NEW o \in Object, NEW w, IsSome(w), w # <<>>, NEW t, IsSome(t),
           NEW items, IsSome(items), NEW st, IsSome(st), Story(o, w, t),
           Concat(Said(o, st), Due(o, items)) = Says(o, Head(w)),
           NEW u, u = Concat(items, Tail(w)), NEW v, v = Concat(t, st)
    PROVE  Story(o, u, v)
<1>1. PICK A : w \in Seq(A) /\ items \in Seq(A)
  BY Common
<1>2. PICK B : t \in Seq(B) /\ st \in Seq(B)
  BY Common
<1>3. PICK h, rest : h = Head(w) /\ rest = Tail(w)
  OBVIOUS
<1>4. h \in A /\ rest \in Seq(A) /\ <<h>> \in Seq(A)
  BY <1>1, <1>3
<1>5. w = Concat(<<h>>, rest)
  BY <1>1, <1>3, HeadTail
<1>6. Due(o, w) = Concat(Says(o, h), Due(o, rest))
  <2>1. PICK s : s = <<h>>
    OBVIOUS
  <2>2. s \in Seq(A) /\ w = Concat(s, rest)
    BY <1>4, <1>5, <2>1
  <2>3. Due(o, w) = Concat(Due(o, s), Due(o, rest))
    BY <1>4, <2>2, DueConcat
  <2>4. Due(o, s) = Says(o, h)
    BY <2>1, DueOne
  <2> QED
    BY <2>3, <2>4
<1>7. Due(o, u) = Concat(Due(o, items), Due(o, rest))
  BY <1>1, <1>3, <1>4, DueConcat
<1>8. Said(o, v) = Concat(Said(o, t), Said(o, st))
  BY <1>2, SaidConcat
<1>9. PICK X : Due(o, items) \in Seq(X) /\ Due(o, rest) \in Seq(X)
  BY <1>1, <1>4, DueConcat
<1>10. Said(o, t) \in Seq(B) /\ Said(o, st) \in Seq(B)
  BY <1>2, SaidConcat
<1>11. PICK a, b, c, d : a = Said(o, t) /\ b = Said(o, st) /\ c = Due(o, items) /\ d = Due(o, rest)
  OBVIOUS
<1>12. PICK Z : Z = B \cup X
  OBVIOUS
<1>13. a \in Seq(Z) /\ b \in Seq(Z)
  BY <1>10, <1>11, <1>12, SeqGrows
<1>14. c \in Seq(Z) /\ d \in Seq(Z)
  BY <1>9, <1>11, <1>12, SeqGrows
<1>15. Concat(Concat(a, b), Concat(c, d)) = Concat(a, Concat(Concat(b, c), d))
  <2>1. Concat(b, c) \in Seq(Z) /\ Concat(c, d) \in Seq(Z)
    BY <1>13, <1>14, ConcatIs
  <2>2. Concat(Concat(a, b), Concat(c, d)) = Concat(a, Concat(b, Concat(c, d)))
    BY <1>13, <2>1, ConcatJoins
  <2>3. Concat(Concat(b, c), d) = Concat(b, Concat(c, d))
    BY <1>13, <1>14, ConcatJoins
  <2> QED
    BY <2>2, <2>3
<1>16. Concat(a, Concat(Says(o, h), d)) = Script(o)
  BY <1>6, <1>11 DEF Story
<1>17. Concat(b, c) = Says(o, h)
  BY <1>3, <1>11
<1>18. Concat(Said(o, v), Due(o, u)) = Script(o)
  BY <1>7, <1>8, <1>11, <1>15, <1>16, <1>17
<1> QED
  BY <1>18 DEF Story

-----------------------------------------------------------------------------
\* Lists of which one statement, none or all are about an object.
ListLong(s, n) == s = [k \in 1 .. n |-> s[k]]

LEMMA SaidAlone ==
    ASSUME NEW o, NEW n \in Nat, NEW s, ListLong(s, n), NEW i \in 1 .. n, Regards(o, s[i]),
           \A k \in 1 .. n : k # i => ~ Regards(o, s[k])
    PROVE  Said(o, s) = <<s[i]>>
<1>1. PICK B : s \in Seq(B) /\ DOMAIN s = 1 .. n /\ Len(s) = n
  BY RowsAreSeq DEF ListLong
<1>2. PICK G : G = [x \in B |-> Told1(o, x)]
  OBVIOUS
<1>3. Stands(G, B, B) /\ Said(o, s) = Across(G, s)
  BY <1>1, <1>2, SaidStands, SaidIsOver
<1>4. \A k \in 1 .. n : G[s[k]] = Told1(o, s[k])
  BY <1>1, <1>2
<1>5. \A k \in DOMAIN s : k # i => G[s[k]] = <<>>
  BY <1>1, <1>4 DEF Told1
<1>6. Across(G, s) = G[s[i]]
  BY <1>1, <1>3, <1>5, OverOne
<1> QED
  BY <1>3, <1>4, <1>6 DEF Told1

LEMMA SaidNothing ==
    ASSUME NEW o, NEW n \in Nat, NEW s, ListLong(s, n), \A k \in 1 .. n : ~ Regards(o, s[k])
    PROVE  Said(o, s) = <<>>
<1>1. PICK B : s \in Seq(B) /\ DOMAIN s = 1 .. n /\ Len(s) = n
  BY RowsAreSeq DEF ListLong
<1>2. PICK G : G = [x \in B |-> Told1(o, x)]
  OBVIOUS
<1>3. Stands(G, B, B) /\ Said(o, s) = Across(G, s)
  BY <1>1, <1>2, SaidStands, SaidIsOver
<1>5. \A k \in DOMAIN s : G[s[k]] = <<>>
  BY <1>1, <1>2 DEF Told1
<1> QED
  BY <1>1, <1>3, <1>5, OverNone

LEMMA SaidWhole ==
    ASSUME NEW o, NEW n \in Nat, NEW s, ListLong(s, n), \A k \in 1 .. n : Regards(o, s[k])
    PROVE  Said(o, s) = s
<1>1. PICK B : s \in Seq(B) /\ DOMAIN s = 1 .. n /\ Len(s) = n
  BY RowsAreSeq DEF ListLong
<1>2. PICK f : f = [k \in 1 .. Len(s) |-> Told1(o, s[k])]
  OBVIOUS
<1>3. f = [k \in 1 .. n |-> <<s[k]>>]
  BY <1>1, <1>2 DEF Told1
<1>4. FlattenSeq(f) = s
  BY <1>1, <1>3, FlatSingles
<1> QED
  BY <1>2, <1>4 DEF Said

\* Items of which one, none or each still says something of it.
LEMMA DueAlone ==
    ASSUME NEW o \in Object, NEW n \in Nat, NEW w, ListLong(w, n), NEW i \in 1 .. n,
           \A k \in 1 .. n : k # i => Says(o, w[k]) = <<>>
    PROVE  Due(o, w) = Says(o, w[i])
<1>1. PICK A : w \in Seq(A) /\ DOMAIN w = 1 .. n /\ Len(w) = n
  BY RowsAreSeq DEF ListLong
<1>2. PICK G : G = [x \in A |-> Says(o, x)]
  OBVIOUS
<1>3. PICK X : Stands(G, A, X)
  BY <1>2, DueStands
<1>7. Due(o, w) = Across(G, w)
  BY <1>1, <1>2, DueIsOver
<1>4. \A k \in 1 .. n : G[w[k]] = Says(o, w[k])
  BY <1>1, <1>2
<1>5. \A k \in DOMAIN w : k # i => G[w[k]] = <<>>
  BY <1>1, <1>4
<1>6. Across(G, w) = G[w[i]]
  BY <1>1, <1>3, <1>5, OverOne
<1> QED
  BY <1>4, <1>6, <1>7

LEMMA DueNothing ==
    ASSUME NEW o \in Object, NEW n \in Nat, NEW w, ListLong(w, n),
           \A k \in 1 .. n : Says(o, w[k]) = <<>>
    PROVE  Due(o, w) = <<>>
<1>1. PICK A : w \in Seq(A) /\ DOMAIN w = 1 .. n /\ Len(w) = n
  BY RowsAreSeq DEF ListLong
<1>2. PICK G : G = [x \in A |-> Says(o, x)]
  OBVIOUS
<1>3. PICK X : Stands(G, A, X)
  BY <1>2, DueStands
<1>7. Due(o, w) = Across(G, w)
  BY <1>1, <1>2, DueIsOver
<1>5. \A k \in DOMAIN w : G[w[k]] = <<>>
  BY <1>1, <1>2
<1>6. Across(G, w) = <<>>
  BY <1>1, <1>3, <1>5, OverNone
<1> QED
  BY <1>6, <1>7

LEMMA DueSingles ==
    ASSUME NEW o \in Object, NEW n \in Nat, NEW w, ListLong(w, n), NEW x, ListLong(x, n),
           \A k \in 1 .. n : Says(o, w[k]) = <<x[k]>>
    PROVE  Due(o, w) = x
<1>1. PICK A : w \in Seq(A) /\ DOMAIN w = 1 .. n /\ Len(w) = n
  BY RowsAreSeq DEF ListLong
<1>2. PICK B : x \in Seq(B) /\ DOMAIN x = 1 .. n /\ Len(x) = n
  BY RowsAreSeq DEF ListLong
<1>3. PICK f : f = [k \in 1 .. Len(w) |-> Says(o, w[k])]
  OBVIOUS
<1>4. f = [k \in 1 .. n |-> <<x[k]>>]
  BY <1>1, <1>3
<1>5. FlattenSeq(f) = x
  BY <1>2, <1>4, FlatSingles
<1> QED
  BY <1>3, <1>5 DEF Due

\* Lists of items, of which one says something of it, or none does.
LEMMA DueFlat ==
    ASSUME NEW o \in Object, NEW A, NEW n \in Nat, NEW ss, ListsIn(ss, n, A), NEW i \in 1 .. n,
           \A k \in 1 .. n : k # i => Due(o, ss[k]) = <<>>
    PROVE  Due(o, FlattenSeq(ss)) = Due(o, ss[i])
<1>1. PICK G : G = [x \in A |-> Says(o, x)]
  OBVIOUS
<1>2. PICK X : Stands(G, A, X)
  BY <1>1, DueStands
<1>3. PICK f : f = [k \in 1 .. n |-> Across(G, ss[k])]
  OBVIOUS
<1>4. Across(G, FlattenSeq(ss)) = FlattenSeq(f) /\ ListsIn(f, n, X)
  BY <1>2, <1>3, OverFlat
<1>5. \A k \in 1 .. n : ss[k] \in Seq(A) /\ f[k] = Due(o, ss[k])
  <2> TAKE k \in 1 .. n
  <2>1. ss[k] \in Seq(A)
    BY DEF ListsIn
  <2>2. PICK w \in Seq(A) : w = ss[k]
    BY <2>1
  <2>3. w \in Seq(A)
    BY <2>2
  <2>4. Due(o, w) = Across(G, w)
    BY <1>1, <2>3, DueIsOver
  <2> QED
    BY <1>3, <2>1, <2>2, <2>4
<1>6. f \in [1 .. n -> Seq(X)] /\ Alone(f, n, i)
  BY <1>4, <1>5 DEF ListsIn, Alone
<1>7. FlattenSeq(f) = f[i]
  BY <1>6, FlatOne
<1>8. PICK u : u = FlattenSeq(ss)
  OBVIOUS
<1>9. u \in Seq(A)
  BY <1>8, FlatIs DEF ListsIn
<1>10. Due(o, u) = Across(G, u)
  BY <1>1, <1>9, DueIsOver
<1> QED
  BY <1>4, <1>5, <1>7, <1>8, <1>10

LEMMA DueFlatNone ==
    ASSUME NEW o \in Object, NEW A, NEW n \in Nat, NEW ss, ListsIn(ss, n, A),
           \A k \in 1 .. n : Due(o, ss[k]) = <<>>
    PROVE  Due(o, FlattenSeq(ss)) = <<>>
<1>1. CASE n = 0
  <2>1. FlattenSeq(ss) = <<>>
    BY <1>1, FlatIs DEF ListsIn
  <2> QED
    BY <2>1, DueNone
<1>2. CASE n # 0
  <2>1. PICK i \in 1 .. n : i = 1
    BY <1>2
  <2>2. i \in 1 .. n
    BY <2>1
  <2>3. Due(o, FlattenSeq(ss)) = Due(o, ss[i])
    BY <2>2, DueFlat
  <2> QED
    BY <2>2, <2>3
<1> QED
  BY <1>1, <1>2

-----------------------------------------------------------------------------
\* The order of the work: the parameters of one routine at most are being read, and
\* its statement follows them; a function's arguments are read just before its type.
ReadOps == {"param", "plain_param"}
RoutineOps == ReadOps \cup {"procedure"}
Ordered(w) ==
    /\ \A j, k \in DOMAIN w : j < k /\ w[k].op \in RoutineOps => w[j].op \in ReadOps
    /\ \A j, k \in DOMAIN w :
          w[j].op \in RoutineOps /\ w[k].op \in RoutineOps => w[j].of = w[k].of
Paired(w) ==
    \A k \in DOMAIN w : w[k].op = "returns" /\ k > 1 =>
        w[k - 1].op = "arguments" /\ w[k - 1].of = w[k].of
Order(w) == IsSome(w) /\ Ordered(w) /\ Paired(w)
NoRoutine(w) == \A k \in DOMAIN w : w[k].op \notin RoutineOps
NoResult(w) == w # <<>> => w[1].op # "returns"

TailOf(u, w) ==
    /\ IsSome(u) /\ 1 \in DOMAIN w /\ Head(w) = w[1]
    /\ \A k \in DOMAIN u : k \in Nat \ {0} /\ k + 1 \in DOMAIN w /\ u[k] = w[k + 1]
    /\ \A k \in DOMAIN u : k > 1 => k - 1 \in DOMAIN u
    /\ u # <<>> => 1 \in DOMAIN u /\ 2 \in DOMAIN w /\ u[1] = w[2]

LEMMA TailIs ==
    ASSUME NEW w, IsSome(w), w # <<>>
    PROVE  TailOf(Tail(w), w)
<1>0. PICK u : u = Tail(w)
  OBVIOUS
<1>1. PICK A : w \in Seq(A)
  BY DEF IsSome
<1>2. u \in Seq(A) /\ Len(u) = Len(w) - 1 /\ Len(w) \in Nat \ {0}
  BY <1>0, <1>1
<1>3. \A k \in 1 .. Len(u) : u[k] = w[k + 1]
  BY <1>0, <1>1, <1>2
<1>4. DOMAIN u = 1 .. Len(u) /\ DOMAIN w = 1 .. Len(w)
  BY <1>1, <1>2
<1>5. u # <<>> => Len(u) > 0
  BY <1>2
<1>6. IsSome(u) /\ Head(w) = w[1]
  BY <1>1, <1>2 DEF IsSome
<1>7. TailOf(u, w)
  BY <1>2, <1>3, <1>4, <1>5, <1>6 DEF TailOf
<1> QED
  BY <1>0, <1>7

LEMMA OrderTail ==
    ASSUME NEW w, Order(w), w # <<>>, NEW u, u = Tail(w)
    PROVE  /\ Order(u)
           /\ Head(w).op \notin ReadOps => NoRoutine(u)
           /\ Head(w).op # "arguments" => NoResult(u)
           /\ u # <<>> /\ u[1].op = "returns" => u[1].of = Head(w).of
           /\ \A k \in DOMAIN u : u[k].op \in RoutineOps /\ Head(w).op \in RoutineOps =>
                 u[k].of = Head(w).of
<1>1. /\ IsSome(u) /\ 1 \in DOMAIN w /\ Head(w) = w[1]
      /\ \A k \in DOMAIN u : k \in Nat \ {0} /\ k + 1 \in DOMAIN w /\ u[k] = w[k + 1]
      /\ \A k \in DOMAIN u : k > 1 => k - 1 \in DOMAIN u
      /\ u # <<>> => 1 \in DOMAIN u /\ 2 \in DOMAIN w /\ u[1] = w[2]
  <2>1. IsSome(w)
    BY DEF Order
  <2>2. TailOf(Tail(w), w)
    BY <2>1, TailIs
  <2> QED
    BY <2>2 DEF TailOf
<1>2. Ordered(w) /\ Paired(w)
  BY DEF Order
<1>3. Ordered(u)
  <2>1. ASSUME NEW j \in DOMAIN u, NEW k \in DOMAIN u, j < k, u[k].op \in RoutineOps
        PROVE  u[j].op \in ReadOps
    <3>1. j + 1 \in DOMAIN w /\ k + 1 \in DOMAIN w /\ j + 1 < k + 1
      BY <1>1, <2>1
    <3> QED
      BY <1>1, <1>2, <2>1, <3>1 DEF Ordered
  <2>2. ASSUME NEW j \in DOMAIN u, NEW k \in DOMAIN u, u[j].op \in RoutineOps, u[k].op \in RoutineOps
        PROVE  u[j].of = u[k].of
    BY <1>1, <1>2, <2>2 DEF Ordered
  <2> QED
    BY <2>1, <2>2 DEF Ordered
<1>4. Paired(u)
  <2> SUFFICES ASSUME NEW k \in DOMAIN u, u[k].op = "returns", k > 1
               PROVE  u[k - 1].op = "arguments" /\ u[k - 1].of = u[k].of
    BY DEF Paired
  <2>1. k \in Nat /\ k - 1 \in DOMAIN u /\ k + 1 \in DOMAIN w /\ k + 1 > 1
    BY <1>1
  <2>2. u[k] = w[k + 1] /\ u[k - 1] = w[k]
    <3>1. k - 1 + 1 = k
      BY <2>1
    <3> QED
      BY <1>1, <2>1, <3>1
  <2>3. k + 1 - 1 = k
    BY <2>1
  <2>4. w[k + 1 - 1].op = "arguments" /\ w[k + 1 - 1].of = w[k + 1].of
    BY <1>2, <2>1, <2>2 DEF Paired
  <2> QED
    BY <2>2, <2>3, <2>4
<1>5. Head(w).op \notin ReadOps => NoRoutine(u)
  <2> SUFFICES ASSUME Head(w).op \notin ReadOps, NEW k \in DOMAIN u, u[k].op \in RoutineOps
               PROVE  FALSE
    BY DEF NoRoutine
  <2>1. k + 1 \in DOMAIN w /\ 1 < k + 1 /\ u[k] = w[k + 1]
    BY <1>1
  <2> QED
    BY <1>1, <1>2, <2>1 DEF Ordered
<1>6. u # <<>> /\ u[1].op = "returns" => Head(w).op = "arguments" /\ u[1].of = Head(w).of
  <2> SUFFICES ASSUME u # <<>>, u[1].op = "returns"
               PROVE  Head(w).op = "arguments" /\ u[1].of = Head(w).of
    OBVIOUS
  <2>1. 2 \in DOMAIN w /\ w[2].op = "returns" /\ 2 > 1 /\ 2 - 1 = 1
    BY <1>1
  <2>2. w[2 - 1].op = "arguments" /\ w[2 - 1].of = w[2].of
    BY <1>2, <2>1 DEF Paired
  <2> QED
    BY <1>1, <2>1, <2>2
<1>7. \A k \in DOMAIN u : u[k].op \in RoutineOps /\ Head(w).op \in RoutineOps => u[k].of = Head(w).of
  BY <1>1, <1>2 DEF Ordered
<1>8. Order(u)
  BY <1>1, <1>3, <1>4 DEF Order
<1> QED
  BY <1>5, <1>6, <1>7, <1>8 DEF NoResult

\* What comes in place of the head.
JoinedOf(u, items, r) ==
    /\ IsSome(u) /\ Len(items) \in Nat /\ DOMAIN items = 1 .. Len(items)
    /\ \A k \in DOMAIN u : k \in Nat \ {0}
    /\ \A k \in DOMAIN u : \/ k \in DOMAIN items /\ u[k] = items[k]
                           \/ k - Len(items) \in DOMAIN r /\ u[k] = r[k - Len(items)]
    /\ \A k \in DOMAIN items : k \in DOMAIN u /\ u[k] = items[k]
    /\ \A k \in DOMAIN r : k \in Nat \ {0} /\ Len(items) + k \in DOMAIN u
                             /\ u[Len(items) + k] = r[k]
    /\ items = <<>> => u = r

LEMMA JoinedIs ==
    ASSUME NEW items, IsSome(items), NEW r, IsSome(r)
    PROVE  JoinedOf(items \o r, items, r)
<1>0. PICK u : u = items \o r
  OBVIOUS
<1>1. PICK A : items \in Seq(A) /\ r \in Seq(A)
  BY Common
<1>2. u \in Seq(A \cup A) /\ Len(items) \in Nat /\ DOMAIN items = 1 .. Len(items)
  BY <1>0, <1>1, AppendedIs
<1>3. /\ \A k \in DOMAIN items : k \in DOMAIN u /\ u[k] = items[k]
      /\ \A k \in DOMAIN r : Len(items) + k \in DOMAIN u /\ u[Len(items) + k] = r[k]
      /\ \A k \in DOMAIN u :
                 \/ k \in DOMAIN items /\ u[k] = items[k]
                 \/ (k - Len(items) \in DOMAIN r /\ u[k] = r[k - Len(items)])
  BY <1>0, <1>1, AppendedIs
<1>4. IsSome(u) /\ \A k \in DOMAIN u : k \in Nat \ {0}
  BY <1>2 DEF IsSome
<1>5. \A k \in DOMAIN r : k \in Nat \ {0}
  BY <1>1
<1>6. items = <<>> => u = r
  BY <1>0, <1>1
<1>7. JoinedOf(u, items, r)
  BY <1>2, <1>3, <1>4, <1>5, <1>6 DEF JoinedOf
<1> QED
  BY <1>0, <1>7

\* Items that read no routine come in place of a head that was no part of one.
LEMMA OrderPlain ==
    ASSUME NEW w, Order(w), w # <<>>, Head(w).op \notin ReadOps, Head(w).op # "arguments",
           NEW items, IsSome(items), NoRoutine(items), Paired(items), NoResult(items),
           NEW u, u = items \o Tail(w)
    PROVE  Order(u) /\ NoRoutine(u) /\ NoResult(u)
<1>1. PICK r : r = Tail(w)
  OBVIOUS
<1>2. Order(r) /\ NoRoutine(r) /\ NoResult(r)
  BY <1>1, OrderTail
<1>3. IsSome(r) /\ Paired(r)
  BY <1>2 DEF Order
<1>4. /\ IsSome(u) /\ Len(items) \in Nat /\ DOMAIN items = 1 .. Len(items)
      /\ \A k \in DOMAIN u : k \in Nat \ {0}
      /\ \A k \in DOMAIN u : \/ k \in DOMAIN items /\ u[k] = items[k]
                             \/ k - Len(items) \in DOMAIN r /\ u[k] = r[k - Len(items)]
      /\ \A k \in DOMAIN items : k \in DOMAIN u /\ u[k] = items[k]
      /\ \A k \in DOMAIN r : k \in Nat \ {0} /\ Len(items) + k \in DOMAIN u
                               /\ u[Len(items) + k] = r[k]
      /\ items = <<>> => u = r
  <2>1. JoinedOf(items \o r, items, r)
    BY <1>3, JoinedIs
  <2>2. JoinedOf(u, items, r)
    BY <1>1, <2>1
  <2> QED
    BY <2>2 DEF JoinedOf
<1>5. NoRoutine(u)
  BY <1>2, <1>4 DEF NoRoutine
<1>6. Ordered(u)
  BY <1>5 DEF NoRoutine, Ordered
<1>7. Paired(u)
  <2> SUFFICES ASSUME NEW k \in DOMAIN u, u[k].op = "returns", k > 1
               PROVE  u[k - 1].op = "arguments" /\ u[k - 1].of = u[k].of
    BY DEF Paired
  <2>0. k \in Nat
    BY <1>4
  <2>1. CASE k \in DOMAIN items /\ u[k] = items[k]
    <3>1. k - 1 \in DOMAIN items
      BY <1>4, <2>0, <2>1
    <3>2. u[k - 1] = items[k - 1]
      BY <1>4, <3>1
    <3> QED
      BY <2>1, <3>2 DEF Paired
  <2>2. CASE k - Len(items) \in DOMAIN r /\ u[k] = r[k - Len(items)]
    <3>1. PICK j : j = k - Len(items)
      OBVIOUS
    <3>2. j \in DOMAIN r /\ j \in Nat \ {0} /\ u[k] = r[j] /\ k = Len(items) + j
      <4>1. j \in DOMAIN r /\ u[k] = r[j]
        BY <2>2, <3>1
      <4>2. j \in Nat \ {0}
        BY <1>4, <4>1
      <4> QED
        BY <1>4, <2>0, <3>1, <4>1, <4>2
    <3>3. CASE j = 1
      <4>1. r # <<>> /\ r[1].op = "returns"
        BY <3>2, <3>3
      <4> QED
        BY <1>2, <4>1 DEF NoResult
    <3>4. CASE j # 1
      <4>1. j > 1
        BY <3>2, <3>4
      <4>2. r[j - 1].op = "arguments" /\ r[j - 1].of = r[j].of
        BY <1>3, <3>2, <4>1 DEF Paired
      <4>3. j - 1 \in DOMAIN r
        <5>1. PICK A : r \in Seq(A)
          BY <1>3 DEF IsSome
        <5>2. DOMAIN r = 1 .. Len(r)
          BY <5>1
        <5> QED
          BY <3>2, <4>1, <5>2
      <4>4. u[Len(items) + (j - 1)] = r[j - 1]
        BY <1>4, <4>3
      <4>5. Len(items) + (j - 1) = k - 1
        BY <1>4, <3>2
      <4> QED
        BY <3>2, <4>2, <4>4, <4>5
    <3> QED
      BY <3>3, <3>4
  <2> QED
    BY <1>4, <2>1, <2>2
<1>8. NoResult(u)
  <2>1. CASE items = <<>>
    BY <1>2, <1>4, <2>1
  <2>2. CASE items # <<>>
    <3>1. PICK A : items \in Seq(A)
      BY DEF IsSome
    <3>2. 1 \in DOMAIN items
      BY <2>2, <3>1
    <3>3. u[1] = items[1]
      BY <1>4, <3>2
    <3> QED
      BY <2>2, <3>3 DEF NoResult
  <2> QED
    BY <2>1, <2>2
<1> QED
  BY <1>4, <1>5, <1>6, <1>7, <1>8 DEF Order

\* The parameters of one routine, and its statement, in place of the head.
ReadsOne(items, n) ==
    /\ n \in DOMAIN items /\ DOMAIN items = 1 .. n /\ items[n].op = "procedure"
    /\ \A k \in 1 .. n - 1 : items[k].op \in ReadOps
    /\ \A k \in 1 .. n : items[k].of = items[n].of

LEMMA OrderReads ==
    ASSUME NEW w, Order(w), w # <<>>, Head(w).op \notin ReadOps, Head(w).op # "arguments",
           NEW items, IsSome(items), NEW n \in Nat, ReadsOne(items, n),
           NEW u, u = items \o Tail(w)
    PROVE  Order(u)
<1>1. PICK r : r = Tail(w)
  OBVIOUS
<1>2. Order(r) /\ NoRoutine(r) /\ NoResult(r)
  BY <1>1, OrderTail
<1>3. IsSome(r) /\ Paired(r)
  BY <1>2 DEF Order
<1>4. /\ IsSome(u) /\ Len(items) \in Nat /\ DOMAIN items = 1 .. Len(items)
      /\ \A k \in DOMAIN u : k \in Nat \ {0}
      /\ \A k \in DOMAIN u : \/ k \in DOMAIN items /\ u[k] = items[k]
                             \/ k - Len(items) \in DOMAIN r /\ u[k] = r[k - Len(items)]
      /\ \A k \in DOMAIN items : k \in DOMAIN u /\ u[k] = items[k]
      /\ \A k \in DOMAIN r : k \in Nat \ {0} /\ Len(items) + k \in DOMAIN u
                               /\ u[Len(items) + k] = r[k]
  <2>1. JoinedOf(items \o r, items, r)
    BY <1>3, JoinedIs
  <2>2. JoinedOf(u, items, r)
    BY <1>1, <2>1
  <2> QED
    BY <2>2 DEF JoinedOf
<1>5. Len(items) = n /\ n # 0
  BY <1>4 DEF ReadsOne
<1>6. \A k \in DOMAIN u : u[k].op \in RoutineOps => k \in 1 .. n /\ u[k] = items[k]
  BY <1>2, <1>4, <1>5 DEF NoRoutine
<1>7. \A k \in 1 .. n : items[k].op \in RoutineOps
  <2> TAKE k \in 1 .. n
  <2>1. k = n \/ k \in 1 .. n - 1
    OBVIOUS
  <2> QED
    BY <2>1 DEF ReadsOne, RoutineOps
<1>8. Ordered(u)
  <2>1. ASSUME NEW j \in DOMAIN u, NEW k \in DOMAIN u, j < k, u[k].op \in RoutineOps
        PROVE  u[j].op \in ReadOps
    <3>1. k \in 1 .. n /\ j \in Nat \ {0}
      BY <1>4, <1>6, <2>1
    <3>2. j \in 1 .. n - 1 /\ j \in DOMAIN items
      BY <1>4, <1>5, <2>1, <3>1
    <3> QED
      BY <1>4, <3>2 DEF ReadsOne
  <2>2. ASSUME NEW j \in DOMAIN u, NEW k \in DOMAIN u, u[j].op \in RoutineOps, u[k].op \in RoutineOps
        PROVE  u[j].of = u[k].of
    BY <1>6, <2>2 DEF ReadsOne
  <2> QED
    BY <2>1, <2>2 DEF Ordered
<1>9. Paired(u)
  <2> SUFFICES ASSUME NEW k \in DOMAIN u, u[k].op = "returns", k > 1
               PROVE  u[k - 1].op = "arguments" /\ u[k - 1].of = u[k].of
    BY DEF Paired
  <2>0. k \in Nat
    BY <1>4
  <2>1. k \notin DOMAIN items
    <3> SUFFICES ASSUME k \in DOMAIN items PROVE FALSE
      OBVIOUS
    <3>1. u[k] = items[k] /\ k \in 1 .. n
      BY <1>4, <1>5
    <3> QED
      BY <1>7, <3>1 DEF RoutineOps, ReadOps
  <2>2. PICK j : j = k - Len(items)
    OBVIOUS
  <2>3. j \in DOMAIN r /\ j \in Nat \ {0} /\ u[k] = r[j] /\ k = Len(items) + j
    <3>1. j \in DOMAIN r /\ u[k] = r[j]
      BY <1>4, <2>1, <2>2
    <3>2. j \in Nat \ {0}
      BY <1>4, <3>1
    <3> QED
      BY <1>4, <2>0, <2>2, <3>1, <3>2
  <2>4. CASE j = 1
    <3>1. r # <<>> /\ r[1].op = "returns"
      BY <2>3, <2>4
    <3> QED
      BY <1>2, <3>1 DEF NoResult
  <2>5. CASE j # 1
    <3>1. j > 1
      BY <2>3, <2>5
    <3>2. r[j - 1].op = "arguments" /\ r[j - 1].of = r[j].of
      BY <1>3, <2>3, <3>1 DEF Paired
    <3>3. j - 1 \in DOMAIN r
      <4>1. PICK A : r \in Seq(A)
        BY <1>3 DEF IsSome
      <4>2. DOMAIN r = 1 .. Len(r)
        BY <4>1
      <4> QED
        BY <2>3, <3>1, <4>2
    <3>4. u[Len(items) + (j - 1)] = r[j - 1]
      BY <1>4, <3>3
    <3>5. Len(items) + (j - 1) = k - 1
      BY <1>4, <2>3
    <3> QED
      BY <2>3, <3>2, <3>4, <3>5
  <2> QED
    BY <2>4, <2>5
<1> QED
  BY <1>4, <1>8, <1>9 DEF Order

-----------------------------------------------------------------------------
\* What an item says of an object.
TableOps == {"columns", "constraints", "indexes", "key", "foreign_key"}
RoutinePart == {"params", "plain_param", "param", "procedure", "arguments", "returns"}
ListOps == {"domains", "tables", "views", "sequences", "triggers", "procedures", "functions"}

LEMMA ListOpIs ==
    /\ ListOp["domain"] = "domains" /\ ListOp["table"] = "tables" /\ ListOp["view"] = "views"
    /\ ListOp["sequence"] = "sequences" /\ ListOp["trigger"] = "triggers"
    /\ ListOp["procedure"] = "procedures" /\ ListOp["function"] = "functions"
  BY DEF ListOp

LEMMA KindIs ==
    ASSUME NEW o \in Object
    PROVE  kind(o) \in Kind /\ ListOp[kind(o)] \in ListOps
<1>1. kind(o) \in Kind
  BY CatalogAssumption DEF kind
<1> QED
  BY <1>1, ListOpIs DEF Kind, ListOps

LEMMA SaysOfList ==
    ASSUME NEW o \in Object, NEW k \in Kind, NEW i, i.op = ListOp[k]
    PROVE  /\ kind(o) = k => Says(o, i) = Script(o)
           /\ kind(o) # k => Says(o, i) = <<>>
<1>1. kind(o) \in Kind
  BY KindIs
<1>2. kind(o) # k => i.op # ListOp[kind(o)]
  BY <1>1, ListOpIs DEF Kind
<1>3. i.op \in ListOps
  BY ListOpIs DEF Kind, ListOps
<1>4. OfTable(o, i) = <<>> /\ OfRoutine(o, i) = <<>>
  BY <1>3 DEF ListOps, OfTable, OfRoutine
<1>5. ASSUME kind(o) # k PROVE Says(o, i) = <<>>
  BY <1>2, <1>4, <1>5 DEF Says
<1> QED
  BY <1>5 DEF Says

LEMMA SaysOfTable ==
    ASSUME NEW o \in Object, NEW i, i.op \in TableOps
    PROVE  /\ kind(o) = "table" /\ i.of = name(o) => Says(o, i) = OfTable(o, i)
           /\ kind(o) # "table" \/ i.of # name(o) => Says(o, i) = <<>>
<1>1. ListOp[kind(o)] \in ListOps
  BY KindIs
<1>2. i.op # ListOp[kind(o)]
  BY <1>1 DEF ListOps, TableOps
<1>3. OfRoutine(o, i) = <<>>
  BY DEF TableOps, OfRoutine
<1>4. kind(o) = "table" /\ i.of = name(o) => Says(o, i) = OfTable(o, i)
  BY <1>2 DEF Says
<1>5. ASSUME kind(o) # "table" \/ i.of # name(o) PROVE Says(o, i) = <<>>
  BY <1>2, <1>3, <1>5 DEF Says
<1> QED
  BY <1>4, <1>5

LEMMA SaysOfRoutine ==
    ASSUME NEW o \in Object, NEW i, i.op \in RoutinePart
    PROVE  /\ kind(o) = "procedure" /\ i.of = name(o) /\ i.op \in {"params", "procedure"} =>
                 Says(o, i) = <<ProcedureSaid(o)>>
           /\ kind(o) = "function" /\ i.of = name(o) /\ i.op = "returns" =>
                 Says(o, i) = <<FunctionSaid(o)>>
           /\ i.of # name(o) \/ i.op \in {"plain_param", "param", "arguments"} => Says(o, i) = <<>>
           /\ i.op \in {"params", "procedure"} /\ kind(o) # "procedure" => Says(o, i) = <<>>
           /\ i.op = "returns" /\ kind(o) # "function" => Says(o, i) = <<>>
<1>1. ListOp[kind(o)] \in ListOps
  BY KindIs
<1>2. i.op # ListOp[kind(o)]
  BY <1>1 DEF ListOps, RoutinePart
<1>3. OfTable(o, i) = <<>>
  BY DEF RoutinePart, OfTable
<1>4. ASSUME kind(o) \in {"procedure", "function"}, i.of = name(o)
      PROVE  Says(o, i) = OfRoutine(o, i)
  BY <1>2, <1>4 DEF Says
<1>5. ASSUME kind(o) \notin {"procedure", "function"} \/ i.of # name(o)
      PROVE  Says(o, i) = <<>>
  BY <1>2, <1>3, <1>5 DEF Says
<1>6. kind(o) = "procedure" /\ i.op \in {"params", "procedure"} => OfRoutine(o, i) = <<ProcedureSaid(o)>>
  BY DEF OfRoutine
<1>7. kind(o) = "function" /\ i.op = "returns" => OfRoutine(o, i) = <<FunctionSaid(o)>>
  BY DEF OfRoutine
<1>8. i.op \in {"plain_param", "param", "arguments"} => OfRoutine(o, i) = <<>>
  BY DEF OfRoutine
<1>9. i.op \in {"params", "procedure"} /\ kind(o) # "procedure" => OfRoutine(o, i) = <<>>
  BY DEF OfRoutine
<1>10. i.op = "returns" /\ kind(o) # "function" => OfRoutine(o, i) = <<>>
  BY DEF OfRoutine
<1> QED
  BY <1>4, <1>5, <1>6, <1>7, <1>8, <1>9, <1>10

-----------------------------------------------------------------------------
\* The parameters that are still to be read; the rows at hand are the object's.
ReadOf(i) == IF i.op \in ReadOps THEN <<Def(i.row)>> ELSE <<>>
ReadDue(w) == FlattenSeq([k \in 1 .. Len(w) |-> ReadOf(w[k])])
RowRight(o, i) ==
    /\ kind(o) = "table" /\ i.op \in {"key", "foreign_key"} =>
          /\ i.row \in ToSet(Keyed(World[o].cons))
          /\ i.op = "foreign_key" <=> i.row.type = "FOREIGN KEY"
    /\ kind(o) = "procedure" /\ i.op \in {"params", "procedure"} => i.row = Needs(o)
    /\ kind(o) = "procedure" /\ i.op \in ReadOps =>
          /\ i.row \in ToSet(World[o].params)
          /\ i.op = "plain_param" <=> i.row.source = 0
    /\ kind(o) = "function" /\ i.op = "returns" => i.row = Needs(o)
WorkRight(o, w) == \A k \in DOMAIN w : w[k].of = name(o) => RowRight(o, w[k])
Busy(o, w) == \E k \in DOMAIN w : w[k].op \in RoutineOps /\ w[k].of = name(o)
Next2(o, w) == w # <<>> /\ w[1].op = "returns" /\ w[1].of = name(o)
PartRight(o, w, p) ==
    /\ kind(o) = "procedure" /\ Busy(o, w) => IsSome(p) /\ Concat(p, ReadDue(w)) = Defs(o)
    /\ kind(o) = "function" /\ Next2(o, w) => p = ArgsSaid(o)

ToTell(o) == o \in stable /\ Extracted(o) /\ Sayable(o)
TellsOf(o) == WorkRight(o, work) /\ PartRight(o, work, part) /\ Story(o, work, out)
Suits == \A o, p \in db : ParamsSuit(o, p)
TellInv ==
    call.tool = "extract" =>
        /\ Order(work)
        /\ status \in {"run", "done"} => \A o \in Object : ToTell(o) => TellsOf(o)
Telling ==
    TypeOK /\ Slots /\ NamesApart /\ Suits /\ ExtractInv /\ TellInv
        /\ call.tool = "extract" /\ status = "run" /\ work # <<>>

\* The step says of the object what the head of the work was to say.
Adds(o, items, st) == Concat(Said(o, st), Due(o, items)) = Says(o, Head(work))

LEMMA TellingIs ==
    ASSUME Telling
    PROVE  /\ Order(work) /\ IsSome(work) /\ IsSome(out)
           /\ \A o \in Object : ToTell(o) => TellsOf(o)
           /\ 1 \in DOMAIN work /\ Head(work) = work[1]
<1>1. Order(work) /\ \A o \in Object : ToTell(o) => TellsOf(o)
  BY DEF Telling, TellInv
<1>2. IsSome(out)
  BY DEF Telling, ExtractInv, Written, IsSome
<1>3. IsSome(work)
  BY <1>1 DEF Order
<1>4. work # <<>>
  BY DEF Telling
<1>5. TailOf(Tail(work), work)
  BY <1>3, <1>4, TailIs
<1> QED
  BY <1>1, <1>2, <1>3, <1>5 DEF TailOf

LEMMA ToTellSame ==
    ASSUME UNCHANGED <<catalogVars, call, faulted>>, NEW o, ToTell(o)'
    PROVE  ToTell(o)
<1>1. stable' = stable /\ seen' = seen /\ call' = call /\ faulted' = faulted
  BY DEF catalogVars
<1>2. Sayable(o)' => Sayable(o)
  BY <1>1 DEF Sayable
<1>3. Extracted(o)' => Extracted(o)
  BY <1>1 DEF Extracted, should_extract, WithinCap, Numbers, Rivals
<1> QED
  BY <1>1, <1>2, <1>3 DEF ToTell

LEMMA GoesStory ==
    ASSUME Telling, NEW o \in Object, ToTell(o), NEW items, IsSome(items), NEW st, IsSome(st),
           Goes(items, st), Adds(o, items, st)
    PROVE  Story(o, work, out)'
<1>1. Story(o, work, out) /\ IsSome(work) /\ IsSome(out) /\ work # <<>>
  BY TellingIs DEF TellsOf, Telling
<1>2. work' = Concat(items, Tail(work)) /\ out' = Concat(out, st)
  BY DEF Goes, Rest, Concat
<1>3. Concat(Said(o, st), Due(o, items)) = Says(o, Head(work))
  BY DEF Adds
<1>4. PICK w, t, u, v : w = work /\ t = out /\ u = work' /\ v = out'
  OBVIOUS
<1>5. Story(o, w, t) /\ IsSome(w) /\ IsSome(t) /\ w # <<>>
  BY <1>1, <1>4
<1>6. u = Concat(items, Tail(w)) /\ v = Concat(t, st)
  BY <1>2, <1>4
<1>7. Concat(Said(o, st), Due(o, items)) = Says(o, Head(w))
  BY <1>3, <1>4
<1>8. Story(o, u, v)
  BY <1>5, <1>6, <1>7, StoryGoes
<1>9. Story(o, work', out')
  BY <1>4, <1>8
<1> QED
  BY <1>9 DEF Story, Said, Due, Says, Script

\* The rows at hand, of what comes in place of the head.
LEMMA WorkRightGoes ==
    ASSUME NEW o, NEW w, IsSome(w), w # <<>>, NEW items, IsSome(items),
           WorkRight(o, w), WorkRight(o, items), NEW u, u = items \o Tail(w)
    PROVE  WorkRight(o, u)
<1>1. PICK r : r = Tail(w)
  OBVIOUS
<1>2. TailOf(Tail(w), w)
  BY TailIs
<1>3. IsSome(r) /\ \A k \in DOMAIN r : k + 1 \in DOMAIN w /\ r[k] = w[k + 1]
  BY <1>1, <1>2 DEF TailOf
<1>4. JoinedOf(items \o r, items, r)
  BY <1>3, JoinedIs
<1>5. JoinedOf(u, items, r)
  BY <1>1, <1>4
<1> SUFFICES ASSUME NEW k \in DOMAIN u, u[k].of = name(o)
             PROVE  RowRight(o, u[k])
  BY DEF WorkRight
<1>6. \/ k \in DOMAIN items /\ u[k] = items[k]
      \/ \E j \in DOMAIN r : u[k] = r[j]
  BY <1>5 DEF JoinedOf
<1>7. CASE k \in DOMAIN items /\ u[k] = items[k]
  BY <1>7 DEF WorkRight
<1>8. CASE \E j \in DOMAIN r : u[k] = r[j]
  <2>1. PICK j \in DOMAIN r : u[k] = r[j]
    BY <1>8
  <2>2. j + 1 \in DOMAIN w /\ u[k] = w[j + 1]
    BY <1>3, <2>1
  <2> QED
    BY <2>2 DEF WorkRight
<1> QED
  BY <1>6, <1>7, <1>8

LEMMA PartVacuous ==
    ASSUME NEW o, NEW w, NoRoutine(w), NoResult(w), NEW p
    PROVE  PartRight(o, w, p)
  BY DEF PartRight, NoRoutine, NoResult, Busy, Next2

LEMMA FrameIs ==
    ASSUME NEW items, NEW st, Goes(items, st)
    PROVE  /\ UNCHANGED <<catalogVars, call, faulted>> /\ status' = status
           /\ work' = items \o Tail(work)
  BY DEF Goes, Rest

\* TellInv is of these.
LEMMA TellFrom ==
    ASSUME Order(work'), \A o \in Object : ToTell(o)' =>
              WorkRight(o, work') /\ PartRight(o, work', part') /\ Story(o, work', out')
    PROVE  TellInv'
<1>1. Order(work)'
  BY DEF Order, IsSome, Ordered, Paired
<1>2. \A o \in Object : ToTell(o)' => TellsOf(o)'
  <2> SUFFICES ASSUME NEW o \in Object, ToTell(o)'
               PROVE  TellsOf(o)'
    OBVIOUS
  <2>1. WorkRight(o, work)'
    BY DEF WorkRight, RowRight
  <2>2. PartRight(o, work, part)'
    BY DEF PartRight, Busy, Next2, IsSome, ReadDue
  <2>3. Story(o, work, out)'
    BY DEF Story, Said, Due, Says, Script
  <2> QED
    BY <2>1, <2>2, <2>3 DEF TellsOf
<1> QED
  BY <1>1, <1>2 DEF TellInv

\* A step that reads no routine.
Plain2(items) == IsSome(items) /\ NoRoutine(items) /\ Paired(items) /\ NoResult(items)
LEMMA PlainTells ==
    ASSUME Telling, Head(work).op \notin ReadOps \cup {"arguments"},
           NEW items, Plain2(items), NEW st, IsSome(st), Goes(items, st),
           \A o \in Object : ToTell(o) => Adds(o, items, st) /\ WorkRight(o, items)
    PROVE  TellInv'
<1>1. Order(work) /\ IsSome(work) /\ work # <<>>
  BY TellingIs DEF Telling
<1>2. PICK u : u = items \o Tail(work)
  OBVIOUS
<1>3. u = work' /\ UNCHANGED <<catalogVars, call, faulted>>
  BY <1>2, FrameIs
<1>4. IsSome(items)
  BY DEF Plain2
<1>5. Order(u) /\ NoRoutine(u) /\ NoResult(u)
  <2>1. NoRoutine(items) /\ Paired(items) /\ NoResult(items)
    BY DEF Plain2
  <2>2. Head(work).op \notin ReadOps /\ Head(work).op # "arguments"
    OBVIOUS
  <2> QED
    BY <1>1, <1>2, <1>4, <2>1, <2>2, OrderPlain
<1>6. ASSUME NEW o \in Object, ToTell(o)'
      PROVE  WorkRight(o, work') /\ PartRight(o, work', part') /\ Story(o, work', out')
  <2>1. ToTell(o)
    BY <1>3, <1>6, ToTellSame
  <2>2. Adds(o, items, st) /\ WorkRight(o, items)
    BY <2>1
  <2>3. WorkRight(o, work)
    BY <2>1, TellingIs DEF TellsOf
  <2>4. WorkRight(o, u)
    BY <1>1, <1>2, <1>4, <2>2, <2>3, WorkRightGoes
  <2>5. PICK p : p = part'
    OBVIOUS
  <2>6. PartRight(o, u, p)
    BY <1>5, PartVacuous
  <2>7. Story(o, work, out)'
    BY <1>4, <2>1, <2>2, GoesStory
  <2>8. Story(o, work', out')
    BY <2>7 DEF Story, Said, Due, Says, Script
  <2> QED
    BY <1>3, <2>4, <2>5, <2>6, <2>8
<1> QED
  BY <1>3, <1>5, <1>6, TellFrom

\* One statement of no item that is left.
LEMMA OneTells ==
    ASSUME Telling, Head(work).op \notin ReadOps \cup {"arguments"},
           NEW st, IsSome(st), Goes(<<>>, st),
           \A o \in Object : ToTell(o) => Said(o, st) = Says(o, Head(work))
    PROVE  TellInv'
<1>1. PICK e : e = <<>>
  OBVIOUS
<1>2. Plain2(e) /\ \A o : WorkRight(o, e)
  <2>1. DOMAIN e = {} /\ IsSome(e)
    BY <1>1, NoneIsSome
  <2> QED
    BY <1>1, <2>1 DEF Plain2, NoRoutine, Paired, NoResult, WorkRight
<1>3. ASSUME NEW o \in Object, ToTell(o) PROVE Adds(o, e, st)
  <2>1. Due(o, e) = <<>>
    BY <1>1, DueNone
  <2>2. IsSome(Says(o, Head(work)))
    BY SaysIsSome
  <2>3. PICK x : x = Says(o, Head(work))
    OBVIOUS
  <2>4. PICK X : x \in Seq(X)
    BY <2>2, <2>3 DEF IsSome
  <2>5. Concat(x, <<>>) = x
    BY <2>4, ConcatIs
  <2>6. Said(o, st) = x
    BY <1>3, <2>3
  <2> QED
    BY <2>1, <2>3, <2>5, <2>6 DEF Adds
<1>4. Goes(e, st)
  BY <1>1
<1> QED
  BY <1>2, <1>3, <1>4, PlainTells

\* Items of which nothing has been said yet.
LEMMA ItemsTell ==
    ASSUME Telling, Head(work).op \notin ReadOps \cup {"arguments"},
           NEW items, Plain2(items), Goes(items, <<>>),
           \A o \in Object : ToTell(o) => Due(o, items) = Says(o, Head(work)) /\ WorkRight(o, items)
    PROVE  TellInv'
<1>1. PICK e : e = <<>>
  OBVIOUS
<1>2. IsSome(e) /\ Goes(items, e)
  BY <1>1, NoneIsSome
<1>3. ASSUME NEW o \in Object, ToTell(o) PROVE Adds(o, items, e)
  <2>1. Said(o, e) = <<>>
    BY <1>1, SaidOne
  <2>2. IsSome(Says(o, Head(work)))
    BY SaysIsSome
  <2>3. PICK x : x = Says(o, Head(work))
    OBVIOUS
  <2>4. PICK X : x \in Seq(X)
    BY <2>2, <2>3 DEF IsSome
  <2>5. Concat(<<>>, x) = x
    BY <2>4, ConcatIs
  <2>6. Due(o, items) = x
    BY <1>3, <2>3
  <2> QED
    BY <2>1, <2>3, <2>5, <2>6 DEF Adds
<1> QED
  BY <1>2, <1>3, PlainTells

-----------------------------------------------------------------------------
\* An object that is to be told of is in the list of its kind, at one place.
Placed(o, list, i) ==
    /\ i \in 1 .. Len(list) /\ list[i] = o
    /\ \A j \in 1 .. Len(list) : j # i => name(list[j]) # name(o)

LEMMA ListedHas ==
    ASSUME TypeOK, Slots, NEW k, NEW o \in Object, ToTell(o), kind(o) = k
    PROVE  \E i : Placed(o, Listed({k}), i)
<1>1. PICK S : S = User({k})
  OBVIOUS
<1>2. S \in SUBSET db /\ \A p \in S : kind(p) \in {k}
  BY <1>1 DEF User, TypeOK, CatalogTypeOK
<1> DEFINE key == [p \in S |-> name(p)]
<1>3. IsFiniteSet(S) /\ Tells(S, key) /\ ByName(S) \in Seq(S) /\ Cardinality(S) \in Nat
      /\ DOMAIN ByName(S) = 1 .. Cardinality(S)
  BY <1>2, RelationShares, ByNameIs
<1>4. ByName(S) = Sorted(S, key)
  BY DEF ByName
<1>5. PICK M : M = Numbers(Rivals(o))
  OBVIOUS
<1>6. IsFiniteSet(M)
  <2>1. IsFiniteSet(Rivals(o))
    BY FS_Subset DEF Rivals, Slots
  <2> QED
    BY <1>5, <2>1, NumbersFinite
<1>7. \A y \in S : key[y] \in M
  BY <1>1, <1>5 DEF User, Numbers, Rivals, TypeOK, CatalogTypeOK
<1>8. o \in S /\ key[o] = name(o)
  BY <1>1 DEF ToTell, Extracted, User, TypeOK, CatalogTypeOK
<1>9. Cardinality({m \in M : m < key[o]}) < CAP
  BY <1>5, <1>8 DEF ToTell, Extracted, WithinCap
<1>10. CAP \in Nat
  BY CatalogAssumption
<1>11. IsFiniteSet(S) /\ Tells(S, key)
  BY <1>3
<1>12. PICK p \in 1 .. CAP : p <= Cardinality(S) /\ Sorted(S, key)[p] = o
  BY <1>6, <1>7, <1>8, <1>9, <1>10, <1>11, WithinFirst
<1> HIDE DEF key
<1>13. p \in DOMAIN ByName(S) /\ p <= CAP /\ ByName(S)[p] = o
  BY <1>3, <1>4, <1>10, <1>12
<1>14. PICK first : first = First(ByName(S))
  OBVIOUS
<1>15. /\ first \in Seq(S)
       /\ \A j \in DOMAIN first : j \in DOMAIN ByName(S) /\ first[j] = ByName(S)[j]
       /\ \A j \in DOMAIN ByName(S) : j <= CAP => j \in DOMAIN first
  BY <1>3, <1>14, FirstIs
<1>16. p \in DOMAIN first /\ first[p] = o
  BY <1>13, <1>15
<1>17. PICK places : places = {j \in DOMAIN first : should_extract(name(first[j]))}
  OBVIOUS
<1>18. places \in SUBSET DOMAIN first /\ p \in places
  BY <1>16, <1>17 DEF ToTell, Extracted
<1>19. PICK list : list = Chosen(first, places)
  OBVIOUS
<1>20. list = Listed({k})
  BY <1>1, <1>14, <1>17, <1>19 DEF Listed, Asked, Where
<1>21. list \in Seq(S) /\ \E at : Picks(list, first, places, at)
  BY <1>15, <1>18, <1>19, ChosenIs
<1>22. PICK at : Picks(list, first, places, at)
  BY <1>21
<1>23. PICK i \in DOMAIN list : at[i] = p
  BY <1>18, <1>22 DEF Picks
<1>24. list[i] = o
  BY <1>16, <1>22, <1>23 DEF Picks
<1>25. DOMAIN list = 1 .. Len(list)
  BY <1>21
<1>26. \A j, l \in DOMAIN list : name(list[j]) = name(list[l]) => j = l
  BY <1>20, ListedIs
<1>27. Placed(o, list, i)
  BY <1>23, <1>24, <1>25, <1>26 DEF Placed
<1> QED
  BY <1>20, <1>27

\* A row of a list is of the object that has its name.
LEMMA ListedSame ==
    ASSUME TypeOK, Slots, NEW k, NEW list, list = Listed({k}), NEW o \in Object, ToTell(o), kind(o) = k,
           NEW j \in 1 .. Len(list), name(list[j]) = name(o)
    PROVE  list[j] = o
<1>1. list[j] \in db /\ kind(list[j]) = k
  BY ListedIs DEF User
<1>2. o \in db
  BY DEF ToTell, TypeOK, CatalogTypeOK
<1>3. SameSlot(list[j], o)
  BY <1>1, RelationShares DEF SameSlot, Shares
<1> QED
  BY <1>1, <1>2, <1>3 DEF Slots

-----------------------------------------------------------------------------
\* A statement for each object of a kind.
EachWritten(st, list, k) ==
    /\ st = [i \in 1 .. Len(list) |-> st[i]]
    /\ \A i \in 1 .. Len(list) : st[i].stmt = k /\ st[i].name = name(list[i])
    /\ k \notin {"key", "index"}
    /\ \A o \in Object : \A i \in 1 .. Len(list) : kind(o) = k /\ list[i] = o => <<st[i]>> = Script(o)

LEMMA KindTells ==
    ASSUME Telling, NEW k \in Kind, Head(work).op = ListOp[k],
           NEW list, list = Listed({k}), NEW st, EachWritten(st, list, k), Goes(<<>>, st)
    PROVE  TellInv'
<1>1. PICK n : n = Len(list)
  OBVIOUS
<1>2. n \in Nat
  BY <1>1, ListedIs DEF Telling
<1>3. ListLong(st, n) /\ IsSome(st)
  <2>1. st = [i \in 1 .. n |-> st[i]]
    BY <1>1 DEF EachWritten
  <2> QED
    BY <1>2, <2>1, EachIsSome DEF ListLong
<1>4. \A i \in 1 .. n : What(st[i]) = k /\ Whose(st[i]) = name(list[i])
  BY <1>1 DEF What, Whose, EachWritten
<1>5. \A o \in Object : ToTell(o) => Said(o, st) = Says(o, Head(work))
  <2> SUFFICES ASSUME NEW o \in Object, ToTell(o)
               PROVE  Said(o, st) = Says(o, Head(work))
    OBVIOUS
  <2>1. CASE kind(o) # k
    <3>1. \A i \in 1 .. n : ~ Regards(o, st[i])
      BY <1>4, <2>1 DEF Regards
    <3>2. Said(o, st) = <<>>
      BY <1>2, <1>3, <3>1, SaidNothing
    <3> QED
      BY <2>1, <3>2, SaysOfList
  <2>2. CASE kind(o) = k
    <3>1. PICK i : Placed(o, list, i)
      BY <2>2, ListedHas DEF Telling
    <3>2. i \in 1 .. n /\ list[i] = o /\ \A j \in 1 .. n : j # i => name(list[j]) # name(o)
      BY <1>1, <3>1 DEF Placed
    <3>3. Regards(o, st[i]) /\ \A j \in 1 .. n : j # i => ~ Regards(o, st[j])
      BY <1>4, <2>2, <3>2 DEF Regards
    <3>4. Said(o, st) = <<st[i]>>
      <4>1. n \in Nat /\ ListLong(st, n) /\ i \in 1 .. n
        BY <1>2, <1>3, <3>2
      <4>2. Regards(o, st[i]) /\ \A j \in 1 .. n : j # i => ~ Regards(o, st[j])
        BY <3>3
      <4> QED
        BY <4>1, <4>2, SaidAlone
    <3>5. <<st[i]>> = Script(o)
      BY <1>1, <2>2, <3>2 DEF EachWritten
    <3> QED
      BY <2>2, <3>4, <3>5, SaysOfList
  <2> QED
    BY <2>1, <2>2
<1>6. Head(work).op \notin ReadOps \cup {"arguments"}
  BY ListOpIs DEF Kind, ReadOps
<1> QED
  BY <1>3, <1>5, <1>6, OneTells

LEMMA DomainsTell ==
    ASSUME Telling, extract_domains
    PROVE  TellInv'
<1>1. PICK list : list = Listed({"domain"})
  OBVIOUS
<1>2. PICK st : st = [i \in 1 .. Len(list) |-> DomainStmt(list[i])]
  OBVIOUS
<1>3. Goes(<<>>, st) /\ Head(work).op = ListOp["domain"]
  BY <1>1, <1>2, ListOpIs DEF extract_domains, ForEach, At
<1>4. st = [i \in 1 .. Len(list) |-> st[i]]
  BY <1>2
<1>5. \A i \in 1 .. Len(list) : st[i].stmt = "domain" /\ st[i].name = name(list[i])
  BY <1>2 DEF DomainStmt
<1>6. \A o \in Object : \A i \in 1 .. Len(list) : kind(o) = "domain" /\ list[i] = o => <<st[i]>> = Script(o)
  BY <1>2 DEF Script
<1>7. "domain" \in Kind /\ "domain" \notin {"key", "index"}
  BY DEF Kind
<1>8. EachWritten(st, list, "domain")
  BY <1>4, <1>5, <1>6, <1>7 DEF EachWritten
<1> QED
  BY <1>1, <1>3, <1>7, <1>8, KindTells

LEMMA ViewsTell ==
    ASSUME Telling, extract_views
    PROVE  TellInv'
<1>1. PICK list : list = Listed({"view"})
  OBVIOUS
<1>2. PICK st : st = [i \in 1 .. Len(list) |-> ViewStmt(list[i])]
  OBVIOUS
<1>3. Goes(<<>>, st) /\ Head(work).op = ListOp["view"]
  BY <1>1, <1>2, ListOpIs DEF extract_views, ForEach, At
<1>4. st = [i \in 1 .. Len(list) |-> st[i]]
  BY <1>2
<1>5. \A i \in 1 .. Len(list) : st[i].stmt = "view" /\ st[i].name = name(list[i])
  BY <1>2 DEF ViewStmt
<1>6. \A o \in Object : \A i \in 1 .. Len(list) : kind(o) = "view" /\ list[i] = o => <<st[i]>> = Script(o)
  BY <1>2 DEF Script
<1>7. "view" \in Kind /\ "view" \notin {"key", "index"}
  BY DEF Kind
<1>8. EachWritten(st, list, "view")
  BY <1>4, <1>5, <1>6, <1>7 DEF EachWritten
<1> QED
  BY <1>1, <1>3, <1>7, <1>8, KindTells

LEMMA SequencesTell ==
    ASSUME Telling, extract_sequences
    PROVE  TellInv'
<1>1. PICK list : list = Listed({"sequence"})
  OBVIOUS
<1>2. PICK st : st = [i \in 1 .. Len(list) |-> SequenceStmt(list[i])]
  OBVIOUS
<1>3. Goes(<<>>, st) /\ Head(work).op = ListOp["sequence"]
  BY <1>1, <1>2, ListOpIs DEF extract_sequences, ForEach, At
<1>4. st = [i \in 1 .. Len(list) |-> st[i]]
  BY <1>2
<1>5. \A i \in 1 .. Len(list) : st[i].stmt = "sequence" /\ st[i].name = name(list[i])
  BY <1>2 DEF SequenceStmt
<1>6. \A o \in Object : \A i \in 1 .. Len(list) : kind(o) = "sequence" /\ list[i] = o => <<st[i]>> = Script(o)
  BY <1>2 DEF Script
<1>7. "sequence" \in Kind /\ "sequence" \notin {"key", "index"}
  BY DEF Kind
<1>8. EachWritten(st, list, "sequence")
  BY <1>4, <1>5, <1>6, <1>7 DEF EachWritten
<1> QED
  BY <1>1, <1>3, <1>7, <1>8, KindTells

LEMMA TriggersTell ==
    ASSUME Telling, extract_triggers
    PROVE  TellInv'
<1>1. PICK list : list = Listed({"trigger"})
  OBVIOUS
<1>2. PICK st : st = [i \in 1 .. Len(list) |-> TriggerStmt(list[i])]
  OBVIOUS
<1>3. Goes(<<>>, st) /\ Head(work).op = ListOp["trigger"]
  BY <1>1, <1>2, ListOpIs DEF extract_triggers, ForEach, At
<1>4. st = [i \in 1 .. Len(list) |-> st[i]]
  BY <1>2
<1>5. \A i \in 1 .. Len(list) : st[i].stmt = "trigger" /\ st[i].name = name(list[i])
  BY <1>2 DEF TriggerStmt
<1>6. \A o \in Object : \A i \in 1 .. Len(list) : kind(o) = "trigger" /\ list[i] = o => <<st[i]>> = Script(o)
  BY <1>2 DEF Script
<1>7. "trigger" \in Kind /\ "trigger" \notin {"key", "index"}
  BY DEF Kind
<1>8. EachWritten(st, list, "trigger")
  BY <1>4, <1>5, <1>6, <1>7 DEF EachWritten
<1> QED
  BY <1>1, <1>3, <1>7, <1>8, KindTells

-----------------------------------------------------------------------------
\* What two or three items are still to say.
LEMMA TwoDue ==
    ASSUME NEW o \in Object, NEW a, NEW b
    PROVE  Due(o, <<a, b>>) = Concat(Says(o, a), Says(o, b))
<1>1. PICK A : A = {a, b}
  OBVIOUS
<1>2. PICK G : G = [x \in A |-> Says(o, x)]
  OBVIOUS
<1>3. PICK X : Stands(G, A, X)
  BY <1>2, DueStands
<1>4. a \in A /\ b \in A
  BY <1>1
<1>5. Across(G, <<a, b>>) = Concat(G[a], G[b])
  BY <1>3, <1>4, OverTwo
<1>6. PICK w : w = <<a, b>>
  OBVIOUS
<1>7. w \in Seq(A)
  BY <1>4, <1>6
<1>8. Due(o, w) = Across(G, w)
  BY <1>2, <1>7, DueIsOver
<1> QED
  BY <1>2, <1>4, <1>5, <1>6, <1>8

LEMMA ThreeDue ==
    ASSUME NEW o \in Object, NEW a, NEW b, NEW c
    PROVE  Due(o, <<a, b, c>>) = Concat(Says(o, a), Concat(Says(o, b), Says(o, c)))
<1>1. PICK A : A = {a, b, c}
  OBVIOUS
<1>2. PICK G : G = [x \in A |-> Says(o, x)]
  OBVIOUS
<1>3. PICK X : Stands(G, A, X)
  BY <1>2, DueStands
<1>4. a \in A /\ b \in A /\ c \in A
  BY <1>1
<1>5. Across(G, <<a, b, c>>) = Concat(G[a], Concat(G[b], G[c]))
  BY <1>3, <1>4, OverThree
<1>6. PICK w : w = <<a, b, c>>
  OBVIOUS
<1>7. w \in Seq(A)
  BY <1>4, <1>6
<1>8. Due(o, w) = Across(G, w)
  BY <1>2, <1>7, DueIsOver
<1> QED
  BY <1>2, <1>4, <1>5, <1>6, <1>8

\* Items that are no part of a routine.
LEMMA PlainItems ==
    ASSUME NEW items, IsSome(items), \A k \in DOMAIN items : items[k].op \notin RoutineOps \cup {"returns"}
    PROVE  Plain2(items)
<1>1. items # <<>> => 1 \in DOMAIN items
  <2>1. PICK A : items \in Seq(A)
    BY DEF IsSome
  <2> QED
    BY <2>1
<1> QED
  BY <1>1 DEF Plain2, NoRoutine, Paired, NoResult

-----------------------------------------------------------------------------
\* The procedures: an item for each.
LEMMA ProceduresTell ==
    ASSUME Telling, extract_procedures
    PROVE  TellInv'
<1>1. PICK list : list = Listed({"procedure"})
  OBVIOUS
<1>2. PICK n : n = Len(list)
  OBVIOUS
<1>3. PICK w : w = [i \in 1 .. n |-> Item("params", name(list[i]), Needs(list[i]))]
  OBVIOUS
<1>4. Goes(w, <<>>) /\ Head(work).op = ListOp["procedure"]
  BY <1>1, <1>2, <1>3, ListOpIs DEF extract_procedures, Routines, ForEach, At
<1>5. n \in Nat /\ list = Listed({"procedure"}) /\ TypeOK /\ Slots
  BY <1>1, <1>2, ListedIs DEF Telling
<1>6. ListLong(w, n) /\ IsSome(w) /\ DOMAIN w = 1 .. n
  <2>1. w = [i \in 1 .. n |-> w[i]]
    BY <1>3
  <2> QED
    BY <1>5, <2>1, EachIsSome DEF ListLong
<1>7. \A i \in 1 .. n : w[i].op = "params" /\ w[i].of = name(list[i]) /\ w[i].row = Needs(list[i])
  BY <1>3 DEF Item
<1>8. Plain2(w)
  <2>1. \A k \in DOMAIN w : w[k].op \notin RoutineOps \cup {"returns"}
    BY <1>6, <1>7 DEF RoutineOps, ReadOps
  <2> QED
    BY <1>6, <2>1, PlainItems
<1>9. ASSUME NEW o \in Object, ToTell(o)
      PROVE  Due(o, w) = Says(o, Head(work)) /\ WorkRight(o, w)
  <2>1. CASE kind(o) # "procedure"
    <3>1. \A i \in 1 .. n : Says(o, w[i]) = <<>>
      BY <1>7, <2>1, SaysOfRoutine DEF RoutinePart
    <3>2. Due(o, w) = <<>>
      BY <1>5, <1>6, <3>1, DueNothing
    <3>3. Says(o, Head(work)) = <<>>
      BY <1>4, <2>1, SaysOfList DEF Kind
    <3>4. WorkRight(o, w)
      BY <1>6, <1>7, <2>1 DEF WorkRight, RowRight, ReadOps
    <3> QED
      BY <3>2, <3>3, <3>4
  <2>2. CASE kind(o) = "procedure"
    <3>1. PICK i : Placed(o, list, i)
      BY <1>5, <1>9, <2>2, ListedHas
    <3>2. i \in 1 .. n /\ list[i] = o /\ \A j \in 1 .. n : j # i => name(list[j]) # name(o)
      BY <1>2, <3>1 DEF Placed
    <3>3. \A j \in 1 .. n : j # i => Says(o, w[j]) = <<>>
      BY <1>7, <3>2, SaysOfRoutine DEF RoutinePart
    <3>4. Due(o, w) = Says(o, w[i])
      <4>1. n \in Nat /\ ListLong(w, n) /\ i \in 1 .. n
        BY <1>5, <1>6, <3>2
      <4> QED
        BY <3>3, <4>1, DueAlone
    <3>5. Says(o, w[i]) = <<ProcedureSaid(o)>>
      BY <1>7, <2>2, <3>2, SaysOfRoutine DEF RoutinePart
    <3>6. Says(o, Head(work)) = Script(o)
      BY <1>4, <2>2, SaysOfList DEF Kind
    <3>7. Script(o) = <<ProcedureSaid(o)>>
      BY <2>2 DEF Script
    <3>8. WorkRight(o, w)
      <4> SUFFICES ASSUME NEW k \in DOMAIN w, w[k].of = name(o)
                   PROVE  RowRight(o, w[k])
        BY DEF WorkRight
      <4>1. k = i
        BY <1>6, <1>7, <3>2
      <4> QED
        BY <1>7, <2>2, <3>2, <4>1 DEF RowRight, ReadOps
    <3> QED
      BY <3>4, <3>5, <3>6, <3>7, <3>8
  <2> QED
    BY <2>1, <2>2
<1>10. Head(work).op \notin ReadOps \cup {"arguments"}
  BY <1>4, ListOpIs DEF ReadOps
<1> QED
  BY <1>4, <1>8, <1>9, <1>10, ItemsTell

-----------------------------------------------------------------------------
\* The tables: three items for each.
ColumnsItem(p) == Item("columns", name(p), <<>>)
ConstraintsItem(p) == Item("constraints", name(p), <<>>)
IndexesItem(p) == Item("indexes", name(p), <<>>)
TableItems(p) == <<ColumnsItem(p), ConstraintsItem(p), IndexesItem(p)>>

LEMMA TableItemsSay ==
    ASSUME NEW o \in Object, NEW p
    PROVE  /\ kind(o) = "table" /\ name(p) = name(o) => Due(o, TableItems(p)) = Script(o)
           /\ kind(o) # "table" \/ name(p) # name(o) => Due(o, TableItems(p)) = <<>>
<1>1. PICK a, b, c : a = ColumnsItem(p) /\ b = ConstraintsItem(p) /\ c = IndexesItem(p)
  OBVIOUS
<1>2. /\ a.op = "columns" /\ b.op = "constraints" /\ c.op = "indexes"
      /\ a.of = name(p) /\ b.of = name(p) /\ c.of = name(p)
  BY <1>1 DEF ColumnsItem, ConstraintsItem, IndexesItem, Item
<1>3. Due(o, TableItems(p)) = Concat(Says(o, a), Concat(Says(o, b), Says(o, c)))
  <2>1. Due(o, <<a, b, c>>) = Concat(Says(o, a), Concat(Says(o, b), Says(o, c)))
    BY ThreeDue
  <2> QED
    BY <1>1, <2>1 DEF TableItems
<1>4. CASE kind(o) = "table" /\ name(p) = name(o)
  <2>1. Says(o, a) = OfTable(o, a) /\ Says(o, b) = OfTable(o, b) /\ Says(o, c) = OfTable(o, c)
    BY <1>2, <1>4, SaysOfTable DEF TableOps
  <2>2. OfTable(o, a) = <<TableSaid(o)>> /\ OfTable(o, b) = KeysSaid(o) /\ OfTable(o, c) = IndexesSaid(o)
    BY <1>2 DEF OfTable
  <2>3. Script(o) = Concat(<<TableSaid(o)>>, Concat(KeysSaid(o), IndexesSaid(o)))
    BY <1>4 DEF Script
  <2> QED
    BY <1>3, <1>4, <2>1, <2>2, <2>3
<1>5. CASE kind(o) # "table" \/ name(p) # name(o)
  <2>1. Says(o, a) = <<>> /\ Says(o, b) = <<>> /\ Says(o, c) = <<>>
    BY <1>2, <1>5, SaysOfTable DEF TableOps
  <2>2. Concat(<<>>, <<>>) = <<>>
    <3>1. <<>> \in Seq({})
      OBVIOUS
    <3> QED
      BY <3>1, ConcatIs
  <2> QED
    BY <1>3, <1>5, <2>1, <2>2
<1> QED
  BY <1>4, <1>5

LEMMA TablesTell ==
    ASSUME Telling, extract_tables
    PROVE  TellInv'
<1>1. PICK list : list = Listed({"table"})
  OBVIOUS
<1>2. PICK n : n = Len(list)
  OBVIOUS
<1>3. PICK ss : ss = [i \in 1 .. n |-> TableItems(list[i])]
  OBVIOUS
<1>4. Goes(FlattenSeq(ss), <<>>) /\ Head(work).op = ListOp["table"]
  BY <1>1, <1>2, <1>3, ListOpIs
  DEF extract_tables, ForEach, At, TableItems, ColumnsItem, ConstraintsItem, IndexesItem
<1>5. n \in Nat /\ list = Listed({"table"}) /\ TypeOK /\ Slots
  BY <1>1, <1>2, ListedIs DEF Telling
<1>6. PICK A : A = {ColumnsItem(list[i]) : i \in 1 .. n} \cup {ConstraintsItem(list[i]) : i \in 1 .. n}
                     \cup {IndexesItem(list[i]) : i \in 1 .. n}
  OBVIOUS
<1>7. \A i \in 1 .. n : TableItems(list[i]) \in Seq(A)
  <2> SUFFICES ASSUME NEW i \in 1 .. n
               PROVE  TableItems(list[i]) \in Seq(A)
    OBVIOUS
  <2>1. PICK a, b, c : a = ColumnsItem(list[i]) /\ b = ConstraintsItem(list[i]) /\ c = IndexesItem(list[i])
    OBVIOUS
  <2>2. a \in A /\ b \in A /\ c \in A
    BY <1>6, <2>1
  <2>3. <<a, b, c>> \in Seq(A)
    BY <2>2
  <2> QED
    BY <2>1, <2>3 DEF TableItems
<1>8. ListsIn(ss, n, A)
  BY <1>3, <1>7 DEF ListsIn
<1>9. PICK w : w = FlattenSeq(ss)
  OBVIOUS
<1>10. w \in Seq(A)
  <2>1. ss \in [1 .. n -> Seq(A)] /\ DOMAIN ss = 1 .. n /\ Len(ss) = n
    BY <1>3, <1>5, <1>8 DEF ListsIn
  <2>2. \A i \in 1 .. n : ss[i] \in Seq(A)
    BY <2>1
  <2> QED
    BY <1>5, <1>9, <2>1, <2>2, FlattenIs
<1>11. \A x \in A : x.op \in {"columns", "constraints", "indexes"}
  BY <1>6 DEF ColumnsItem, ConstraintsItem, IndexesItem, Item
<1>12. IsSome(w) /\ \A k \in DOMAIN w : w[k].op \in {"columns", "constraints", "indexes"}
  BY <1>10, <1>11 DEF IsSome
<1>13. Plain2(w)
  <2>1. \A k \in DOMAIN w : w[k].op \notin RoutineOps \cup {"returns"}
    BY <1>12 DEF RoutineOps, ReadOps
  <2> QED
    BY <1>12, <2>1, PlainItems
<1>14. ASSUME NEW o \in Object, ToTell(o)
       PROVE  Due(o, w) = Says(o, Head(work)) /\ WorkRight(o, w)
  <2>0. WorkRight(o, w)
    BY <1>12 DEF WorkRight, RowRight, ReadOps
  <2>1. CASE kind(o) # "table"
    <3>1. \A i \in 1 .. n : Due(o, ss[i]) = <<>>
      BY <1>3, <2>1, TableItemsSay
    <3>2. Due(o, FlattenSeq(ss)) = <<>>
      BY <1>5, <1>8, <3>1, DueFlatNone
    <3>3. Says(o, Head(work)) = <<>>
      BY <1>4, <2>1, SaysOfList DEF Kind
    <3> QED
      BY <1>9, <2>0, <3>2, <3>3
  <2>2. CASE kind(o) = "table"
    <3>1. PICK i : Placed(o, list, i)
      BY <1>5, <1>14, <2>2, ListedHas
    <3>2. i \in 1 .. n /\ list[i] = o /\ \A j \in 1 .. n : j # i => name(list[j]) # name(o)
      BY <1>2, <3>1 DEF Placed
    <3>3. \A j \in 1 .. n : j # i => Due(o, ss[j]) = <<>>
      BY <1>3, <3>2, TableItemsSay
    <3>4. Due(o, FlattenSeq(ss)) = Due(o, ss[i])
      <4>1. i \in 1 .. n /\ n \in Nat
        BY <1>5, <3>2
      <4> QED
        BY <1>8, <3>3, <4>1, DueFlat
    <3>5. Due(o, ss[i]) = Script(o)
      BY <1>3, <2>2, <3>2, TableItemsSay
    <3>6. Says(o, Head(work)) = Script(o)
      BY <1>4, <2>2, SaysOfList DEF Kind
    <3> QED
      BY <1>9, <2>0, <3>4, <3>5, <3>6
  <2> QED
    BY <2>1, <2>2
<1>15. Head(work).op \notin ReadOps \cup {"arguments"}
  BY <1>4, ListOpIs DEF ReadOps
<1>16. Goes(w, <<>>)
  BY <1>4, <1>9
<1> QED
  BY <1>13, <1>14, <1>15, <1>16, ItemsTell

-----------------------------------------------------------------------------
\* The functions: two items for each, which stay together.
ArgumentsItem(p) == Item("arguments", name(p), <<>>)
ReturnsItem(p) == Item("returns", name(p), Needs(p))
FunctionItems(p) == <<ArgumentsItem(p), ReturnsItem(p)>>

LEMMA FunctionItemsSay ==
    ASSUME NEW o \in Object, NEW p
    PROVE  /\ kind(o) = "function" /\ name(p) = name(o) => Due(o, FunctionItems(p)) = Script(o)
           /\ kind(o) # "function" \/ name(p) # name(o) => Due(o, FunctionItems(p)) = <<>>
<1>1. PICK a, b : a = ArgumentsItem(p) /\ b = ReturnsItem(p)
  OBVIOUS
<1>2. a.op = "arguments" /\ b.op = "returns" /\ a.of = name(p) /\ b.of = name(p)
  BY <1>1 DEF ArgumentsItem, ReturnsItem, Item
<1>3. Due(o, FunctionItems(p)) = Concat(Says(o, a), Says(o, b))
  <2>1. Due(o, <<a, b>>) = Concat(Says(o, a), Says(o, b))
    BY TwoDue
  <2> QED
    BY <1>1, <2>1 DEF FunctionItems
<1>4. Says(o, a) = <<>>
  BY <1>2, SaysOfRoutine DEF RoutinePart
<1>5. CASE kind(o) = "function" /\ name(p) = name(o)
  <2>1. Says(o, b) = <<FunctionSaid(o)>>
    BY <1>2, <1>5, SaysOfRoutine DEF RoutinePart
  <2>2. Script(o) = <<FunctionSaid(o)>>
    BY <1>5 DEF Script
  <2>3. PICK x : x = <<FunctionSaid(o)>>
    OBVIOUS
  <2>4. x \in Seq({FunctionSaid(o)})
    BY <2>3
  <2>5. Concat(<<>>, x) = x
    BY <2>4, ConcatIs
  <2> QED
    BY <1>3, <1>4, <1>5, <2>1, <2>2, <2>3, <2>5
<1>6. CASE kind(o) # "function" \/ name(p) # name(o)
  <2>1. Says(o, b) = <<>>
    BY <1>2, <1>6, SaysOfRoutine DEF RoutinePart
  <2>2. Concat(<<>>, <<>>) = <<>>
    <3>1. <<>> \in Seq({})
      OBVIOUS
    <3> QED
      BY <3>1, ConcatIs
  <2> QED
    BY <1>3, <1>4, <1>6, <2>1, <2>2
<1> QED
  BY <1>5, <1>6

LEMMA FunctionItemsAre ==
    ASSUME NEW p, NEW t, t = FunctionItems(p)
    PROVE  /\ DOMAIN t = {1, 2} /\ t[1] = ArgumentsItem(p) /\ t[2] = ReturnsItem(p)
           /\ t[1].op = "arguments" /\ t[2].op = "returns" /\ t[1].of = name(p) /\ t[2].of = name(p)
           /\ t[2].row = Needs(p)
<1>1. PICK a, b : a = ArgumentsItem(p) /\ b = ReturnsItem(p)
  OBVIOUS
<1>2. t = <<a, b>>
  BY <1>1 DEF FunctionItems
<1>3. DOMAIN t = {1, 2} /\ t[1] = a /\ t[2] = b
  BY <1>2, TwoIs
<1>4. a.op = "arguments" /\ b.op = "returns" /\ a.of = name(p) /\ b.of = name(p) /\ b.row = Needs(p)
  BY <1>1 DEF ArgumentsItem, ReturnsItem, Item
<1> QED
  BY <1>1, <1>3, <1>4

\* The pairs of a list of pairs.
PairsOf(ss, n) ==
    \A i \in 1 .. n : /\ DOMAIN ss[i] = {1, 2} /\ ss[i][1].of = ss[i][2].of
                      /\ ss[i][1].op = "arguments" /\ ss[i][2].op = "returns"

LEMMA PairsJoined ==
    ASSUME NEW A, NEW n \in Nat, NEW ss, PairsOf(ss, n), NEW w \in Seq(A),
           NEW at, Joins(w, ss, n, at)
    PROVE  Plain2(w)
<1>1. DOMAIN w = 1 .. Len(w) /\ Len(w) \in Nat
  OBVIOUS
<1>2. ASSUME NEW p \in DOMAIN w
      PROVE  /\ at[p][1] \in 1 .. n /\ at[p][2] \in {1, 2}
             /\ w[p] = ss[at[p][1]][at[p][2]]
             /\ (at[p][2] = 1 => w[p].op = "arguments") /\ (at[p][2] = 2 => w[p].op = "returns")
  <2>1. at[p] \in (1 .. n) \X Nat
    BY DEF Joins
  <2>2. at[p][1] \in 1 .. n
    BY <2>1
  <2>3. at[p][2] \in DOMAIN ss[at[p][1]] /\ w[p] = ss[at[p][1]][at[p][2]]
    BY DEF Joins
  <2> QED
    BY <2>2, <2>3 DEF PairsOf
<1>3. ASSUME NEW p \in DOMAIN w, w[p].op = "returns"
      PROVE  p > 1 /\ w[p - 1].op = "arguments" /\ w[p - 1].of = w[p].of
  <2>1. PICK i \in 1 .. n : i = at[p][1]
    BY <1>2
  <2>2. at[p][2] = 2
    BY <1>2, <1>3
  <2>3. 1 \in DOMAIN ss[i]
    BY DEF PairsOf
  <2>4. PICK q \in DOMAIN w : at[q] = <<i, 1>>
    BY <2>3 DEF Joins
  <2>5. at[q][1] = i /\ at[q][2] = 1
    BY <2>4
  <2>6. q < p
    <3>1. p < q => at[p][1] < at[q][1] \/ (at[p][1] = at[q][1] /\ at[p][2] < at[q][2])
      BY DEF Joins
    <3>2. p # q
      BY <2>2, <2>5
    <3> QED
      BY <1>1, <2>1, <2>2, <2>5, <3>1, <3>2
  <2>7. p - 1 \in DOMAIN w /\ p > 1 /\ q \in Nat /\ p \in Nat
    BY <1>1, <2>6
  <2>8. q = p - 1
    <3> SUFFICES ASSUME q < p - 1
                 PROVE  FALSE
      BY <2>6, <2>7
    <3>1. at[q][1] < at[p - 1][1] \/ (at[q][1] = at[p - 1][1] /\ at[q][2] < at[p - 1][2])
      BY <2>7 DEF Joins
    <3>2. at[p - 1][1] < at[p][1] \/ (at[p - 1][1] = at[p][1] /\ at[p - 1][2] < at[p][2])
      <4>1. p - 1 < p
        BY <2>7
      <4> QED
        BY <2>7, <4>1 DEF Joins
    <3>3. at[p - 1][1] \in 1 .. n /\ at[p - 1][2] \in {1, 2}
      BY <1>2, <2>7
    <3> QED
      BY <2>1, <2>2, <2>5, <3>1, <3>2, <3>3
  <2>9. w[q] = ss[i][1] /\ w[p] = ss[i][2]
    BY <1>2, <2>1, <2>2, <2>5
  <2>10. ss[i][1].of = ss[i][2].of /\ ss[i][1].op = "arguments"
    BY DEF PairsOf
  <2> QED
    BY <2>7, <2>8, <2>9, <2>10
<1>4. NoRoutine(w)
  BY <1>2 DEF NoRoutine, RoutineOps, ReadOps
<1>5. Paired(w)
  BY <1>3 DEF Paired
<1>6. NoResult(w)
  <2> SUFFICES ASSUME w # <<>>, w[1].op = "returns"
               PROVE  FALSE
    BY DEF NoResult
  <2>1. 1 \in DOMAIN w
    BY <1>1
  <2>2. 1 > 1
    BY <1>3, <2>1
  <2> QED
    BY <2>2
<1>7. IsSome(w)
  BY DEF IsSome
<1> QED
  BY <1>4, <1>5, <1>6, <1>7 DEF Plain2

LEMMA FunctionsTell ==
    ASSUME Telling, extract_functions
    PROVE  TellInv'
<1>1. PICK list : list = Listed({"function"})
  OBVIOUS
<1>2. PICK n : n = Len(list)
  OBVIOUS
<1>3. PICK ss : ss = [i \in 1 .. n |-> FunctionItems(list[i])]
  OBVIOUS
<1>4. Goes(FlattenSeq(ss), <<>>) /\ Head(work).op = ListOp["function"]
  BY <1>1, <1>2, <1>3, ListOpIs
  DEF extract_functions, ForEach, At, FunctionItems, ArgumentsItem, ReturnsItem
<1>5. n \in Nat /\ list = Listed({"function"}) /\ TypeOK /\ Slots
  BY <1>1, <1>2, ListedIs DEF Telling
<1>6. PICK A : A = {ArgumentsItem(list[i]) : i \in 1 .. n} \cup {ReturnsItem(list[i]) : i \in 1 .. n}
  OBVIOUS
<1>7. \A i \in 1 .. n : FunctionItems(list[i]) \in Seq(A)
  <2> SUFFICES ASSUME NEW i \in 1 .. n
               PROVE  FunctionItems(list[i]) \in Seq(A)
    OBVIOUS
  <2>1. PICK a, b : a = ArgumentsItem(list[i]) /\ b = ReturnsItem(list[i])
    OBVIOUS
  <2>2. a \in A /\ b \in A
    BY <1>6, <2>1
  <2>3. <<a, b>> \in Seq(A)
    BY <2>2
  <2> QED
    BY <2>1, <2>3 DEF FunctionItems
<1>8. ListsIn(ss, n, A)
  BY <1>3, <1>7 DEF ListsIn
<1>9. PICK w : w = FlattenSeq(ss)
  OBVIOUS
<1>10. w \in Seq(A) /\ \E at : Joins(w, ss, n, at)
  <2>1. ss \in [1 .. n -> Seq(A)] /\ DOMAIN ss = 1 .. n /\ Len(ss) = n
    BY <1>3, <1>5, <1>8 DEF ListsIn
  <2>2. \A i \in 1 .. n : ss[i] \in Seq(A)
    BY <2>1
  <2> QED
    BY <1>5, <1>9, <2>1, <2>2, FlattenIs
<1>11. PairsOf(ss, n)
  BY <1>3, FunctionItemsAre DEF PairsOf
<1>12. Plain2(w)
  <2>1. PICK at : Joins(w, ss, n, at)
    BY <1>10
  <2> QED
    BY <1>5, <1>10, <1>11, <2>1, PairsJoined
<1>13. \A x \in A : /\ x.op \in {"arguments", "returns"}
                    /\ x.op = "returns" =>
                          \E i \in 1 .. n : x.of = name(list[i]) /\ x.row = Needs(list[i])
  BY <1>6 DEF ArgumentsItem, ReturnsItem, Item
<1>14. \A k \in DOMAIN w : w[k] \in A
  BY <1>10
<1>15. ASSUME NEW o \in Object, ToTell(o)
       PROVE  Due(o, w) = Says(o, Head(work)) /\ WorkRight(o, w)
  <2>0. WorkRight(o, w)
    <3> SUFFICES ASSUME NEW k \in DOMAIN w, w[k].of = name(o)
                 PROVE  RowRight(o, w[k])
      BY DEF WorkRight
    <3>1. w[k].op \in {"arguments", "returns"}
      BY <1>13, <1>14
    <3>2. ASSUME kind(o) = "function", w[k].op = "returns"
          PROVE  w[k].row = Needs(o)
      <4>1. PICK i \in 1 .. n : w[k].of = name(list[i]) /\ w[k].row = Needs(list[i])
        BY <1>13, <1>14, <3>2
      <4>2. list[i] = o
        <5>1. i \in 1 .. Len(list) /\ name(list[i]) = name(o)
          BY <1>2, <4>1
        <5> QED
          BY <1>5, <1>15, <3>2, <5>1, ListedSame
      <4> QED
        BY <4>1, <4>2
    <3> QED
      BY <3>1, <3>2 DEF RowRight, ReadOps
  <2>1. CASE kind(o) # "function"
    <3>1. \A i \in 1 .. n : Due(o, ss[i]) = <<>>
      BY <1>3, <2>1, FunctionItemsSay
    <3>2. Due(o, FlattenSeq(ss)) = <<>>
      BY <1>5, <1>8, <3>1, DueFlatNone
    <3>3. Says(o, Head(work)) = <<>>
      BY <1>4, <2>1, SaysOfList DEF Kind
    <3> QED
      BY <1>9, <2>0, <3>2, <3>3
  <2>2. CASE kind(o) = "function"
    <3>1. PICK i : Placed(o, list, i)
      BY <1>5, <1>15, <2>2, ListedHas
    <3>2. i \in 1 .. n /\ list[i] = o /\ \A j \in 1 .. n : j # i => name(list[j]) # name(o)
      BY <1>2, <3>1 DEF Placed
    <3>3. \A j \in 1 .. n : j # i => Due(o, ss[j]) = <<>>
      BY <1>3, <3>2, FunctionItemsSay
    <3>4. Due(o, FlattenSeq(ss)) = Due(o, ss[i])
      <4>1. i \in 1 .. n /\ n \in Nat
        BY <1>5, <3>2
      <4> QED
        BY <1>8, <3>3, <4>1, DueFlat
    <3>5. Due(o, ss[i]) = Script(o)
      BY <1>3, <2>2, <3>2, FunctionItemsSay
    <3>6. Says(o, Head(work)) = Script(o)
      BY <1>4, <2>2, SaysOfList DEF Kind
    <3> QED
      BY <1>9, <2>0, <3>4, <3>5, <3>6
  <2> QED
    BY <2>1, <2>2
<1>16. Head(work).op \notin ReadOps \cup {"arguments"}
  BY <1>4, ListOpIs DEF ReadOps
<1>17. Goes(w, <<>>)
  BY <1>4, <1>9
<1> QED
  BY <1>12, <1>15, <1>16, <1>17, ItemsTell

-----------------------------------------------------------------------------
\* The parts of one table.
LEMMA TellingApt ==
    ASSUME Telling, NEW o \in Object, ToTell(o), kind(o) = "table"
    PROVE  /\ Columns(name(o)) = World[o].cols /\ Constraints(name(o)) = World[o].cons
           /\ Indexes(name(o)) = World[o].idx /\ o \in db /\ o \in User({"table"})
<1>1. Apt(o, stable)
  BY DEF ToTell, Extracted, Apt, Relation
<1>2. o \in db /\ o \in User({"table"})
  BY DEF ToTell, Extracted, User, Telling, TypeOK, CatalogTypeOK
<1> QED
  BY <1>1, <1>2, AptIs DEF Telling

\* One statement of what the head of the work is of.
LEMMA OneSaid ==
    ASSUME Telling, Head(work).op \notin ReadOps \cup {"arguments"}, NEW s, Goes(<<>>, <<s>>),
           \A o \in Object : ToTell(o) =>
              /\ Regards(o, s) => <<s>> = Says(o, Head(work))
              /\ ~ Regards(o, s) => Says(o, Head(work)) = <<>>
    PROVE  TellInv'
<1>1. PICK st : st = <<s>>
  OBVIOUS
<1>2. IsSome(st) /\ Goes(<<>>, st)
  BY <1>1, OneIsSome
<1>3. \A o \in Object : ToTell(o) => Said(o, st) = Says(o, Head(work))
  <2> SUFFICES ASSUME NEW o \in Object, ToTell(o)
               PROVE  Said(o, st) = Says(o, Head(work))
    OBVIOUS
  <2>1. Said(o, st) = Told1(o, s)
    BY <1>1, SaidOne
  <2> QED
    BY <1>1, <2>1 DEF Told1
<1> QED
  BY <1>2, <1>3, OneTells

LEMMA ColumnsTell ==
    ASSUME Telling, table_columns
    PROVE  TellInv'
<1>1. PICK s : s = [stmt |-> "table", name |-> Of, cols |-> ForEach(Columns(Of), ColumnDef)]
  OBVIOUS
<1>2. Goes(<<>>, <<s>>) /\ Head(work).op = "columns"
  BY <1>1 DEF table_columns, At
<1>3. What(s) = "table" /\ Whose(s) = Of /\ Of = Head(work).of
  BY <1>1 DEF What, Whose, Of
<1>4. ASSUME NEW o \in Object, ToTell(o)
      PROVE  /\ Regards(o, s) => <<s>> = Says(o, Head(work))
             /\ ~ Regards(o, s) => Says(o, Head(work)) = <<>>
  <2>1. CASE kind(o) = "table" /\ Head(work).of = name(o)
    <3>1. Says(o, Head(work)) = OfTable(o, Head(work))
      BY <1>2, <2>1, SaysOfTable DEF TableOps
    <3>2. OfTable(o, Head(work)) = <<TableSaid(o)>>
      BY <1>2 DEF OfTable
    <3>3. Of = name(o) /\ Columns(name(o)) = World[o].cols
      BY <1>3, <1>4, <2>1, TellingApt
    <3>4. Columns(Of) = World[o].cols
      BY <3>3
    <3>5. s = TableSaid(o)
      BY <1>1, <3>3, <3>4 DEF TableSaid
    <3>6. Regards(o, s)
      BY <1>3, <2>1 DEF Regards
    <3> QED
      BY <3>1, <3>2, <3>5, <3>6
  <2>2. CASE ~ (kind(o) = "table" /\ Head(work).of = name(o))
    <3>1. ~ Regards(o, s)
      BY <1>3, <2>2 DEF Regards
    <3>2. Says(o, Head(work)) = <<>>
      BY <1>2, <2>2, SaysOfTable DEF TableOps
    <3> QED
      BY <3>1, <3>2
  <2> QED
    BY <2>1, <2>2
<1>5. Head(work).op \notin ReadOps \cup {"arguments"}
  BY <1>2 DEF ReadOps
<1> QED
  BY <1>2, <1>4, <1>5, OneSaid

\* The keys: an item for each.
LEMMA ConstraintsTell ==
    ASSUME Telling, table_constraints
    PROVE  TellInv'
<1>1. PICK keys : keys = Keyed(Constraints(Of))
  OBVIOUS
<1>2. PICK n : n = Len(keys)
  OBVIOUS
<1>3. PICK w : w = [k \in 1 .. n |-> KeyItem(keys[k])]
  OBVIOUS
<1>4. Goes(w, <<>>) /\ Head(work).op = "constraints" /\ Of = Head(work).of
  BY <1>1, <1>2, <1>3 DEF table_constraints, KeyItems, ForEach, At, Of
<1>5. n \in Nat /\ keys \in Seq(ConstraintData) /\ DOMAIN keys = 1 .. n
  <2>1. Constraints(Of) \in Seq(ConstraintData) /\ NamesDiffer(Constraints(Of))
    BY TableDataIs DEF Telling
  <2>2. PICK cons : cons = Constraints(Of)
    OBVIOUS
  <2>3. PICK places : places = {k \in DOMAIN cons : cons[k].type \in {"PRIMARY KEY", "UNIQUE", "FOREIGN KEY"}}
    OBVIOUS
  <2>4. keys = Chosen(cons, places)
    BY <1>1, <2>2, <2>3 DEF Keyed, Where
  <2>5. places \in SUBSET DOMAIN cons
    BY <2>3
  <2>6. keys \in Seq(ConstraintData)
    BY <2>1, <2>2, <2>4, <2>5, ChosenIs
  <2> QED
    BY <1>2, <2>6
<1>6. ListLong(w, n) /\ IsSome(w) /\ DOMAIN w = 1 .. n
  <2>1. w = [i \in 1 .. n |-> w[i]]
    BY <1>3
  <2> QED
    BY <1>5, <2>1, EachIsSome DEF ListLong
<1>7. ASSUME NEW k \in 1 .. n
      PROVE  /\ w[k].op \in {"key", "foreign_key"} /\ w[k].of = Head(work).of /\ w[k].row = keys[k]
             /\ w[k].op = "foreign_key" <=> keys[k].type = "FOREIGN KEY"
  BY <1>3, <1>4 DEF KeyItem, Item
<1>8. Plain2(w)
  <2>1. \A k \in DOMAIN w : w[k].op \notin RoutineOps \cup {"returns"}
    BY <1>6, <1>7 DEF RoutineOps, ReadOps
  <2> QED
    BY <1>6, <2>1, PlainItems
<1>9. ASSUME NEW o \in Object, ToTell(o)
      PROVE  Due(o, w) = Says(o, Head(work)) /\ WorkRight(o, w)
  <2>1. CASE ~ (kind(o) = "table" /\ Head(work).of = name(o))
    <3>1. Says(o, Head(work)) = <<>>
      BY <1>4, <2>1, SaysOfTable DEF TableOps
    <3>2. ASSUME NEW k \in 1 .. n PROVE Says(o, w[k]) = <<>>
      <4>1. w[k].op \in TableOps /\ w[k].of = Head(work).of
        BY <1>7 DEF TableOps
      <4>2. kind(o) # "table" \/ w[k].of # name(o)
        BY <2>1, <4>1
      <4> QED
        BY <4>1, <4>2, SaysOfTable
    <3>3. Due(o, w) = <<>>
      BY <1>5, <1>6, <3>2, DueNothing
    <3>4. WorkRight(o, w)
      BY <1>6, <1>7, <2>1 DEF WorkRight, RowRight, ReadOps
    <3> QED
      BY <3>1, <3>3, <3>4
  <2>2. CASE kind(o) = "table" /\ Head(work).of = name(o)
    <3>1. Says(o, Head(work)) = KeysSaid(o)
      <4>1. Says(o, Head(work)) = OfTable(o, Head(work))
        BY <1>4, <2>2, SaysOfTable DEF TableOps
      <4> QED
        BY <1>4, <4>1 DEF OfTable
    <3>2. Constraints(Of) = World[o].cons
      <4>1. Constraints(name(o)) = World[o].cons
        BY <1>9, <2>2, TellingApt
      <4> QED
        BY <1>4, <2>2, <4>1
    <3>3. keys = Keyed(World[o].cons)
      BY <1>1, <3>2
    <3>4. PICK x : x = [k \in 1 .. n |-> KeySaid(o, keys[k])]
      OBVIOUS
    <3>5. KeysSaid(o) = x
      BY <1>2, <3>3, <3>4 DEF KeysSaid
    <3>6. \A k \in 1 .. n : Says(o, w[k]) = <<x[k]>>
      <4> SUFFICES ASSUME NEW k \in 1 .. n
                   PROVE  Says(o, w[k]) = <<x[k]>>
        OBVIOUS
      <4>1. Says(o, w[k]) = OfTable(o, w[k])
        <5>1. w[k].op \in TableOps /\ w[k].of = Head(work).of
          BY <1>7 DEF TableOps
        <5>2. kind(o) = "table" /\ w[k].of = name(o)
          BY <2>2, <5>1
        <5> QED
          BY <5>1, <5>2, SaysOfTable
      <4>2. OfTable(o, w[k]) = <<KeySaid(o, keys[k])>>
        BY <1>7 DEF OfTable
      <4> QED
        BY <3>4, <4>1, <4>2
    <3>7. ListLong(x, n)
      BY <3>4 DEF ListLong
    <3>8. Due(o, w) = x
      BY <1>5, <1>6, <3>6, <3>7, DueSingles
    <3>9. WorkRight(o, w)
      <4> SUFFICES ASSUME NEW k \in DOMAIN w
                   PROVE  RowRight(o, w[k])
        BY DEF WorkRight
      <4>1. k \in 1 .. n
        BY <1>6
      <4>2. keys[k] \in ToSet(keys)
        BY <1>5, <4>1 DEF ToSet
      <4>3. w[k].row \in ToSet(Keyed(World[o].cons))
        BY <1>7, <3>3, <4>1, <4>2
      <4>4. w[k].op = "foreign_key" <=> w[k].row.type = "FOREIGN KEY"
        BY <1>7, <4>1
      <4> QED
        BY <2>2, <4>3, <4>4 DEF RowRight
    <3> QED
      BY <3>1, <3>5, <3>8, <3>9
  <2> QED
    BY <2>1, <2>2
<1>10. Head(work).op \notin ReadOps \cup {"arguments"}
  BY <1>4 DEF ReadOps
<1> QED
  BY <1>4, <1>8, <1>9, <1>10, ItemsTell

LEMMA KeyedAre ==
    ASSUME NEW o \in Object, kind(o) = "table", NEW c \in ToSet(Keyed(World[o].cons))
    PROVE  /\ c \in ToSet(World[o].cons) /\ c \in ConstraintData
           /\ c.type \in {"PRIMARY KEY", "UNIQUE", "FOREIGN KEY"}
           /\ c.type # "FOREIGN KEY" => c.ref = 0
<1>1. PICK cons : cons = World[o].cons
  OBVIOUS
<1>2. cons \in Seq(ConstraintData)
  BY <1>1, KeysAre
<1>3. PICK places : places = {k \in DOMAIN cons : cons[k].type \in {"PRIMARY KEY", "UNIQUE", "FOREIGN KEY"}}
  OBVIOUS
<1>4. PICK keys : keys = Chosen(cons, places)
  OBVIOUS
<1>5. keys = Keyed(World[o].cons)
  BY <1>1, <1>3, <1>4 DEF Keyed, Where
<1>6. places \in SUBSET DOMAIN cons
  BY <1>3
<1>7. keys \in Seq(ConstraintData) /\ \E at : Picks(keys, cons, places, at)
  BY <1>2, <1>4, <1>6, ChosenIs
<1>8. PICK at : Picks(keys, cons, places, at)
  BY <1>7
<1>9. PICK k \in DOMAIN keys : c = keys[k]
  BY <1>5, <1>7 DEF ToSet
<1>10. at[k] \in places /\ c = cons[at[k]]
  BY <1>8, <1>9 DEF Picks
<1>11. at[k] \in DOMAIN cons /\ c.type \in {"PRIMARY KEY", "UNIQUE", "FOREIGN KEY"}
  BY <1>3, <1>10
<1>12. c \in ToSet(cons) /\ c \in ConstraintData
  <2>1. PICK i : i = at[k]
    OBVIOUS
  <2>2. i \in DOMAIN cons /\ c = cons[i]
    BY <1>10, <1>11, <2>1
  <2>3. cons[i] \in ConstraintData
    BY <1>2, <2>2
  <2>4. cons[i] \in ToSet(cons)
    BY <2>2 DEF ToSet
  <2> QED
    BY <2>2, <2>3, <2>4
<1>13. c.type # "FOREIGN KEY" => c.ref = 0
  BY <1>1, <1>12, WorldAssumption
<1> QED
  BY <1>1, <1>11, <1>12, <1>13

\* A constraint with an index is known by its name, among those of all tables.
LEMMA CalledOnce ==
    ASSUME Slots, NamesApart, TypeOK, NEW o \in db, kind(o) = "table",
           NEW c \in ToSet(Keyed(World[o].cons))
    PROVE  ConstraintsCalled(c.name) = {c}
<1>1. o \in Object /\ \A p \in db : p \in Object
  BY DEF TypeOK, CatalogTypeOK
<1>2. c \in ConstraintsCalled(c.name)
  BY DEF ConstraintsCalled, Every
<1>3. ASSUME NEW d \in ConstraintsCalled(c.name)
      PROVE  d = c
  <2>1. PICK p \in db : kind(p) = "table" /\ d \in ToSet(Keyed(World[p].cons))
    BY DEF ConstraintsCalled, Every
  <2>2. d.name = c.name
    BY DEF ConstraintsCalled
  <2>3. d.name \in IndexNamesOf(p) /\ c.name \in IndexNamesOf(o)
    BY <2>1 DEF IndexNamesOf
  <2>4. p = o
    <3>1. p # o => IndexesApart(p, o)
      BY DEF NamesApart
    <3>2. IndexesApart(p, o) => IndexNamesOf(p) \cap IndexNamesOf(o) = {}
      BY <2>1 DEF IndexesApart
    <3> QED
      BY <2>2, <2>3, <3>1, <3>2
  <2>5. PICK keys : keys = Keyed(World[o].cons)
    OBVIOUS
  <2>6. NamesDiffer(keys) /\ keys \in Seq(ConstraintData)
    BY <1>1, <2>5, KeysAre
  <2>7. PICK j \in DOMAIN keys : c = keys[j]
    BY <2>5, <2>6 DEF ToSet
  <2>8. PICK k \in DOMAIN keys : d = keys[k]
    BY <2>1, <2>4, <2>5, <2>6 DEF ToSet
  <2>9. j = k
    BY <2>2, <2>6, <2>7, <2>8 DEF NamesDiffer
  <2> QED
    BY <2>7, <2>8, <2>9
<1> QED
  BY <1>2, <1>3

LEMMA HeadRight ==
    ASSUME Telling, NEW o \in Object, ToTell(o), Head(work).of = name(o)
    PROVE  RowRight(o, Head(work))
<1>1. WorkRight(o, work) /\ 1 \in DOMAIN work /\ Head(work) = work[1]
  BY TellingIs DEF TellsOf
<1> QED
  BY <1>1 DEF WorkRight

LEMMA KeysTell ==
    ASSUME Telling, table_key \/ foreign_key
    PROVE  TellInv'
<1>1. PICK ref : /\ Goes(<<>>, <<KeyStmt(ref)>>) /\ Head(work).op \in {"key", "foreign_key"}
                 /\ Head(work).op = "key" => ref = 0
                 /\ Head(work).op = "foreign_key" => ref = Referenced
  BY DEF table_key, foreign_key, At
<1>2. PICK s : s = KeyStmt(ref)
  OBVIOUS
<1>3. PICK c : c = Head(work).row
  OBVIOUS
<1>4. s = [stmt |-> "key", on |-> Head(work).of, name |-> c.name, type |-> c.type,
           cols |-> c.cols, ref |-> ref]
  BY <1>2, <1>3 DEF KeyStmt, Of, Row
<1>5. What(s) = "table" /\ Whose(s) = Head(work).of
  BY <1>4 DEF What, Whose
<1>6. ASSUME NEW o \in Object, ToTell(o)
      PROVE  /\ Regards(o, s) => <<s>> = Says(o, Head(work))
             /\ ~ Regards(o, s) => Says(o, Head(work)) = <<>>
  <2>1. CASE kind(o) = "table" /\ Head(work).of = name(o)
    <3>1. Says(o, Head(work)) = OfTable(o, Head(work))
      BY <1>1, <2>1, SaysOfTable DEF TableOps
    <3>2. OfTable(o, Head(work)) = <<KeySaid(o, c)>>
      BY <1>1, <1>3 DEF OfTable
    <3>3. RowRight(o, Head(work))
      BY <1>6, <2>1, HeadRight
    <3>4. c \in ToSet(Keyed(World[o].cons)) /\ (Head(work).op = "foreign_key" <=> c.type = "FOREIGN KEY")
      BY <1>1, <1>3, <2>1, <3>3 DEF RowRight
    <3>5. ref = c.ref
      <4>1. CASE Head(work).op = "key"
        <5>1. c.type # "FOREIGN KEY"
          BY <3>4, <4>1
        <5>2. c.ref = 0
          BY <2>1, <3>4, <5>1, KeyedAre
        <5> QED
          BY <1>1, <4>1, <5>2
      <4>2. CASE Head(work).op = "foreign_key"
        <5>1. o \in db
          BY <1>6, <2>1, TellingApt
        <5>2. ConstraintsCalled(c.name) = {c}
          BY <2>1, <3>4, <5>1, CalledOnce DEF Telling
        <5>3. The({c}) = c
          BY DEF The
        <5>4. Referenced = c.ref
          BY <1>3, <5>2, <5>3 DEF Referenced, Row
        <5> QED
          BY <1>1, <4>2, <5>4
      <4> QED
        BY <1>1, <4>1, <4>2
    <3>6. s = KeySaid(o, c)
      BY <1>4, <2>1, <3>5 DEF KeySaid
    <3>7. Regards(o, s)
      BY <1>5, <2>1 DEF Regards
    <3> QED
      BY <3>1, <3>2, <3>6, <3>7
  <2>2. CASE ~ (kind(o) = "table" /\ Head(work).of = name(o))
    <3>1. ~ Regards(o, s)
      BY <1>5, <2>2 DEF Regards
    <3>2. Says(o, Head(work)) = <<>>
      BY <1>1, <2>2, SaysOfTable DEF TableOps
    <3> QED
      BY <3>1, <3>2
  <2> QED
    BY <2>1, <2>2
<1>7. Head(work).op \notin ReadOps \cup {"arguments"}
  BY <1>1 DEF ReadOps
<1>8. Goes(<<>>, <<s>>)
  BY <1>1, <1>2
<1> QED
  BY <1>6, <1>7, <1>8, OneSaid

\* The indexes: a statement for each.
LEMMA IndexesTell ==
    ASSUME Telling, table_indexes
    PROVE  TellInv'
<1>1. PICK g : g = Grouped(IndexRows(Of))
  OBVIOUS
<1>2. PICK n : n = Len(g)
  OBVIOUS
<1>3. PICK st : st = [k \in 1 .. n |-> IndexStmt(g[k])]
  OBVIOUS
<1>4. Goes(<<>>, st) /\ Head(work).op = "indexes" /\ Of = Head(work).of
  BY <1>1, <1>2, <1>3 DEF table_indexes, ForEach, At, Of
<1>5. n \in Nat
  <2>1. PICK rows : rows = IndexRows(Of)
    OBVIOUS
  <2>2. IsSome(rows)
    <3>1. PICK at : IndexRowsOf(rows, Indexes(Of), at)
      BY <2>1, IndexRowsAre DEF Telling
    <3> QED
      BY <3>1 DEF IndexRowsOf, IsSome
  <2>3. Len(Grouped(rows)) \in Nat
    BY <2>2, GroupedIsSome
  <2> QED
    BY <1>1, <1>2, <2>1, <2>3
<1>6. ListLong(st, n) /\ IsSome(st)
  <2>1. st = [i \in 1 .. n |-> st[i]]
    BY <1>3
  <2> QED
    BY <1>5, <2>1, EachIsSome DEF ListLong
<1>7. \A k \in 1 .. n : What(st[k]) = "table" /\ Whose(st[k]) = Head(work).of
  BY <1>3, <1>4 DEF IndexStmt, What, Whose
<1>8. ASSUME NEW o \in Object, ToTell(o)
      PROVE  Said(o, st) = Says(o, Head(work))
  <2>1. CASE ~ (kind(o) = "table" /\ Head(work).of = name(o))
    <3>1. \A k \in 1 .. n : ~ Regards(o, st[k])
      BY <1>7, <2>1 DEF Regards
    <3>2. Said(o, st) = <<>>
      BY <1>5, <1>6, <3>1, SaidNothing
    <3>3. Says(o, Head(work)) = <<>>
      BY <1>4, <2>1, SaysOfTable DEF TableOps
    <3> QED
      BY <3>2, <3>3
  <2>2. CASE kind(o) = "table" /\ Head(work).of = name(o)
    <3>1. \A k \in 1 .. n : Regards(o, st[k])
      BY <1>7, <2>2 DEF Regards
    <3>2. Said(o, st) = st
      BY <1>5, <1>6, <3>1, SaidWhole
    <3>3. Says(o, Head(work)) = OfTable(o, Head(work))
      BY <1>4, <2>2, SaysOfTable DEF TableOps
    <3>4. OfTable(o, Head(work)) = IndexesSaid(o)
      BY <1>4 DEF OfTable
    <3>5. Of = name(o) /\ Constraints(Of) = World[o].cons /\ Indexes(Of) = World[o].idx
      <4>1. Constraints(name(o)) = World[o].cons /\ Indexes(name(o)) = World[o].idx
        BY <1>8, <2>2, TellingApt
      <4>2. Of = name(o)
        BY <1>4, <2>2
      <4> QED
        BY <4>1, <4>2
    <3>6. IndexRows(Of) = ShownRows(o)
      <4>1. HasNull(Of) <=> Unindexed(o)
        BY <3>5 DEF HasNull, Unindexed
      <4> QED
        BY <3>5, <4>1 DEF IndexRows, ShownRows
    <3>7. g = Grouped(ShownRows(o))
      BY <1>1, <3>6
    <3>8. IndexesSaid(o) = [k \in 1 .. n |-> IndexSaid(o, g[k])]
      BY <1>2, <3>7 DEF IndexesSaid
    <3>9. \A k \in 1 .. n : IndexSaid(o, g[k]) = IndexStmt(g[k])
      BY <3>5 DEF IndexSaid, IndexStmt
    <3> QED
      BY <1>3, <3>2, <3>3, <3>4, <3>8, <3>9
  <2> QED
    BY <2>1, <2>2
<1>9. Head(work).op \notin ReadOps \cup {"arguments"}
  BY <1>4 DEF ReadOps
<1> QED
  BY <1>4, <1>6, <1>8, <1>9, OneTells

-----------------------------------------------------------------------------
\* The parameters that are still to be read, of lists put together.
LEMMA ReadStands ==
    ASSUME NEW A
    PROVE  \E X : Stands([i \in A |-> ReadOf(i)], A, X)
<1>1. PICK G : G = [i \in A |-> ReadOf(i)]
  OBVIOUS
<1>2. \A x : IsSome(ReadOf(x))
  <2> TAKE x
  <2>1. IsSome(<<Def(x.row)>>) /\ IsSome(<<>>)
    BY OneIsSome, NoneIsSome
  <2> QED
    BY <2>1 DEF ReadOf
<1>3. DOMAIN G = A /\ G = [x \in A |-> G[x]] /\ \A x \in A : IsSome(G[x])
  BY <1>1, <1>2
<1> QED
  BY <1>1, <1>3, StandsForSome

LEMMA ReadIsOver ==
    ASSUME NEW A, NEW w \in Seq(A), NEW G, G = [i \in A |-> ReadOf(i)]
    PROVE  ReadDue(w) = Across(G, w)
<1>1. \A k \in 1 .. Len(w) : w[k] \in A
  OBVIOUS
<1>2. [k \in 1 .. Len(w) |-> ReadOf(w[k])] = [k \in 1 .. Len(w) |-> G[w[k]]]
  BY <1>1
<1> QED
  BY <1>2 DEF ReadDue, Across

LEMMA ReadConcat ==
    ASSUME NEW A, NEW v \in Seq(A), NEW w \in Seq(A)
    PROVE  /\ ReadDue(Concat(v, w)) = Concat(ReadDue(v), ReadDue(w))
           /\ \E X : ReadDue(v) \in Seq(X) /\ ReadDue(w) \in Seq(X)
<1>1. PICK G : G = [i \in A |-> ReadOf(i)]
  OBVIOUS
<1>2. PICK X : Stands(G, A, X)
  BY <1>1, ReadStands
<1>3. Across(G, Concat(v, w)) = Concat(Across(G, v), Across(G, w))
  BY <1>2, OverConcat
<1>4. Across(G, v) \in Seq(X) /\ Across(G, w) \in Seq(X)
  BY <1>2, OverIs
<1>5. PICK u : u = Concat(v, w)
  OBVIOUS
<1>6. u \in Seq(A)
  BY <1>5, ConcatIs
<1>7. ReadDue(u) = Across(G, u) /\ ReadDue(v) = Across(G, v) /\ ReadDue(w) = Across(G, w)
  BY <1>1, <1>6, ReadIsOver
<1> QED
  BY <1>3, <1>4, <1>5, <1>7

LEMMA ReadNone ==
    ASSUME NEW w, IsSome(w), \A k \in DOMAIN w : w[k].op \notin ReadOps
    PROVE  ReadDue(w) = <<>>
<1>1. PICK A : w \in Seq(A)
  BY DEF IsSome
<1>2. PICK G : G = [x \in A |-> ReadOf(x)]
  OBVIOUS
<1>3. PICK X : Stands(G, A, X)
  BY <1>2, ReadStands
<1>4. ReadDue(w) = Across(G, w)
  BY <1>1, <1>2, ReadIsOver
<1>5. \A k \in DOMAIN w : w[k] \in A /\ G[w[k]] = <<>>
  BY <1>1, <1>2 DEF ReadOf
<1>6. Across(G, w) = <<>>
  BY <1>1, <1>3, <1>5, OverNone
<1> QED
  BY <1>4, <1>6

LEMMA ReadOne ==
    ASSUME NEW i
    PROVE  ReadDue(<<i>>) = ReadOf(i)
<1>1. PICK G : G = [x \in {i} |-> ReadOf(x)]
  OBVIOUS
<1>2. PICK X : Stands(G, {i}, X)
  BY <1>1, ReadStands
<1>3. Across(G, <<i>>) = G[i]
  BY <1>2, OverSingle
<1>4. PICK w : w = <<i>>
  OBVIOUS
<1>5. w \in Seq({i})
  BY <1>4
<1>6. ReadDue(w) = Across(G, w)
  BY <1>1, <1>5, ReadIsOver
<1> QED
  BY <1>1, <1>3, <1>4, <1>6

LEMMA ReadSingles ==
    ASSUME NEW n \in Nat, NEW w, ListLong(w, n), NEW x, ListLong(x, n),
           \A k \in 1 .. n : ReadOf(w[k]) = <<x[k]>>
    PROVE  ReadDue(w) = x
<1>1. PICK A : w \in Seq(A) /\ DOMAIN w = 1 .. n /\ Len(w) = n
  BY RowsAreSeq DEF ListLong
<1>2. PICK B : x \in Seq(B) /\ DOMAIN x = 1 .. n /\ Len(x) = n
  BY RowsAreSeq DEF ListLong
<1>3. PICK f : f = [k \in 1 .. Len(w) |-> ReadOf(w[k])]
  OBVIOUS
<1>4. f = [k \in 1 .. n |-> <<x[k]>>]
  BY <1>1, <1>3
<1>5. FlattenSeq(f) = x
  BY <1>2, <1>4, FlatSingles
<1> QED
  BY <1>3, <1>5 DEF ReadDue

\* A routine that is to be told of, by its name.
LEMMA TellingRoutine ==
    ASSUME Telling, NEW o \in Object, ToTell(o), NEW k, kind(o) = k
    PROVE  Called({k}, name(o)) # {} /\ The(Called({k}, name(o))) = o /\ o \in db
<1>1. o \in db /\ ~ World[o].system
  BY DEF ToTell, Extracted, Telling, TypeOK, CatalogTypeOK
<1>2. o \in Called({k}, name(o))
  BY <1>1 DEF Called, User
<1>3. Slots /\ Shares({k}) /\ kind(o) \in {k} /\ Called({k}, name(o)) # {}
  BY <1>2, RelationShares DEF Telling
<1>4. The(Called({k}, name(o))) = o
  BY <1>1, <1>3, TheIs
<1> QED
  BY <1>1, <1>3, <1>4

\* What a step does to the story, the rows and the part of each object.
LEMMA AnyTells ==
    ASSUME Telling, NEW items, IsSome(items), NEW st, IsSome(st), Goes(items, st), Order(work'),
           \A o \in Object : ToTell(o) =>
              Adds(o, items, st) /\ WorkRight(o, items) /\ PartRight(o, work', part')
    PROVE  TellInv'
<1>1. IsSome(work) /\ work # <<>>
  BY TellingIs DEF Telling
<1>2. PICK u : u = items \o Tail(work)
  OBVIOUS
<1>3. u = work' /\ UNCHANGED <<catalogVars, call, faulted>>
  BY <1>2, FrameIs
<1>4. ASSUME NEW o \in Object, ToTell(o)'
      PROVE  WorkRight(o, work') /\ PartRight(o, work', part') /\ Story(o, work', out')
  <2>1. ToTell(o)
    BY <1>3, <1>4, ToTellSame
  <2>2. Adds(o, items, st) /\ WorkRight(o, items) /\ PartRight(o, work', part')
    BY <2>1
  <2>3. WorkRight(o, work)
    BY <2>1, TellingIs DEF TellsOf
  <2>4. WorkRight(o, u)
    BY <1>1, <1>2, <2>2, <2>3, WorkRightGoes
  <2>5. Story(o, work, out)'
    BY <2>1, <2>2, GoesStory
  <2>6. Story(o, work', out')
    BY <2>5 DEF Story, Said, Due, Says, Script
  <2> QED
    BY <1>3, <2>2, <2>4, <2>6
<1> QED
  BY <1>4, TellFrom

\* Items of which nothing has been said, when all is for the head's object.
LEMMA AddsItems ==
    ASSUME NEW o \in Object, NEW items, Due(o, items) = Says(o, Head(work)), NEW e, e = <<>>
    PROVE  Adds(o, items, e)
<1>1. Said(o, e) = <<>>
  BY SaidOne
<1>2. IsSome(Says(o, Head(work)))
  BY SaysIsSome
<1>3. PICK x : x = Says(o, Head(work))
  OBVIOUS
<1>4. PICK X : x \in Seq(X)
  BY <1>2, <1>3 DEF IsSome
<1>5. Concat(<<>>, x) = x
  BY <1>4, ConcatIs
<1>6. Due(o, items) = x
  BY <1>3
<1> QED
  BY <1>1, <1>3, <1>5, <1>6 DEF Adds

-----------------------------------------------------------------------------
\* The items that read the parameters of a procedure, and the one that writes it.
ParamWork(a, last, ps, n) ==
    /\ n \in Nat /\ ListLong(a, n) /\ ListLong(ps, n)
    /\ last.op = "procedure"
    /\ \A k \in 1 .. n : /\ a[k].op \in ReadOps /\ a[k].of = last.of /\ a[k].row = ps[k]
                         /\ a[k].op = "plain_param" <=> ps[k].source = 0

EndsIn(u, a, last) == u = a \o <<last>>
Precedes(w, u, r) == w = u \o r

LEMMA ParamWorkIs ==
    ASSUME NEW a, NEW last, NEW ps, NEW n, ParamWork(a, last, ps, n), NEW u, EndsIn(u, a, last)
    PROVE  /\ IsSome(u) /\ IsSome(a) /\ n + 1 \in Nat /\ ReadsOne(u, n + 1)
           /\ \A k \in DOMAIN u : u[k] = last \/ (k \in 1 .. n /\ u[k] = a[k])
           /\ 1 \in DOMAIN u
<1>1. PICK A : a \in Seq(A) /\ DOMAIN a = 1 .. n /\ Len(a) = n
  BY RowsAreSeq DEF ListLong, ParamWork
<1>2. PICK t : t = <<last>>
  OBVIOUS
<1>12. PICK B : B = {last}
  OBVIOUS
<1>3. t \in Seq(B) /\ DOMAIN t = {1} /\ t[1] = last /\ Len(t) = 1
  BY <1>2, <1>12
<1>4. n \in Nat
  BY DEF ParamWork
<1>13. u = a \o t
  BY <1>2 DEF EndsIn
<1>14. t \in Seq(B) /\ a \in Seq(A)
  BY <1>1, <1>3
<1>11. /\ u \in Seq(A \cup B) /\ Len(u) = Len(a) + Len(t)
       /\ \A k \in DOMAIN a : k \in DOMAIN u /\ u[k] = a[k]
       /\ \A k \in DOMAIN t : Len(a) + k \in DOMAIN u /\ u[Len(a) + k] = t[k]
  BY <1>13, <1>14, AppendedIs
<1>5. /\ u \in Seq(A \cup B) /\ Len(u) = n + 1
      /\ \A k \in DOMAIN a : k \in DOMAIN u /\ u[k] = a[k]
      /\ u[n + 1] = t[1]
  BY <1>1, <1>3, <1>11
<1>6. DOMAIN u = 1 .. n + 1
  BY <1>5
<1>7. u[n + 1] = last /\ \A k \in 1 .. n : u[k] = a[k]
  BY <1>1, <1>3, <1>5
<1>8. \A k \in 1 .. n + 1 : k \in 1 .. n \/ k = n + 1
  BY <1>4
<1>9. ReadsOne(u, n + 1)
  <2>1. n + 1 \in DOMAIN u /\ u[n + 1].op = "procedure" /\ n + 1 - 1 = n
    BY <1>4, <1>6, <1>7 DEF ParamWork
  <2>2. \A k \in 1 .. n + 1 : u[k].of = u[n + 1].of
    BY <1>7, <1>8 DEF ParamWork
  <2>3. \A k \in 1 .. n : u[k].op \in ReadOps
    BY <1>7 DEF ParamWork
  <2>4. PICK m : m = n + 1
    OBVIOUS
  <2>5. m \in Nat /\ m - 1 = n
    BY <1>4, <2>4
  <2>6. /\ m \in DOMAIN u /\ DOMAIN u = 1 .. m /\ u[m].op = "procedure"
        /\ \A k \in 1 .. m - 1 : u[k].op \in ReadOps
        /\ \A k \in 1 .. m : u[k].of = u[m].of
    BY <1>6, <2>1, <2>2, <2>3, <2>4, <2>5
  <2>7. ReadsOne(u, m)
    BY <2>6 DEF ReadsOne
  <2> QED
    BY <2>4, <2>7
<1>10. IsSome(u) /\ IsSome(a)
  BY <1>1, <1>5 DEF IsSome
<1> QED
  BY <1>4, <1>6, <1>7, <1>8, <1>9, <1>10

\* What they are still to say and to read.
LEMMA ParamWorkSays ==
    ASSUME NEW o \in Object, NEW a, NEW last, NEW ps, NEW n, ParamWork(a, last, ps, n),
           NEW u, EndsIn(u, a, last)
    PROVE  Due(o, u) = Says(o, last)
<1>1. u = Concat(a, <<last>>) /\ IsSome(a)
  BY ParamWorkIs DEF EndsIn, Concat
<1>2. Due(o, a) = <<>>
  <2>1. \A k \in 1 .. n : Says(o, a[k]) = <<>>
    BY SaysOfRoutine DEF ParamWork, RoutinePart, ReadOps
  <2> QED
    BY <2>1, DueNothing DEF ParamWork
<1>3. IsSome(<<last>>) /\ IsSome(Says(o, last))
  BY OneIsSome, SaysIsSome
<1>4. PICK t : t = <<last>>
  OBVIOUS
<1>5. PICK X : a \in Seq(X) /\ t \in Seq(X)
  BY <1>1, <1>3, <1>4, Common
<1>6. Due(o, Concat(a, t)) = Concat(Due(o, a), Due(o, t))
  BY <1>5, DueConcat
<1>7. Due(o, t) = Says(o, last)
  BY <1>4, DueOne
<1>8. PICK x : x = Says(o, last)
  OBVIOUS
<1>9. PICK Y : x \in Seq(Y)
  BY <1>3, <1>8 DEF IsSome
<1>10. Concat(<<>>, x) = x
  BY <1>9, ConcatIs
<1> QED
  BY <1>1, <1>2, <1>4, <1>6, <1>7, <1>8, <1>10

LEMMA ParamWorkReads ==
    ASSUME NEW a, NEW last, NEW ps, NEW n, ParamWork(a, last, ps, n),
           NEW u, EndsIn(u, a, last), NEW r, IsSome(r), NoRoutine(r), NEW w, Precedes(w, u, r)
    PROVE  ReadDue(w) = ForEach(ps, Def)
<1>1. u = Concat(a, <<last>>) /\ IsSome(a) /\ IsSome(u)
  BY ParamWorkIs DEF EndsIn, Concat
<1>2. PICK x : x = [k \in 1 .. n |-> Def(ps[k])]
  OBVIOUS
<1>3. ListLong(x, n) /\ IsSome(x) /\ n \in Nat
  <2>1. n \in Nat /\ x = [k \in 1 .. n |-> x[k]]
    BY <1>2 DEF ParamWork
  <2> QED
    BY <2>1, EachIsSome DEF ListLong
<1>4. ReadDue(a) = x
  <2>1. \A k \in 1 .. n : ReadOf(a[k]) = <<x[k]>>
    BY <1>2 DEF ParamWork, ReadOf
  <2> QED
    BY <1>3, <2>1, ReadSingles DEF ParamWork
<1>5. PICK t : t = <<last>>
  OBVIOUS
<1>6. ReadDue(t) = <<>>
  <2>1. ReadDue(t) = ReadOf(last)
    BY <1>5, ReadOne
  <2> QED
    BY <2>1 DEF ReadOf, ParamWork, ReadOps
<1>7. ReadDue(r) = <<>>
  BY ReadNone DEF NoRoutine, RoutineOps
<1>8. PICK X : a \in Seq(X) /\ t \in Seq(X)
  BY <1>1, <1>5, OneIsSome, Common
<1>9. PICK Y : u \in Seq(Y) /\ r \in Seq(Y)
  BY <1>1, Common
<1>10. ReadDue(Concat(a, t)) = Concat(ReadDue(a), ReadDue(t))
  BY <1>8, ReadConcat
<1>11. ReadDue(Concat(u, r)) = Concat(ReadDue(u), ReadDue(r))
  BY <1>9, ReadConcat
<1>12. PICK Z : x \in Seq(Z)
  BY <1>3 DEF IsSome
<1>13. Concat(x, <<>>) = x
  BY <1>12, ConcatIs
<1>14. w = Concat(u, r)
  BY DEF Concat, Precedes
<1>15. ForEach(ps, Def) = x
  <2>1. Len(ps) = n
    BY RowsAreSeq DEF ParamWork, ListLong
  <2> QED
    BY <1>2, <2>1 DEF ForEach
<1> QED
  BY <1>1, <1>4, <1>5, <1>6, <1>7, <1>10, <1>11, <1>13, <1>14, <1>15

-----------------------------------------------------------------------------
\* The parameters of a procedure: an item for each, and one for its statement.
LEMMA ParamsTell ==
    ASSUME Telling, procedure_params
    PROVE  TellInv'
<1>1. PICK ps : ps = Params(Of)
  OBVIOUS
<1>2. PICK n : n = Len(ps)
  OBVIOUS
<1>3. PICK a : a = [k \in 1 .. n |-> Item(IF ps[k].source = 0 THEN "plain_param" ELSE "param", Of, ps[k])]
  OBVIOUS
<1>4. PICK last : last = Item("procedure", Of, Row)
  OBVIOUS
<1>5. PICK items : items = a \o <<last>>
  OBVIOUS
<1>23. EndsIn(items, a, last)
  BY <1>5 DEF EndsIn
<1>6. Goes(items, <<>>) /\ Head(work).op = "params" /\ Of = Head(work).of /\ Row = Head(work).row
      /\ part' = <<>>
  BY <1>1, <1>2, <1>3, <1>4, <1>5 DEF procedure_params, ForEach, At, Of, Row, NoPart
<1>7. ps \in Seq(ParamData) /\ n \in Nat /\ DOMAIN ps = 1 .. n
  <2>1. ps \in Seq(ParamData)
    BY <1>1, ParamsAre DEF Telling
  <2> QED
    BY <1>2, <2>1
<1>8. last.op = "procedure" /\ last.of = Of /\ last.row = Row
  BY <1>4 DEF Item
<1>9. ParamWork(a, last, ps, n)
  <2>1. ListLong(a, n)
    BY <1>3 DEF ListLong
  <2>2. ListLong(ps, n)
    BY <1>7 DEF ListLong
  <2>3. ASSUME NEW k \in 1 .. n
        PROVE  /\ a[k].op \in ReadOps /\ a[k].of = last.of /\ a[k].row = ps[k]
               /\ a[k].op = "plain_param" <=> ps[k].source = 0
    <3>1. a[k] = Item(IF ps[k].source = 0 THEN "plain_param" ELSE "param", Of, ps[k])
      BY <1>3
    <3> QED
      BY <1>8, <3>1 DEF Item, ReadOps
  <2> QED
    BY <1>7, <1>8, <2>1, <2>2, <2>3 DEF ParamWork
<1>10. /\ IsSome(items) /\ n + 1 \in Nat /\ ReadsOne(items, n + 1)
       /\ \A k \in DOMAIN items : items[k] = last \/ (k \in 1 .. n /\ items[k] = a[k])
       /\ 1 \in DOMAIN items
  BY <1>23, <1>9, ParamWorkIs
<1>11. Order(work) /\ IsSome(work) /\ work # <<>>
  BY TellingIs DEF Telling
<1>12. Head(work).op \notin ReadOps /\ Head(work).op # "arguments"
  BY <1>6 DEF ReadOps
<1>13. work' = items \o Tail(work)
  BY <1>6, FrameIs
<1>14. PICK u : u = items \o Tail(work)
  OBVIOUS
<1>15. Order(u)
  <2>1. PICK m : m = n + 1
    OBVIOUS
  <2>2. m \in Nat /\ ReadsOne(items, m)
    BY <1>10, <2>1
  <2> QED
    BY <1>10, <1>11, <1>12, <1>14, <2>2, OrderReads
<1>16. PICK r : r = Tail(work)
  OBVIOUS
<1>17. Order(r) /\ NoRoutine(r) /\ IsSome(r)
  BY <1>11, <1>12, <1>16, OrderTail DEF Order
<1>18. JoinedOf(u, items, r)
  BY <1>10, <1>14, <1>16, <1>17, JoinedIs
<1>19. \A k \in DOMAIN items : items[k].op \in RoutineOps /\ items[k].of = Of
  BY <1>8, <1>9, <1>10 DEF ParamWork, RoutineOps
<1>20. ASSUME NEW o \in Object, ToTell(o)
       PROVE  Adds(o, items, <<>>) /\ WorkRight(o, items) /\ PartRight(o, u, <<>>)
  <2>1. Adds(o, items, <<>>)
    <3>1. Due(o, items) = Says(o, last)
      BY <1>23, <1>9, ParamWorkSays
    <3>2. Says(o, last) = Says(o, Head(work))
      <4>1. CASE kind(o) = "procedure" /\ Of = name(o)
        BY <1>6, <1>8, <4>1, SaysOfRoutine DEF RoutinePart
      <4>2. CASE ~ (kind(o) = "procedure" /\ Of = name(o))
        BY <1>6, <1>8, <4>2, SaysOfRoutine DEF RoutinePart
      <4> QED
        BY <4>1, <4>2
    <3>3. Due(o, items) = Says(o, Head(work))
      BY <3>1, <3>2
    <3> QED
      BY <3>3, AddsItems
  <2>2. kind(o) = "procedure" /\ Of = name(o) => ps = World[o].params /\ Row = Needs(o)
    <3> SUFFICES ASSUME kind(o) = "procedure", Of = name(o)
                 PROVE  ps = World[o].params /\ Row = Needs(o)
      OBVIOUS
    <3>1. Called({"procedure"}, name(o)) # {} /\ The(Called({"procedure"}, name(o))) = o
      BY <1>20, TellingRoutine
    <3>2. Params(name(o)) = World[o].params
      BY <3>1 DEF Params
    <3>3. Head(work).of = name(o)
      BY <1>6
    <3>4. RowRight(o, Head(work))
      BY <1>20, <3>3, HeadRight
    <3> QED
      BY <1>1, <1>6, <3>2, <3>4 DEF RowRight
  <2>3. WorkRight(o, items)
    <3> SUFFICES ASSUME NEW k \in DOMAIN items, items[k].of = name(o)
                 PROVE  RowRight(o, items[k])
      BY DEF WorkRight
    <3>1. Of = name(o)
      BY <1>19
    <3>2. CASE items[k] = last
      BY <1>8, <2>2, <3>1, <3>2 DEF RowRight, ReadOps
    <3>3. CASE k \in 1 .. n /\ items[k] = a[k]
      <4>1. /\ items[k].op \in ReadOps /\ items[k].row = ps[k]
            /\ items[k].op = "plain_param" <=> ps[k].source = 0
        BY <1>9, <3>3 DEF ParamWork
      <4>2. ps[k] \in ToSet(ps)
        BY <1>7, <3>3 DEF ToSet
      <4> QED
        BY <2>2, <3>1, <4>1, <4>2 DEF RowRight, ReadOps
    <3> QED
      BY <1>10, <3>2, <3>3
  <2>4. kind(o) = "procedure" /\ Busy(o, u) => IsSome(<<>>) /\ Concat(<<>>, ReadDue(u)) = Defs(o)
    <3> SUFFICES ASSUME kind(o) = "procedure", Busy(o, u)
                 PROVE  IsSome(<<>>) /\ Concat(<<>>, ReadDue(u)) = Defs(o)
      OBVIOUS
    <3>1. PICK k \in DOMAIN u : u[k].op \in RoutineOps /\ u[k].of = name(o)
      BY DEF Busy
    <3>2. k \in DOMAIN items /\ u[k] = items[k]
      BY <1>17, <1>18, <3>1 DEF JoinedOf, NoRoutine
    <3>3. Of = name(o)
      BY <1>19, <3>1, <3>2
    <3>4. Precedes(u, items, r)
      BY <1>14, <1>16 DEF Precedes
    <3>5. ReadDue(u) = ForEach(ps, Def)
      BY <1>23, <1>9, <1>17, <3>4, ParamWorkReads
    <3>6. ForEach(ps, Def) = Defs(o)
      BY <2>2, <3>3 DEF Defs
    <3>7. PICK x : x = Defs(o)
      OBVIOUS
    <3>8. IsSome(x)
      <4>1. x = [j \in 1 .. n |-> Def(ps[j])]
        BY <1>2, <3>6, <3>7 DEF ForEach
      <4>2. x = [j \in 1 .. n |-> x[j]]
        BY <4>1
      <4> QED
        BY <1>7, <4>2, EachIsSome
    <3>9. PICK X : x \in Seq(X)
      BY <3>8 DEF IsSome
    <3>10. Concat(<<>>, x) = x
      BY <3>9, ConcatIs
    <3> QED
      BY <3>5, <3>6, <3>7, <3>10, NoneIsSome
  <2>5. ~ Next2(o, u)
    <3>1. u[1] = items[1] /\ items[1].op \in RoutineOps
      BY <1>10, <1>18, <1>19 DEF JoinedOf
    <3> QED
      BY <3>1 DEF Next2, RoutineOps, ReadOps
  <2> QED
    BY <2>1, <2>3, <2>4, <2>5 DEF PartRight
<1>21. PICK st : st = <<>>
  OBVIOUS
<1>22. IsSome(st) /\ Goes(items, st) /\ Order(work')
       /\ \A o \in Object : ToTell(o) =>
              Adds(o, items, st) /\ WorkRight(o, items) /\ PartRight(o, work', part')
  BY <1>6, <1>13, <1>14, <1>15, <1>20, <1>21, NoneIsSome
<1> QED
  BY <1>10, <1>22, AnyTells

-----------------------------------------------------------------------------
\* A domain that stays is the one that a parameter has, and has its type.
LEMMA DomainTypeIs ==
    ASSUME Telling, NEW o \in Object, ToTell(o), kind(o) = "procedure",
           NEW p \in ToSet(World[o].params), p.source # 0
    PROVE  DomainType(p.source) = format_column_type(p.type)
<1>1. PICK k \in DOMAIN World[o].params : p = World[o].params[k]
  BY DEF ToSet
<1>2. p.source \in ParamDomains(o)
  BY <1>1 DEF ParamDomains
<1>3. PICK d \in stable : kind(d) = "domain" /\ name(d) = p.source
  BY <1>2 DEF ToTell, Sayable
<1>4. o \in db /\ d \in db
  BY DEF ToTell, Telling, TypeOK, CatalogTypeOK
<1>5. d \in Domains(p.source)
  BY <1>3, <1>4 DEF Domains, Every
<1>6. \A e \in Domains(p.source) : e = d
  <2> SUFFICES ASSUME NEW e \in Domains(p.source)
               PROVE  e = d
    OBVIOUS
  <2>1. e \in db /\ kind(e) = "domain" /\ name(e) = p.source
    BY DEF Domains, Every
  <2>2. SameSlot(e, d)
    BY <1>3, <2>1 DEF SameSlot, Space
  <2> QED
    BY <1>4, <2>1, <2>2 DEF Telling, Slots
<1>7. The(Domains(p.source)) = d /\ Domains(p.source) # {}
  BY <1>5, <1>6 DEF The
<1>8. ParamsSuit(o, d)
  BY <1>4 DEF Telling, Suits
<1>9. p.type = World[d].type
  BY <1>3, <1>8 DEF ParamsSuit
<1> QED
  BY <1>7, <1>9 DEF DomainType

\* A parameter is read as it is.
LEMMA ParamRead ==
    ASSUME Telling, resolve_domain_type,
           NEW o \in Object, ToTell(o), kind(o) = "procedure", Head(work).of = name(o),
           NEW q, q = Append(part, Def(Head(work).row))
    PROVE  part' = q
<1>1. RowRight(o, Head(work))
  BY HeadRight
<1>2. PICK r : r = Head(work).row
  OBVIOUS
<1>3. Row = r
  BY <1>2 DEF Row
<1>4. CASE At("plain_param") /\ Section(ParamDef(<<"VARCHAR", <<100>>>>))
  <2>1. r.source = 0
    BY <1>1, <1>2, <1>4 DEF RowRight, At, ReadOps
  <2>2. ParamDef(<<"VARCHAR", <<100>>>>) = Def(r)
    BY <1>3, <2>1 DEF ParamDef, Def
  <2> QED
    BY <1>2, <1>4, <2>2 DEF Section
<1>5. CASE At("param") /\ Section(ParamDef(DomainType(Row.source)))
  <2>1. r \in ToSet(World[o].params) /\ r.source # 0
    BY <1>1, <1>2, <1>5 DEF RowRight, At, ReadOps
  <2>2. DomainType(r.source) = format_column_type(r.type)
    BY <2>1, DomainTypeIs
  <2>3. PICK d : d = DomainType(r.source)
    OBVIOUS
  <2>4. ParamDef(d) = Def(r)
    BY <1>3, <2>1, <2>2, <2>3 DEF ParamDef, Def
  <2> QED
    BY <1>2, <1>3, <1>5, <2>3, <2>4 DEF Section
<1> QED
  BY <1>4, <1>5 DEF resolve_domain_type

\* Its definition is put to those of the parameters before it.
LEMMA ReadHead ==
    ASSUME NEW w, IsSome(w), w # <<>>, Head(w).op \in ReadOps, NEW p, IsSome(p),
           NEW r, r = Tail(w), NEW q, q = Append(p, Def(Head(w).row)), NEW d, Concat(p, ReadDue(w)) = d
    PROVE  IsSome(q) /\ Concat(q, ReadDue(r)) = d
<1>1. PICK A : w \in Seq(A)
  BY DEF IsSome
<1>2. PICK h : h = <<Head(w)>>
  OBVIOUS
<1>3. w = Concat(h, r) /\ h \in Seq(A) /\ r \in Seq(A)
  BY <1>1, <1>2, HeadTail
<1>4. ReadDue(Concat(h, r)) = Concat(ReadDue(h), ReadDue(r))
  BY <1>3, ReadConcat
<1>5. PICK x : x = Def(Head(w).row)
  OBVIOUS
<1>6. ReadDue(h) = <<x>>
  <2>1. ReadDue(h) = ReadOf(Head(w))
    BY <1>2, ReadOne
  <2> QED
    BY <1>5, <2>1 DEF ReadOf
<1>7. PICK t : t = <<x>>
  OBVIOUS
<1>8. PICK B : p \in Seq(B)
  BY DEF IsSome
<1>9. PICK C : ReadDue(h) \in Seq(C) /\ ReadDue(r) \in Seq(C)
  BY <1>3, ReadConcat
<1>10. PICK y : y = ReadDue(r)
  OBVIOUS
<1>11. PICK E : E = B \cup C
  OBVIOUS
<1>12. p \in Seq(E) /\ t \in Seq(E) /\ y \in Seq(E)
  BY <1>6, <1>7, <1>8, <1>9, <1>10, <1>11, SeqGrows
<1>13. Concat(Concat(p, t), y) = Concat(p, Concat(t, y))
  BY <1>12, ConcatJoins
<1>14. Concat(p, t) = q
  <2>1. q = Append(p, x)
    BY <1>5
  <2>2. p \o t = Append(p, x)
    BY <1>7, <1>8
  <2> QED
    BY <2>1, <2>2 DEF Concat
<1>15. IsSome(q)
  BY <1>12, <1>14, ConcatIs DEF IsSome
<1> QED
  BY <1>3, <1>4, <1>6, <1>7, <1>10, <1>13, <1>14, <1>15

LEMMA ResolveTells ==
    ASSUME Telling, resolve_domain_type
    PROVE  TellInv'
<1>1. Goes(<<>>, <<>>) /\ Head(work).op \in {"plain_param", "param"}
  BY DEF resolve_domain_type, At
<1>2. Order(work) /\ IsSome(work) /\ work # <<>> /\ 1 \in DOMAIN work /\ Head(work) = work[1]
  BY TellingIs DEF Telling
<1>3. PICK r : r = Tail(work)
  OBVIOUS
<1>4. /\ Order(r) /\ NoResult(r) /\ IsSome(r)
      /\ \A k \in DOMAIN r : r[k].op \in RoutineOps => r[k].of = Head(work).of
  <2>1. Order(work) /\ work # <<>> /\ r = Tail(work)
    BY <1>2, <1>3
  <2>2. Head(work).op # "arguments" /\ Head(work).op \in RoutineOps
    BY <1>1 DEF RoutineOps, ReadOps
  <2> QED
    BY <2>1, <2>2, OrderTail DEF Order
<1>5. work' = r
  <2>1. work' = <<>> \o Tail(work)
    BY <1>1, FrameIs
  <2>2. PICK A : r \in Seq(A)
    BY <1>4 DEF IsSome
  <2> QED
    BY <1>3, <2>1, <2>2
<1>6. PICK e : e = <<>>
  OBVIOUS
<1>7. ASSUME NEW o \in Object, ToTell(o)
      PROVE  Adds(o, e, e) /\ WorkRight(o, e) /\ PartRight(o, r, part')
  <2>1. Adds(o, e, e)
    <3>1. Due(o, e) = <<>>
      BY <1>6, DueNone
    <3>2. Says(o, Head(work)) = <<>>
      BY <1>1, SaysOfRoutine DEF RoutinePart
    <3>3. Due(o, e) = Says(o, Head(work))
      BY <3>1, <3>2
    <3> QED
      BY <1>6, <3>3, AddsItems
  <2>2. WorkRight(o, e)
    BY <1>6 DEF WorkRight
  <2>3. ASSUME kind(o) = "procedure", Busy(o, r)
        PROVE  IsSome(part') /\ Concat(part', ReadDue(r)) = Defs(o)
    <3>1. PICK k \in DOMAIN r : r[k].op \in RoutineOps /\ r[k].of = name(o)
      BY <2>3 DEF Busy
    <3>2. Head(work).of = name(o)
      BY <1>4, <3>1
    <3>3. Busy(o, work)
      BY <1>1, <1>2, <3>2 DEF Busy, RoutineOps, ReadOps
    <3>4. PartRight(o, work, part)
      BY <1>7, TellingIs DEF TellsOf
    <3>5. IsSome(part) /\ Concat(part, ReadDue(work)) = Defs(o)
      BY <2>3, <3>3, <3>4 DEF PartRight
    <3>6. PICK q : q = Append(part, Def(Head(work).row))
      OBVIOUS
    <3>7. part' = q
      BY <1>7, <2>3, <3>2, <3>6, ParamRead
    <3>8. IsSome(q) /\ Concat(q, ReadDue(r)) = Defs(o)
      <4>1. Head(work).op \in ReadOps
        BY <1>1 DEF ReadOps
      <4> QED
        BY <1>2, <1>3, <3>5, <3>6, <4>1, ReadHead
    <3> QED
      BY <3>7, <3>8
  <2>4. ~ Next2(o, r)
    BY <1>4 DEF Next2, NoResult
  <2> QED
    BY <2>1, <2>2, <2>3, <2>4 DEF PartRight
<1>8. IsSome(e) /\ Goes(e, e) /\ Order(work')
      /\ \A o \in Object : ToTell(o) =>
              Adds(o, e, e) /\ WorkRight(o, e) /\ PartRight(o, work', part')
  BY <1>1, <1>4, <1>5, <1>6, <1>7, NoneIsSome
<1> QED
  BY <1>8, AnyTells

-----------------------------------------------------------------------------
\* All the parameters of a procedure have been read when it is written.
LEMMA AllRead ==
    ASSUME Telling, Head(work).op = "procedure",
           NEW o \in Object, ToTell(o), kind(o) = "procedure", Head(work).of = name(o)
    PROVE  part = Defs(o) /\ Head(work).row = Needs(o)
<1>1. Order(work) /\ IsSome(work) /\ work # <<>> /\ 1 \in DOMAIN work /\ Head(work) = work[1]
  BY TellingIs DEF Telling
<1>2. Head(work).op \notin ReadOps /\ "procedure" \in RoutineOps
  BY DEF ReadOps, RoutineOps
<1>3. NoRoutine(Tail(work))
  BY <1>1, <1>2, OrderTail
<1>4. TailOf(Tail(work), work)
  BY <1>1, TailIs
<1>5. \A k \in DOMAIN work : k = 1 \/ (k - 1 \in DOMAIN Tail(work) /\ work[k] = Tail(work)[k - 1])
  <2>1. PICK A : work \in Seq(A)
    BY <1>1 DEF IsSome
  <2> QED
    BY <1>1, <2>1
<1>6. \A k \in DOMAIN work : work[k].op \notin ReadOps
  BY <1>1, <1>2, <1>3, <1>5 DEF NoRoutine, RoutineOps
<1>7. ReadDue(work) = <<>>
  BY <1>1, <1>6, ReadNone
<1>8. Busy(o, work)
  BY <1>1, <1>2 DEF Busy
<1>9. PartRight(o, work, part)
  BY TellingIs DEF TellsOf
<1>10. IsSome(part) /\ Concat(part, ReadDue(work)) = Defs(o)
  BY <1>8, <1>9 DEF PartRight
<1>11. PICK X : part \in Seq(X)
  BY <1>10 DEF IsSome
<1>12. Concat(part, <<>>) = part
  BY <1>11, ConcatIs
<1>13. RowRight(o, Head(work))
  BY HeadRight
<1> QED
  BY <1>7, <1>10, <1>12, <1>13 DEF RowRight

LEMMA HeaderTells ==
    ASSUME Telling, procedure_header
    PROVE  TellInv'
<1>1. PICK s : s = [stmt |-> "procedure", name |-> Of, uses |-> Row,
                    ins |-> Where(part, LAMBDA p : ~ p.out),
                    outs |-> Where(part, LAMBDA p : p.out)]
  OBVIOUS
<1>2. Goes(<<>>, <<s>>) /\ Head(work).op = "procedure"
  BY <1>1 DEF procedure_header, At
<1>3. /\ What(s) = "procedure" /\ Whose(s) = Of /\ Of = Head(work).of /\ Row = Head(work).row
  BY <1>1 DEF What, Whose, Of, Row
<1>4. ASSUME NEW o \in Object, ToTell(o)
      PROVE  /\ Regards(o, s) => <<s>> = Says(o, Head(work))
             /\ ~ Regards(o, s) => Says(o, Head(work)) = <<>>
  <2>1. CASE kind(o) = "procedure" /\ Head(work).of = name(o)
    <3>1. Says(o, Head(work)) = <<ProcedureSaid(o)>>
      BY <1>2, <2>1, SaysOfRoutine DEF RoutinePart
    <3>2. part = Defs(o) /\ Row = Needs(o) /\ Of = name(o)
      BY <1>2, <1>3, <1>4, <2>1, AllRead
    <3>3. s = ProcedureSaid(o)
      BY <1>1, <3>2 DEF ProcedureSaid
    <3>4. Regards(o, s)
      BY <1>3, <2>1 DEF Regards
    <3> QED
      BY <3>1, <3>3, <3>4
  <2>2. CASE ~ (kind(o) = "procedure" /\ Head(work).of = name(o))
    <3>1. ~ Regards(o, s)
      BY <1>3, <2>2 DEF Regards
    <3>2. Says(o, Head(work)) = <<>>
      BY <1>2, <2>2, SaysOfRoutine DEF RoutinePart
    <3> QED
      BY <3>1, <3>2
  <2> QED
    BY <2>1, <2>2
<1>5. Head(work).op \notin ReadOps \cup {"arguments"}
  BY <1>2 DEF ReadOps
<1> QED
  BY <1>2, <1>4, <1>5, OneSaid

LEMMA ReturnsTell ==
    ASSUME Telling, function_returns
    PROVE  TellInv'
<1>1. PICK type : type = (IF Function(Of) = {} THEN Integer
                          ELSE format_column_type(World[The(Function(Of))].returns))
  OBVIOUS
<1>2. PICK s : s = FunctionStmt(type)
  OBVIOUS
<1>3. Goes(<<>>, <<s>>) /\ Head(work).op = "returns"
  BY <1>1, <1>2 DEF function_returns, At
<1>4. s = [stmt |-> "function", name |-> Of, ins |-> part, returns |-> type, uses |-> Row]
  BY <1>2 DEF FunctionStmt
<1>5. /\ What(s) = "function" /\ Whose(s) = Of /\ Of = Head(work).of /\ Row = Head(work).row
  BY <1>4 DEF What, Whose, Of, Row
<1>6. ASSUME NEW o \in Object, ToTell(o)
      PROVE  /\ Regards(o, s) => <<s>> = Says(o, Head(work))
             /\ ~ Regards(o, s) => Says(o, Head(work)) = <<>>
  <2>1. CASE kind(o) = "function" /\ Head(work).of = name(o)
    <3>1. Says(o, Head(work)) = <<FunctionSaid(o)>>
      BY <1>3, <2>1, SaysOfRoutine DEF RoutinePart
    <3>2. part = ArgsSaid(o)
      <4>1. PartRight(o, work, part) /\ 1 \in DOMAIN work /\ Head(work) = work[1] /\ work # <<>>
        BY <1>6, TellingIs DEF TellsOf, Telling
      <4> QED
        BY <1>3, <2>1, <4>1 DEF PartRight, Next2
    <3>3. Row = Needs(o)
      <4>1. RowRight(o, Head(work))
        BY <1>6, <2>1, HeadRight
      <4> QED
        BY <1>3, <1>5, <2>1, <4>1 DEF RowRight
    <3>4. type = format_column_type(World[o].returns)
      <4>1. Called({"function"}, name(o)) # {} /\ The(Called({"function"}, name(o))) = o
        BY <1>6, <2>1, TellingRoutine
      <4>2. Function(Of) # {} /\ The(Function(Of)) = o
        BY <1>5, <2>1, <4>1 DEF Function
      <4> QED
        BY <1>1, <4>2
    <3>5. s = FunctionSaid(o)
      BY <1>4, <1>5, <2>1, <3>2, <3>3, <3>4 DEF FunctionSaid
    <3>6. Regards(o, s)
      BY <1>5, <2>1 DEF Regards
    <3> QED
      BY <3>1, <3>5, <3>6
  <2>2. CASE ~ (kind(o) = "function" /\ Head(work).of = name(o))
    <3>1. ~ Regards(o, s)
      BY <1>5, <2>2 DEF Regards
    <3>2. Says(o, Head(work)) = <<>>
      BY <1>3, <2>2, SaysOfRoutine DEF RoutinePart
    <3> QED
      BY <3>1, <3>2
  <2> QED
    BY <2>1, <2>2
<1>7. Head(work).op \notin ReadOps \cup {"arguments"}
  BY <1>3 DEF ReadOps
<1> QED
  BY <1>3, <1>6, <1>7, OneSaid

\* What is left when a function's arguments have been read, or could not be.
LEMMA AfterHead ==
    ASSUME Telling, NEW r, r = Tail(work), Head(work).op \in {"arguments", "returns"}
    PROVE  Order(r) /\ IsSome(r) /\ NoRoutine(r) /\ (r # <<>> /\ r[1].op = "returns" => r[1].of = Head(work).of)
<1>1. Order(work) /\ work # <<>>
  BY TellingIs DEF Telling
<1>2. Head(work).op \notin ReadOps
  BY DEF ReadOps
<1> QED
  BY <1>1, <1>2, OrderTail DEF Order

LEMMA ArgumentsTell ==
    ASSUME Telling, function_arguments
    PROVE  TellInv'
<1>1. Goes(<<>>, <<>>) /\ Head(work).op = "arguments"
  BY DEF function_arguments, At
<1>2. PICK r : r = Tail(work)
  OBVIOUS
<1>3. /\ Order(r) /\ IsSome(r) /\ NoRoutine(r)
      /\ r # <<>> /\ r[1].op = "returns" => r[1].of = Head(work).of
  BY <1>1, <1>2, AfterHead
<1>4. work' = r
  <2>1. work' = <<>> \o Tail(work)
    BY <1>1, FrameIs
  <2>2. PICK A : r \in Seq(A)
    BY <1>3 DEF IsSome
  <2> QED
    BY <1>2, <2>1, <2>2
<1>5. PICK e : e = <<>>
  OBVIOUS
<1>6. ASSUME NEW o \in Object, ToTell(o)
      PROVE  Adds(o, e, e) /\ WorkRight(o, e) /\ PartRight(o, r, part')
  <2>1. Adds(o, e, e)
    <3>1. Due(o, e) = <<>>
      BY <1>5, DueNone
    <3>2. Says(o, Head(work)) = <<>>
      BY <1>1, SaysOfRoutine DEF RoutinePart
    <3>3. Due(o, e) = Says(o, Head(work))
      BY <3>1, <3>2
    <3> QED
      BY <1>5, <3>3, AddsItems
  <2>2. WorkRight(o, e)
    BY <1>5 DEF WorkRight
  <2>3. ~ Busy(o, r)
    BY <1>3 DEF Busy, NoRoutine
  <2>4. ASSUME kind(o) = "function", Next2(o, r)
        PROVE  part' = ArgsSaid(o)
    <3>1. Of = name(o)
      BY <1>3, <2>4 DEF Next2, Of
    <3>2. Called({"function"}, name(o)) # {} /\ The(Called({"function"}, name(o))) = o
      BY <1>6, <2>4, TellingRoutine
    <3>3. Function(Of) # {} /\ The(Function(Of)) = o
      BY <3>1, <3>2 DEF Function
    <3> QED
      BY <3>3 DEF function_arguments, ArgsSaid
  <2> QED
    BY <2>1, <2>2, <2>3, <2>4 DEF PartRight
<1>7. IsSome(e) /\ Goes(e, e) /\ Order(work')
      /\ \A o \in Object : ToTell(o) =>
              Adds(o, e, e) /\ WorkRight(o, e) /\ PartRight(o, work', part')
  BY <1>1, <1>3, <1>4, <1>5, <1>6, NoneIsSome
<1> QED
  BY <1>7, AnyTells

-----------------------------------------------------------------------------
\* A function that failed is not told of any more; of the others nothing is said.
LEMMA FailsOut ==
    ASSUME Telling, function_fails
    PROVE  /\ Head(work).op \in {"arguments", "returns"} /\ work' = Tail(work) /\ faulted'
           /\ UNCHANGED <<catalogVars, call, status>>
           /\ \E st : IsSome(st) /\ out' = Concat(out, st)
                      /\ \A o : kind(o) # "function" => Said(o, st) = <<>>
<1>1. Head(work).op \in {"arguments", "returns"} /\ work' = Tail(work) /\ faulted'
      /\ UNCHANGED <<catalogVars, call, status>>
  BY DEF function_fails, At, Rest
<1>2. CASE out' = out
  <2>1. IsSome(out)
    BY TellingIs
  <2>2. PICK t : t = out
    OBVIOUS
  <2>3. PICK X : t \in Seq(X)
    BY <2>1, <2>2 DEF IsSome
  <2>4. Concat(t, <<>>) = t
    BY <2>3, ConcatIs
  <2>5. \A o : Said(o, <<>>) = <<>>
    BY SaidOne
  <2>6. PICK e : e = <<>>
    OBVIOUS
  <2>7. IsSome(e) /\ out' = Concat(out, e) /\ \A o : Said(o, e) = <<>>
    BY <1>2, <2>2, <2>4, <2>5, <2>6, NoneIsSome
  <2> QED
    BY <1>1, <2>7
<1>3. CASE out' = Append(out, FunctionStmt(Integer))
  <2>1. PICK s : s = FunctionStmt(Integer)
    OBVIOUS
  <2>2. PICK st : st = <<s>>
    OBVIOUS
  <2>3. IsSome(out)
    BY TellingIs
  <2>4. PICK t : t = out
    OBVIOUS
  <2>5. PICK X : t \in Seq(X)
    BY <2>3, <2>4 DEF IsSome
  <2>6. Append(t, s) = t \o st
    BY <2>2, <2>5
  <2>7. out' = Concat(out, st)
    BY <1>3, <2>1, <2>4, <2>6 DEF Concat
  <2>8. What(s) = "function"
    BY <2>1 DEF What, FunctionStmt
  <2>9. \A o : kind(o) # "function" => Said(o, st) = <<>>
    <3> TAKE o
    <3> HAVE kind(o) # "function"
    <3>1. Said(o, <<s>>) = Told1(o, s)
      BY SaidOne
    <3>2. Told1(o, s) = <<>>
      BY <2>8 DEF Told1, Regards
    <3> QED
      BY <2>2, <3>1, <3>2
  <2>10. IsSome(st)
    BY <2>2, OneIsSome
  <2> QED
    BY <1>1, <2>7, <2>9, <2>10
<1> QED
  BY <1>2, <1>3 DEF function_fails

LEMMA ToTellLess ==
    ASSUME UNCHANGED <<catalogVars, call>>, faulted', NEW o, ToTell(o)'
    PROVE  ToTell(o) /\ kind(o) # "function"
<1>1. stable' = stable /\ seen' = seen /\ call' = call
  BY DEF catalogVars
<1>2. Sayable(o)' => Sayable(o) /\ kind(o) # "function"
  BY <1>1 DEF Sayable, kind
<1>3. Extracted(o)' => Extracted(o)
  BY <1>1 DEF Extracted, should_extract, WithinCap, Numbers, Rivals
<1> QED
  BY <1>1, <1>2, <1>3 DEF ToTell

LEMMA FailsTell ==
    ASSUME Telling, function_fails
    PROVE  TellInv'
<1>1. /\ Head(work).op \in {"arguments", "returns"} /\ work' = Tail(work) /\ faulted'
      /\ UNCHANGED <<catalogVars, call, status>>
  BY FailsOut
<1>2. PICK st : IsSome(st) /\ out' = Concat(out, st)
                /\ \A o : kind(o) # "function" => Said(o, st) = <<>>
  BY FailsOut
<1>3. PICK r : r = Tail(work)
  OBVIOUS
<1>4. Order(r) /\ IsSome(r) /\ NoRoutine(r)
  BY <1>1, <1>3, AfterHead
<1>5. PICK e : e = <<>>
  OBVIOUS
<1>6. PICK w, t, u, v : w = work /\ t = out /\ u = work' /\ v = out'
  OBVIOUS
<1>7. IsSome(w) /\ w # <<>> /\ IsSome(t) /\ IsSome(e)
  BY <1>5, <1>6, TellingIs, NoneIsSome DEF Telling
<1>8. u = Concat(e, Tail(w)) /\ v = Concat(t, st) /\ u = r /\ u = e \o Tail(w)
  <2>1. PICK X : r \in Seq(X)
    BY <1>4 DEF IsSome
  <2>2. Concat(<<>>, r) = r
    BY <2>1, ConcatIs
  <2> QED
    BY <1>1, <1>2, <1>3, <1>5, <1>6, <2>2 DEF Concat
<1>9. ASSUME NEW o \in Object, ToTell(o)'
      PROVE  WorkRight(o, work') /\ PartRight(o, work', part') /\ Story(o, work', out')
  <2>1. ToTell(o) /\ kind(o) # "function"
    BY <1>1, <1>9, ToTellLess
  <2>2. WorkRight(o, w) /\ Story(o, w, t)
    BY <1>6, <2>1, TellingIs DEF TellsOf
  <2>3. WorkRight(o, u)
    <3>1. WorkRight(o, e)
      BY <1>5 DEF WorkRight
    <3> QED
      BY <1>7, <1>8, <2>2, <3>1, WorkRightGoes
  <2>4. PartRight(o, u, part')
    <3>1. ~ Busy(o, u)
      BY <1>4, <1>8 DEF Busy, NoRoutine
    <3> QED
      BY <2>1, <3>1 DEF PartRight
  <2>5. Story(o, u, v)
    <3>1. Says(o, Head(w)) = <<>>
      BY <1>1, <1>6, <2>1, SaysOfRoutine DEF RoutinePart
    <3>2. Said(o, st) = <<>> /\ Due(o, e) = <<>>
      BY <1>2, <1>5, <2>1, DueNone
    <3>3. Concat(<<>>, <<>>) = <<>>
      BY DEF Concat
    <3>4. Concat(Said(o, st), Due(o, e)) = Says(o, Head(w))
      BY <3>1, <3>2, <3>3
    <3> QED
      BY <1>2, <1>7, <1>8, <2>2, <3>4, StoryGoes
  <2> QED
    BY <1>6, <2>3, <2>4, <2>5
<1>10. Order(work')
  BY <1>4, <1>6, <1>8
<1> QED
  BY <1>9, <1>10, TellFrom

-----------------------------------------------------------------------------
\* The parameters of the procedures there are suit the domains there are.
LEMMA SuitsInit == Init => Suits
  BY CatalogAssumption DEF Init, CatalogInit, Suits

LEMMA SuitsNext ==
    ASSUME TypeOK, Suits, [Next]_vars
    PROVE  Suits'
<1>1. CASE Step
  BY <1>1, CatalogStays DEF Suits, catalogVars
<1>2. CASE Others /\ UNCHANGED handlerVars
  <2>1. PICK o \in Object : Create(o) \/ Drop(o)
    BY <1>2 DEF Others
  <2>2. ParamsSuit(o, o)
    <3>1. kind(o) # "procedure" \/ kind(o) # "domain"
      OBVIOUS
    <3> QED
      BY <3>1 DEF ParamsSuit
  <2>3. CASE Create(o)
    <3>1. db' = db \cup {o} /\ \A p \in db : ParamsSuit(o, p) /\ ParamsSuit(p, o)
      BY <2>3 DEF Create
    <3>2. \A p, q \in db' : ParamsSuit(p, q)
      BY <2>2, <3>1 DEF Suits
    <3> QED
      BY <3>2 DEF Suits
  <2>4. CASE Drop(o)
    BY <2>4 DEF Drop, Suits
  <2> QED
    BY <2>1, <2>3, <2>4
<1>3. CASE UNCHANGED vars
  BY <1>3 DEF Suits, vars, catalogVars
<1> QED
  BY <1>1, <1>2, <1>3 DEF Next, Over

\* An object that is to be told of when others have been created or dropped was to
\* be told of before.
LEMMA ToTellBefore ==
    ASSUME UNCHANGED <<call, faulted>>, stable' \subseteq stable, seen \subseteq seen', IsFiniteSet(seen'),
           NEW o \in Object, ToTell(o)'
    PROVE  ToTell(o)
<1>1. Sayable(o)' => Sayable(o)
  BY DEF Sayable, PlainParams, ParamDomains, kind, name
<1> DEFINE rivals(S) == {p \in S : kind(p) = kind(o) /\ ~ World[p].system}
           below(S) == {n \in Numbers(rivals(S)) : n < name(o)}
<1>2. Extracted(o)' => should_extract(name(o)) /\ ~ World[o].system /\ Cardinality(below(seen')) < CAP
  BY DEF Extracted, Rivals, WithinCap, should_extract, Numbers
<1>3. below(seen) \subseteq below(seen')
  BY DEF Numbers
<1>4. IsFiniteSet(below(seen'))
  <2>1. IsFiniteSet(rivals(seen'))
    BY FS_Subset
  <2>2. IsFiniteSet(Numbers(rivals(seen')))
    BY <2>1, NumbersFinite
  <2> QED
    BY <2>2, FS_Subset
<1>5. PICK a, b : a = below(seen) /\ b = below(seen')
  OBVIOUS
<1>6. IsFiniteSet(a) /\ Cardinality(a) <= Cardinality(b) /\ Cardinality(a) \in Nat /\ Cardinality(b) \in Nat
  BY <1>3, <1>4, <1>5, FS_Subset, FS_CardinalityType
<1>7. Cardinality(b) < CAP => Cardinality(a) < CAP
  BY <1>6, CatalogAssumption
<1>8. Cardinality(below(seen)) < CAP => WithinCap(o, Rivals(o))
  BY DEF WithinCap, Rivals
<1> QED
  BY <1>1, <1>2, <1>5, <1>7, <1>8 DEF ToTell, Extracted

\* The work that is begun with.
LEMMA PlanTells ==
    ASSUME NEW plan, plan = extract_ddl_filtered
    PROVE  /\ Order(plan)
           /\ \A o \in Object : /\ WorkRight(o, plan) /\ Due(o, plan) = Script(o)
                                /\ \A p : PartRight(o, plan, p)
<1> DEFINE a == Do("domains")
           b == Do("tables")
           c == Do("views")
           d == Do("sequences")
           e == Do("triggers")
           f == Do("procedures")
           g == Do("functions")
<1>1. plan = <<a, b, c, d, e, f, g>>
  BY DEF extract_ddl_filtered
<1>2. /\ a.op = "domains" /\ b.op = "tables" /\ c.op = "views" /\ d.op = "sequences"
      /\ e.op = "triggers" /\ f.op = "procedures" /\ g.op = "functions"
  BY DEF Do, Item
<1> HIDE DEF a, b, c, d, e, f, g
<1>3. /\ DOMAIN plan = 1 .. 7 /\ plan[1] = a /\ plan[2] = b /\ plan[3] = c /\ plan[4] = d
      /\ plan[5] = e /\ plan[6] = f /\ plan[7] = g
  BY <1>1
<1>4. plan \in Seq({a, b, c, d, e, f, g}) /\ plan # <<>>
  BY <1>1
<1>5. ListLong(plan, 7) /\ IsSome(plan)
  <2>1. plan = [k \in 1 .. 7 |-> plan[k]]
    BY <1>3, <1>4
  <2>2. ListLong(plan, 7)
    BY <2>1 DEF ListLong
  <2> QED
    BY <1>4, <2>2 DEF IsSome
<1>6. \A k \in 1 .. 7 : plan[k].op \in ListOps
  BY <1>2, <1>3 DEF ListOps
<1>7. \A k \in 1 .. 7 : plan[k].op \notin RoutineOps \cup TableOps \cup RoutinePart \cup {"returns"}
  BY <1>2, <1>3 DEF RoutineOps, ReadOps, TableOps, RoutinePart
<1>8. Order(plan)
  BY <1>3, <1>5, <1>7 DEF Order, Ordered, Paired
<1>9. ASSUME NEW o \in Object
      PROVE  WorkRight(o, plan) /\ (\A p : PartRight(o, plan, p))
  <2>1. WorkRight(o, plan)
    BY <1>3, <1>7 DEF WorkRight, RowRight, TableOps, RoutinePart, RoutineOps
  <2>2. ~ Busy(o, plan) /\ ~ Next2(o, plan)
    BY <1>3, <1>7 DEF Busy, Next2
  <2> QED
    BY <2>1, <2>2 DEF PartRight
<1>10. ASSUME NEW o \in Object
       PROVE  Due(o, plan) = Script(o)
  <2>1. ASSUME NEW i \in 1 .. 7, \A j \in 1 .. 7 : j # i => Says(o, plan[j]) = <<>>,
               Says(o, plan[i]) = Script(o)
        PROVE  Due(o, plan) = Script(o)
    <3>1. 7 \in Nat /\ ListLong(plan, 7)
      BY <1>5
    <3>2. Due(o, plan) = Says(o, plan[i])
      BY <2>1, <3>1, DueAlone
    <3> QED
      BY <2>1, <3>2
  <2> DEFINE ks == <<"domain", "table", "view", "sequence", "trigger", "procedure", "function">>
  <2>2. \A k \in 1 .. 7 : ks[k] \in Kind /\ plan[k].op = ListOp[ks[k]]
    BY <1>2, <1>3, ListOpIs DEF Kind
  <2>3. \A j, k \in 1 .. 7 : j # k => ks[j] # ks[k]
    OBVIOUS
  <2>4. \A x \in Kind : \E k \in 1 .. 7 : x = ks[k]
    BY DEF Kind
  <2>5. kind(o) \in Kind
    BY KindIs
  <2> HIDE DEF ks
  <2>6. PICK i \in 1 .. 7 : kind(o) = ks[i]
    BY <2>4, <2>5
  <2>7. Says(o, plan[i]) = Script(o)
    BY <2>2, <2>6, SaysOfList
  <2>8. \A j \in 1 .. 7 : j # i => Says(o, plan[j]) = <<>>
    BY <2>2, <2>3, <2>6, SaysOfList
  <2> QED
    BY <2>1, <2>7, <2>8
<1> QED
  BY <1>8, <1>9, <1>10

-----------------------------------------------------------------------------
\* Steps that leave nothing to do.
LEMMA EmptyTells ==
    ASSUME work' = <<>>, status' \notin {"run", "done"}
    PROVE  TellInv'
<1>1. PICK e : e = <<>>
  OBVIOUS
<1>2. Order(e)
  BY <1>1, NoneIsSome DEF Order, Ordered, Paired
<1>3. Order(work')
  BY <1>1, <1>2
<1>4. Order(work)'
  BY <1>3 DEF Order, IsSome, Ordered, Paired
<1> QED
  BY <1>4 DEF TellInv

LEMMA TellInit == Init => TellInv
<1> SUFFICES ASSUME Init
             PROVE  TellInv
  OBVIOUS
<1>1. work = <<>> /\ status = "start"
  BY DEF Init
<1>2. PICK e : e = <<>>
  OBVIOUS
<1>3. Order(e)
  BY <1>2, NoneIsSome DEF Order, Ordered, Paired
<1> QED
  BY <1>1, <1>2, <1>3 DEF TellInv

\* What an invariant of the same work, part and statements says in the next state.
LEMMA SameTells ==
    ASSUME TellInv, UNCHANGED <<call, work, part, out>>, status' \in {"run", "done"} => status \in {"run", "done"},
           \A o \in Object : ToTell(o)' => ToTell(o)
    PROVE  TellInv'
<1> SUFFICES ASSUME call.tool = "extract"
             PROVE  TellInv'
  BY DEF TellInv
<1>1. Order(work) /\ (status \in {"run", "done"} => \A o \in Object : ToTell(o) => TellsOf(o))
  BY DEF TellInv
<1>2. PICK w, p, t : w = work /\ p = part /\ t = out
  OBVIOUS
<1>3. work' = w /\ part' = p /\ out' = t
  BY <1>2
<1>4. Order(w)
  BY <1>1, <1>2
<1>5. ASSUME NEW o \in Object, ToTell(o)', status' \in {"run", "done"}
      PROVE  WorkRight(o, w) /\ PartRight(o, w, p) /\ Story(o, w, t)
  BY <1>1, <1>2, <1>5 DEF TellsOf
<1>6. Order(work')
  BY <1>3, <1>4
<1>7. CASE status' \in {"run", "done"}
  <2>1. \A o \in Object : ToTell(o)' =>
            WorkRight(o, work') /\ PartRight(o, work', part') /\ Story(o, work', out')
    BY <1>3, <1>5, <1>7
  <2> QED
    BY <1>6, <2>1, TellFrom
<1>8. CASE status' \notin {"run", "done"}
  <2>1. Order(work)'
    BY <1>6 DEF Order, IsSome, Ordered, Paired
  <2> QED
    BY <1>8, <2>1 DEF TellInv
<1> QED
  BY <1>7, <1>8

LEMMA BeginTells ==
    ASSUME TypeOK, Untouched, TellInv, call.tool = "extract", Begin
    PROVE  TellInv'
<1>1. /\ status = "start" /\ work' = extract_ddl_filtered
      /\ UNCHANGED <<catalogVars, call, part, out, faulted>>
  BY DEF Begin, Refused, Plan
<1>2. out = <<>>
  BY <1>1 DEF Untouched
<1>3. PICK plan : plan = extract_ddl_filtered
  OBVIOUS
<1>4. /\ Order(plan)
      /\ \A o \in Object : /\ WorkRight(o, plan) /\ Due(o, plan) = Script(o)
                           /\ \A p : PartRight(o, plan, p)
  BY <1>3, PlanTells
<1>5. PICK e : e = <<>>
  OBVIOUS
<1>6. ASSUME NEW o \in Object
      PROVE  Story(o, plan, e)
  <2>1. Said(o, e) = <<>>
    BY <1>5, SaidOne
  <2>2. PICK x : x = Script(o)
    OBVIOUS
  <2>3. IsSome(x)
    BY <2>2, SaidAreSome
  <2>4. PICK X : x \in Seq(X)
    BY <2>3 DEF IsSome
  <2>5. Concat(<<>>, x) = x
    BY <2>4, ConcatIs
  <2> QED
    BY <1>4, <2>1, <2>2, <2>5 DEF Story
<1>7. work' = plan /\ out' = e
  BY <1>1, <1>2, <1>3, <1>5
<1>8. Order(work') /\ \A o \in Object :
          WorkRight(o, work') /\ PartRight(o, work', part') /\ Story(o, work', out')
  BY <1>4, <1>6, <1>7
<1> QED
  BY <1>8, TellFrom

LEMMA ExtractTells ==
    ASSUME Telling, Extract
    PROVE  TellInv'
<1>1. CASE extract_domains \/ extract_tables \/ table_columns \/ table_constraints
  BY <1>1, DomainsTell, TablesTell, ColumnsTell, ConstraintsTell
<1>2. CASE table_key \/ foreign_key \/ table_indexes \/ extract_views \/ extract_sequences
  BY <1>2, KeysTell, IndexesTell, ViewsTell, SequencesTell
<1>3. CASE extract_triggers \/ extract_procedures \/ procedure_params \/ resolve_domain_type
  BY <1>3, TriggersTell, ProceduresTell, ParamsTell, ResolveTells
<1>4. CASE procedure_header \/ extract_functions \/ function_arguments \/ function_returns \/ function_fails
  BY <1>4, HeaderTells, FunctionsTell, ArgumentsTell, ReturnsTell, FailsTell
<1> QED
  BY <1>1, <1>2, <1>3, <1>4 DEF Extract

TellAll == TypeOK /\ Slots /\ NamesApart /\ Suits /\ Untouched /\ ExtractInv /\ TellInv

LEMMA TellStep ==
    ASSUME TellAll, call.tool = "extract", Step
    PROVE  TellInv'
<1> USE DEF TellAll
<1>1. CASE Begin
  BY <1>1, BeginTells
<1>2. CASE ErrorEnds
  <2>1. work' = <<>> /\ status' = "failed"
    BY <1>2 DEF ErrorEnds, Fails
  <2> QED
    BY <2>1, EmptyTells
<1>3. CASE Finish
  <2>1. UNCHANGED <<call, work, part, out>> /\ status = "run" /\ UNCHANGED <<catalogVars, call, faulted>>
    BY <1>3 DEF Finish
  <2>2. \A o \in Object : ToTell(o)' => ToTell(o)
    BY <2>1, ToTellSame
  <2> QED
    BY <2>1, <2>2, SameTells
<1>4. CASE Extract
  <2>1. Heads(ExtractOps)
    BY <1>4, ExtractHeads
  <2>2. status = "run" /\ work # <<>>
    BY <2>1 DEF Heads
  <2>3. Telling
    BY <2>2 DEF Telling
  <2> QED
    BY <1>4, <2>3, ExtractTells
<1>5. CASE Describe \/ SchemaRead \/ schema_fails
  BY <1>5, DescribeHeads, SchemaHeads, ExtractHead DEF ExtractOps, DescribeOps, SchemaOps
<1>6. CASE handle_list \/ handle_find_column \/ domain_list \/ domain_uses \/ column_types
  BY <1>6, ToolHeads, ExtractHead DEF ExtractOps
<1>7. CASE health \/ database_tables \/ database_keys \/ count \/ generate_keys \/ view_row
  BY <1>7, ToolHeads, ExtractHead DEF ExtractOps
<1>8. CASE handle_check_duplicates \/ duplicate_rows
  BY <1>8, ToolHeads, ExtractHead DEF ExtractOps
<1> QED
  BY <1>1, <1>2, <1>3, <1>4, <1>5, <1>6, <1>7, <1>8 DEF Step

LEMMA TellNext ==
    ASSUME TellAll, [Next]_vars
    PROVE  TellInv'
<1> USE DEF TellAll
<1>1. CASE Step
  <2>1. call' = call
    BY <1>1, CatalogStays
  <2>2. CASE call.tool = "extract"
    BY <1>1, <2>2, TellStep
  <2>3. CASE call.tool # "extract"
    BY <2>1, <2>3 DEF TellInv
  <2> QED
    BY <2>2, <2>3
<1>2. CASE Others /\ UNCHANGED handlerVars
  <2>1. UNCHANGED <<call, status, work, part, out, faulted>> /\ stable' \subseteq stable /\ seen \subseteq seen'
    BY <1>2, OthersKeep DEF handlerVars
  <2>2. IsFiniteSet(seen')
    BY SlotsNext DEF Slots
  <2>3. \A o \in Object : ToTell(o)' => ToTell(o)
    BY <2>1, <2>2, ToTellBefore
  <2> QED
    BY <2>1, <2>3, SameTells
<1>3. CASE UNCHANGED vars
  <2>1. UNCHANGED <<call, status, work, part, out, faulted>> /\ UNCHANGED <<catalogVars, call, faulted>>
    BY <1>3 DEF vars, handlerVars
  <2>2. \A o \in Object : ToTell(o)' => ToTell(o)
    BY <2>1, ToTellSame
  <2> QED
    BY <2>1, <2>2, SameTells
<1> QED
  BY <1>1, <1>2, <1>3 DEF Next, Over

LEMMA TellAlways == Spec => []TellAll
<1>1. Init => TellAll
  BY InitTypeOK, SlotsInit, NamesApartInit, SuitsInit, ExtractInit, TellInit DEF TellAll
<1>2. TellAll /\ [Next]_vars => TellAll'
  <2> SUFFICES ASSUME TellAll, [Next]_vars
               PROVE  TellAll'
    OBVIOUS
  <2>1. TellInv'
    BY TellNext
  <2>2. TypeOK' /\ Slots' /\ NamesApart' /\ Suits'
    BY NextTypeOK, SlotsNext, NamesApartNext, SuitsNext DEF TellAll
  <2>3. Untouched' /\ ExtractInv'
    BY ExtractNext DEF TellAll
  <2> QED
    BY <2>1, <2>2, <2>3 DEF TellAll
<1> QED
  BY <1>1, <1>2, PTL DEF Spec

-----------------------------------------------------------------------------
\* The statements about an object, of a script.
LEMMA AboutIs ==
    ASSUME IsSome(out), NEW o \in Object
    PROVE  About(o) = Said(o, out)
<1>1. PICK t : t = out
  OBVIOUS
<1>2. PICK X : t \in Seq(X)
  BY <1>1 DEF IsSome
<1>3. PICK n : n = Len(t)
  OBVIOUS
<1>4. n \in Nat /\ DOMAIN t = 1 .. n
  BY <1>2, <1>3
<1>5. PICK P : P = {k \in DOMAIN t : \/ t[k].stmt = kind(o) /\ t[k].name = name(o)
                                     \/ kind(o) = "table" /\ t[k].stmt \in {"key", "index"} /\ t[k].on = name(o)}
  OBVIOUS
<1>6. About(o) = Chosen(t, P)
  BY <1>1, <1>5 DEF About, Where
<1>7. PICK f : f = [k \in 1 .. n |-> IF k \in P THEN <<t[k]>> ELSE <<>>]
  OBVIOUS
<1>8. Chosen(t, P) = FlattenSeq(f)
  BY <1>2, <1>3, <1>4, <1>5, <1>7, ChosenFlat
<1>9. ASSUME NEW k \in 1 .. n
      PROVE  f[k] = Told1(o, t[k])
  <2>1. kind(o) \notin {"key", "index"}
    BY KindIs DEF Kind
  <2>2. k \in P <=> Regards(o, t[k])
    BY <1>4, <1>5, <2>1 DEF Regards, What, Whose
  <2> QED
    BY <1>7, <2>2 DEF Told1
<1>10. f = [k \in 1 .. n |-> Told1(o, t[k])]
  BY <1>7, <1>9
<1> QED
  BY <1>1, <1>3, <1>6, <1>8, <1>10 DEF Said

\* When a call is done its script says all of each object that it was to tell of.
LEMMA AllSaid ==
    ASSUME TypeOK, TellInv, Done("extract"), NEW o \in Object, ToTell(o), IsSome(out)
    PROVE  About(o) = Script(o)
<1>1. work = <<>> /\ Story(o, work, out)
  BY DEF TypeOK, Done, TellInv, TellsOf
<1>2. PICK e : e = <<>>
  OBVIOUS
<1>3. Story(o, e, out) /\ Due(o, e) = <<>>
  BY <1>1, <1>2, DueNone
<1>4. PICK B : out \in Seq(B)
  BY DEF IsSome
<1>5. PICK t : t = out
  OBVIOUS
<1>6. t \in Seq(B)
  BY <1>4, <1>5
<1>7. PICK y : y = Said(o, t)
  OBVIOUS
<1>8. y \in Seq(B)
  BY <1>6, <1>7, SaidConcat
<1>9. Concat(y, <<>>) = y
  BY <1>8, ConcatIs
<1>10. Said(o, out) = Script(o)
  BY <1>3, <1>5, <1>7, <1>9 DEF Story
<1> QED
  BY <1>10, AboutIs

\* What the first n statements of L make, one after the other.
Making(L, n, f) == f = [k \in 0 .. n |-> IF k = 0 THEN {} ELSE Put(f[k - 1], L[k])]

LEMMA FoldedExists ==
    ASSUME NEW L, NEW n \in Nat
    PROVE  \E f : Making(L, n, f)
<1> DEFINE S == {m \in Nat : \E f : Making(L, m, f)}
<1>1. 0 \in S
  <2>1. Making(L, 0, [k \in 0 .. 0 |-> {}])
    BY DEF Making
  <2> QED
    BY <2>1
<1>2. ASSUME NEW m \in Nat, m \in S
      PROVE  m + 1 \in S
  <2>1. PICK f : Making(L, m, f)
    BY <1>2
  <2>2. PICK last : last = Put(f[m], L[m + 1])
    OBVIOUS
  <2> DEFINE g == [k \in 0 .. m + 1 |-> IF k = m + 1 THEN last ELSE f[k]]
             h == [k \in 0 .. m + 1 |-> IF k = 0 THEN {} ELSE Put(g[k - 1], L[k])]
  <2>3. ASSUME NEW k \in 0 .. m + 1
        PROVE  g[k] = h[k]
    <3>1. h[k] = IF k = 0 THEN {} ELSE Put(g[k - 1], L[k])
      OBVIOUS
    <3>2. CASE k = m + 1
      <4>1. g[k] = last /\ k # 0 /\ k - 1 = m /\ m \in 0 .. m + 1 /\ m # m + 1
        BY <3>2
      <4>2. g[m] = f[m]
        BY <4>1
      <4>3. h[k] = Put(g[m], L[m + 1])
        BY <3>1, <3>2, <4>1
      <4> QED
        BY <2>2, <4>1, <4>2, <4>3
    <3>3. CASE k # m + 1
      <4>1. k \in 0 .. m /\ g[k] = f[k]
        BY <3>3
      <4>2. f[k] = IF k = 0 THEN {} ELSE Put(f[k - 1], L[k])
        BY <2>1, <4>1 DEF Making
      <4>3. CASE k = 0
        BY <3>1, <4>1, <4>2, <4>3
      <4>4. CASE k # 0
        <5>1. k - 1 \in 0 .. m + 1 /\ k - 1 # m + 1
          BY <4>1, <4>4
        <5>2. g[k - 1] = f[k - 1]
          BY <5>1
        <5>3. h[k] = Put(g[k - 1], L[k]) /\ f[k] = Put(f[k - 1], L[k])
          BY <3>1, <4>2, <4>4
        <5> QED
          BY <4>1, <5>2, <5>3
      <4> QED
        BY <4>3, <4>4
    <3> QED
      BY <3>2, <3>3
  <2>4. DOMAIN g = 0 .. m + 1 /\ DOMAIN h = 0 .. m + 1
    OBVIOUS
  <2>5. g = [k \in 0 .. m + 1 |-> g[k]] /\ h = [k \in 0 .. m + 1 |-> h[k]]
    OBVIOUS
  <2>6. g = h
    <3> HIDE DEF g, h
    <3> QED
      BY <2>3, <2>5
  <2>7. Making(L, m + 1, g)
    BY <2>6 DEF Making
  <2> QED
    BY <2>7
<1> HIDE DEF S
<1>3. Nat \subseteq S
  BY <1>1, <1>2, SetInduction
<1> QED
  BY <1>3 DEF S

LEMMA FoldedIs ==
    ASSUME NEW L, NEW n \in Nat, NEW f, Making(L, n, f)
    PROVE  f[0] = {} /\ \A k \in 1 .. n : f[k] = Put(f[k - 1], L[k])
<1>1. \A k \in 0 .. n : f[k] = IF k = 0 THEN {} ELSE Put(f[k - 1], L[k])
  BY DEF Making
<1>2. 0 \in 0 .. n /\ \A k \in 1 .. n : k \in 0 .. n /\ k # 0
  OBVIOUS
<1> QED
  BY <1>1, <1>2

LEMMA RemadeIs ==
    ASSUME NEW o, NEW L, L = About(o), NEW n \in Nat, n = Len(L)
    PROVE  \E f : Making(L, n, f) /\ Remade(o) = f[n]
<1> DEFINE made == CHOOSE f : Making(L, n, f)
<1>1. Making(L, n, made)
  BY FoldedExists
<1>2. Remade(o) = made[n]
  BY DEF Remade, Making
<1> HIDE DEF made
<1> QED
  BY <1>1, <1>2

LEMMA RemadeOne ==
    ASSUME NEW o, NEW s, About(o) = <<s>>, s.stmt \notin {"key", "index"}
    PROVE  Remade(o) = {Made(s)}
<1>1. PICK L : L = About(o)
  OBVIOUS
<1>2. Len(L) = 1 /\ L[1] = s
  BY <1>1
<1>3. PICK f : Making(L, 1, f) /\ Remade(o) = f[1]
  BY <1>1, <1>2, RemadeIs
<1>4. f[0] = {} /\ \A k \in 1 .. 1 : f[k] = Put(f[k - 1], L[k])
  BY <1>3, FoldedIs
<1>5. f[1] = Put(f[0], L[1])
  BY <1>4
<1>6. Put({}, s) = {} \cup {Made(s)}
  BY DEF Put
<1> QED
  BY <1>2, <1>3, <1>4, <1>5, <1>6

\* A table that is being made: its keys and its indexes come one by one.
TableOf(u, cols, keys, idx) ==
    [kind |-> "table", name |-> u, unsaid |-> {}, keys |-> keys, idx |-> idx, cols |-> cols]
KeyRow(s) == <<s.name, s.type, s.cols, s.ref>>
IndexRow(s) == <<s.name, s.cols, FALSE>>

IsTable(x, u, cols, keys, idx) == x = {TableOf(u, cols, keys, idx)}
LEMMA PutOnTable ==
    ASSUME NEW s, NEW u, u = upper[s.on], NEW cols, NEW keys, NEW idx,
           NEW r, r = TableOf(u, cols, keys, idx)
    PROVE  /\ s.stmt = "key" => IsTable(Put({r}, s), u, cols, Append(keys, KeyRow(s)), idx)
           /\ s.stmt = "index" => IsTable(Put({r}, s), u, cols, keys, Append(idx, IndexRow(s)))
<1> SUFFICES /\ s.stmt = "key" => Put({r}, s) = {TableOf(u, cols, Append(keys, KeyRow(s)), idx)}
             /\ s.stmt = "index" => Put({r}, s) = {TableOf(u, cols, keys, Append(idx, IndexRow(s)))}
  BY DEF IsTable
<1>1. /\ r.kind = "table" /\ r.name = u /\ r.keys = keys /\ r.idx = idx
      /\ \A k : [r EXCEPT !.keys = k] = TableOf(u, cols, k, idx)
      /\ \A i : [r EXCEPT !.idx = i] = TableOf(u, cols, keys, i)
  BY DEF TableOf
<1> DEFINE F(x) == IF x.kind = "table" /\ x.name = upper[s.on]
                  THEN IF s.stmt = "key"
                       THEN [x EXCEPT !.keys = Append(@, <<s.name, s.type, s.cols, s.ref>>)]
                       ELSE [x EXCEPT !.idx = Append(@, <<s.name, s.cols, FALSE>>)]
                  ELSE x
<1>4. s.stmt \in {"key", "index"} => Put({r}, s) = {F(x) : x \in {r}}
  BY DEF Put
<1>5. {F(x) : x \in {r}} = {F(r)}
  <2> HIDE DEF F
  <2> QED
    OBVIOUS
<1>2. CASE s.stmt = "key"
  <2>1. Put({r}, s) = {[r EXCEPT !.keys = Append(r.keys, <<s.name, s.type, s.cols, s.ref>>)]}
    <3>1. F(r) = [r EXCEPT !.keys = Append(r.keys, <<s.name, s.type, s.cols, s.ref>>)]
      BY <1>1, <1>2
    <3> HIDE DEF F
    <3> QED
      BY <1>2, <1>4, <1>5, <3>1
  <2>2. PICK k : k = Append(keys, KeyRow(s))
    OBVIOUS
  <2>3. Append(r.keys, <<s.name, s.type, s.cols, s.ref>>) = k
    BY <1>1, <2>2 DEF KeyRow
  <2>4. Put({r}, s) = {[r EXCEPT !.keys = k]}
    BY <2>1, <2>3
  <2> QED
    BY <1>1, <1>2, <2>2, <2>4
<1>3. CASE s.stmt = "index"
  <2>1. Put({r}, s) = {[r EXCEPT !.idx = Append(r.idx, <<s.name, s.cols, FALSE>>)]}
    <3>1. F(r) = [r EXCEPT !.idx = Append(r.idx, <<s.name, s.cols, FALSE>>)]
      BY <1>1, <1>3
    <3> HIDE DEF F
    <3> QED
      BY <1>3, <1>4, <1>5, <3>1
  <2>2. PICK i : i = Append(idx, IndexRow(s))
    OBVIOUS
  <2>3. Append(r.idx, <<s.name, s.cols, FALSE>>) = i
    BY <1>1, <2>2 DEF IndexRow
  <2>4. Put({r}, s) = {[r EXCEPT !.idx = i]}
    BY <2>1, <2>3
  <2> QED
    BY <1>1, <1>3, <2>2, <2>4
<1> QED
  BY <1>2, <1>3

LEMMA AppendIs ==
    ASSUME NEW m \in Nat, NEW L, NEW d \in Nat
    PROVE  /\ Append([j \in 1 .. m |-> KeyRow(L[d + j])], KeyRow(L[d + m + 1]))
                 = [j \in 1 .. m + 1 |-> KeyRow(L[d + j])]
           /\ Append([j \in 1 .. m |-> IndexRow(L[d + j])], IndexRow(L[d + m + 1]))
                 = [j \in 1 .. m + 1 |-> IndexRow(L[d + j])]
<1>1. ASSUME NEW g, NEW x, NEW X, g \in [1 .. m + 1 -> X], NEW y, y = [j \in 1 .. m |-> g[j]],
             x = g[m + 1]
      PROVE  Append(y, x) = g
  <2>1. y \in [1 .. m -> X]
    BY <1>1
  <2>2. y \in Seq(X) /\ Len(y) = m /\ x \in X /\ \A j \in 1 .. m : y[j] = g[j]
    BY <1>1, <2>1
  <2>3. PICK a : a = Append(y, x)
    OBVIOUS
  <2>4. a \in Seq(X) /\ Len(a) = m + 1 /\ a[m + 1] = x /\ \A j \in 1 .. m : a[j] = y[j]
    BY <2>2, <2>3
  <2>5. g \in Seq(X) /\ Len(g) = m + 1
    BY <1>1
  <2>6. \A j \in 1 .. m + 1 : a[j] = g[j]
    <3>1. \A j \in 1 .. m + 1 : j = m + 1 \/ j \in 1 .. m
      OBVIOUS
    <3> QED
      BY <1>1, <2>2, <2>4, <3>1
  <2> QED
    BY <2>3, <2>4, <2>5, <2>6, SeqEqual
<1> DEFINE k == [j \in 1 .. m + 1 |-> KeyRow(L[d + j])]
           i == [j \in 1 .. m + 1 |-> IndexRow(L[d + j])]
<1>2. /\ k \in [1 .. m + 1 -> {k[j] : j \in 1 .. m + 1}]
      /\ i \in [1 .. m + 1 -> {i[j] : j \in 1 .. m + 1}]
  OBVIOUS
<1>3. /\ [j \in 1 .. m |-> KeyRow(L[d + j])] = [j \in 1 .. m |-> k[j]]
      /\ [j \in 1 .. m |-> IndexRow(L[d + j])] = [j \in 1 .. m |-> i[j]]
  OBVIOUS
<1>4. d + (m + 1) = d + m + 1 /\ m + 1 \in 1 .. m + 1
  OBVIOUS
<1>5. k[m + 1] = KeyRow(L[d + m + 1]) /\ i[m + 1] = IndexRow(L[d + m + 1])
  BY <1>4
<1> HIDE DEF k, i
<1>6. /\ Append([j \in 1 .. m |-> k[j]], KeyRow(L[d + m + 1])) = k
      /\ Append([j \in 1 .. m |-> i[j]], IndexRow(L[d + m + 1])) = i
  BY <1>1, <1>2, <1>5
<1> QED
  BY <1>3, <1>6 DEF k, i

-----------------------------------------------------------------------------
\* What the statements about an object make is the object, as far as a script says it.
Recovered(o) ==
    \E q \in Remade(o) : Shape(Modest(o, [q EXCEPT !.name = name(o)])) = Shape(Modest(o, Original(o)))

LEMMA RecoveredOne ==
    ASSUME NEW o, NEW s, About(o) = <<s>>, s.stmt \notin {"key", "index"}, NEW m, m = Made(s),
           NEW r, r = [m EXCEPT !.name = name(o)], NEW p, p = Original(o),
           r.kind # "table", p.kind # "table", Shape(r) = Shape(p)
    PROVE  Recovered(o)
<1>1. Remade(o) = {m}
  BY RemadeOne
<1>2. Modest(o, r) = r /\ Modest(o, p) = p
  BY DEF Modest
<1>3. m \in Remade(o) /\ Shape(Modest(o, [m EXCEPT !.name = name(o)])) = Shape(Modest(o, Original(o)))
  BY <1>1, <1>2
<1> QED
  BY <1>3 DEF Recovered

LEMMA DomainRecovered ==
    ASSUME NEW o \in Object, About(o) = Script(o), kind(o) = "domain"
    PROVE  Recovered(o)
<1>1. PICK s : s = DomainStmt(o)
  OBVIOUS
<1>2. About(o) = <<s>> /\ s.stmt = "domain" /\ s.type = format_column_type(World[o].type)
  BY <1>1 DEF Script, DomainStmt
<1>3. PICK m : m = Made(s)
  OBVIOUS
<1>4. m = [kind |-> "domain", name |-> upper[s.name], type |-> Declared(s.type),
           null |-> Bit(s.notnull), default |-> s.default]
  BY <1>2, <1>3 DEF Made
<1>5. PICK r : r = [m EXCEPT !.name = name(o)]
  OBVIOUS
<1>6. r.kind = "domain" /\ r.name = name(o) /\ r.type = Declared(s.type)
  BY <1>4, <1>5
<1>7. PICK p : p = Original(o)
  OBVIOUS
<1>8. p = [kind |-> "domain", name |-> name(o), type |-> World[o].type, null |-> World[o].null,
           default |-> World[o].default]
  BY <1>7 DEF Original
<1>9. Declared(s.type) = World[o].type
  <2>1. IsDeclared(World[o].type)
    BY TypeAssumption
  <2> QED
    BY <1>2, <2>1, Redeclared
<1>10. Shape(r) = <<"domain", name(o), World[o].type>> /\ Shape(p) = <<"domain", name(o), World[o].type>>
  BY <1>6, <1>8, <1>9 DEF Shape
<1>11. s.stmt \notin {"key", "index"} /\ r.kind # "table" /\ p.kind # "table" /\ Shape(r) = Shape(p)
  BY <1>2, <1>6, <1>8, <1>10
<1> QED
  BY <1>2, <1>3, <1>5, <1>7, <1>11, RecoveredOne

\* Kinds of which the whole record is the shape.
LEMMA RecoveredWhole ==
    ASSUME NEW o, NEW s, About(o) = <<s>>, s.stmt \notin {"key", "index"}, NEW m, m = Made(s),
           m.kind \notin {"table", "domain"}, [m EXCEPT !.name = name(o)] = Original(o),
           [m EXCEPT !.name = name(o)].kind = m.kind
    PROVE  Recovered(o)
<1>1. PICK r : r = [m EXCEPT !.name = name(o)]
  OBVIOUS
<1>2. PICK p : p = Original(o)
  OBVIOUS
<1>3. r = p /\ r.kind # "table" /\ p.kind # "table" /\ Shape(r) = Shape(p)
  BY <1>1, <1>2
<1> QED
  BY <1>1, <1>2, <1>3, RecoveredOne

\* Kinds of which it is the record but for what is unsaid.
LEMMA RecoveredUnsaid ==
    ASSUME NEW o, NEW s, About(o) = <<s>>, s.stmt \notin {"key", "index"}, NEW m, m = Made(s),
           NEW r, r = [m EXCEPT !.name = name(o)], NEW p, p = Original(o), r.kind = p.kind,
           r.kind \in {"view", "sequence", "trigger"}, [r EXCEPT !.unsaid = {}] = [p EXCEPT !.unsaid = {}]
    PROVE  Recovered(o)
<1>1. r.kind # "table" /\ p.kind # "table" /\ r.kind # "domain"
  OBVIOUS
<1>2. Shape(r) = Shape(p)
  BY <1>1 DEF Shape
<1> QED
  BY <1>1, <1>2, RecoveredOne

LEMMA ViewRecovered ==
    ASSUME NEW o \in Object, About(o) = Script(o), kind(o) \in {"view", "sequence"}
    PROVE  Recovered(o)
<1>1. CASE kind(o) = "view"
  <2>1. PICK s : s = ViewStmt(o)
    OBVIOUS
  <2>2. About(o) = <<s>> /\ s.stmt = "view" /\ s.uses = World[o].uses
    BY <1>1, <2>1 DEF Script, ViewStmt, Needs
  <2>3. PICK m : m = Made(s)
    OBVIOUS
  <2>4. m = [kind |-> "view", name |-> upper[s.name], unsaid |-> {}, uses |-> World[o].uses]
    BY <2>2, <2>3 DEF Made
  <2>5. PICK p : p = Original(o)
    OBVIOUS
  <2>6. p = [kind |-> "view", name |-> name(o), unsaid |-> World[o].unsaid, uses |-> World[o].uses]
    BY <1>1, <2>5 DEF Original
  <2>7. PICK r : r = [m EXCEPT !.name = name(o)]
    OBVIOUS
  <2>8. /\ r.kind = p.kind /\ r.kind \in {"view", "sequence", "trigger"}
        /\ [r EXCEPT !.unsaid = {}] = [p EXCEPT !.unsaid = {}]
    <3>1. PICK n, none, w : n = name(o) /\ none = {} /\ w = World[o].uses
      OBVIOUS
    <3>2. r = [kind |-> "view", name |-> n, unsaid |-> none, uses |-> w]
      BY <2>4, <2>7, <3>1
    <3>3. [p EXCEPT !.unsaid = none] = r /\ p.kind = "view"
      BY <2>6, <3>1, <3>2
    <3>4. [r EXCEPT !.unsaid = none] = r /\ r.kind = "view"
      BY <3>2
    <3> QED
      BY <3>1, <3>3, <3>4
  <2>9. s.stmt \notin {"key", "index"}
    BY <2>2
  <2> QED
    BY <2>2, <2>3, <2>5, <2>7, <2>8, <2>9, RecoveredUnsaid
<1>2. CASE kind(o) = "sequence"
  <2>1. PICK s : s = SequenceStmt(o)
    OBVIOUS
  <2>2. About(o) = <<s>> /\ s.stmt = "sequence"
    BY <1>2, <2>1 DEF Script, SequenceStmt
  <2>3. PICK m : m = Made(s)
    OBVIOUS
  <2>4. m = [kind |-> "sequence", name |-> upper[s.name], unsaid |-> {}]
    BY <2>2, <2>3 DEF Made
  <2>5. PICK p : p = Original(o)
    OBVIOUS
  <2>6. p = [kind |-> "sequence", name |-> name(o), unsaid |-> World[o].unsaid]
    BY <1>2, <2>5 DEF Original
  <2>7. PICK r : r = [m EXCEPT !.name = name(o)]
    OBVIOUS
  <2>8. /\ r.kind = p.kind /\ r.kind \in {"view", "sequence", "trigger"}
        /\ [r EXCEPT !.unsaid = {}] = [p EXCEPT !.unsaid = {}]
    <3>1. PICK n, none : n = name(o) /\ none = {}
      OBVIOUS
    <3>2. r = [kind |-> "sequence", name |-> n, unsaid |-> none]
      BY <2>4, <2>7, <3>1
    <3>3. [p EXCEPT !.unsaid = none] = r /\ p.kind = "sequence"
      BY <2>6, <3>1, <3>2
    <3>4. [r EXCEPT !.unsaid = none] = r /\ r.kind = "sequence"
      BY <3>2
    <3> QED
      BY <3>1, <3>3, <3>4
  <2>9. s.stmt \notin {"key", "index"}
    BY <2>2
  <2> QED
    BY <2>2, <2>3, <2>5, <2>7, <2>8, <2>9, RecoveredUnsaid
<1> QED
  BY <1>1, <1>2

LEMMA TriggerRecovered ==
    ASSUME NEW o \in Object, About(o) = Script(o), kind(o) = "trigger", World[o].event \in 1 .. 6
    PROVE  Recovered(o)
<1>1. PICK s : s = TriggerStmt(o)
  OBVIOUS
<1>2. About(o) = <<s>> /\ s.stmt = "trigger" /\ s.uses = World[o].uses /\ s.on = World[o].on
      /\ s.event = World[o].event
  BY <1>1 DEF Script, TriggerStmt, Needs, TriggerEvent
<1>3. PICK m : m = Made(s)
  OBVIOUS
<1>4. m = [kind |-> "trigger", name |-> upper[s.name], unsaid |-> {}, on |-> World[o].on,
           event |-> World[o].event, uses |-> World[o].uses]
  BY <1>2, <1>3 DEF Made
<1>5. PICK p : p = Original(o)
  OBVIOUS
<1>6. p = [kind |-> "trigger", name |-> name(o), unsaid |-> World[o].unsaid, on |-> World[o].on,
           event |-> World[o].event, uses |-> World[o].uses]
  BY <1>5 DEF Original
<1>7. PICK r : r = [m EXCEPT !.name = name(o)]
  OBVIOUS
<1>8. /\ r.kind = p.kind /\ r.kind \in {"view", "sequence", "trigger"}
      /\ [r EXCEPT !.unsaid = {}] = [p EXCEPT !.unsaid = {}]
  <2>1. PICK n, none, a, e, w : /\ n = name(o) /\ none = {} /\ a = World[o].on
                                /\ e = World[o].event /\ w = World[o].uses
    OBVIOUS
  <2>2. r = [kind |-> "trigger", name |-> n, unsaid |-> none, on |-> a, event |-> e, uses |-> w]
    BY <1>4, <1>7, <2>1
  <2>3. [p EXCEPT !.unsaid = none] = r /\ p.kind = "trigger"
    BY <1>6, <2>1, <2>2
  <2>4. [r EXCEPT !.unsaid = none] = r /\ r.kind = "trigger"
    BY <2>2
  <2> QED
    BY <2>1, <2>3, <2>4
<1>9. s.stmt \notin {"key", "index"}
  BY <1>2
<1> QED
  BY <1>2, <1>3, <1>5, <1>7, <1>8, <1>9, RecoveredUnsaid

-----------------------------------------------------------------------------
\* A parameter is declared as it is: a plain one as VARCHAR(100), another as its
\* domain, which stays.
LEMMA ParamDeclared ==
    ASSUME TypeOK, Suits, NEW o \in Object, ToTell(o), kind(o) = "procedure",
           NEW p \in ToSet(World[o].params)
    PROVE  Declared(Def(p).type) = p.type
<1>1. PICK k \in DOMAIN World[o].params : p = World[o].params[k]
  BY DEF ToSet
<1>2. PlainParams(o) /\ o \in stable
  BY DEF ToTell, Sayable
<1>3. CASE p.source = 0
  <2>1. p.type = Declared(<<"VARCHAR", <<100>>>>)
    BY <1>1, <1>2, <1>3 DEF PlainParams
  <2>2. Def(p).type = <<"VARCHAR", <<100>>>>
    BY <1>3 DEF Def
  <2> QED
    BY <2>1, <2>2
<1>4. CASE p.source # 0
  <2>1. p.source \in ParamDomains(o)
    BY <1>1, <1>4 DEF ParamDomains
  <2>2. PICK d \in stable : kind(d) = "domain" /\ name(d) = p.source
    BY <2>1 DEF ToTell, Sayable
  <2>3. o \in db /\ d \in db /\ d \in Object
    BY <1>2 DEF TypeOK, CatalogTypeOK
  <2>4. ParamsSuit(o, d)
    BY <2>3 DEF Suits
  <2>5. p.type = World[d].type
    BY <2>2, <2>4 DEF ParamsSuit
  <2>6. IsDeclared(p.type)
    BY <2>2, <2>3, <2>5, TypeAssumption
  <2>7. Def(p).type = format_column_type(p.type)
    BY <1>4 DEF Def
  <2> QED
    BY <2>6, <2>7, Redeclared
<1> QED
  BY <1>3, <1>4

LEMMA SeqDomain ==
    ASSUME NEW X, NEW s \in Seq(X)
    PROVE  DOMAIN s = 1 .. Len(s) /\ Len(s) \in Nat
OBVIOUS

LEMMA LengthOf ==
    ASSUME NEW n \in Nat, NEW f, DOMAIN f = 1 .. n, NEW F, f = [k \in 1 .. n |-> F[k]]
    PROVE  Len(f) = n
<1>1. f \in Seq({F[k] : k \in 1 .. n})
  OBVIOUS
<1> QED
  BY <1>1

LEMMA DefKeeps ==
    ASSUME NEW p
    PROVE  Def(p).out = p.out /\ Def(p).name = p.name
BY Zenon DEF Def

\* Choosing from what is made of a list, and making of what is chosen from it.
LEMMA ChosenMade ==
    ASSUME NEW X, NEW s \in Seq(X), NEW Y, NEW F \in [X -> Y],
           NEW g, MadeOf(g, F, s),
           NEW Q \in SUBSET DOMAIN g, NEW PQ \in SUBSET DOMAIN s,
           KeptAlike(g, F, s, DOMAIN s, Q, PQ), NEW d, d = Chosen(s, PQ)
    PROVE  MadeOf(Chosen(g, Q), F, d)
<1>1. PICK P : P = DOMAIN s
  OBVIOUS
<1>2. P \in SUBSET DOMAIN s /\ PQ \in SUBSET P
  BY <1>1
<1>3. s = Chosen(s, P)
  BY <1>1, AllChosen
<1>4. KeptAlike(g, F, s, P, Q, PQ)
  BY <1>1
<1> QED
  BY <1>2, <1>3, <1>4, ChosenTwice

\* The parameters of one direction.
Outs(s, b) == {k \in DOMAIN s : s[k].out = b}

LEMMA ParamsTyped ==
    ASSUME NEW ps \in Seq(ParamData), \A p \in ToSet(ps) : Declared(Def(p).type) = p.type,
           NEW b \in BOOLEAN, NEW g, g = [k \in 1 .. Len(ps) |-> Def(ps[k])],
           NEW Q, Q = Outs(g, b), NEW c, c = Chosen(g, Q),
           NEW PQ, PQ = Outs(ps, b), NEW d, d = Chosen(ps, PQ)
    PROVE  /\ Len(c) = Len(d)
           /\ \A j \in 1 .. Len(d) : Typed(c[j]) = OriginalParam(d[j])
<1>1. PICK F : F = [p \in ParamData |-> Def(p)]
  OBVIOUS
<1>2. PICK Y : Y = {Def(p) : p \in ParamData}
  OBVIOUS
<1>3. F \in [ParamData -> Y]
  BY <1>1, <1>2
<1>4. \A k \in 1 .. Len(ps) : ps[k] \in ParamData /\ F[ps[k]] = Def(ps[k])
  BY <1>1
<1>5. DOMAIN ps = 1 .. Len(ps) /\ Len(ps) \in Nat /\ DOMAIN g = 1 .. Len(ps)
  BY SeqDomain
<1>6. MadeOf(g, F, ps)
  BY <1>4 DEF MadeOf
<1>7. \A p \in ParamData : F[p].out = p.out
  BY <1>1, DefKeeps
<1>8. KeptAlike(g, F, ps, DOMAIN ps, Q, PQ)
  <2>1. ASSUME NEW k \in DOMAIN g, NEW p \in DOMAIN ps, g[k] = F[ps[p]]
        PROVE  k \in Q <=> p \in PQ
    <3>1. g[k].out = ps[p].out
      BY <1>4, <1>5, <1>7, <2>1
    <3> QED
      BY <3>1 DEF Outs
  <2> QED
    BY <2>1 DEF KeptAlike
<1>9. Q \in SUBSET DOMAIN g /\ PQ \in SUBSET DOMAIN ps
  BY DEF Outs
<1>10. Chosen(g, Q) = [j \in 1 .. Len(d) |-> F[d[j]]]
  <2>1. MadeOf(Chosen(g, Q), F, d)
    BY <1>3, <1>6, <1>8, <1>9, ChosenMade
  <2> QED
    BY <2>1 DEF MadeOf
<1>11. d \in Seq(ParamData) /\ \E at : Picks(d, ps, PQ, at)
  BY <1>9, ChosenIs
<1>12. DOMAIN d = 1 .. Len(d) /\ Len(d) \in Nat
  BY <1>11, SeqDomain
<1>13. \A j \in 1 .. Len(d) : d[j] \in ToSet(ps)
  <2>1. PICK at : Picks(d, ps, PQ, at)
    BY <1>11
  <2>2. /\ DOMAIN d = DOMAIN at /\ at \in [DOMAIN d -> PQ]
        /\ \A k \in DOMAIN d : d[k] = ps[at[k]]
    BY <2>1 DEF Picks
  <2>3. \A j \in DOMAIN d : at[j] \in DOMAIN ps
    BY <1>9, <2>2
  <2>4. \A k \in DOMAIN ps : ps[k] \in ToSet(ps)
    BY DEF ToSet
  <2> QED
    BY <1>12, <2>2, <2>3, <2>4
<1>14. \A j \in 1 .. Len(d) : d[j] \in ParamData
  BY <1>11, <1>12
<1>15. DOMAIN c = 1 .. Len(d) /\ \A j \in 1 .. Len(d) : c[j] = F[d[j]]
  BY <1>10
<1>16. Len(c) = Len(d)
  <2>1. PICK n : n = Len(d)
    OBVIOUS
  <2>2. c = [j \in 1 .. n |-> c[j]] /\ DOMAIN c = 1 .. n /\ n \in Nat
    BY <1>10, <1>12, <1>15, <2>1
  <2> QED
    BY <2>1, <2>2, LengthOf
<1>17. ASSUME NEW j \in 1 .. Len(d)
       PROVE  Typed(c[j]) = OriginalParam(d[j])
  <2>1. c[j] = Def(d[j]) /\ d[j] \in ToSet(ps)
    BY <1>1, <1>13, <1>14, <1>15
  <2>2. Declared(c[j].type) = d[j].type
    BY <2>1
  <2>3. c[j].name = d[j].name
    BY <2>1, DefKeeps
  <2> QED
    BY <2>2, <2>3 DEF Typed, OriginalParam
<1> QED
  BY <1>16, <1>17

LEMMA ProcedureRecovered ==
    ASSUME TypeOK, Suits, NEW o \in Object, ToTell(o), About(o) = Script(o), kind(o) = "procedure"
    PROVE  Recovered(o)
<1>1. PICK s : s = ProcedureSaid(o)
  OBVIOUS
<1>2. PICK ps, g : ps = World[o].params /\ g = ForEach(ps, Def)
  OBVIOUS
<1>3. PICK ins, outs : /\ ins = {k \in DOMAIN g : g[k].out = FALSE}
                       /\ outs = {k \in DOMAIN g : g[k].out = TRUE}
  OBVIOUS
<1>4. ps \in Seq(ParamData) /\ \A p \in ToSet(ps) : Declared(Def(p).type) = p.type
  BY <1>2, ParamDeclared, WorldAssumption
<1>5. DOMAIN g = DOMAIN ps /\ \A k \in DOMAIN g : g[k].out \in BOOLEAN
  <2>1. DOMAIN ps = 1 .. Len(ps) /\ \A k \in DOMAIN ps : ps[k] \in ParamData
    BY <1>4
  <2>2. \A k \in DOMAIN ps : g[k] = Def(ps[k]) /\ DOMAIN g = DOMAIN ps
    BY <1>2, <2>1 DEF ForEach
  <2>3. DOMAIN g = DOMAIN ps
    BY <1>2, <2>1 DEF ForEach
  <2>4. \A p \in ParamData : p.out \in BOOLEAN
    BY DEF ParamData
  <2>5. \A k \in DOMAIN ps : g[k].out = ps[k].out
    BY <2>2, DefKeeps
  <2> QED
    BY <2>1, <2>3, <2>4, <2>5
<1>6. PICK is, os : /\ is = {k \in DOMAIN ps : ps[k].out = FALSE}
                    /\ os = {k \in DOMAIN ps : ps[k].out = TRUE}
  OBVIOUS
<1>7. /\ ForEach(Chosen(g, ins), Typed) = ForEach(Chosen(ps, is), OriginalParam)
      /\ ForEach(Chosen(g, outs), Typed) = ForEach(Chosen(ps, os), OriginalParam)
  <2>1. PICK b, a : b = FALSE /\ a = TRUE
    OBVIOUS
  <2>2. ps \in Seq(ParamData) /\ b \in BOOLEAN /\ a \in BOOLEAN
        /\ g = [k \in 1 .. Len(ps) |-> Def(ps[k])]
    BY <1>2, <1>4, <2>1 DEF ForEach
  <2>3. \A p \in ToSet(ps) : Declared(Def(p).type) = p.type
    BY <1>4
  <2>4. PICK ci, co, di, do : /\ ci = Chosen(g, ins) /\ co = Chosen(g, outs)
                             /\ di = Chosen(ps, is) /\ do = Chosen(ps, os)
    OBVIOUS
  <2>5. ins = Outs(g, b) /\ is = Outs(ps, b)
    BY <1>3, <1>6, <2>1 DEF Outs
  <2>6. outs = Outs(g, a) /\ os = Outs(ps, a)
    BY <1>3, <1>6, <2>1 DEF Outs
  <2>7. Len(ci) = Len(di) /\ \A j \in 1 .. Len(di) : Typed(ci[j]) = OriginalParam(di[j])
    BY <2>2, <2>3, <2>4, <2>5, ParamsTyped
  <2>8. Len(co) = Len(do) /\ \A j \in 1 .. Len(do) : Typed(co[j]) = OriginalParam(do[j])
    BY <2>2, <2>3, <2>4, <2>6, ParamsTyped
  <2>9. ForEach(ci, Typed) = ForEach(di, OriginalParam)
    BY <2>7 DEF ForEach
  <2>10. ForEach(co, Typed) = ForEach(do, OriginalParam)
    BY <2>8 DEF ForEach
  <2> QED
    BY <2>4, <2>9, <2>10
<1>8. /\ s.stmt = "procedure" /\ s.uses = World[o].uses
      /\ s.ins = Chosen(g, ins) /\ s.outs = Chosen(g, outs)
  <2>1. Defs(o) = g
    BY <1>2 DEF Defs
  <2>2. {k \in DOMAIN g : ~ g[k].out} = ins /\ {k \in DOMAIN g : g[k].out} = outs
    BY <1>3, <1>5
  <2>3. Where(Defs(o), LAMBDA p : ~ p.out) = Chosen(g, ins)
        /\ Where(Defs(o), LAMBDA p : p.out) = Chosen(g, outs)
    BY <2>1, <2>2 DEF Where
  <2> QED
    BY <1>1, <2>3 DEF ProcedureSaid, Needs
<1>9. About(o) = <<s>>
  BY <1>1 DEF Script
<1>10. PICK m : m = Made(s)
  OBVIOUS
<1>11. m = [kind |-> "procedure", name |-> upper[s.name], uses |-> World[o].uses,
            ins |-> ForEach(s.ins, Typed), outs |-> ForEach(s.outs, Typed)]
  BY <1>8, <1>10 DEF Made
<1>12. Original(o) = [kind |-> "procedure", name |-> name(o), uses |-> World[o].uses,
                      ins |-> ForEach(Chosen(ps, is), OriginalParam),
                      outs |-> ForEach(Chosen(ps, os), OriginalParam)]
  <2>1. \A k \in DOMAIN ps : ps[k].out \in BOOLEAN
    <3>1. \A k \in DOMAIN ps : ps[k] \in ParamData
      BY <1>4
    <3> QED
      BY <3>1 DEF ParamData
  <2>2. {k \in DOMAIN ps : ~ ps[k].out} = is /\ {k \in DOMAIN ps : ps[k].out} = os
    BY <1>6, <2>1
  <2>3. Where(World[o].params, LAMBDA p : ~ p.out) = Chosen(ps, is)
        /\ Where(World[o].params, LAMBDA p : p.out) = Chosen(ps, os)
    BY <1>2, <2>2 DEF Where
  <2> QED
    BY <2>3 DEF Original
<1>13. PICK a, z : a = ForEach(Chosen(ps, is), OriginalParam) /\ z = ForEach(Chosen(ps, os), OriginalParam)
  OBVIOUS
<1>14. /\ m = [kind |-> "procedure", name |-> upper[s.name], uses |-> World[o].uses, ins |-> a, outs |-> z]
       /\ Original(o) = [kind |-> "procedure", name |-> name(o), uses |-> World[o].uses, ins |-> a, outs |-> z]
  BY <1>7, <1>8, <1>11, <1>12, <1>13
<1>15. [m EXCEPT !.name = name(o)] = Original(o) /\ m.kind \notin {"table", "domain"}
       /\ [m EXCEPT !.name = name(o)].kind = m.kind
  BY <1>14
<1>16. s.stmt \notin {"key", "index"}
  BY <1>8
<1> QED
  BY <1>9, <1>10, <1>15, <1>16, RecoveredWhole

LEMMA FunctionRecovered ==
    ASSUME NEW o \in Object, About(o) = Script(o), kind(o) = "function"
    PROVE  Recovered(o)
<1>1. PICK s : s = FunctionSaid(o)
  OBVIOUS
<1>2. PICK al, g : al = World[o].args /\ g = ArgsSaid(o)
  OBVIOUS
<1>3. \A a \in ToSet(al) : IsDeclared(a.type)
  BY <1>2, TypeAssumption
<1>4. DOMAIN al = 1 .. Len(al) /\ Len(al) \in Nat
  <2>1. al \in Seq(ArgumentData)
    BY <1>2, WorldAssumption
  <2> QED
    BY <2>1, SeqDomain
<1>5. g = [k \in 1 .. Len(al) |-> [name |-> al[k].name, type |-> format_column_type(al[k].type)]]
  BY <1>2 DEF ArgsSaid, ForEach
<1>6. DOMAIN g = 1 .. Len(al) /\ Len(g) = Len(al)
  <2>1. PICK n : n = Len(al)
    OBVIOUS
  <2>2. DOMAIN g = 1 .. n /\ n \in Nat
    BY <1>4, <1>5, <2>1
  <2>3. g = [k \in 1 .. n |-> g[k]]
    BY <1>5, <2>1
  <2> QED
    BY <2>1, <2>2, <2>3, LengthOf
<1>7. ASSUME NEW k \in 1 .. Len(al)
      PROVE  Typed(g[k]) = OriginalParam(al[k])
  <2>1. g[k].name = al[k].name /\ g[k].type = format_column_type(al[k].type)
    BY <1>5
  <2>2. al[k] \in ToSet(al)
    BY <1>4 DEF ToSet
  <2>3. Declared(g[k].type) = al[k].type
    BY <1>3, <2>1, <2>2, Redeclared
  <2> QED
    BY <2>1, <2>3 DEF Typed, OriginalParam
<1>8. ForEach(g, Typed) = ForEach(al, OriginalParam)
  BY <1>6, <1>7 DEF ForEach
<1>9. Declared(format_column_type(World[o].returns)) = World[o].returns
  <2>1. IsDeclared(World[o].returns)
    BY TypeAssumption
  <2> QED
    BY <2>1, Redeclared
<1>10. /\ s.stmt = "function" /\ s.uses = World[o].uses /\ s.ins = g
       /\ s.returns = format_column_type(World[o].returns)
  BY <1>1, <1>2 DEF FunctionSaid, Needs
<1>11. About(o) = <<s>>
  BY <1>1 DEF Script
<1>12. PICK m : m = Made(s)
  OBVIOUS
<1>13. m = [kind |-> "function", name |-> upper[s.name], uses |-> s.uses,
            ins |-> ForEach(s.ins, Typed), returns |-> Declared(s.returns)]
  BY <1>10, <1>12 DEF Made
<1>14. Original(o) = [kind |-> "function", name |-> name(o), uses |-> World[o].uses,
                      ins |-> ForEach(al, OriginalParam), returns |-> World[o].returns]
  BY <1>2 DEF Original
<1>15. PICK a, z : a = ForEach(al, OriginalParam) /\ z = World[o].returns
  OBVIOUS
<1>16. /\ m = [kind |-> "function", name |-> upper[s.name], uses |-> World[o].uses, ins |-> a, returns |-> z]
       /\ Original(o) = [kind |-> "function", name |-> name(o), uses |-> World[o].uses, ins |-> a, returns |-> z]
  BY <1>8, <1>9, <1>10, <1>13, <1>14, <1>15
<1>17. [m EXCEPT !.name = name(o)] = Original(o) /\ m.kind \notin {"table", "domain"}
       /\ [m EXCEPT !.name = name(o)].kind = m.kind
  BY <1>16
<1>18. s.stmt \notin {"key", "index"}
  BY <1>10
<1> QED
  BY <1>11, <1>12, <1>17, <1>18, RecoveredWhole

-----------------------------------------------------------------------------
\* A table, then its keys, then its indexes.
AllKeyRows(L, d, n) == [j \in 1 .. n |-> KeyRow(L[d + j])]
AllIndexRows(L, d, n) == [j \in 1 .. n |-> IndexRow(L[d + j])]

LEMMA NoRows ==
    ASSUME NEW L, NEW d
    PROVE  AllKeyRows(L, d, 0) = <<>> /\ AllIndexRows(L, d, 0) = <<>>
<1>1. \A f : DOMAIN f = 1 .. 0 /\ f = [j \in 1 .. 0 |-> f[j]] => f = <<>>
  OBVIOUS
<1>2. PICK k : k = AllKeyRows(L, d, 0)
  OBVIOUS
<1>3. PICK i : i = AllIndexRows(L, d, 0)
  OBVIOUS
<1>4. DOMAIN k = 1 .. 0 /\ k = [j \in 1 .. 0 |-> k[j]] /\ DOMAIN i = 1 .. 0 /\ i = [j \in 1 .. 0 |-> i[j]]
  BY <1>2, <1>3 DEF AllKeyRows, AllIndexRows
<1> QED
  BY <1>1, <1>2, <1>3, <1>4

LEMMA RowsGrow ==
    ASSUME NEW L, NEW d \in Nat, NEW n \in Nat, NEW k, k = d + n + 1, NEW s, s = L[k], NEW m, m = n + 1
    PROVE  /\ Append(AllKeyRows(L, d, n), KeyRow(s)) = AllKeyRows(L, d, m)
           /\ Append(AllIndexRows(L, d, n), IndexRow(s)) = AllIndexRows(L, d, m)
BY AppendIs DEF AllKeyRows, AllIndexRows

AddEach(L, what, u, d, n) ==
    \A j \in d + 1 .. d + n : L[j].stmt = what /\ upper[L[j].on] = u

Folding(L, f, N) == \A k \in 1 .. N : f[k] = Put(f[k - 1], L[k])

LEMMA TableGrows ==
    ASSUME NEW s, NEW u, u = upper[s.on], NEW cols, NEW keys, NEW idx, NEW x, IsTable(x, u, cols, keys, idx)
    PROVE  /\ s.stmt = "key" => IsTable(Put(x, s), u, cols, Append(keys, KeyRow(s)), idx)
           /\ s.stmt = "index" => IsTable(Put(x, s), u, cols, keys, Append(idx, IndexRow(s)))
<1>1. PICK r : r = TableOf(u, cols, keys, idx)
  OBVIOUS
<1>2. x = {r}
  BY <1>1 DEF IsTable
<1>3. /\ s.stmt = "key" => IsTable(Put({r}, s), u, cols, Append(keys, KeyRow(s)), idx)
      /\ s.stmt = "index" => IsTable(Put({r}, s), u, cols, keys, Append(idx, IndexRow(s)))
  BY <1>1, PutOnTable
<1> QED
  BY <1>2, <1>3

LEMMA KeysMade ==
    ASSUME NEW L, NEW u, NEW cols, NEW m \in Nat, NEW f, NEW N \in Nat, m + 1 <= N,
           IsTable(f[1], u, cols, <<>>, <<>>),
           Folding(L, f, N), AddEach(L, "key", u, 1, m)
    PROVE  IsTable(f[m + 1], u, cols, AllKeyRows(L, 1, m), <<>>)
<1> DEFINE S == {n \in Nat : n <= m => IsTable(f[n + 1], u, cols, AllKeyRows(L, 1, n), <<>>)}
<1>1. 0 \in S
  <2>1. AllKeyRows(L, 1, 0) = <<>>
    BY NoRows
  <2> QED
    BY <2>1
<1>2. ASSUME NEW n \in Nat, n \in S
      PROVE  n + 1 \in S
  <2> SUFFICES ASSUME n + 1 <= m
               PROVE  IsTable(f[n + 1 + 1], u, cols, AllKeyRows(L, 1, n + 1), <<>>)
    OBVIOUS
  <2>1. IsTable(f[n + 1], u, cols, AllKeyRows(L, 1, n), <<>>)
    BY <1>2
  <2>2. PICK k, i : k = n + 1 + 1 /\ i = n + 1
    OBVIOUS
  <2>3. k \in 1 .. N /\ k - 1 = i /\ k \in 1 + 1 .. 1 + m /\ k = 1 + n + 1
    BY <2>2
  <2>4. PICK s : s = L[k]
    OBVIOUS
  <2>5. s.stmt = "key" /\ u = upper[s.on]
    BY <2>3, <2>4 DEF AddEach
  <2>6. PICK keys, x : keys = AllKeyRows(L, 1, n) /\ x = f[i]
    OBVIOUS
  <2>7. f[k] = Put(x, s) /\ IsTable(x, u, cols, keys, <<>>)
    BY <2>1, <2>2, <2>3, <2>4, <2>6 DEF Folding
  <2>8. IsTable(Put(x, s), u, cols, Append(keys, KeyRow(s)), <<>>)
    BY <2>5, <2>7, TableGrows
  <2>9. Append(keys, KeyRow(s)) = AllKeyRows(L, 1, i)
    BY <2>2, <2>3, <2>4, <2>6, RowsGrow
  <2> QED
    BY <2>2, <2>7, <2>8, <2>9
<1> HIDE DEF S
<1>3. m \in S
  BY <1>1, <1>2, SetInduction
<1> QED
  BY <1>3 DEF S

LEMMA IndexesMade ==
    ASSUME NEW L, NEW u, NEW cols, NEW keys, NEW d \in Nat, NEW l \in Nat, NEW f, NEW N \in Nat, d + l <= N,
           IsTable(f[d], u, cols, keys, <<>>),
           Folding(L, f, N), AddEach(L, "index", u, d, l)
    PROVE  IsTable(f[d + l], u, cols, keys, AllIndexRows(L, d, l))
<1> DEFINE S == {n \in Nat : n <= l => IsTable(f[d + n], u, cols, keys, AllIndexRows(L, d, n))}
<1>1. 0 \in S
  <2>1. AllIndexRows(L, d, 0) = <<>> /\ d + 0 = d
    BY NoRows
  <2> QED
    BY <2>1
<1>2. ASSUME NEW n \in Nat, n \in S
      PROVE  n + 1 \in S
  <2> SUFFICES ASSUME n + 1 <= l
               PROVE  IsTable(f[d + (n + 1)], u, cols, keys, AllIndexRows(L, d, n + 1))
    OBVIOUS
  <2>1. IsTable(f[d + n], u, cols, keys, AllIndexRows(L, d, n))
    BY <1>2
  <2>2. PICK k, i, j : k = d + (n + 1) /\ i = n + 1 /\ j = d + n
    OBVIOUS
  <2>3. k \in 1 .. N /\ k - 1 = j /\ k \in d + 1 .. d + l /\ k = d + n + 1
    BY <2>2
  <2>4. PICK s : s = L[k]
    OBVIOUS
  <2>5. s.stmt = "index" /\ u = upper[s.on]
    BY <2>3, <2>4 DEF AddEach
  <2>6. PICK idx, x : idx = AllIndexRows(L, d, n) /\ x = f[j]
    OBVIOUS
  <2>7. f[k] = Put(x, s) /\ IsTable(x, u, cols, keys, idx)
    BY <2>1, <2>2, <2>3, <2>4, <2>6 DEF Folding
  <2>8. IsTable(Put(x, s), u, cols, keys, Append(idx, IndexRow(s)))
    BY <2>5, <2>7, TableGrows
  <2>9. Append(idx, IndexRow(s)) = AllIndexRows(L, d, i)
    BY <2>2, <2>3, <2>4, <2>6, RowsGrow
  <2> QED
    BY <2>2, <2>7, <2>8, <2>9
<1> HIDE DEF S
<1>3. l \in S
  BY <1>1, <1>2, SetInduction
<1> QED
  BY <1>3 DEF S

LEMMA TableMade ==
    ASSUME NEW o, NEW L, L = About(o), NEW m \in Nat, NEW l \in Nat, NEW d, d = m + 1,
           NEW N, N = Len(L), N = d + l, NEW s, s = L[1], s.stmt = "table", NEW u, NEW cols,
           Made(s) = TableOf(u, cols, <<>>, <<>>),
           AddEach(L, "key", u, 1, m), AddEach(L, "index", u, d, l)
    PROVE  IsTable(Remade(o), u, cols, AllKeyRows(L, 1, m), AllIndexRows(L, d, l))
<1>1. N \in Nat /\ d \in Nat
  OBVIOUS
<1>2. PICK f : Making(L, N, f) /\ Remade(o) = f[N]
  BY <1>1, RemadeIs
<1>3. f[0] = {} /\ Folding(L, f, N)
  <2>1. f[0] = {} /\ \A k \in 1 .. N : f[k] = Put(f[k - 1], L[k])
    BY <1>1, <1>2, FoldedIs
  <2> QED
    BY <2>1 DEF Folding
<1>4. IsTable(f[1], u, cols, <<>>, <<>>)
  <2>1. 1 \in 1 .. N /\ 1 - 1 = 0
    BY <1>1
  <2>2. f[1] = Put({}, s)
    BY <1>3, <2>1 DEF Folding
  <2>3. Put({}, s) = {} \cup {Made(s)}
    BY DEF Put
  <2> QED
    BY <2>2, <2>3 DEF IsTable
<1>5. IsTable(f[m + 1], u, cols, AllKeyRows(L, 1, m), <<>>)
  <2>1. m + 1 <= N
    BY <1>1
  <2> QED
    BY <1>1, <1>3, <1>4, <2>1, KeysMade
<1>6. PICK keys : keys = AllKeyRows(L, 1, m)
  OBVIOUS
<1>7. IsTable(f[d], u, cols, keys, <<>>) /\ d \in Nat /\ d + l <= N
  BY <1>1, <1>5, <1>6
<1>8. IsTable(f[d + l], u, cols, keys, AllIndexRows(L, d, l))
  BY <1>1, <1>3, <1>7, IndexesMade
<1> QED
  BY <1>1, <1>2, <1>6, <1>8 DEF IsTable

-----------------------------------------------------------------------------
LEMMA ListIs ==
    ASSUME NEW X, NEW n \in Nat, NEW f, f = [j \in 1 .. n |-> f[j]], \A j \in 1 .. n : f[j] \in X
    PROVE  f \in Seq(X)
<1>1. f \in [1 .. n -> X]
  OBVIOUS
<1> QED
  BY <1>1

\* The statements of a table, in their places.
Succeeds(u, s, t) ==
    /\ Len(u) = Len(s) + Len(t) /\ DOMAIN s = 1 .. Len(s) /\ DOMAIN t = 1 .. Len(t)
    /\ Len(s) \in Nat /\ Len(t) \in Nat
    /\ \A k \in DOMAIN s : u[k] = s[k]
    /\ \A k \in DOMAIN t : u[Len(s) + k] = t[k]

LEMMA SucceedsIs ==
    ASSUME NEW X, NEW s \in Seq(X), NEW t \in Seq(X), NEW u, u = Concat(s, t)
    PROVE  Succeeds(u, s, t) /\ u \in Seq(X)
<1>1. u = s \o t
  BY DEF Concat
<1>2. /\ Len(s) \in Nat /\ Len(u) = Len(s) + Len(t)
      /\ DOMAIN s = 1 .. Len(s) /\ DOMAIN t = 1 .. Len(t) /\ Len(t) \in Nat
      /\ \A k \in DOMAIN s : k \in DOMAIN u /\ u[k] = s[k]
      /\ \A k \in DOMAIN t : Len(s) + k \in DOMAIN u /\ u[Len(s) + k] = t[k]
  BY <1>1, AppendedIs
<1>3. u \in Seq(X)
  BY ConcatIs
<1> QED
  BY <1>2, <1>3 DEF Succeeds

InThree(L, x, K, I, m, l, d) ==
    /\ Len(L) = d + l /\ L[1] = x
    /\ \A j \in 1 .. m : L[1 + j] = K[j]
    /\ \A j \in 1 .. l : L[d + j] = I[j]

LEMMA ThreeParts ==
    ASSUME NEW s, Len(s) = 1, NEW x, x = s[1], NEW K, NEW I, NEW t, Succeeds(t, K, I), NEW L, Succeeds(L, s, t),
           NEW m, m = Len(K), NEW l, l = Len(I), NEW d, d = m + 1
    PROVE  InThree(L, x, K, I, m, l, d)
<1>1. /\ Len(t) = m + l /\ m \in Nat /\ l \in Nat
      /\ DOMAIN K = 1 .. m /\ DOMAIN I = 1 .. l
      /\ \A k \in 1 .. m : t[k] = K[k]
      /\ \A k \in 1 .. l : t[m + k] = I[k]
  BY DEF Succeeds
<1>2. /\ Len(L) = 1 + (m + l) /\ DOMAIN s = 1 .. 1
      /\ \A k \in 1 .. 1 : L[k] = s[k]
      /\ \A k \in 1 .. m + l : L[1 + k] = t[k]
  BY <1>1 DEF Succeeds
<1>3. Len(L) = d + l /\ L[1] = s[1]
  BY <1>1, <1>2
<1>4. \A j \in 1 .. m : L[1 + j] = K[j]
  BY <1>1, <1>2
<1>5. ASSUME NEW j \in 1 .. l
      PROVE  L[d + j] = I[j]
  <2>1. PICK i : i = m + j
    OBVIOUS
  <2>2. i \in 1 .. m + l /\ t[i] = I[j]
    BY <1>1, <2>1
  <2>3. d + j = 1 + i
    BY <1>1, <2>1
  <2> QED
    BY <1>2, <2>2, <2>3
<1> QED
  BY <1>3, <1>4, <1>5 DEF InThree

\* The columns that a statement makes.
MadeColumn(c) == <<c.name, Declared(c.type), Bit(c.notnull), c.default, 0>>
MadeColumns(o) == [j \in 1 .. Len(World[o].cols) |-> MadeColumn(ColumnDef(World[o].cols[j]))]
KeyOriginals(keys) == [j \in 1 .. Len(keys) |-> OriginalKey(keys[j])]
MadeIndexes(g) == [j \in 1 .. Len(g) |-> <<g[j].name, g[j].cols, FALSE>>]

LEMMA TableSaidMade ==
    ASSUME NEW o \in Object, kind(o) = "table"
    PROVE  Made(TableSaid(o)) = TableOf(upper[name(o)], MadeColumns(o), <<>>, <<>>)
<1>1. PICK s : s = TableSaid(o)
  OBVIOUS
<1>2. PICK cols, n : cols = World[o].cols /\ n = Len(cols)
  OBVIOUS
<1>3. n \in Nat
  <2>1. cols \in Seq(ColumnData)
    BY <1>2, WorldAssumption
  <2> QED
    BY <1>2, <2>1, SeqDomain
<1>4. PICK told : told = [j \in 1 .. n |-> ColumnDef(cols[j])]
  OBVIOUS
<1>5. s.stmt = "table" /\ s.name = name(o) /\ s.cols = told
  BY <1>1, <1>2, <1>4 DEF TableSaid, ForEach
<1>6. Len(told) = n
  <2>1. told = [j \in 1 .. n |-> told[j]] /\ DOMAIN told = 1 .. n
    BY <1>4
  <2> QED
    BY <1>3, <2>1, LengthOf
<1>7. Made(s) = [kind |-> "table", name |-> upper[s.name], unsaid |-> {}, keys |-> <<>>, idx |-> <<>>,
                 cols |-> [j \in 1 .. Len(s.cols) |-> MadeColumn(s.cols[j])]]
  BY <1>5 DEF Made, ForEach, MadeColumn
<1>8. \A j \in 1 .. n : told[j] = ColumnDef(cols[j])
  BY <1>4
<1>9. [j \in 1 .. Len(s.cols) |-> MadeColumn(s.cols[j])] = MadeColumns(o)
  BY <1>2, <1>5, <1>6, <1>8 DEF MadeColumns
<1> QED
  BY <1>1, <1>5, <1>7, <1>9 DEF TableOf

LEMMA TableRemade ==
    ASSUME NEW o \in Object, kind(o) = "table", About(o) = Script(o),
           NEW keys, keys = Keyed(World[o].cons), NEW g, g = Grouped(ShownRows(o)), IsSome(g)
    PROVE  Remade(o) = {TableOf(upper[name(o)], MadeColumns(o), KeyOriginals(keys), MadeIndexes(g))}
<1>1. PICK L : L = About(o)
  OBVIOUS
<1>2. PICK x, K, I : x = TableSaid(o) /\ K = KeysSaid(o) /\ I = IndexesSaid(o)
  OBVIOUS
<1>3. L = Concat(<<x>>, Concat(K, I))
  BY <1>1, <1>2 DEF Script
<1>4. PICK m, l : m = Len(keys) /\ l = Len(g)
  OBVIOUS
<1>5. m \in Nat /\ l \in Nat
  <2>1. keys \in Seq(ConstraintData)
    BY KeysAre
  <2>2. PICK X : g \in Seq(X)
    BY DEF IsSome
  <2> QED
    BY <1>4, <2>1, <2>2, SeqDomain
<1>6. K = [j \in 1 .. m |-> KeySaid(o, keys[j])] /\ I = [j \in 1 .. l |-> IndexSaid(o, g[j])]
  BY <1>2, <1>4 DEF KeysSaid, IndexesSaid
<1>7. PICK X : X = {x} \cup {K[j] : j \in 1 .. m} \cup {I[j] : j \in 1 .. l}
  OBVIOUS
<1>8. x \in X /\ K \in Seq(X) /\ I \in Seq(X) /\ Len(K) = m /\ Len(I) = l
  <2>1. x \in X /\ (\A j \in 1 .. m : K[j] \in X) /\ (\A j \in 1 .. l : I[j] \in X)
    BY <1>7
  <2>2. K = [j \in 1 .. m |-> K[j]] /\ I = [j \in 1 .. l |-> I[j]] /\ DOMAIN K = 1 .. m /\ DOMAIN I = 1 .. l
    BY <1>6
  <2>3. K \in Seq(X) /\ I \in Seq(X)
    BY <1>5, <2>1, <2>2, ListIs
  <2> QED
    BY <1>5, <2>1, <2>2, <2>3, LengthOf
<1>9. PICK d : d = m + 1
  OBVIOUS
<1>10. /\ Len(L) = d + l /\ L[1] = x
       /\ \A j \in 1 .. m : L[1 + j] = K[j]
       /\ \A j \in 1 .. l : L[d + j] = I[j]
  <2>1. PICK s, t : s = <<x>> /\ t = Concat(K, I)
    OBVIOUS
  <2>2. s \in Seq(X) /\ Len(s) = 1 /\ s[1] = x
    BY <1>8, <2>1
  <2>3. Succeeds(t, K, I) /\ t \in Seq(X)
    BY <1>8, <2>1, SucceedsIs
  <2>4. L = Concat(s, t)
    BY <1>3, <2>1
  <2>5. Succeeds(L, s, t)
    BY <2>2, <2>3, <2>4, SucceedsIs
  <2>6. m = Len(K) /\ l = Len(I)
    BY <1>8
  <2>7. InThree(L, x, K, I, m, l, d)
    BY <1>9, <2>2, <2>3, <2>5, <2>6, ThreeParts
  <2> QED
    BY <2>7 DEF InThree
<1>11. PICK u : u = upper[name(o)]
  OBVIOUS
<1>12. \A j \in 1 .. m : /\ K[j].stmt = "key" /\ upper[K[j].on] = u
                         /\ KeyRow(K[j]) = OriginalKey(keys[j])
  BY <1>6, <1>11 DEF KeySaid, KeyRow, OriginalKey
<1>13. \A j \in 1 .. l : /\ I[j].stmt = "index" /\ upper[I[j].on] = u
                         /\ IndexRow(I[j]) = <<g[j].name, g[j].cols, FALSE>>
  BY <1>6, <1>11 DEF IndexSaid, IndexRow
<1>14. AddEach(L, "key", u, 1, m)
  <2>1. ASSUME NEW k \in 1 + 1 .. 1 + m
        PROVE  L[k].stmt = "key" /\ upper[L[k].on] = u
    <3>1. PICK j : j = k - 1
      OBVIOUS
    <3>2. j \in 1 .. m /\ k = 1 + j
      BY <1>5, <3>1
    <3>3. L[k] = K[j]
      BY <1>10, <3>2
    <3> QED
      BY <1>12, <3>2, <3>3
  <2> QED
    BY <2>1 DEF AddEach
<1>15. AddEach(L, "index", u, d, l)
  <2>1. ASSUME NEW k \in d + 1 .. d + l
        PROVE  L[k].stmt = "index" /\ upper[L[k].on] = u
    <3>1. PICK j : j = k - d
      OBVIOUS
    <3>2. j \in 1 .. l /\ k = d + j
      BY <1>5, <1>9, <3>1
    <3>3. L[k] = I[j]
      BY <1>10, <3>2
    <3> QED
      BY <1>13, <3>2, <3>3
  <2> QED
    BY <2>1 DEF AddEach
<1>16. x.stmt = "table" /\ Made(x) = TableOf(u, MadeColumns(o), <<>>, <<>>)
  BY <1>2, <1>11, TableSaidMade DEF TableSaid
<1>17. Remade(o) = {TableOf(u, MadeColumns(o), AllKeyRows(L, 1, m), AllIndexRows(L, d, l))}
  <2>1. PICK cols : cols = MadeColumns(o)
    OBVIOUS
  <2>2. PICK N : N = Len(L)
    OBVIOUS
  <2>3. N = d + l
    BY <1>10, <2>2
  <2>4. L[1] = x /\ Made(x) = TableOf(u, cols, <<>>, <<>>)
    BY <1>10, <1>16, <2>1
  <2>5. IsTable(Remade(o), u, cols, AllKeyRows(L, 1, m), AllIndexRows(L, d, l))
    BY <1>1, <1>5, <1>9, <1>14, <1>15, <1>16, <2>2, <2>3, <2>4, TableMade
  <2> QED
    BY <2>1, <2>5 DEF IsTable
<1>18. AllKeyRows(L, 1, m) = KeyOriginals(keys)
  BY <1>4, <1>10, <1>12 DEF AllKeyRows, KeyOriginals
<1>19. AllIndexRows(L, d, l) = MadeIndexes(g)
  BY <1>4, <1>10, <1>13 DEF AllIndexRows, MadeIndexes
<1> QED
  BY <1>11, <1>17, <1>18, <1>19

-----------------------------------------------------------------------------
\* What the shape of a table is made of.
Pairs(s) == ForEach(s, Pair)
Unchecked(keys) == Where(keys, LAMBDA k : k[2] # "CHECK")
Columned(idx) == Where(idx, LAMBDA i : i[2] # <<>>)

LEMMA TableShape ==
    ASSUME NEW r, r.kind = "table"
    PROVE  Shape(r) = <<"table", r.name, Pairs(r.cols), Unchecked(r.keys), Pairs(Columned(r.idx))>>
BY DEF Shape, Pairs, Unchecked, Columned

LEMMA PairsAre ==
    ASSUME NEW s, NEW n \in Nat, ListLong(s, n), NEW t, ListLong(t, n),
           \A j \in 1 .. n : Pair(s[j]) = Pair(t[j])
    PROVE  Pairs(s) = Pairs(t)
<1>1. Len(s) = n /\ Len(t) = n
  BY DEF ListLong
<1> QED
  BY <1>1 DEF Pairs, ForEach

LEMMA ColumnsSame ==
    ASSUME NEW o \in Object, kind(o) = "table"
    PROVE  Pairs(MadeColumns(o)) = Pairs(ForEach(World[o].cols, OriginalColumn))
<1>1. PICK cols, n : cols = World[o].cols /\ n = Len(cols)
  OBVIOUS
<1>2. cols \in Seq(ColumnData)
  BY <1>1, WorldAssumption
<1>3. n \in Nat /\ DOMAIN cols = 1 .. n
  BY <1>1, <1>2, SeqDomain
<1>4. PICK s : s = MadeColumns(o)
  OBVIOUS
<1>5. PICK t : t = ForEach(World[o].cols, OriginalColumn)
  OBVIOUS
<1>6. /\ s = [j \in 1 .. n |-> MadeColumn(ColumnDef(cols[j]))]
      /\ t = [j \in 1 .. n |-> OriginalColumn(cols[j])]
  BY <1>1, <1>4, <1>5 DEF MadeColumns, ForEach
<1>7. ListLong(s, n) /\ ListLong(t, n)
  <2>1. s = [j \in 1 .. n |-> s[j]] /\ DOMAIN s = 1 .. n /\ t = [j \in 1 .. n |-> t[j]] /\ DOMAIN t = 1 .. n
    BY <1>6
  <2> QED
    BY <1>3, <2>1, LengthOf DEF ListLong
<1>8. ASSUME NEW j \in 1 .. n
      PROVE  Pair(s[j]) = Pair(t[j])
  <2>1. PICK c : c = cols[j]
    OBVIOUS
  <2>2. c \in ToSet(World[o].cols)
    BY <1>1, <1>3, <2>1 DEF ToSet
  <2>3. IsDeclared(c.type)
    BY <2>2, TypeAssumption DEF Relation
  <2>4. PICK d : d = ColumnDef(c)
    OBVIOUS
  <2>5. d.name = c.name /\ d.type = format_column_type(c.type)
    BY <2>4 DEF ColumnDef
  <2>6. Declared(d.type) = c.type
    BY <2>3, <2>5, Redeclared
  <2>7. s[j] = MadeColumn(d) /\ t[j] = OriginalColumn(c)
    BY <1>6, <2>1, <2>4
  <2>8. Pair(s[j]) = <<c.name, c.type>> /\ Pair(t[j]) = <<c.name, c.type>>
    BY <2>5, <2>6, <2>7 DEF Pair, MadeColumn, OriginalColumn
  <2> QED
    BY <2>8
<1> QED
  BY <1>3, <1>4, <1>5, <1>7, <1>8, PairsAre

\* A constraint is a key unless it is a CHECK or a NOT NULL.
LEMMA KeyTypes ==
    ASSUME NEW t \in ConstraintType
    PROVE  t \in {"PRIMARY KEY", "UNIQUE", "FOREIGN KEY"} <=> t # "CHECK" /\ t # "NOT NULL"
BY Zenon DEF ConstraintType

LEMMA KeysSame ==
    ASSUME NEW o \in Object, kind(o) = "table", NEW keys, keys = Keyed(World[o].cons)
    PROVE  Unchecked(KeyOriginals(keys)) =
               Unchecked(ForEach(Where(World[o].cons, LAMBDA c : c.type # "NOT NULL"), OriginalKey))
<1>1. PICK cons : cons = World[o].cons
  OBVIOUS
<1>2. cons \in Seq(ConstraintData) /\ keys \in Seq(ConstraintData)
  BY <1>1, KeysAre
<1>3. DOMAIN cons = 1 .. Len(cons) /\ DOMAIN keys = 1 .. Len(keys) /\ Len(keys) \in Nat
  BY <1>2, SeqDomain
<1>4. PICK P : P = {k \in DOMAIN cons : cons[k].type # "NOT NULL"}
  OBVIOUS
<1>5. PICK PQ : PQ = {k \in DOMAIN cons : cons[k].type \in {"PRIMARY KEY", "UNIQUE", "FOREIGN KEY"}}
  OBVIOUS
<1>6. keys = Chosen(cons, PQ)
  BY <1>1, <1>5 DEF Keyed, Where
<1>7. PICK r : r = Chosen(cons, P)
  OBVIOUS
<1>8. r = Where(World[o].cons, LAMBDA c : c.type # "NOT NULL")
  BY <1>1, <1>4, <1>7 DEF Where
<1>9. PICK F : F = [c \in ConstraintData |-> OriginalKey(c)]
  OBVIOUS
<1>10. PICK Y : Y = {OriginalKey(c) : c \in ConstraintData}
  OBVIOUS
<1>11. F \in [ConstraintData -> Y]
  BY <1>9, <1>10
<1>12. PICK g : g = ForEach(r, OriginalKey)
  OBVIOUS
<1>13. P \in SUBSET DOMAIN cons
  BY <1>4
<1>14. r \in Seq(ConstraintData)
  BY <1>2, <1>7, <1>13, ChosenIs
<1>15. \A k \in 1 .. Len(r) : r[k] \in ConstraintData
  BY <1>14
<1>16. g = [k \in 1 .. Len(r) |-> OriginalKey(r[k])]
  BY <1>12 DEF ForEach
<1>17. MadeOf(g, F, r)
  BY <1>9, <1>15, <1>16 DEF MadeOf
<1>18. PICK Q : Q = {k \in DOMAIN g : g[k][2] # "CHECK"}
  OBVIOUS
<1>19. Unchecked(g) = Chosen(g, Q)
  BY <1>18 DEF Unchecked, Where
<1>20. \A k \in DOMAIN cons : cons[k] \in ConstraintData /\ cons[k].type \in ConstraintType
  <2>1. \A k \in DOMAIN cons : cons[k] \in ConstraintData
    BY <1>2, <1>3
  <2> QED
    BY <2>1 DEF ConstraintData
<1>21. \A k \in DOMAIN cons : k \in PQ <=> cons[k].type # "CHECK" /\ k \in P
  <2>1. ASSUME NEW k \in DOMAIN cons
        PROVE  k \in PQ <=> cons[k].type # "CHECK" /\ k \in P
    <3>1. PICK t : t = cons[k].type
      OBVIOUS
    <3>2. t \in {"PRIMARY KEY", "UNIQUE", "FOREIGN KEY"} <=> t # "CHECK" /\ t # "NOT NULL"
      BY <1>20, <3>1, KeyTypes
    <3>3. k \in PQ <=> t \in {"PRIMARY KEY", "UNIQUE", "FOREIGN KEY"}
      BY Zenon, <1>5, <3>1
    <3>4. k \in P <=> t # "NOT NULL"
      BY <1>4, <3>1
    <3> QED
      BY <3>1, <3>2, <3>3, <3>4
  <2> QED
    BY <2>1
<1>22. PQ \in SUBSET P
  <2>1. PQ \subseteq DOMAIN cons
    BY <1>5
  <2> QED
    BY <1>21, <2>1
<1>23. Q \in SUBSET DOMAIN g
  BY <1>18
<1>24. KeptAlike(g, F, cons, P, Q, PQ)
  <2>1. ASSUME NEW k \in DOMAIN g, NEW p \in P, g[k] = F[cons[p]]
        PROVE  k \in Q <=> p \in PQ
    <3>1. p \in DOMAIN cons /\ cons[p] \in ConstraintData
      BY <1>13, <1>20
    <3>2. PICK c : c = cons[p]
      OBVIOUS
    <3>3. g[k] = OriginalKey(c)
      BY <1>9, <2>1, <3>1, <3>2
    <3>4. g[k][2] = c.type
      BY <3>3 DEF OriginalKey
    <3>5. k \in Q <=> c.type # "CHECK"
      BY <1>18, <3>4
    <3> QED
      BY <1>21, <3>1, <3>2, <3>5
  <2> QED
    BY <2>1 DEF KeptAlike
<1>25. MadeOf(Chosen(g, Q), F, keys)
  BY <1>2, <1>6, <1>7, <1>11, <1>13, <1>17, <1>22, <1>23, <1>24, ChosenTwice
<1>26. \A k \in 1 .. Len(keys) : keys[k] \in ConstraintData
  BY <1>2
<1>27. Chosen(g, Q) = KeyOriginals(keys)
  BY <1>9, <1>25, <1>26 DEF MadeOf, KeyOriginals
<1>28. Unchecked(KeyOriginals(keys)) = KeyOriginals(keys)
  <2>1. PICK h : h = KeyOriginals(keys)
    OBVIOUS
  <2>2. h = [j \in 1 .. Len(keys) |-> OriginalKey(keys[j])]
    BY <2>1 DEF KeyOriginals
  <2>3. DOMAIN h = 1 .. Len(keys)
    BY <2>2
  <2>4. PICK Z : Z = {h[j] : j \in 1 .. Len(keys)}
    OBVIOUS
  <2>5. h \in Seq(Z)
    <3>1. \A j \in 1 .. Len(keys) : h[j] \in Z
      BY <2>4
    <3>2. h = [j \in 1 .. Len(keys) |-> h[j]]
      BY <2>2
    <3> QED
      BY <1>3, <3>1, <3>2, ListIs
  <2>6. ASSUME NEW j \in DOMAIN h
        PROVE  h[j][2] # "CHECK"
    <3>1. h[j] = OriginalKey(keys[j])
      BY <2>2, <2>3
    <3>2. h[j][2] = keys[j].type
      BY <3>1 DEF OriginalKey
    <3>3. keys[j] \in ToSet(Keyed(World[o].cons))
      BY <1>3, <2>3 DEF ToSet
    <3>4. keys[j] \in ConstraintData /\ keys[j].type \in {"PRIMARY KEY", "UNIQUE", "FOREIGN KEY"}
      BY <3>3, KeyedAre
    <3>5. keys[j].type \in ConstraintType
      BY <3>4 DEF ConstraintData
    <3>6. PICK t : t = keys[j].type
      OBVIOUS
    <3>7. t \in ConstraintType /\ t \in {"PRIMARY KEY", "UNIQUE", "FOREIGN KEY"}
      BY <3>4, <3>5, <3>6
    <3> QED
      BY <3>2, <3>6, <3>7, KeyTypes
  <2>7. PICK D : D = {k \in DOMAIN h : h[k][2] # "CHECK"}
    OBVIOUS
  <2>8. D = DOMAIN h
    BY <2>6, <2>7
  <2>9. Unchecked(h) = Chosen(h, D)
    BY <2>7 DEF Unchecked, Where
  <2> QED
    BY <2>1, <2>5, <2>8, <2>9, AllChosen
<1> QED
  BY <1>8, <1>12, <1>19, <1>27, <1>28

-----------------------------------------------------------------------------
\* The indexes with columns, when the list is neither hidden nor cut.
OriginalIndex(i) == <<i.name, i.cols, i.unique>>

LEMMA IndexesSame ==
    ASSUME NEW o \in Object, kind(o) = "table", ShownRows(o) = Segments(World[o].idx),
           NEW g, g = Grouped(ShownRows(o))
    PROVE  Pairs(Columned(MadeIndexes(g))) = Pairs(Columned(ForEach(World[o].idx, OriginalIndex)))
<1>1. PICK idx : idx = World[o].idx
  OBVIOUS
<1>2. idx \in Seq(IndexData) /\ NamesDiffer(idx)
  BY <1>1, KeysAre
<1>3. PICK P : P = {k \in DOMAIN idx : idx[k].cols # <<>>}
  OBVIOUS
<1>4. g \in Seq(IndexData) /\ \E b : Picks(g, idx, P, b)
  <2>1. PICK s : s = Segments(idx)
    OBVIOUS
  <2>2. g = Grouped(s)
    BY <1>1, <2>1
  <2>3. g \in Seq(IndexData) /\ \E b : Picks(g, idx, {k \in DOMAIN idx : idx[k].cols # <<>>}, b)
    BY <1>2, <2>1, <2>2, GroupedIs
  <2> QED
    BY <1>3, <2>3
<1>5. P \in SUBSET DOMAIN idx
  BY <1>3
<1>6. g = Chosen(idx, P)
  BY <1>2, <1>4, <1>5, ChosenOnly
<1>7. PICK n : n = Len(g)
  OBVIOUS
<1>8. n \in Nat /\ DOMAIN g = 1 .. n /\ DOMAIN idx = 1 .. Len(idx) /\ Len(idx) \in Nat
  BY <1>2, <1>4, <1>7, SeqDomain
<1>9. \A j \in 1 .. n : g[j] \in IndexData /\ g[j].cols # <<>>
  <2>1. PICK b : Picks(g, idx, P, b)
    BY <1>4
  <2>2. b \in [DOMAIN g -> P] /\ \A j \in DOMAIN g : g[j] = idx[b[j]]
    BY <2>1 DEF Picks
  <2>3. \A j \in DOMAIN g : b[j] \in P
    BY <2>2
  <2>4. \A k \in P : idx[k].cols # <<>>
    BY <1>3
  <2>5. \A j \in 1 .. n : g[j] \in IndexData
    BY <1>4, <1>8
  <2> QED
    BY <1>8, <2>2, <2>3, <2>4, <2>5
<1>10. PICK s : s = MadeIndexes(g)
  OBVIOUS
<1>11. s = [j \in 1 .. n |-> <<g[j].name, g[j].cols, FALSE>>]
  BY <1>7, <1>10 DEF MadeIndexes
<1>12. DOMAIN s = 1 .. n /\ \A j \in 1 .. n : s[j][1] = g[j].name /\ s[j][2] = g[j].cols
  BY <1>11
<1>13. Columned(s) = s
  <2>1. PICK D : D = {k \in DOMAIN s : s[k][2] # <<>>}
    OBVIOUS
  <2>2. Columned(s) = Chosen(s, D)
    BY <2>1 DEF Columned, Where
  <2>3. D = DOMAIN s
    BY <1>9, <1>12, <2>1
  <2>4. PICK Z : Z = {s[j] : j \in 1 .. n}
    OBVIOUS
  <2>5. s \in Seq(Z)
    <3>1. s = [j \in 1 .. n |-> s[j]] /\ \A j \in 1 .. n : s[j] \in Z
      BY <1>11, <2>4
    <3> QED
      BY <1>8, <3>1, ListIs
  <2> QED
    BY <2>2, <2>3, <2>5, AllChosen
<1>14. PICK F : F = [i \in IndexData |-> OriginalIndex(i)]
  OBVIOUS
<1>15. PICK Y : Y = {OriginalIndex(i) : i \in IndexData}
  OBVIOUS
<1>16. F \in [IndexData -> Y]
  BY <1>14, <1>15
<1>17. PICK t : t = ForEach(World[o].idx, OriginalIndex)
  OBVIOUS
<1>18. t = [k \in 1 .. Len(idx) |-> OriginalIndex(idx[k])]
  BY <1>1, <1>17 DEF ForEach
<1>19. \A k \in DOMAIN idx : idx[k] \in IndexData
  BY <1>2, <1>8
<1>20. MadeOf(t, F, idx)
  BY <1>8, <1>14, <1>18, <1>19 DEF MadeOf
<1>21. PICK Q : Q = {k \in DOMAIN t : t[k][2] # <<>>}
  OBVIOUS
<1>22. Q \in SUBSET DOMAIN t /\ Columned(t) = Chosen(t, Q)
  BY <1>21 DEF Columned, Where
<1>23. \A i \in IndexData : F[i] = OriginalIndex(i) /\ F[i][1] = i.name /\ F[i][2] = i.cols
  BY <1>14 DEF OriginalIndex
<1>24. KeptAlike(t, F, idx, DOMAIN idx, Q, P)
  <2>1. ASSUME NEW k \in DOMAIN t, NEW p \in DOMAIN idx, t[k] = F[idx[p]]
        PROVE  k \in Q <=> p \in P
    <3>1. t[k][2] = idx[p].cols
      BY <1>19, <1>23, <2>1
    <3>2. k \in Q <=> t[k][2] # <<>>
      BY <1>21
    <3>3. p \in P <=> idx[p].cols # <<>>
      BY <1>3
    <3> QED
      BY <3>1, <3>2, <3>3
  <2> QED
    BY <2>1 DEF KeptAlike
<1>25. MadeOf(Chosen(t, Q), F, g)
  BY <1>2, <1>5, <1>6, <1>16, <1>20, <1>22, <1>24, ChosenMade
<1>26. PICK c : c = Chosen(t, Q)
  OBVIOUS
<1>27. c = [j \in 1 .. n |-> F[g[j]]]
  BY <1>7, <1>25, <1>26 DEF MadeOf
<1>28. ListLong(s, n) /\ ListLong(c, n)
  <2>1. s = [j \in 1 .. n |-> s[j]] /\ c = [j \in 1 .. n |-> c[j]]
    BY <1>11, <1>27
  <2> QED
    BY <2>1 DEF ListLong
<1>29. ASSUME NEW j \in 1 .. n
       PROVE  Pair(s[j]) = Pair(c[j])
  <2>1. c[j] = F[g[j]]
    BY <1>27
  <2>2. c[j][1] = g[j].name /\ c[j][2] = g[j].cols
    BY <1>9, <1>23, <2>1
  <2>3. s[j][1] = g[j].name /\ s[j][2] = g[j].cols
    BY <1>12
  <2> QED
    BY <2>2, <2>3 DEF Pair
<1>30. Pairs(s) = Pairs(c)
  BY <1>8, <1>28, <1>29, PairsAre
<1> QED
  BY <1>10, <1>13, <1>17, <1>22, <1>26, <1>30

\* All the rows are shown: none is hidden and the list is not cut.
LEMMA ShownAll ==
    ASSUME TypeOK, Slots, NEW o \in Object, ToTell(o), kind(o) = "table", IndexesShown(o)
    PROVE  ShownRows(o) = Segments(World[o].idx)
<1>1. Constraints(name(o)) = World[o].cons
  <2>1. Apt(o, stable)
    BY DEF ToTell, Extracted, Apt, Relation
  <2> QED
    BY <2>1, AptIs
<1>2. ~ Unindexed(o)
  BY <1>1 DEF IndexesShown, HasNull, Unindexed
<1>3. PICK idx : idx = World[o].idx
  OBVIOUS
<1>4. idx \in Seq(IndexData) /\ NamesDiffer(idx)
  BY <1>3, KeysAre
<1>5. PICK rows : rows = Segments(idx)
  OBVIOUS
<1>6. PICK X : rows \in Seq(X)
  <2>1. PICK at : IndexRowsOf(rows, idx, at)
    BY <1>4, <1>5, SegmentsAre
  <2> QED
    BY <2>1 DEF IndexRowsOf
<1>7. Len(rows) \in Nat /\ Len(rows) <= CAP
  BY <1>3, <1>5, <1>6, SeqDomain DEF IndexesShown
<1>8. First(rows) = rows
  BY <1>6, <1>7, CatalogAssumption DEF First
<1> QED
  BY <1>2, <1>3, <1>5, <1>8 DEF ShownRows

-----------------------------------------------------------------------------
LEMMA ModestIs ==
    ASSUME NEW o, NEW r, r.kind = "table", NEW q, q = Modest(o, r),
           DOMAIN r = {"kind", "name", "unsaid", "keys", "idx", "cols"}
    PROVE  /\ q.kind = "table" /\ q.name = r.name /\ q.keys = r.keys /\ q.cols = r.cols
           /\ q.idx = IF IndexesShown(o) THEN r.idx ELSE <<>>
BY DEF Modest

LEMMA TableRecovered ==
    ASSUME TypeOK, Slots, NEW o \in Object, ToTell(o), About(o) = Script(o), kind(o) = "table"
    PROVE  Recovered(o)
<1>1. PICK keys, g : keys = Keyed(World[o].cons) /\ g = Grouped(ShownRows(o))
  OBVIOUS
<1>2. IsSome(g)
  <2>1. PICK s : s = ShownRows(o)
    OBVIOUS
  <2>2. IsSome(s)
    BY <2>1, ShownIsSome
  <2> QED
    BY <1>1, <2>1, <2>2, GroupedIsSome
<1>3. PICK u, cols, ks, idx : /\ u = upper[name(o)] /\ cols = MadeColumns(o)
                              /\ ks = KeyOriginals(keys) /\ idx = MadeIndexes(g)
  OBVIOUS
<1>4. PICK m : m = TableOf(u, cols, ks, idx)
  OBVIOUS
<1>5. m \in Remade(o)
  <2>1. Remade(o) = {TableOf(u, cols, ks, idx)}
    BY <1>1, <1>2, <1>3, TableRemade
  <2> QED
    BY <1>4, <2>1
<1>6. PICK r : r = [m EXCEPT !.name = name(o)]
  OBVIOUS
<1>7. /\ r.kind = "table" /\ r.name = name(o) /\ r.keys = ks /\ r.idx = idx /\ r.cols = cols
      /\ DOMAIN r = {"kind", "name", "unsaid", "keys", "idx", "cols"}
  BY <1>4, <1>6 DEF TableOf
<1>8. PICK p : p = Original(o)
  OBVIOUS
<1>9. PICK ocols : ocols = ForEach(World[o].cols, OriginalColumn)
  OBVIOUS
<1>10. PICK okeys : okeys = ForEach(Where(World[o].cons, LAMBDA c : c.type # "NOT NULL"), OriginalKey)
  OBVIOUS
<1>11. PICK oidx : oidx = ForEach(World[o].idx, OriginalIndex)
  OBVIOUS
<1>12. p = [kind |-> "table", name |-> name(o), unsaid |-> World[o].unsaid, cols |-> ocols,
            keys |-> okeys, idx |-> oidx]
  BY <1>8, <1>9, <1>10, <1>11 DEF Original, OriginalIndex
<1>13. /\ p.kind = "table" /\ p.name = name(o) /\ p.keys = okeys /\ p.idx = oidx /\ p.cols = ocols
       /\ DOMAIN p = {"kind", "name", "unsaid", "keys", "idx", "cols"}
  BY <1>12
<1>14. PICK mr, mp : mr = Modest(o, r) /\ mp = Modest(o, p)
  OBVIOUS
<1>15. /\ mr.kind = "table" /\ mr.name = name(o) /\ mr.keys = ks /\ mr.cols = cols
       /\ mr.idx = IF IndexesShown(o) THEN idx ELSE <<>>
  BY <1>7, <1>14, ModestIs
<1>16. /\ mp.kind = "table" /\ mp.name = name(o) /\ mp.keys = okeys /\ mp.cols = ocols
       /\ mp.idx = IF IndexesShown(o) THEN oidx ELSE <<>>
  BY <1>13, <1>14, ModestIs
<1>17. Pairs(cols) = Pairs(ocols) /\ Unchecked(ks) = Unchecked(okeys)
  <2>1. Pairs(cols) = Pairs(ocols)
    BY <1>3, <1>9, ColumnsSame
  <2>2. Unchecked(ks) = Unchecked(okeys)
    BY <1>1, <1>3, <1>10, KeysSame
  <2> QED
    BY <2>1, <2>2
<1>18. Pairs(Columned(mr.idx)) = Pairs(Columned(mp.idx))
  <2>1. CASE IndexesShown(o)
    <3>1. ShownRows(o) = Segments(World[o].idx)
      BY <2>1, ShownAll
    <3>2. Pairs(Columned(idx)) = Pairs(Columned(oidx))
      BY <1>1, <1>3, <1>11, <3>1, IndexesSame
    <3> QED
      BY <1>15, <1>16, <2>1, <3>2
  <2>2. CASE ~ IndexesShown(o)
    BY <1>15, <1>16, <2>2
  <2> QED
    BY <2>1, <2>2
<1>19. Shape(mr) = Shape(mp)
  <2>1. Shape(mr) = <<"table", mr.name, Pairs(mr.cols), Unchecked(mr.keys), Pairs(Columned(mr.idx))>>
    BY <1>15, TableShape
  <2>2. Shape(mp) = <<"table", mp.name, Pairs(mp.cols), Unchecked(mp.keys), Pairs(Columned(mp.idx))>>
    BY <1>16, TableShape
  <2> QED
    BY <1>15, <1>16, <1>17, <1>18, <2>1, <2>2
<1> QED
  BY <1>5, <1>6, <1>8, <1>14, <1>19 DEF Recovered

LEMMA AllRecovered ==
    ASSUME TellAll, Done("extract"), NEW o \in Object, ToTell(o)
    PROVE  Recovered(o)
<1>1. TypeOK /\ Slots /\ Suits /\ TellInv
  BY DEF TellAll
<1>2. IsSome(out)
  BY DEF TellAll, ExtractInv, Written, IsSome, Done
<1>3. About(o) = Script(o)
  BY <1>1, <1>2, AllSaid
<1>4. kind(o) \in Kind
  BY KindIs
<1>5. CASE kind(o) = "domain"
  BY <1>3, <1>5, DomainRecovered
<1>6. CASE kind(o) = "table"
  BY <1>1, <1>3, <1>6, TableRecovered
<1>7. CASE kind(o) \in {"view", "sequence"}
  BY <1>3, <1>7, ViewRecovered
<1>8. CASE kind(o) = "trigger"
  <2>1. World[o].event \in 1 .. 6
    BY <1>8 DEF ToTell, Sayable
  <2> QED
    BY <1>3, <1>8, <2>1, TriggerRecovered
<1>9. CASE kind(o) = "procedure"
  BY <1>1, <1>3, <1>9, ProcedureRecovered
<1>10. CASE kind(o) = "function"
  BY <1>3, <1>10, FunctionRecovered
<1> QED
  BY <1>4, <1>5, <1>6, <1>7, <1>8, <1>9, <1>10 DEF Kind

\* When extract_ddl_filtered is done, each object that was there throughout the call,
\* was of a kind that was asked for, and that a script can say, is in the script, and
\* the statements about it, run one after the other, make an object of its shape.
THEOREM StableAreExtracted == Spec => []StableIsExtracted
<1>1. ASSUME TellAll
      PROVE  StableIsExtracted
  <2> SUFFICES ASSUME Done("extract"), NEW o \in stable, Extracted(o), Sayable(o)
               PROVE  WrittenWhole(o)
    BY DEF StableIsExtracted
  <2>1. o \in Object /\ ToTell(o)
    BY <1>1 DEF TellAll, TypeOK, CatalogTypeOK, ToTell
  <2>2. Recovered(o)
    BY <1>1, <2>1, AllRecovered
  <2>3. PICK q \in Remade(o) : Shape(Modest(o, [q EXCEPT !.name = name(o)])) = Shape(Modest(o, Original(o)))
    BY <2>2 DEF Recovered
  <2> QED
    BY <2>3 DEF WrittenWhole
<1> QED
  BY <1>1, TellAlways, PTL

-----------------------------------------------------------------------------
\* The order of a script: by kinds, then by names. What an item may still write about
\* comes no earlier than what has been written, and than what the items before it may.
Ahead(k, n, l, m) == (k = l /\ n = m) \/ Place(k) < Place(l) \/ (k = l /\ n < m)
MayTell(i, k, n) ==
    IF i.op \in ListOps THEN k \in Kind /\ i.op = ListOp[k] ELSE k = Owner(i) /\ n = i.of
AllAhead(i, j) == \A a, n, b, m : MayTell(i, a, n) /\ MayTell(j, b, m) => Ahead(a, n, b, m)
InTurn(w) == \A j, k \in DOMAIN w : j < k => AllAhead(w[j], w[k])
SaidAhead(s, t) == Ahead(What(s), Whose(s), What(t), Whose(t))
Turns(t) == \A j, k \in DOMAIN t : j < k => SaidAhead(t[j], t[k])
ToldAhead(s, i) == \A b, m : MayTell(i, b, m) => Ahead(What(s), Whose(s), b, m)
Comes(t, w) == \A j \in DOMAIN t : \A k \in DOMAIN w : ToldAhead(t[j], w[k])
Gives(h, items, st) ==
    /\ \A k \in DOMAIN items : \A a, n : MayTell(items[k], a, n) => MayTell(h, a, n)
    /\ \A k \in DOMAIN st : MayTell(h, What(st[k]), Whose(st[k]))
    /\ InTurn(items) /\ Turns(st)
    /\ items = <<>> \/ st = <<>>

\* Two places of a list that was put together of two.
Places(u, x, y, j, k) ==
    \/ j \in DOMAIN x /\ k \in DOMAIN x /\ u[j] = x[j] /\ u[k] = x[k]
    \/ j \in DOMAIN x /\ u[j] = x[j] /\ \E q \in DOMAIN y : u[k] = y[q]
    \/ \E p, q \in DOMAIN y : p < q /\ u[j] = y[p] /\ u[k] = y[q]

LEMMA JoinedOrder ==
    ASSUME NEW x, NEW y, NEW u, JoinedOf(u, x, y), NEW j \in DOMAIN u, NEW k \in DOMAIN u, j < k
    PROVE  Places(u, x, y, j, k)
<1> USE DEF Places
<1> DEFINE l == Len(x)
<1>1. l \in Nat /\ DOMAIN x = 1 .. l /\ j \in Nat \ {0} /\ k \in Nat \ {0}
  BY DEF JoinedOf
<1>2. \A i \in DOMAIN y : i \in Nat \ {0}
  BY DEF JoinedOf
<1>3. (j \in DOMAIN x /\ u[j] = x[j]) \/ (j - l \in DOMAIN y /\ u[j] = y[j - l])
  BY DEF JoinedOf
<1>4. (k \in DOMAIN x /\ u[k] = x[k]) \/ (k - l \in DOMAIN y /\ u[k] = y[k - l])
  BY DEF JoinedOf
<1>5. j - l < k - l
  BY <1>1
<1> HIDE DEF l
<1>6. CASE j \in DOMAIN x /\ u[j] = x[j]
  BY <1>4, <1>6
<1>7. CASE j - l \in DOMAIN y /\ u[j] = y[j - l]
  <2>1. j > l
    BY <1>1, <1>2, <1>7
  <2>2. k - l \in DOMAIN y /\ u[k] = y[k - l]
    BY <1>1, <1>4, <2>1
  <2> QED
    BY <1>5, <1>7, <2>2
<1> QED
  BY <1>3, <1>6, <1>7

LEMMA TurnGoes ==
    ASSUME NEW w, IsSome(w), w # <<>>, NEW t, IsSome(t), InTurn(w), Turns(t), Comes(t, w),
           NEW items, IsSome(items), NEW st, IsSome(st), Gives(Head(w), items, st),
           NEW u, u = items \o Tail(w), NEW v, v = t \o st
    PROVE  InTurn(u) /\ Turns(v) /\ Comes(v, u)
<1>1. PICK r, h : r = Tail(w) /\ h = Head(w)
  OBVIOUS
<1>2. TailOf(r, w)
  BY <1>1, TailIs
<1>3. /\ IsSome(r) /\ 1 \in DOMAIN w /\ h = w[1]
      /\ \A k \in DOMAIN r : k + 1 \in DOMAIN w /\ r[k] = w[k + 1] /\ k \in Nat /\ 1 < k + 1
  BY <1>1, <1>2 DEF TailOf
<1>4. JoinedOf(u, items, r)
  BY <1>1, <1>3, JoinedIs
<1>5. JoinedOf(v, t, st)
  BY JoinedIs
<1>6. ASSUME NEW j \in DOMAIN items, NEW q \in DOMAIN r
      PROVE  AllAhead(items[j], r[q])
  <2>1. AllAhead(h, r[q])
    BY <1>3 DEF InTurn
  <2> QED
    BY <1>1, <2>1 DEF AllAhead, Gives
<1>7. ASSUME NEW p \in DOMAIN r, NEW q \in DOMAIN r, p < q
      PROVE  AllAhead(r[p], r[q])
  <2>1. p + 1 < q + 1
    BY <1>3, <1>7
  <2> QED
    BY <1>3, <2>1 DEF InTurn
<1>8. InTurn(u)
  <2> SUFFICES ASSUME NEW j \in DOMAIN u, NEW k \in DOMAIN u, j < k
               PROVE  AllAhead(u[j], u[k])
    BY DEF InTurn
  <2>1. Places(u, items, r, j, k)
    BY <1>4, JoinedOrder
  <2>2. \A p, q \in DOMAIN items : p < q => AllAhead(items[p], items[q])
    BY DEF Gives, InTurn
  <2> QED
    BY <1>6, <1>7, <2>1, <2>2 DEF Places
<1>9. ASSUME NEW j \in DOMAIN t, NEW q \in DOMAIN st
      PROVE  SaidAhead(t[j], st[q])
  <2>1. ToldAhead(t[j], h)
    BY <1>3 DEF Comes
  <2>2. MayTell(h, What(st[q]), Whose(st[q]))
    BY <1>1 DEF Gives
  <2> QED
    BY <2>1, <2>2 DEF ToldAhead, SaidAhead
<1>10. Turns(v)
  <2> SUFFICES ASSUME NEW j \in DOMAIN v, NEW k \in DOMAIN v, j < k
               PROVE  SaidAhead(v[j], v[k])
    BY DEF Turns
  <2>1. Places(v, t, st, j, k)
    BY <1>5, JoinedOrder
  <2>2. \A p, q \in DOMAIN t : p < q => SaidAhead(t[p], t[q])
    BY DEF Turns
  <2>3. \A p, q \in DOMAIN st : p < q => SaidAhead(st[p], st[q])
    BY DEF Gives, Turns
  <2> QED
    BY <1>9, <2>1, <2>2, <2>3 DEF Places
<1>11. ASSUME NEW j \in DOMAIN v, NEW k \in DOMAIN u
       PROVE  ToldAhead(v[j], u[k])
  <2>1. (j \in DOMAIN t /\ v[j] = t[j]) \/ \E q \in DOMAIN st : v[j] = st[q]
    BY <1>5 DEF JoinedOf
  <2>2. (k \in DOMAIN items /\ u[k] = items[k]) \/ \E q \in DOMAIN r : u[k] = r[q]
    BY <1>4 DEF JoinedOf
  <2>3. ASSUME NEW i \in DOMAIN t
        PROVE  /\ \A q \in DOMAIN items : ToldAhead(t[i], items[q])
               /\ \A q \in DOMAIN r : ToldAhead(t[i], r[q])
    <3>1. ToldAhead(t[i], h)
      BY <1>3 DEF Comes
    <3>2. \A q \in DOMAIN items : ToldAhead(t[i], items[q])
      BY <1>1, <3>1 DEF Gives, ToldAhead
    <3>3. \A q \in DOMAIN r : ToldAhead(t[i], r[q])
      BY <1>3 DEF Comes
    <3> QED
      BY <3>2, <3>3
  <2>4. ASSUME NEW i \in DOMAIN st
        PROVE  /\ \A q \in DOMAIN items : ToldAhead(st[i], items[q])
               /\ \A q \in DOMAIN r : ToldAhead(st[i], r[q])
    <3>1. DOMAIN items = {}
      <4>1. st # <<>>
        OBVIOUS
      <4>2. items = <<>>
        BY <4>1 DEF Gives
      <4> QED
        BY <4>2
    <3>2. MayTell(h, What(st[i]), Whose(st[i]))
      BY <1>1 DEF Gives
    <3>3. \A q \in DOMAIN r : ToldAhead(st[i], r[q])
      <4> SUFFICES ASSUME NEW q \in DOMAIN r
                   PROVE  ToldAhead(st[i], r[q])
        OBVIOUS
      <4>1. AllAhead(h, r[q])
        BY <1>3 DEF InTurn
      <4> QED
        BY <3>2, <4>1 DEF AllAhead, ToldAhead
    <3> QED
      BY <3>1, <3>3
  <2> QED
    BY <2>1, <2>2, <2>3, <2>4
<1>12. Comes(v, u)
  BY <1>11 DEF Comes
<1> QED
  BY <1>8, <1>10, <1>12

\* A head that is one object's.
LEMMA OneOwner ==
    ASSUME NEW h, h.op \notin ListOps, NEW items, NEW st,
           \A k \in DOMAIN items : items[k].op \notin ListOps /\ Owner(items[k]) = Owner(h)
                                     /\ items[k].of = h.of,
           \A k \in DOMAIN st : What(st[k]) = Owner(h) /\ Whose(st[k]) = h.of,
           items = <<>> \/ st = <<>>
    PROVE  Gives(h, items, st)
<1>1. \A k \in DOMAIN items : \A a, n : MayTell(items[k], a, n) => a = Owner(h) /\ n = h.of
  BY DEF MayTell
<1>2. MayTell(h, Owner(h), h.of)
  BY DEF MayTell
<1>3. InTurn(items)
  BY <1>1 DEF InTurn, AllAhead, Ahead
<1>4. Turns(st)
  BY DEF Turns, SaidAhead, Ahead
<1> QED
  BY <1>1, <1>2, <1>3, <1>4 DEF Gives

TurnInv == call.tool = "extract" => InTurn(work) /\ Turns(out) /\ Comes(out, work)
Turning == Telling /\ TurnInv

LEMMA TurnFrom ==
    ASSUME InTurn(work'), Turns(out'), Comes(out', work')
    PROVE  TurnInv'
<1>1. InTurn(work)'
  BY DEF InTurn, AllAhead, MayTell
<1>2. Turns(out)'
  BY DEF Turns
<1>3. Comes(out, work)'
  BY DEF Comes, ToldAhead, MayTell
<1> QED
  BY <1>1, <1>2, <1>3 DEF TurnInv

LEMMA GivesTurn ==
    ASSUME Turning, NEW items, IsSome(items), NEW st, IsSome(st),
           work' = items \o Tail(work), out' = out \o st, Gives(Head(work), items, st)
    PROVE  TurnInv'
<1>1. IsSome(work) /\ work # <<>> /\ IsSome(out)
  BY TellingIs DEF Turning, Telling
<1>2. InTurn(work) /\ Turns(out) /\ Comes(out, work)
  BY DEF Turning, Telling, TurnInv
<1>3. InTurn(work') /\ Turns(out') /\ Comes(out', work')
  BY <1>1, <1>2, TurnGoes
<1> QED
  BY <1>3, TurnFrom

\* Another list of rows, in the order of their names.
LEMMA ListedInOrder ==
    ASSUME TypeOK, Slots, NEW k, NEW list, list = Listed({k})
    PROVE  \A i, j \in DOMAIN list : i < j => name(list[i]) < name(list[j])
<1>1. PICK S : S = User({k})
  OBVIOUS
<1>2. S \in SUBSET db /\ \A p \in S : kind(p) \in {k}
  BY <1>1 DEF User, TypeOK, CatalogTypeOK
<1>3. PICK rows : rows = ByName(S)
  OBVIOUS
<1>4. rows \in Seq(S) /\ \A i, j \in DOMAIN rows : i < j <=> name(rows[i]) < name(rows[j])
  BY <1>2, <1>3, RelationShares, ByNameIs
<1>5. PICK first : first = First(rows)
  OBVIOUS
<1>6. first \in Seq(S) /\ \A j \in DOMAIN first : j \in DOMAIN rows /\ first[j] = rows[j]
  BY <1>4, <1>5, FirstIs
<1>7. PICK places : places = {j \in DOMAIN first : should_extract(name(first[j]))}
  OBVIOUS
<1>8. list = Chosen(first, places)
  BY <1>1, <1>3, <1>5, <1>7 DEF Listed, Asked, Where
<1>9. places \in SUBSET DOMAIN first
  BY <1>7
<1>10. PICK at : Picks(list, first, places, at)
  BY <1>6, <1>8, <1>9, ChosenIs
<1>11. ASSUME NEW i \in DOMAIN list, NEW j \in DOMAIN list, i < j
       PROVE  name(list[i]) < name(list[j])
  <2>1. at[i] < at[j] /\ at[i] \in DOMAIN first /\ at[j] \in DOMAIN first
        /\ list[i] = first[at[i]] /\ list[j] = first[at[j]]
    BY <1>9, <1>10, <1>11 DEF Picks
  <2>2. at[i] \in DOMAIN rows /\ at[j] \in DOMAIN rows /\ list[i] = rows[at[i]] /\ list[j] = rows[at[j]]
    BY <1>6, <2>1
  <2> QED
    BY <1>4, <2>1, <2>2
<1> QED
  BY <1>11

-----------------------------------------------------------------------------
\* A list in the order of names, and the steps that write or leave something for each of it.
Rising(list) == \A i, j \in DOMAIN list : i < j => name(list[i]) < name(list[j])

LEMMA HeadOfList ==
    ASSUME NEW k \in Kind, NEW h, h.op = ListOp[k]
    PROVE  h.op \in ListOps /\ \A n : MayTell(h, k, n)
<1>1. h.op \in ListOps
  BY ListOpIs DEF ListOps, Kind
<1> QED
  BY <1>1 DEF MayTell

EachAbout(st, k, list) ==
    DOMAIN st = DOMAIN list /\ \A i \in DOMAIN st : What(st[i]) = k /\ Whose(st[i]) = name(list[i])
LEMMA EachGives ==
    ASSUME NEW k \in Kind, NEW h, h.op = ListOp[k], NEW list, Rising(list),
           NEW st, EachAbout(st, k, list), NEW e, e = <<>>
    PROVE  Gives(h, e, st)
<1>1. \A i \in DOMAIN st : MayTell(h, What(st[i]), Whose(st[i]))
  BY HeadOfList DEF EachAbout
<1>2. Turns(st)
  BY DEF Turns, SaidAhead, Ahead, Rising, EachAbout
<1> QED
  BY <1>1, <1>2 DEF Gives, InTurn

LEMMA PartsGive ==
    ASSUME NEW k \in Kind, NEW h, h.op = ListOp[k], NEW items,
           \A i \in DOMAIN items : items[i].op \notin ListOps /\ Owner(items[i]) = k,
           \A i, j \in DOMAIN items :
              i < j => items[i].of = items[j].of \/ items[i].of < items[j].of, NEW e, e = <<>>
    PROVE  Gives(h, items, e)
<1>1. \A i \in DOMAIN items : \A a, n : MayTell(items[i], a, n) => a = k /\ n = items[i].of
  BY DEF MayTell
<1>2. \A i \in DOMAIN items : \A a, n : MayTell(items[i], a, n) => MayTell(h, a, n)
  BY <1>1, HeadOfList
<1>3. InTurn(items)
  <2> SUFFICES ASSUME NEW i \in DOMAIN items, NEW j \in DOMAIN items, i < j
               PROVE  AllAhead(items[i], items[j])
    BY DEF InTurn
  <2>1. items[i].of = items[j].of \/ items[i].of < items[j].of
    OBVIOUS
  <2> QED
    BY <1>1, <2>1 DEF AllAhead, Ahead
<1> QED
  BY <1>2, <1>3 DEF Gives, Turns

LEMMA TurnGoesOn ==
    ASSUME Turning, NEW items, IsSome(items), NEW st, IsSome(st), Goes(items, st),
           Gives(Head(work), items, st)
    PROVE  TurnInv'
BY GivesTurn DEF Goes, Rest

\* A statement for each object of a list.
LEMMA KindTurns ==
    ASSUME Turning, NEW k \in Kind, Head(work).op = ListOp[k], k \notin {"key", "index"},
           NEW list, list = Listed({k}), NEW st, st = [i \in 1 .. Len(list) |-> st[i]],
           \A i \in 1 .. Len(list) : st[i].stmt = k /\ st[i].name = name(list[i]),
           Goes(<<>>, st)
    PROVE  TurnInv'
<1>1. PICK n : n = Len(list)
  OBVIOUS
<1>2. n \in Nat /\ DOMAIN list = 1 .. n
  BY <1>1, ListedIs DEF Turning, Telling
<1>3. Rising(list)
  BY ListedInOrder DEF Turning, Telling, Rising
<1>4. st = [i \in 1 .. n |-> st[i]] /\ DOMAIN st = 1 .. n
  BY <1>1
<1>5. EachAbout(st, k, list)
  BY <1>1, <1>2, <1>4 DEF What, Whose, EachAbout
<1>6. IsSome(st)
  BY <1>2, <1>4, EachIsSome
<1>7. PICK e : e = <<>>
  OBVIOUS
<1>8. Gives(Head(work), e, st)
  <2>1. PICK h : h = Head(work)
    OBVIOUS
  <2>2. h.op = ListOp[k] /\ DOMAIN st = DOMAIN list
    BY <1>2, <1>4, <2>1
  <2>3. Gives(h, e, st)
    BY <1>3, <1>5, <1>7, <2>2, EachGives
  <2> QED
    BY <2>1, <2>3
<1> QED
  BY <1>6, <1>7, <1>8, NoneIsSome, TurnGoesOn

LEMMA KindsTurn ==
    ASSUME Turning, extract_domains \/ extract_views \/ extract_sequences \/ extract_triggers
    PROVE  TurnInv'
<1>1. CASE extract_domains
  <2>1. PICK list : list = Listed({"domain"})
    OBVIOUS
  <2>2. PICK st : st = [i \in 1 .. Len(list) |-> DomainStmt(list[i])]
    OBVIOUS
  <2>3. Goes(<<>>, st) /\ Head(work).op = ListOp["domain"]
    BY <1>1, <2>1, <2>2, ListOpIs DEF extract_domains, ForEach, At
  <2>4. \A i \in 1 .. Len(list) : st[i].stmt = "domain" /\ st[i].name = name(list[i])
    BY <2>2 DEF DomainStmt
  <2> QED
    BY <2>1, <2>2, <2>3, <2>4, KindTurns DEF Kind
<1>2. CASE extract_views
  <2>1. PICK list : list = Listed({"view"})
    OBVIOUS
  <2>2. PICK st : st = [i \in 1 .. Len(list) |-> ViewStmt(list[i])]
    OBVIOUS
  <2>3. Goes(<<>>, st) /\ Head(work).op = ListOp["view"]
    BY <1>2, <2>1, <2>2, ListOpIs DEF extract_views, ForEach, At
  <2>4. \A i \in 1 .. Len(list) : st[i].stmt = "view" /\ st[i].name = name(list[i])
    BY <2>2 DEF ViewStmt
  <2> QED
    BY <2>1, <2>2, <2>3, <2>4, KindTurns DEF Kind
<1>3. CASE extract_sequences
  <2>1. PICK list : list = Listed({"sequence"})
    OBVIOUS
  <2>2. PICK st : st = [i \in 1 .. Len(list) |-> SequenceStmt(list[i])]
    OBVIOUS
  <2>3. Goes(<<>>, st) /\ Head(work).op = ListOp["sequence"]
    BY <1>3, <2>1, <2>2, ListOpIs DEF extract_sequences, ForEach, At
  <2>4. \A i \in 1 .. Len(list) : st[i].stmt = "sequence" /\ st[i].name = name(list[i])
    BY <2>2 DEF SequenceStmt
  <2> QED
    BY <2>1, <2>2, <2>3, <2>4, KindTurns DEF Kind
<1>4. CASE extract_triggers
  <2>1. PICK list : list = Listed({"trigger"})
    OBVIOUS
  <2>2. PICK st : st = [i \in 1 .. Len(list) |-> TriggerStmt(list[i])]
    OBVIOUS
  <2>3. Goes(<<>>, st) /\ Head(work).op = ListOp["trigger"]
    BY <1>4, <2>1, <2>2, ListOpIs DEF extract_triggers, ForEach, At
  <2>4. \A i \in 1 .. Len(list) : st[i].stmt = "trigger" /\ st[i].name = name(list[i])
    BY <2>2 DEF TriggerStmt
  <2> QED
    BY <2>1, <2>2, <2>3, <2>4, KindTurns DEF Kind
<1> QED
  BY <1>1, <1>2, <1>3, <1>4

\* Items for each object of a list.
LEMMA ItemsTurn ==
    ASSUME Turning, NEW k \in Kind, Head(work).op = ListOp[k],
           NEW list, list = Listed({k}), NEW n \in Nat, DOMAIN list = 1 .. n,
           NEW A, NEW ss, ListsIn(ss, n, A),
           \A i \in 1 .. n : \A j \in DOMAIN ss[i] :
              ss[i][j].op \notin ListOps /\ Owner(ss[i][j]) = k /\ ss[i][j].of = name(list[i]),
           Goes(FlattenSeq(ss), <<>>)
    PROVE  TurnInv'
<1>1. PICK w : w = FlattenSeq(ss)
  OBVIOUS
<1>2. ss \in [1 .. n -> Seq(A)]
  BY DEF ListsIn
<1>3. w \in Seq(A) /\ \E at : Joins(w, ss, n, at)
  BY <1>1, <1>2, FlatIs
<1>4. PICK at : Joins(w, ss, n, at)
  BY <1>3
<1>5. ASSUME NEW p \in DOMAIN w
      PROVE  /\ at[p][1] \in 1 .. n
             /\ w[p].op \notin ListOps /\ Owner(w[p]) = k /\ w[p].of = name(list[at[p][1]])
  <2>1. PICK i, j : i = at[p][1] /\ j = at[p][2]
    OBVIOUS
  <2>2. i \in 1 .. n /\ j \in DOMAIN ss[i] /\ w[p] = ss[i][j]
    BY <1>4, <2>1 DEF Joins
  <2>3. PICK e : e = ss[i][j]
    OBVIOUS
  <2>4. e.op \notin ListOps /\ Owner(e) = k /\ e.of = name(list[i])
    BY <2>2, <2>3
  <2>5. w[p] = e
    BY <2>2, <2>3
  <2> HIDE DEF Owner, ListOps
  <2> QED
    BY <2>1, <2>2, <2>4, <2>5
<1>6. Rising(list)
  BY ListedInOrder DEF Turning, Telling, Rising
<1>7. ASSUME NEW p \in DOMAIN w, NEW q \in DOMAIN w, p < q
      PROVE  w[p].of = w[q].of \/ w[p].of < w[q].of
  <2>1. PICK i, j : i = at[p][1] /\ j = at[q][1]
    OBVIOUS
  <2>2. i \in 1 .. n /\ j \in 1 .. n /\ w[p].of = name(list[i]) /\ w[q].of = name(list[j])
    BY <1>5, <2>1
  <2>3. i < j \/ i = j
    BY <1>4, <1>7, <2>1 DEF Joins
  <2>4. i \in DOMAIN list /\ j \in DOMAIN list
    BY <2>2
  <2>5. CASE i < j
    BY <1>6, <2>2, <2>4, <2>5 DEF Rising
  <2>6. CASE i = j
    BY <2>2, <2>6
  <2> QED
    BY <2>3, <2>5, <2>6
<1>8. PICK e : e = <<>>
  OBVIOUS
<1>9. \A p \in DOMAIN w : w[p].op \notin ListOps /\ Owner(w[p]) = k
  BY <1>5
<1>10. Gives(Head(work), w, e)
  BY <1>7, <1>8, <1>9, PartsGive
<1>11. IsSome(w)
  BY <1>3 DEF IsSome
<1> QED
  BY <1>1, <1>8, <1>10, <1>11, NoneIsSome, TurnGoesOn

LEMMA ProceduresTurn ==
    ASSUME Turning, extract_procedures
    PROVE  TurnInv'
<1>1. PICK list : list = Listed({"procedure"})
  OBVIOUS
<1>2. PICK n : n = Len(list)
  OBVIOUS
<1>3. PICK w : w = [i \in 1 .. n |-> Item("params", name(list[i]), Needs(list[i]))]
  OBVIOUS
<1>4. Goes(w, <<>>) /\ Head(work).op = ListOp["procedure"]
  BY <1>1, <1>2, <1>3, ListOpIs DEF extract_procedures, Routines, ForEach, At
<1>5. n \in Nat /\ DOMAIN list = 1 .. n
  BY <1>1, <1>2, ListedIs DEF Turning, Telling
<1>6. Rising(list)
  BY <1>1, ListedInOrder DEF Turning, Telling, Rising
<1>7. ASSUME NEW i \in DOMAIN w
      PROVE  w[i].op \notin ListOps /\ Owner(w[i]) = "procedure" /\ w[i].of = name(list[i])
  <2>1. w[i].op = "params" /\ w[i].of = name(list[i])
    BY <1>3 DEF Item
  <2> QED
    BY <2>1 DEF ListOps, Owner
<1>8. \A i, j \in DOMAIN w : i < j => w[i].of = w[j].of \/ w[i].of < w[j].of
  BY <1>3, <1>5, <1>6, <1>7 DEF Rising
<1>9. PICK h, e : h = Head(work) /\ e = <<>>
  OBVIOUS
<1>10. h.op = ListOp["procedure"] /\ "procedure" \in Kind
  BY <1>4, <1>9 DEF Kind
<1>11. Gives(h, w, e)
  BY <1>7, <1>8, <1>9, <1>10, PartsGive
<1>12. IsSome(w)
  <2>1. w = [i \in 1 .. n |-> w[i]]
    BY <1>3
  <2> QED
    BY <1>5, <2>1, EachIsSome
<1> QED
  BY <1>4, <1>9, <1>11, <1>12, NoneIsSome, TurnGoesOn

LEMMA TablesTurn ==
    ASSUME Turning, extract_tables
    PROVE  TurnInv'
<1>1. PICK list : list = Listed({"table"})
  OBVIOUS
<1>2. PICK n : n = Len(list)
  OBVIOUS
<1>3. PICK ss : ss = [i \in 1 .. n |-> TableItems(list[i])]
  OBVIOUS
<1>4. Goes(FlattenSeq(ss), <<>>) /\ Head(work).op = ListOp["table"]
  BY <1>1, <1>2, <1>3, ListOpIs
  DEF extract_tables, ForEach, At, TableItems, ColumnsItem, ConstraintsItem, IndexesItem
<1>5. n \in Nat /\ DOMAIN list = 1 .. n
  BY <1>1, <1>2, ListedIs DEF Turning, Telling
<1>6. PICK A : A = {ColumnsItem(list[i]) : i \in 1 .. n} \cup {ConstraintsItem(list[i]) : i \in 1 .. n}
                     \cup {IndexesItem(list[i]) : i \in 1 .. n}
  OBVIOUS
<1>7. ASSUME NEW i \in 1 .. n
      PROVE  /\ ss[i] \in Seq(A)
             /\ \A j \in DOMAIN ss[i] :
                   ss[i][j].op \notin ListOps /\ Owner(ss[i][j]) = "table" /\ ss[i][j].of = name(list[i])
  <2>1. PICK a, b, c : a = ColumnsItem(list[i]) /\ b = ConstraintsItem(list[i]) /\ c = IndexesItem(list[i])
    OBVIOUS
  <2>2. a \in A /\ b \in A /\ c \in A
    BY <1>6, <2>1
  <2>3. ss[i] = <<a, b, c>>
    BY <1>3, <2>1 DEF TableItems
  <2>4. ASSUME NEW x \in {a, b, c}
        PROVE  x.op \notin ListOps /\ Owner(x) = "table" /\ x.of = name(list[i])
    <3>1. x.op \in {"columns", "constraints", "indexes"} /\ x.of = name(list[i])
      BY <2>1 DEF ColumnsItem, ConstraintsItem, IndexesItem, Item
    <3> QED
      BY <3>1 DEF ListOps, Owner
  <2>5. <<a, b, c>> \in Seq(A) /\ \A j \in DOMAIN <<a, b, c>> : <<a, b, c>>[j] \in {a, b, c}
    BY <2>2
  <2> QED
    BY <2>3, <2>4, <2>5
<1>8. ListsIn(ss, n, A)
  BY <1>3, <1>7 DEF ListsIn
<1>9. "table" \in Kind
  BY DEF Kind
<1> QED
  BY <1>1, <1>4, <1>5, <1>7, <1>8, <1>9, ItemsTurn

LEMMA FunctionsTurn ==
    ASSUME Turning, extract_functions
    PROVE  TurnInv'
<1>1. PICK list : list = Listed({"function"})
  OBVIOUS
<1>2. PICK n : n = Len(list)
  OBVIOUS
<1>3. PICK ss : ss = [i \in 1 .. n |-> FunctionItems(list[i])]
  OBVIOUS
<1>4. Goes(FlattenSeq(ss), <<>>) /\ Head(work).op = ListOp["function"]
  BY <1>1, <1>2, <1>3, ListOpIs
  DEF extract_functions, ForEach, At, FunctionItems, ArgumentsItem, ReturnsItem
<1>5. n \in Nat /\ DOMAIN list = 1 .. n
  BY <1>1, <1>2, ListedIs DEF Turning, Telling
<1>6. PICK A : A = {ArgumentsItem(list[i]) : i \in 1 .. n} \cup {ReturnsItem(list[i]) : i \in 1 .. n}
  OBVIOUS
<1>7. ASSUME NEW i \in 1 .. n
      PROVE  /\ ss[i] \in Seq(A)
             /\ \A j \in DOMAIN ss[i] :
                   ss[i][j].op \notin ListOps /\ Owner(ss[i][j]) = "function" /\ ss[i][j].of = name(list[i])
  <2>1. PICK a, b : a = ArgumentsItem(list[i]) /\ b = ReturnsItem(list[i])
    OBVIOUS
  <2>2. a \in A /\ b \in A
    BY <1>6, <2>1
  <2>3. ss[i] = <<a, b>>
    BY <1>3, <2>1 DEF FunctionItems
  <2>4. ASSUME NEW x \in {a, b}
        PROVE  x.op \notin ListOps /\ Owner(x) = "function" /\ x.of = name(list[i])
    <3>1. x.op \in {"arguments", "returns"} /\ x.of = name(list[i])
      BY <2>1 DEF ArgumentsItem, ReturnsItem, Item
    <3> QED
      BY <3>1 DEF ListOps, Owner
  <2>5. <<a, b>> \in Seq(A) /\ \A j \in DOMAIN <<a, b>> : <<a, b>>[j] \in {a, b}
    BY <2>2
  <2> QED
    BY <2>3, <2>4, <2>5
<1>8. ListsIn(ss, n, A)
  BY <1>3, <1>7 DEF ListsIn
<1>9. "function" \in Kind
  BY DEF Kind
<1> QED
  BY <1>1, <1>4, <1>5, <1>7, <1>8, <1>9, ItemsTurn

-----------------------------------------------------------------------------
\* A step for one object.
LEMMA OneTurns ==
    ASSUME Turning, Head(work).op \notin ListOps, NEW s, Goes(<<>>, <<s>>),
           What(s) = Owner(Head(work)), Whose(s) = Of
    PROVE  TurnInv'
<1>1. PICK h, e, st : h = Head(work) /\ e = <<>> /\ st = <<s>>
  OBVIOUS
<1>2. IsSome(e) /\ IsSome(st) /\ Goes(e, st)
  BY <1>1, NoneIsSome, OneIsSome
<1>3. h.op \notin ListOps /\ \A k \in DOMAIN st : What(st[k]) = Owner(h) /\ Whose(st[k]) = h.of
  BY <1>1 DEF Of
<1>4. Gives(h, e, st)
  BY <1>1, <1>3, OneOwner
<1> QED
  BY <1>1, <1>2, <1>4, TurnGoesOn

LEMMA OnesTurn ==
    ASSUME Turning, table_columns \/ table_key \/ foreign_key \/ procedure_header \/ function_returns
    PROVE  TurnInv'
<1>1. CASE table_columns
  <2>1. PICK s : s = [stmt |-> "table", name |-> Of, cols |-> ForEach(Columns(Of), ColumnDef)]
    OBVIOUS
  <2>2. Goes(<<>>, <<s>>) /\ Head(work).op = "columns"
    BY <1>1, <2>1 DEF table_columns, At
  <2>3. What(s) = "table" /\ Whose(s) = Of
    BY <2>1 DEF What, Whose
  <2> QED
    BY <2>2, <2>3, OneTurns DEF Owner, ListOps
<1>2. CASE table_key \/ foreign_key
  <2>1. PICK s : Goes(<<>>, <<s>>) /\ s.stmt = "key" /\ s.on = Of
    BY <1>2 DEF table_key, foreign_key, KeyStmt
  <2>2. Head(work).op \in {"key", "foreign_key"}
    BY <1>2 DEF table_key, foreign_key, At
  <2>3. What(s) = "table" /\ Whose(s) = Of
    BY <2>1 DEF What, Whose
  <2> QED
    BY <2>1, <2>2, <2>3, OneTurns DEF Owner, ListOps
<1>3. CASE procedure_header
  <2>1. PICK s : s = [stmt |-> "procedure", name |-> Of, uses |-> Row, ins |-> Where(part, LAMBDA p : ~ p.out),
                      outs |-> Where(part, LAMBDA p : p.out)]
    OBVIOUS
  <2>2. Goes(<<>>, <<s>>) /\ Head(work).op = "procedure"
    BY <1>3, <2>1 DEF procedure_header, At
  <2>3. What(s) = "procedure" /\ Whose(s) = Of
    BY <2>1 DEF What, Whose
  <2> QED
    BY <2>2, <2>3, OneTurns DEF Owner, ListOps
<1>4. CASE function_returns
  <2>1. PICK s : Goes(<<>>, <<s>>) /\ s.stmt = "function" /\ s.name = Of
    BY <1>4 DEF function_returns, FunctionStmt
  <2>2. Head(work).op = "returns"
    BY <1>4 DEF function_returns, At
  <2>3. What(s) = "function" /\ Whose(s) = Of
    BY <2>1 DEF What, Whose
  <2> QED
    BY <2>1, <2>2, <2>3, OneTurns DEF Owner, ListOps
<1> QED
  BY <1>1, <1>2, <1>3, <1>4

LEMMA PlaceIs ==
    /\ Place("domain") = 1 /\ Place("table") = 2 /\ Place("view") = 3 /\ Place("sequence") = 4
    /\ Place("trigger") = 5 /\ Place("procedure") = 6 /\ Place("function") = 7
<1> DEFINE L == <<"domain", "table", "view", "sequence", "trigger", "procedure", "function">>
<1>1. /\ L[1] = "domain" /\ L[2] = "table" /\ L[3] = "view" /\ L[4] = "sequence"
      /\ L[5] = "trigger" /\ L[6] = "procedure" /\ L[7] = "function"
  OBVIOUS
<1> HIDE DEF L
<1>2. \A i, j \in 1 .. 7 : L[i] = L[j] => i = j
  <2>1. \A i \in 1 .. 7 : i = 1 \/ i = 2 \/ i = 3 \/ i = 4 \/ i = 5 \/ i = 6 \/ i = 7
    OBVIOUS
  <2> QED
    BY <1>1, <2>1
<1>3. \A k : Place(k) = CHOOSE j \in 1 .. 7 : k = L[j]
  BY DEF Place, L
<1>4. ASSUME NEW k, NEW i \in 1 .. 7, k = L[i]
      PROVE  Place(k) = i
  BY <1>2, <1>3, <1>4
<1> QED
  BY <1>1, <1>4

LEMMA BeginTurns ==
    ASSUME TypeOK, Untouched, call.tool = "extract", Begin
    PROVE  TurnInv'
<1>1. status = "start" /\ work' = extract_ddl_filtered /\ UNCHANGED <<call, out>>
  BY DEF Begin, Refused, Plan
<1>2. out = <<>>
  BY <1>1 DEF Untouched
<1>3. PICK plan : plan = extract_ddl_filtered
  OBVIOUS
<1>4. /\ DOMAIN plan = 1 .. 7
      /\ plan[1].op = "domains" /\ plan[2].op = "tables" /\ plan[3].op = "views"
      /\ plan[4].op = "sequences" /\ plan[5].op = "triggers" /\ plan[6].op = "procedures"
      /\ plan[7].op = "functions"
  BY <1>3 DEF extract_ddl_filtered, Do, Item
<1>5. ASSUME NEW i \in 1 .. 7, NEW a, NEW n, MayTell(plan[i], a, n)
      PROVE  Place(a) = i
  <2>1. i = 1 \/ i = 2 \/ i = 3 \/ i = 4 \/ i = 5 \/ i = 6 \/ i = 7
    OBVIOUS
  <2>2. plan[i].op \in ListOps
    BY <1>4, <2>1 DEF ListOps
  <2>3. a \in Kind /\ plan[i].op = ListOp[a]
    BY <1>5, <2>2 DEF MayTell
  <2>4. a \in {"domain", "table", "view", "sequence", "trigger", "procedure", "function"}
    BY <2>3 DEF Kind
  <2> QED
    BY <1>4, <2>1, <2>3, <2>4, ListOpIs, PlaceIs
<1>6. InTurn(plan)
  <2> SUFFICES ASSUME NEW i \in DOMAIN plan, NEW j \in DOMAIN plan, i < j
               PROVE  AllAhead(plan[i], plan[j])
    BY DEF InTurn
  <2> QED
    BY <1>4, <1>5 DEF AllAhead, Ahead
<1>7. PICK e : e = <<>>
  OBVIOUS
<1>8. Turns(e) /\ Comes(e, plan)
  BY <1>7 DEF Turns, Comes
<1>9. work' = plan /\ out' = e
  BY <1>1, <1>2, <1>3, <1>7
<1> QED
  BY <1>6, <1>8, <1>9, TurnFrom

LEMMA SameTurns ==
    ASSUME TurnInv, UNCHANGED <<call, work, out>>
    PROVE  TurnInv'
<1> SUFFICES ASSUME call.tool = "extract"
             PROVE  TurnInv'
  BY DEF TurnInv
<1>1. PICK w, t : w = work /\ t = out
  OBVIOUS
<1>2. InTurn(w) /\ Turns(t) /\ Comes(t, w)
  BY <1>1 DEF TurnInv
<1>3. work' = w /\ out' = t
  BY <1>1
<1> QED
  BY <1>2, <1>3, TurnFrom

LEMMA NoWorkTurns ==
    ASSUME work' = <<>>, out' = <<>>
    PROVE  TurnInv'
<1>1. PICK e : e = <<>>
  OBVIOUS
<1>2. InTurn(e) /\ Turns(e) /\ Comes(e, e)
  BY <1>1 DEF InTurn, Turns, Comes
<1>3. work' = e /\ out' = e
  BY <1>1
<1> QED
  BY <1>2, <1>3, TurnFrom

-----------------------------------------------------------------------------
\* A step for one object that leaves items, or nothing.
LEMMA OneLeaves ==
    ASSUME Turning, Head(work).op \notin ListOps, NEW w, IsSome(w), Goes(w, <<>>),
           \A k \in DOMAIN w : w[k].op \notin ListOps /\ Owner(w[k]) = Owner(Head(work))
                                 /\ w[k].of = Of
    PROVE  TurnInv'
<1>1. PICK h, e : h = Head(work) /\ e = <<>>
  OBVIOUS
<1>2. IsSome(e) /\ Goes(w, e)
  BY <1>1, NoneIsSome
<1>3. Gives(h, w, e)
  BY <1>1, OneOwner DEF Of
<1> QED
  BY <1>1, <1>2, <1>3, TurnGoesOn

LEMMA ConstraintsTurn ==
    ASSUME Turning, table_constraints
    PROVE  TurnInv'
<1>1. PICK keys : keys = Keyed(Constraints(Of))
  OBVIOUS
<1>2. PICK n : n = Len(keys)
  OBVIOUS
<1>3. PICK w : w = [k \in 1 .. n |-> KeyItem(keys[k])]
  OBVIOUS
<1>4. Goes(w, <<>>) /\ Head(work).op = "constraints"
  BY <1>1, <1>2, <1>3 DEF table_constraints, KeyItems, ForEach, At
<1>5. n \in Nat
  <2>1. PICK cons : cons = Constraints(Of)
    OBVIOUS
  <2>2. cons \in Seq(ConstraintData)
    BY <2>1, TableDataIs DEF Turning, Telling
  <2>3. PICK places : places = {k \in DOMAIN cons : cons[k].type \in {"PRIMARY KEY", "UNIQUE", "FOREIGN KEY"}}
    OBVIOUS
  <2>4. keys = Chosen(cons, places) /\ places \in SUBSET DOMAIN cons
    BY <1>1, <2>1, <2>3 DEF Keyed, Where
  <2>5. keys \in Seq(ConstraintData)
    BY <2>2, <2>4, ChosenIs
  <2> QED
    BY <1>2, <2>5
<1>6. ASSUME NEW k \in DOMAIN w
      PROVE  w[k].op \notin ListOps /\ Owner(w[k]) = "table" /\ w[k].of = Of
  <2>1. w[k].op \in {"key", "foreign_key"} /\ w[k].of = Of
    BY <1>3 DEF KeyItem, Item
  <2> QED
    BY <2>1 DEF ListOps, Owner
<1>7. IsSome(w)
  <2>1. w = [k \in 1 .. n |-> w[k]]
    BY <1>3
  <2> QED
    BY <1>5, <2>1, EachIsSome
<1>8. Head(work).op \notin ListOps /\ Owner(Head(work)) = "table"
  BY <1>4 DEF ListOps, Owner
<1> QED
  BY <1>4, <1>6, <1>7, <1>8, OneLeaves

LEMMA IndexesTurn ==
    ASSUME Turning, table_indexes
    PROVE  TurnInv'
<1>1. PICK rows : rows = IndexRows(Of)
  OBVIOUS
<1>2. PICK g : g = Grouped(rows)
  OBVIOUS
<1>3. PICK st : st = [k \in 1 .. Len(g) |-> IndexStmt(g[k])]
  OBVIOUS
<1>4. Goes(<<>>, st) /\ Head(work).op = "indexes"
  BY <1>1, <1>2, <1>3 DEF table_indexes, ForEach, At
<1>5. IsSome(st)
  <2>1. IsSome(rows)
    <3>1. PICK at : IndexRowsOf(rows, Indexes(Of), at)
      BY <1>1, IndexRowsAre DEF Turning, Telling
    <3> QED
      BY <3>1 DEF IndexRowsOf, IsSome
  <2>2. Len(g) \in Nat
    BY <1>2, <2>1, GroupedIsSome
  <2>3. st = [k \in 1 .. Len(g) |-> st[k]]
    BY <1>3
  <2> QED
    BY <2>2, <2>3, EachIsSome
<1>6. PICK h, e : h = Head(work) /\ e = <<>>
  OBVIOUS
<1>7. h.op \notin ListOps /\ Owner(h) = "table" /\ Of = h.of
  BY <1>4, <1>6 DEF ListOps, Owner, Of
<1>8. \A k \in DOMAIN st : What(st[k]) = "table" /\ Whose(st[k]) = Of
  BY <1>3 DEF IndexStmt, What, Whose
<1>9. Gives(h, e, st)
  BY <1>6, <1>7, <1>8, OneOwner
<1>10. Goes(e, st) /\ IsSome(e)
  BY <1>4, <1>6, NoneIsSome
<1> QED
  BY <1>5, <1>6, <1>9, <1>10, TurnGoesOn

LEMMA ParamsTurn ==
    ASSUME Turning, procedure_params
    PROVE  TurnInv'
<1>1. PICK ps : ps = Params(Of)
  OBVIOUS
<1>2. PICK n : n = Len(ps)
  OBVIOUS
<1>3. PICK a : a = [k \in 1 .. n |-> Item(IF ps[k].source = 0 THEN "plain_param" ELSE "param", Of, ps[k])]
  OBVIOUS
<1>4. PICK last : last = Item("procedure", Of, Row)
  OBVIOUS
<1>5. PICK items : items = a \o <<last>>
  OBVIOUS
<1>6. EndsIn(items, a, last)
  BY <1>5 DEF EndsIn
<1>7. Goes(items, <<>>) /\ Head(work).op = "params"
  BY <1>1, <1>2, <1>3, <1>4, <1>5 DEF procedure_params, ForEach, At
<1>8. ps \in Seq(ParamData) /\ n \in Nat /\ DOMAIN ps = 1 .. n
  <2>1. ps \in Seq(ParamData)
    BY <1>1, ParamsAre DEF Turning, Telling
  <2> QED
    BY <1>2, <2>1
<1>9. last.op = "procedure" /\ last.of = Of
  BY <1>4 DEF Item
<1>10. ASSUME NEW k \in 1 .. n
       PROVE  /\ a[k].op \in {"plain_param", "param"} /\ a[k].of = Of /\ a[k].row = ps[k]
              /\ a[k].op = "plain_param" <=> ps[k].source = 0
  BY <1>3 DEF Item
<1>11. ParamWork(a, last, ps, n)
  <2>1. ListLong(a, n)
    BY <1>3 DEF ListLong
  <2>2. ListLong(ps, n)
    BY <1>8 DEF ListLong
  <2> QED
    BY <1>8, <1>9, <1>10, <2>1, <2>2 DEF ParamWork, ReadOps
<1>12. IsSome(items) /\ \A k \in DOMAIN items : items[k] = last \/ (k \in 1 .. n /\ items[k] = a[k])
  BY <1>6, <1>11, ParamWorkIs
<1>13. ASSUME NEW k \in DOMAIN items
       PROVE  items[k].op \notin ListOps /\ Owner(items[k]) = "procedure" /\ items[k].of = Of
  <2>1. items[k].op \in {"plain_param", "param", "procedure"} /\ items[k].of = Of
    BY <1>9, <1>10, <1>12
  <2> QED
    BY <2>1 DEF ListOps, Owner
<1>14. Head(work).op \notin ListOps /\ Owner(Head(work)) = "procedure"
  BY <1>7 DEF ListOps, Owner
<1> QED
  BY <1>7, <1>12, <1>13, <1>14, OneLeaves

LEMMA NoneTurns ==
    ASSUME Turning, Head(work).op \notin ListOps, Goes(<<>>, <<>>)
    PROVE  TurnInv'
<1>1. PICK w : w = <<>>
  OBVIOUS
<1>2. IsSome(w) /\ Goes(w, <<>>) /\ DOMAIN w = {}
  BY <1>1, NoneIsSome
<1> QED
  BY <1>2, OneLeaves

\* A function that fails says at most one statement, of its own.
LEMMA FailsTurn ==
    ASSUME Turning, function_fails
    PROVE  TurnInv'
<1>1. Head(work).op \in {"arguments", "returns"} /\ work' = Tail(work)
  BY DEF function_fails, At, Rest
<1>2. PICK h, e : h = Head(work) /\ e = <<>>
  OBVIOUS
<1>3. h.op \notin ListOps /\ Owner(h) = "function" /\ Of = h.of
  BY <1>1, <1>2 DEF ListOps, Owner, Of
<1>4. IsSome(work) /\ IsSome(out) /\ work # <<>>
  BY TellingIs DEF Turning, Telling
<1>5. PICK w, t : w = work /\ t = out
  OBVIOUS
<1>6. PICK X : t \in Seq(X)
  BY <1>4, <1>5 DEF IsSome
<1>7. PICK Y : w \in Seq(Y)
  BY <1>4, <1>5 DEF IsSome
<1>8. e \o Tail(w) = Tail(w) /\ t \o e = t
  BY <1>2, <1>4, <1>5, <1>6, <1>7
<1>9. work' = e \o Tail(work)
  BY <1>1, <1>5, <1>8
<1>10. CASE out' = out
  <2>1. Gives(h, e, e)
    BY <1>2, <1>3, OneOwner
  <2>2. out' = out \o e
    BY <1>5, <1>8, <1>10
  <2> QED
    BY <1>2, <1>9, <2>1, <2>2, NoneIsSome, GivesTurn
<1>11. CASE out' = Append(out, FunctionStmt(Integer))
  <2>1. PICK s : s = FunctionStmt(Integer)
    OBVIOUS
  <2>2. PICK st : st = <<s>>
    OBVIOUS
  <2>3. What(s) = "function" /\ Whose(s) = Of
    BY <2>1 DEF What, Whose, FunctionStmt
  <2>4. \A k \in DOMAIN st : What(st[k]) = Owner(h) /\ Whose(st[k]) = h.of
    BY <1>3, <2>2, <2>3
  <2>5. Gives(h, e, st)
    BY <1>2, <1>3, <2>4, OneOwner
  <2>6. out' = out \o st
    <3>1. Append(t, s) = t \o st
      BY <1>6, <2>2
    <3> QED
      BY <1>5, <1>11, <2>1, <3>1
  <2> QED
    BY <1>2, <1>9, <2>2, <2>5, <2>6, NoneIsSome, OneIsSome, GivesTurn
<1> QED
  BY <1>10, <1>11 DEF function_fails

LEMMA ExtractTurns ==
    ASSUME Turning, Extract
    PROVE  TurnInv'
<1>1. CASE extract_domains \/ extract_views \/ extract_sequences \/ extract_triggers
  BY <1>1, KindsTurn
<1>2. CASE extract_tables \/ extract_procedures \/ extract_functions
  BY <1>2, TablesTurn, ProceduresTurn, FunctionsTurn
<1>3. CASE table_columns \/ table_key \/ foreign_key \/ procedure_header \/ function_returns
  BY <1>3, OnesTurn
<1>4. CASE table_constraints \/ table_indexes \/ procedure_params \/ function_fails
  BY <1>4, ConstraintsTurn, IndexesTurn, ParamsTurn, FailsTurn
<1>5. CASE resolve_domain_type
  <2>1. Head(work).op \in {"plain_param", "param"} /\ Goes(<<>>, <<>>)
    BY <1>5 DEF resolve_domain_type, At
  <2>2. Head(work).op \notin ListOps
    BY <2>1 DEF ListOps
  <2> QED
    BY <2>1, <2>2, NoneTurns
<1>6. CASE function_arguments
  <2>1. Head(work).op = "arguments" /\ Goes(<<>>, <<>>)
    BY <1>6 DEF function_arguments, At
  <2>2. Head(work).op \notin ListOps
    BY <2>1 DEF ListOps
  <2> QED
    BY <2>1, <2>2, NoneTurns
<1> QED
  BY <1>1, <1>2, <1>3, <1>4, <1>5, <1>6 DEF Extract

LEMMA TurnStep ==
    ASSUME TellAll, TurnInv, call.tool = "extract", Step
    PROVE  TurnInv'
<1> USE DEF TellAll
<1>1. CASE Begin
  BY <1>1, BeginTurns
<1>2. CASE ErrorEnds
  <2>1. work' = <<>> /\ out' = <<>>
    BY <1>2 DEF ErrorEnds, Fails
  <2> QED
    BY <2>1, NoWorkTurns
<1>3. CASE Finish
  <2>1. UNCHANGED <<call, work, out>>
    BY <1>3 DEF Finish
  <2> QED
    BY <2>1, SameTurns
<1>4. CASE Extract
  <2>1. Heads(ExtractOps)
    BY <1>4, ExtractHeads
  <2>2. status = "run" /\ work # <<>>
    BY <2>1 DEF Heads
  <2>3. Turning
    BY <2>2 DEF Telling, Turning
  <2> QED
    BY <1>4, <2>3, ExtractTurns
<1>5. CASE Describe \/ SchemaRead \/ schema_fails
  BY <1>5, DescribeHeads, SchemaHeads, ExtractHead DEF ExtractOps, DescribeOps, SchemaOps
<1>6. CASE handle_list \/ handle_find_column \/ domain_list \/ domain_uses \/ column_types
  BY <1>6, ToolHeads, ExtractHead DEF ExtractOps
<1>7. CASE health \/ database_tables \/ database_keys \/ count \/ generate_keys \/ view_row
  BY <1>7, ToolHeads, ExtractHead DEF ExtractOps
<1>8. CASE handle_check_duplicates \/ duplicate_rows
  BY <1>8, ToolHeads, ExtractHead DEF ExtractOps
<1> QED
  BY <1>1, <1>2, <1>3, <1>4, <1>5, <1>6, <1>7, <1>8 DEF Step

LEMMA TurnNext ==
    ASSUME TellAll, TurnInv, [Next]_vars
    PROVE  TurnInv'
<1>1. CASE Step
  <2>1. call' = call
    BY <1>1, CatalogStays DEF TellAll
  <2>2. CASE call.tool = "extract"
    BY <1>1, <2>2, TurnStep
  <2>3. CASE call.tool # "extract"
    BY <2>1, <2>3 DEF TurnInv
  <2> QED
    BY <2>2, <2>3
<1>2. CASE (Others /\ UNCHANGED handlerVars) \/ UNCHANGED vars
  <2>1. UNCHANGED <<call, work, out>>
    BY <1>2 DEF vars, handlerVars
  <2> QED
    BY <2>1, SameTurns
<1> QED
  BY <1>1, <1>2 DEF Next, Over

LEMMA TurnAlways == Spec => [](TellAll /\ TurnInv)
<1>1. Init => TurnInv
  BY DEF Init, TurnInv, InTurn, Turns, Comes
<1>2. TellAll /\ TurnInv /\ [Next]_vars => TurnInv'
  BY TurnNext
<1> QED
  BY <1>1, <1>2, TellAlways, PTL DEF Spec
-----------------------------------------------------------------------------
\* How many of the statements about an object the first k of a script hold.
UpTo(t, k) == [j \in 1 .. k |-> t[j]]
After(t, k) == [j \in 1 .. Len(t) - k |-> t[k + j]]
Tally(o, t, k) == Len(Said(o, UpTo(t, k)))

LEMMA CutIs ==
    ASSUME NEW B, NEW t \in Seq(B), NEW k \in 0 .. Len(t)
    PROVE  /\ UpTo(t, k) \in Seq(B) /\ After(t, k) \in Seq(B)
           /\ Concat(UpTo(t, k), After(t, k)) = t
<1>1. Len(t) \in Nat /\ DOMAIN t = 1 .. Len(t) /\ \A j \in 1 .. Len(t) : t[j] \in B
  OBVIOUS
<1>2. PICK n : n = Len(t)
  OBVIOUS
<1>3. PICK a, b : a = UpTo(t, k) /\ b = After(t, k)
  OBVIOUS
<1>4. a = [j \in 1 .. k |-> t[j]] /\ b = [j \in 1 .. n - k |-> t[k + j]] /\ k \in Nat /\ n - k \in Nat
  BY <1>1, <1>2, <1>3 DEF UpTo, After
<1>5. a \in Seq(B) /\ Len(a) = k
  BY <1>1, <1>4
<1>6. \A j \in 1 .. n - k : k + j \in 1 .. n
  BY <1>2, <1>4
<1>7. b \in Seq(B) /\ Len(b) = n - k
  BY <1>1, <1>2, <1>4, <1>6
<1>8. PICK u : u = a \o b
  OBVIOUS
<1>9. u \in Seq(B) /\ Len(u) = n /\ \A j \in DOMAIN b : u[k + j] = b[j]
  <2>1. /\ u \in Seq(B \cup B) /\ Len(u) = Len(a) + Len(b)
        /\ \A j \in DOMAIN b : u[Len(a) + j] = b[j]
    <3>1. PICK p, q : p = a /\ q = b
      OBVIOUS
    <3>2. p \in Seq(B) /\ q \in Seq(B) /\ u = p \o q
      BY <1>5, <1>7, <1>8, <3>1
    <3>3. /\ u \in Seq(B) /\ Len(u) = Len(p) + Len(q)
          /\ \A j \in DOMAIN q : u[Len(p) + j] = q[j]
      BY <3>2
    <3>4. B \cup B = B
      OBVIOUS
    <3> QED
      BY <3>1, <3>3, <3>4
  <2>2. B \cup B = B
    OBVIOUS
  <2>3. k + (n - k) = n
    <3>1. n \in Int
      BY <1>1, <1>2
    <3> QED
      BY <1>4, <3>1
  <2> QED
    BY <1>5, <1>7, <2>1, <2>2, <2>3
<1>10. ASSUME NEW j \in 1 .. n
       PROVE  u[j] = t[j]
  <2>1. CASE j <= k
    BY <1>4, <1>5, <1>7, <1>8, <2>1
  <2>2. CASE j > k
    <3>1. j - k \in 1 .. n - k /\ k + (j - k) = j
      BY <1>2, <1>4, <2>2
    <3>2. b[j - k] = t[j]
      BY <1>4, <3>1
    <3>3. u[j] = b[j - k]
      <4>1. PICK i : i = j - k
        OBVIOUS
      <4>2. i \in DOMAIN b /\ k + i = j
        BY <1>4, <3>1, <4>1
      <4> QED
        BY <1>9, <4>1, <4>2
    <3> QED
      BY <3>2, <3>3
  <2> QED
    BY <1>4, <2>1, <2>2
<1>11. u = t
  BY <1>1, <1>2, <1>9, <1>10
<1> QED
  BY <1>3, <1>5, <1>7, <1>8, <1>11 DEF Concat

LEMMA CutNext ==
    ASSUME NEW B, NEW t \in Seq(B), NEW k \in Nat, k + 1 <= Len(t), NEW m, m = k + 1
    PROVE  UpTo(t, m) = Concat(UpTo(t, k), <<t[m]>>) /\ t[m] \in B
<1>1. PICK a, x : a = UpTo(t, k) /\ x = t[m]
  OBVIOUS
<1>2. m \in 1 .. Len(t) /\ x \in B
  BY <1>1
<1>3. a \in Seq(B) /\ Len(a) = k /\ \A j \in 1 .. k : a[j] = t[j]
  <2>1. \A j \in 1 .. k : t[j] \in B
    BY <1>2
  <2> QED
    BY <1>1, <2>1 DEF UpTo
<1>4. PICK u : u = a \o <<x>>
  OBVIOUS
<1>5. Len(u) = m /\ \A j \in 1 .. m : u[j] = t[j]
  <2>1. \A j \in 1 .. m : j <= k \/ j = m
    OBVIOUS
  <2> QED
    BY <1>1, <1>2, <1>3, <1>4, <2>1
<1>6. u \in Seq(B)
  BY <1>2, <1>3, <1>4
<1>7. u = UpTo(t, m)
  BY <1>5, <1>6 DEF UpTo
<1> QED
  BY <1>1, <1>2, <1>4, <1>7 DEF Concat

LEMMA TallyIs ==
    ASSUME NEW o, NEW B, NEW t \in Seq(B), NEW n, n = Len(t), NEW L, L = Said(o, t)
    PROVE  /\ L \in Seq(B) /\ Tally(o, t, 0) = 0 /\ Tally(o, t, n) = Len(L)
           /\ \A k \in 0 .. n : /\ Tally(o, t, k) \in 0 .. Len(L)
                                /\ (\A j \in 1 .. n : j > k => ~ Regards(o, t[j])) => Tally(o, t, k) = Len(L)
<1>1. n \in Nat /\ L \in Seq(B)
  <2>1. Said(o, t) \in Seq(B)
    BY SaidConcat
  <2> QED
    BY <2>1
<1>2. ASSUME NEW k \in 0 .. n
      PROVE  /\ Tally(o, t, k) \in 0 .. Len(L)
             /\ (\A j \in 1 .. n : j > k => ~ Regards(o, t[j])) => Tally(o, t, k) = Len(L)
  <2>1. PICK a, b : a = UpTo(t, k) /\ b = After(t, k)
    OBVIOUS
  <2>2. a \in Seq(B) /\ b \in Seq(B) /\ Concat(a, b) = t
    BY <2>1, CutIs
  <2>3. L = Concat(Said(o, a), Said(o, b)) /\ Said(o, a) \in Seq(B) /\ Said(o, b) \in Seq(B)
    BY <2>2, SaidConcat
  <2>4. PICK x, y : x = Said(o, a) /\ y = Said(o, b)
    OBVIOUS
  <2>5. x \in Seq(B) /\ y \in Seq(B) /\ L = x \o y
    BY <2>3, <2>4 DEF Concat
  <2>6. Len(L) = Len(x) + Len(y) /\ Len(x) \in Nat /\ Len(y) \in Nat
    BY <2>5
  <2>7. Tally(o, t, k) = Len(x)
    BY <2>1, <2>4 DEF Tally
  <2>8. ASSUME \A j \in 1 .. n : j > k => ~ Regards(o, t[j])
        PROVE  y = <<>>
    <3>1. PICK l : l = n - k
      OBVIOUS
    <3>2. l \in Nat /\ b = [j \in 1 .. l |-> t[k + j]]
      BY <1>1, <2>1, <3>1 DEF After
    <3>3. ListLong(b, l)
      BY <3>2 DEF ListLong
    <3>4. \A j \in 1 .. l : ~ Regards(o, b[j])
      <4>1. \A j \in 1 .. l : k + j \in 1 .. n /\ k + j > k
        BY <1>1, <3>1
      <4> QED
        BY <2>8, <3>2, <4>1
    <3> QED
      BY <2>4, <3>2, <3>3, <3>4, SaidNothing
  <2> QED
    BY <2>6, <2>7, <2>8
<1>3. Tally(o, t, 0) = 0
  <2>1. UpTo(t, 0) = <<>>
    BY DEF UpTo
  <2>2. Said(o, <<>>) = <<>>
    BY SaidOne
  <2> QED
    BY <2>1, <2>2 DEF Tally
<1>4. Tally(o, t, n) = Len(L)
  BY <1>1, <1>2
<1> QED
  BY <1>1, <1>2, <1>3, <1>4

LEMMA TallyGoes ==
    ASSUME NEW o, NEW B, NEW t \in Seq(B), NEW L, L = Said(o, t),
           NEW k \in Nat, k + 1 <= Len(t), NEW m, m = k + 1, NEW c, c = Tally(o, t, k)
    PROVE  /\ c \in Nat
           /\ Regards(o, t[m]) => Tally(o, t, m) = c + 1 /\ c + 1 \in 1 .. Len(L) /\ L[c + 1] = t[m]
           /\ ~ Regards(o, t[m]) => Tally(o, t, m) = c
<1>1. PICK a, x, u, r : a = UpTo(t, k) /\ x = t[m] /\ u = UpTo(t, m) /\ r = After(t, m)
  OBVIOUS
<1>2. u = Concat(a, <<x>>) /\ x \in B
  BY <1>1, CutNext
<1>3. a \in Seq(B) /\ u \in Seq(B) /\ r \in Seq(B) /\ Concat(u, r) = t
  BY <1>1, CutIs
<1>4. PICK y : y = <<x>>
  OBVIOUS
<1>5. y \in Seq(B) /\ Said(o, y) = Told1(o, x)
  BY <1>2, <1>4, SaidOne
<1>6. PICK p, q, v, w : p = Said(o, a) /\ q = Told1(o, x) /\ v = Said(o, u) /\ w = Said(o, r)
  OBVIOUS
<1>7. v = Concat(p, q) /\ p \in Seq(B)
  <2>1. Said(o, Concat(a, y)) = Concat(Said(o, a), Said(o, y)) /\ Said(o, a) \in Seq(B)
    BY <1>3, <1>5, SaidConcat
  <2>2. u = Concat(a, y)
    BY <1>2, <1>4
  <2> QED
    BY <1>5, <1>6, <2>1, <2>2
<1>8. L = Concat(v, w) /\ v \in Seq(B) /\ w \in Seq(B)
  BY <1>3, <1>6, SaidConcat
<1>9. c = Len(p) /\ Tally(o, t, m) = Len(v)
  BY <1>1, <1>6 DEF Tally
<1>10. v = p \o q /\ L = v \o w
  BY <1>7, <1>8 DEF Concat
<1>11. CASE Regards(o, x)
  <2>1. q = <<x>>
    BY <1>6, <1>11 DEF Told1
  <2>2. Len(v) = c + 1 /\ v[c + 1] = x /\ c \in Nat
    BY <1>2, <1>7, <1>9, <1>10, <2>1
  <2>3. Len(L) = Len(v) + Len(w) /\ Len(w) \in Nat /\ \A j \in 1 .. Len(v) : L[j] = v[j]
    BY <1>8, <1>10
  <2>4. c + 1 \in 1 .. Len(L) /\ L[c + 1] = x
    BY <2>2, <2>3
  <2> QED
    BY <1>1, <1>9, <1>11, <2>2, <2>4
<1>12. CASE ~ Regards(o, x)
  <2>1. q = <<>>
    BY <1>6, <1>12 DEF Told1
  <2>2. v = p
    BY <1>7, <1>10, <2>1
  <2> QED
    BY <1>1, <1>7, <1>9, <1>12, <2>2
<1> QED
  BY <1>11, <1>12
-----------------------------------------------------------------------------
\* The statement that creates an object, and those that add to a table.
Creates(o, s) ==
    /\ s.stmt = kind(o) /\ s.name = name(o)
    /\ kind(o) \in {"view", "trigger", "procedure", "function"} => s.uses = Needs(o)
    /\ kind(o) = "trigger" => s.on = World[o].on
    /\ kind(o) = "view" => s.named = World[o].named
    /\ kind(o) = "table" => s = TableSaid(o)
AddsTo(o, s) ==
    /\ kind(o) = "table" /\ s.on = name(o)
    /\ \/ s.stmt = "index"
       \/ s.stmt = "key" /\ \E c \in ToSet(Keyed(World[o].cons)) : s = KeySaid(o, c)
Scripted(o, L) ==
    /\ Len(L) \in Nat \ {0} /\ Creates(o, L[1])
    /\ \A m \in 2 .. Len(L) : AddsTo(o, L[m])

LEMMA ScriptOne ==
    ASSUME NEW o, NEW s, Creates(o, s)
    PROVE  Scripted(o, <<s>>)
<1>1. PICK L : L = <<s>>
  OBVIOUS
<1>2. Len(L) = 1 /\ L[1] = s
  BY <1>1
<1>3. 2 .. 1 = {}
  OBVIOUS
<1> QED
  BY <1>1, <1>2, <1>3 DEF Scripted

SaysKeys(o, K, keys, m) == \A j \in 1 .. m : K[j] = KeySaid(o, keys[j])
SaysIndexes(o, I, l) == \A j \in 1 .. l : I[j].stmt = "index" /\ I[j].on = name(o)

LEMMA ScriptThree ==
    ASSUME NEW o \in Object, kind(o) = "table", NEW L, NEW keys, keys = Keyed(World[o].cons),
           NEW K, NEW I, NEW x, x = TableSaid(o), NEW m \in Nat, NEW l \in Nat, NEW d, d = m + 1,
           InThree(L, x, K, I, m, l, d), m = Len(keys),
           SaysKeys(o, K, keys, m), SaysIndexes(o, I, l)
    PROVE  Scripted(o, L)
<1>1. /\ Len(L) = d + l /\ L[1] = x
      /\ \A j \in 1 .. m : L[1 + j] = K[j]
      /\ \A j \in 1 .. l : L[d + j] = I[j]
  BY DEF InThree
<1>2. Creates(o, x)
  BY DEF Creates, TableSaid
<1>3. \A j \in 1 .. m : AddsTo(o, K[j])
  <2> TAKE j \in 1 .. m
  <2>1. keys[j] \in ToSet(keys)
    <3>1. keys \in Seq(ConstraintData)
      BY KeysAre
    <3> QED
      BY <3>1 DEF ToSet
  <2>2. PICK c : c = keys[j]
    OBVIOUS
  <2>3. K[j] = KeySaid(o, c) /\ c \in ToSet(Keyed(World[o].cons))
    BY <2>1, <2>2 DEF SaysKeys
  <2>4. KeySaid(o, c).stmt = "key" /\ KeySaid(o, c).on = name(o)
    BY DEF KeySaid
  <2> QED
    BY <2>3, <2>4 DEF AddsTo
<1>4. \A j \in 1 .. l : AddsTo(o, I[j])
  BY DEF AddsTo, SaysIndexes
<1>5. ASSUME NEW i \in 2 .. Len(L)
      PROVE  AddsTo(o, L[i])
  <2>1. i \in Nat /\ 2 <= i /\ i <= d + l
    BY <1>1
  <2>2. CASE i <= d
    <3>1. PICK j : j = i - 1
      OBVIOUS
    <3>2. j \in 1 .. m /\ i = 1 + j
      BY <2>1, <2>2, <3>1
    <3> QED
      BY <1>1, <1>3, <3>2
  <2>3. CASE i > d
    <3>1. PICK j : j = i - d
      OBVIOUS
    <3>2. j \in 1 .. l /\ i = d + j
      BY <2>1, <2>3, <3>1
    <3> QED
      BY <1>1, <1>4, <3>2
  <2> QED
    BY <2>1, <2>2, <2>3
<1>6. Len(L) \in Nat \ {0}
  BY <1>1
<1> QED
  BY <1>1, <1>2, <1>5, <1>6 DEF Scripted

\* The statements of a table: its own, its keys in their order, its indexes.
Parts(o, L, m, l) ==
    \E K, I : InThree(L, TableSaid(o), K, I, m, l, m + 1)
               /\ SaysKeys(o, K, Keyed(World[o].cons), m) /\ SaysIndexes(o, I, l)

LEMMA TableParts ==
    ASSUME NEW o \in Object, kind(o) = "table", NEW L, L = Script(o)
    PROVE  \E m, l \in Nat : m = Len(Keyed(World[o].cons)) /\ Parts(o, L, m, l)
<1>2. PICK x, K, I, keys, g : /\ x = TableSaid(o) /\ K = KeysSaid(o) /\ I = IndexesSaid(o)
                              /\ keys = Keyed(World[o].cons) /\ g = Grouped(ShownRows(o))
  OBVIOUS
<1>3. L = Concat(<<x>>, Concat(K, I))
  BY <1>2 DEF Script
<1>4. PICK m, l : m = Len(keys) /\ l = Len(g)
  OBVIOUS
<1>5. m \in Nat /\ l \in Nat
  <2>1. keys \in Seq(ConstraintData)
    BY <1>2, KeysAre
  <2>2. PICK s : s = ShownRows(o)
    OBVIOUS
  <2>3. IsSome(s)
    BY <2>2, ShownIsSome
  <2>4. Len(g) \in Nat
    BY <1>2, <2>2, <2>3, GroupedIsSome
  <2> QED
    BY <1>4, <2>1, <2>4, SeqDomain
<1>6. K = [j \in 1 .. m |-> KeySaid(o, keys[j])] /\ I = [j \in 1 .. l |-> IndexSaid(o, g[j])]
  BY <1>2, <1>4 DEF KeysSaid, IndexesSaid
<1>7. PICK X : X = {x} \cup {K[j] : j \in 1 .. m} \cup {I[j] : j \in 1 .. l}
  OBVIOUS
<1>8. x \in X /\ K \in Seq(X) /\ I \in Seq(X) /\ Len(K) = m /\ Len(I) = l
  <2>1. x \in X /\ (\A j \in 1 .. m : K[j] \in X) /\ (\A j \in 1 .. l : I[j] \in X)
    BY <1>7
  <2>2. K = [j \in 1 .. m |-> K[j]] /\ I = [j \in 1 .. l |-> I[j]] /\ DOMAIN K = 1 .. m /\ DOMAIN I = 1 .. l
    BY <1>6
  <2>3. K \in Seq(X) /\ I \in Seq(X)
    BY <1>5, <2>1, <2>2, ListIs
  <2> QED
    BY <1>5, <2>1, <2>2, <2>3, LengthOf
<1>9. PICK d : d = m + 1
  OBVIOUS
<1>10. InThree(L, x, K, I, m, l, d)
  <2>1. PICK s, t : s = <<x>> /\ t = Concat(K, I)
    OBVIOUS
  <2>2. s \in Seq(X) /\ Len(s) = 1 /\ s[1] = x
    BY <1>8, <2>1
  <2>3. Succeeds(t, K, I) /\ t \in Seq(X)
    BY <1>8, <2>1, SucceedsIs
  <2>4. L = Concat(s, t)
    BY <1>3, <2>1
  <2>5. Succeeds(L, s, t)
    BY <2>2, <2>3, <2>4, SucceedsIs
  <2>6. m = Len(K) /\ l = Len(I)
    BY <1>8
  <2> QED
    BY <1>9, <2>2, <2>3, <2>5, <2>6, ThreeParts
<1>11. SaysIndexes(o, I, l)
  BY <1>6 DEF IndexSaid, SaysIndexes
<1>12. SaysKeys(o, K, keys, m)
  BY <1>6 DEF SaysKeys
<1>13. Parts(o, L, m, l)
  BY <1>2, <1>9, <1>10, <1>11, <1>12 DEF Parts
<1> QED
  BY <1>2, <1>4, <1>5, <1>13

LEMMA ScriptOfTable ==
    ASSUME NEW o \in Object, kind(o) = "table"
    PROVE  Scripted(o, Script(o))
<1>1. PICK L, keys, x : L = Script(o) /\ keys = Keyed(World[o].cons) /\ x = TableSaid(o)
  OBVIOUS
<1>2. PICK m, l \in Nat : m = Len(keys) /\ Parts(o, L, m, l)
  BY <1>1, TableParts
<1>3. PICK K, I : InThree(L, x, K, I, m, l, m + 1) /\ SaysKeys(o, K, keys, m) /\ SaysIndexes(o, I, l)
  BY <1>1, <1>2 DEF Parts
<1>4. Scripted(o, L)
  BY <1>1, <1>2, <1>3, ScriptThree
<1> QED
  BY <1>1, <1>4

\* Where its keys are among them.
LEMMA KeyPlaces ==
    ASSUME NEW o \in Object, kind(o) = "table", NEW L, L = Script(o), NEW keys, keys = Keyed(World[o].cons),
           NEW m, m = Len(keys)
    PROVE  /\ m \in Nat /\ keys \in Seq(ConstraintData) /\ Len(L) \in Nat /\ m + 1 <= Len(L)
           /\ \A j \in 1 .. m : L[1 + j] = KeySaid(o, keys[j])
           /\ \A i \in m + 2 .. Len(L) : L[i].stmt = "index" /\ L[i].on = name(o)
<1>1. PICK l \in Nat : m \in Nat /\ Parts(o, L, m, l)
  BY TableParts
<1>2. PICK K, I : InThree(L, TableSaid(o), K, I, m, l, m + 1) /\ SaysKeys(o, K, keys, m) /\ SaysIndexes(o, I, l)
  BY <1>1 DEF Parts
<1>3. /\ Len(L) = m + 1 + l
      /\ \A j \in 1 .. m : L[1 + j] = K[j]
      /\ \A j \in 1 .. l : L[m + 1 + j] = I[j]
  BY <1>2 DEF InThree
<1>4. keys \in Seq(ConstraintData)
  BY KeysAre
<1>5. ASSUME NEW i \in m + 2 .. Len(L)
      PROVE  L[i].stmt = "index" /\ L[i].on = name(o)
  <2>1. PICK j : j = i - (m + 1)
    OBVIOUS
  <2>2. j \in 1 .. l /\ i = m + 1 + j
    BY <1>1, <1>3, <2>1
  <2>3. L[i] = I[j]
    BY <1>3, <2>2
  <2> QED
    BY <1>2, <2>2, <2>3 DEF SaysIndexes
<1> QED
  BY <1>1, <1>2, <1>3, <1>4, <1>5 DEF SaysKeys

LEMMA KeysOrdered ==
    ASSUME NEW o \in Object, kind(o) = "table", NEW keys, keys = Keyed(World[o].cons),
           NEW j \in DOMAIN keys, NEW k \in DOMAIN keys
    PROVE  j < k <=> keys[j].name < keys[k].name
<1>1. PICK cons : cons = World[o].cons
  OBVIOUS
<1>2. cons \in Seq(ConstraintData)
  BY <1>1, KeysAre
<1>3. PICK places : places = {i \in DOMAIN cons : cons[i].type \in {"PRIMARY KEY", "UNIQUE", "FOREIGN KEY"}}
  OBVIOUS
<1>4. keys = Chosen(cons, places) /\ places \in SUBSET DOMAIN cons
  BY <1>1, <1>3 DEF Keyed, Where
<1>5. PICK at : Picks(keys, cons, places, at)
  BY <1>2, <1>4, ChosenIs
<1>6. at \in [DOMAIN keys -> places] /\ keys[j] = cons[at[j]] /\ keys[k] = cons[at[k]]
  BY <1>5 DEF Picks
<1>7. PICK p, q : p = at[j] /\ q = at[k]
  OBVIOUS
<1>8. p \in DOMAIN cons /\ q \in DOMAIN cons /\ (j < k <=> p < q) /\ (k < j <=> q < p)
  BY <1>4, <1>5, <1>6, <1>7 DEF Picks
<1>9. /\ p < q => cons[p].name < cons[q].name
      /\ q < p => cons[q].name < cons[p].name
  BY <1>1, <1>8, KeyAssumption
<1>10. /\ p \in Nat /\ q \in Nat /\ cons[p].name \in Nat /\ cons[q].name \in Nat
  <2>1. DOMAIN cons = 1 .. Len(cons)
    BY <1>2, SeqDomain
  <2>2. cons[p] \in ConstraintData /\ cons[q] \in ConstraintData
    BY <1>2, <1>8
  <2> QED
    BY <1>2, <1>8, <2>1, <2>2 DEF ConstraintData
<1> QED
  BY <1>6, <1>7, <1>8, <1>9, <1>10

LEMMA ScriptIs ==
    ASSUME NEW o \in Object
    PROVE  Scripted(o, Script(o))
<1>1. kind(o) \in Kind
  BY KindIs
<1>2. CASE kind(o) = "table"
  BY <1>2, ScriptOfTable
<1>3. CASE kind(o) # "table"
  <2>1. \E s : Creates(o, s) /\ Script(o) = <<s>>
    <3>1. CASE kind(o) = "domain"
      BY <3>1 DEF Script, Creates, DomainStmt
    <3>2. CASE kind(o) = "view"
      BY <3>2 DEF Script, Creates, ViewStmt
    <3>3. CASE kind(o) = "sequence"
      BY <3>3 DEF Script, Creates, SequenceStmt
    <3>4. CASE kind(o) = "trigger"
      BY <3>4 DEF Script, Creates, TriggerStmt
    <3>5. CASE kind(o) = "procedure"
      BY <3>5 DEF Script, Creates, ProcedureSaid
    <3>6. CASE kind(o) = "function"
      BY <3>6 DEF Script, Creates, FunctionSaid
    <3> QED
      BY <1>1, <1>3, <3>1, <3>2, <3>3, <3>4, <3>5, <3>6 DEF Kind
  <2> QED
    BY <2>1, ScriptOne
<1> QED
  BY <1>2, <1>3
-----------------------------------------------------------------------------
\* What a CREATE statement makes.
LEMMA MadeIs ==
    ASSUME NEW s, s.stmt \in Kind, NEW r, r = Made(s)
    PROVE  r.kind = s.stmt /\ r.name = upper[s.name] /\ [r EXCEPT !.name = r.name] = r
<1>1. CASE s.stmt = "domain"
  BY <1>1 DEF Made
<1>2. CASE s.stmt = "table"
  BY <1>2 DEF Made
<1>3. CASE s.stmt = "view"
  BY <1>3 DEF Made
<1>4. CASE s.stmt = "sequence"
  BY <1>4 DEF Made
<1>5. CASE s.stmt = "trigger"
  BY <1>5 DEF Made
<1>6. CASE s.stmt = "procedure"
  BY <1>6 DEF Made
<1>7. CASE s.stmt = "function"
  BY <1>7 DEF Made
<1> QED
  BY <1>1, <1>2, <1>3, <1>4, <1>5, <1>6, <1>7 DEF Kind

\* What the first statements about an object make is one record of it.
IsTableFor(o, r) == \E keys, idx : r = TableOf(name(o), MadeColumns(o), keys, idx)
RecordOf(o, r) ==
    /\ r.kind = kind(o) /\ r.name = name(o) /\ [r EXCEPT !.name = name(o)] = r
    /\ kind(o) = "table" => IsTableFor(o, r)
IsOf(o, x) == \E r : x = {r} /\ RecordOf(o, r)

Stages(L) == CHOOSE f : Making(L, Len(L), f)
Staged(o, L, f) ==
    /\ f[0] = {} /\ \A m \in 1 .. Len(L) : f[m] = Put(f[m - 1], L[m])
    /\ \A m \in 1 .. Len(L) : IsOf(o, f[m])

LEMMA TableForIs ==
    ASSUME NEW o, kind(o) = "table", NEW r, IsTableFor(o, r)
    PROVE  RecordOf(o, r)
<1>1. PICK cols, u, k : cols = MadeColumns(o) /\ u = name(o) /\ k = kind(o)
  OBVIOUS
<1>2. PICK keys, idx : r = TableOf(u, cols, keys, idx)
  BY <1>1 DEF IsTableFor
<1>3. r.kind = "table" /\ r.name = u /\ [r EXCEPT !.name = u] = r
  BY <1>2 DEF TableOf
<1> QED
  BY <1>1, <1>3 DEF RecordOf

LEMMA StageIs ==
    ASSUME NEW o \in Object, upper[name(o)] = name(o), NEW L, Scripted(o, L), NEW f, f = Stages(L)
    PROVE  Staged(o, L, f)
<1>1. PICK n : n = Len(L)
  OBVIOUS
<1>2. n \in Nat \ {0} /\ Creates(o, L[1]) /\ \A m \in 2 .. n : AddsTo(o, L[m])
  BY <1>1 DEF Scripted
<1>3. Making(L, n, f)
  <2>1. n \in Nat
    BY <1>2
  <2>2. \E g : Making(L, n, g)
    BY <2>1, FoldedExists
  <2> QED
    BY <1>1, <2>2 DEF Stages
<1>4. f[0] = {} /\ Folding(L, f, n)
  <2>1. f[0] = {} /\ \A k \in 1 .. n : f[k] = Put(f[k - 1], L[k])
    BY <1>2, <1>3, FoldedIs
  <2> QED
    BY <2>1 DEF Folding
<1> DEFINE S == {j \in Nat : j + 1 <= n => IsOf(o, f[j + 1])}
<1>5. 0 \in S
  <2>1. PICK s, r : s = L[1] /\ r = Made(s)
    OBVIOUS
  <2>2. s.stmt = kind(o) /\ s.name = name(o) /\ kind(o) \in Kind
    BY <1>2, <2>1, KindIs DEF Creates
  <2>3. r.kind = kind(o) /\ r.name = name(o) /\ [r EXCEPT !.name = r.name] = r
    <3>1. s.stmt \in Kind
      BY <2>2
    <3>2. r.kind = s.stmt /\ r.name = upper[s.name] /\ [r EXCEPT !.name = r.name] = r
      BY <2>1, <3>1, MadeIs
    <3> QED
      BY <2>2, <3>2
  <2>4. kind(o) = "table" => IsTableFor(o, r)
    <3> SUFFICES ASSUME kind(o) = "table"
                 PROVE  IsTableFor(o, r)
      OBVIOUS
    <3>1. s = TableSaid(o)
      BY <1>2, <2>1 DEF Creates
    <3>2. Made(TableSaid(o)) = TableOf(upper[name(o)], MadeColumns(o), <<>>, <<>>)
      BY TableSaidMade
    <3> QED
      BY <2>1, <3>1, <3>2 DEF IsTableFor
  <2>5. f[1] = {r}
    <3>1. 1 \in 1 .. n /\ 1 - 1 = 0
      BY <1>2
    <3>2. f[1] = Put({}, s)
      BY <1>4, <2>1, <3>1 DEF Folding
    <3>3. s.stmt \notin {"key", "index"}
      BY <2>2 DEF Kind
    <3>4. Put({}, s) = {} \cup {Made(s)}
      BY <3>3 DEF Put
    <3> QED
      BY <2>1, <3>2, <3>4
  <2>6. RecordOf(o, r)
    BY <2>3, <2>4 DEF RecordOf
  <2>7. IsOf(o, f[1])
    BY <2>5, <2>6 DEF IsOf
  <2> QED
    BY <2>7
<1>6. ASSUME NEW j \in Nat, j \in S
      PROVE  j + 1 \in S
  <2> SUFFICES ASSUME j + 1 + 1 <= n
               PROVE  IsOf(o, f[j + 1 + 1])
    OBVIOUS
  <2>1. PICK k, i : k = j + 1 + 1 /\ i = j + 1
    OBVIOUS
  <2>2. k \in 1 .. n /\ k - 1 = i /\ k \in 2 .. n /\ i <= n
    BY <1>2, <2>1
  <2>3. PICK s, x : s = L[k] /\ x = f[i]
    OBVIOUS
  <2>4. IsOf(o, x) /\ f[k] = Put(x, s) /\ AddsTo(o, s)
    <3>1. IsOf(o, f[i])
      BY <1>6, <2>1, <2>2
    <3>2. f[k] = Put(f[k - 1], L[k])
      BY <1>4, <2>2 DEF Folding
    <3> QED
      BY <1>2, <2>2, <2>3, <3>1, <3>2
  <2>5. kind(o) = "table" /\ s.on = name(o) /\ s.stmt \in {"key", "index"}
    BY <2>4 DEF AddsTo
  <2>6. PICK u, cols : u = name(o) /\ cols = MadeColumns(o)
    OBVIOUS
  <2>7. PICK r, keys, idx : x = {r} /\ r = TableOf(u, cols, keys, idx)
    BY <2>4, <2>5, <2>6 DEF IsOf, RecordOf, IsTableFor
  <2>8. IsTable(x, u, cols, keys, idx) /\ u = upper[s.on]
    BY <2>5, <2>6, <2>7 DEF IsTable
  <2>9. /\ s.stmt = "key" => IsTable(f[k], u, cols, Append(keys, KeyRow(s)), idx)
        /\ s.stmt = "index" => IsTable(f[k], u, cols, keys, Append(idx, IndexRow(s)))
    <3>1. /\ s.stmt = "key" => IsTable(Put(x, s), u, cols, Append(keys, KeyRow(s)), idx)
          /\ s.stmt = "index" => IsTable(Put(x, s), u, cols, keys, Append(idx, IndexRow(s)))
      BY <2>8, TableGrows
    <3> QED
      BY <2>4, <3>1
  <2>10. \E a, b : IsTable(f[k], u, cols, a, b)
    BY <2>5, <2>9
  <2>11. PICK y : f[k] = {y} /\ IsTableFor(o, y)
    BY <2>6, <2>10 DEF IsTable, IsTableFor
  <2>12. RecordOf(o, y)
    BY <2>5, <2>11, TableForIs
  <2> QED
    BY <2>1, <2>11, <2>12 DEF IsOf
<1> HIDE DEF S
<1>7. Nat \subseteq S
  BY <1>5, <1>6, SetInduction
<1>8. \A m \in 1 .. n : IsOf(o, f[m])
  <2> TAKE m \in 1 .. n
  <2>1. PICK j : j = m - 1
    OBVIOUS
  <2>2. j \in Nat /\ j + 1 = m /\ m <= n
    BY <1>2, <2>1
  <2>3. j + 1 <= n => IsOf(o, f[j + 1])
    BY <1>7, <2>2 DEF S
  <2> QED
    BY <2>2, <2>3
<1> QED
  BY <1>1, <1>4, <1>8 DEF Staged, Folding

\* The keys of a table after its first t statements.
KeysAt(o, t) ==
    {OriginalKey(Keyed(World[o].cons)[j]) : j \in {i \in 1 .. Len(Keyed(World[o].cons)) : i < t}}
HoldsKeys(x, K) == \E r : x = {r} /\ IsSome(r.keys) /\ ToSet(r.keys) = K

LEMMA StageKeys ==
    ASSUME NEW o \in Object, kind(o) = "table", upper[name(o)] = name(o), NEW L, L = Script(o),
           NEW f, f = Stages(L), NEW t \in 1 .. Len(L)
    PROVE  HoldsKeys(f[t], KeysAt(o, t))
<1>1. PICK n, ks, m : n = Len(L) /\ ks = Keyed(World[o].cons) /\ m = Len(ks)
  OBVIOUS
<1>2. /\ m \in Nat /\ ks \in Seq(ConstraintData) /\ n \in Nat /\ m + 1 <= n
      /\ \A j \in 1 .. m : L[1 + j] = KeySaid(o, ks[j])
      /\ \A i \in m + 2 .. n : L[i].stmt = "index" /\ L[i].on = name(o)
  BY <1>1, KeyPlaces
<1>3. Scripted(o, L) /\ Staged(o, L, f)
  <2>1. Scripted(o, L)
    BY ScriptIs
  <2> QED
    BY <2>1, StageIs
<1>4. f[0] = {} /\ (\A i \in 1 .. n : f[i] = Put(f[i - 1], L[i])) /\ \A i \in 1 .. n : IsOf(o, f[i])
  BY <1>1, <1>3 DEF Staged
<1>5. \A i : KeysAt(o, i) = {OriginalKey(ks[j]) : j \in {q \in 1 .. m : q < i}}
  BY <1>1 DEF KeysAt
<1> DEFINE S == {j \in Nat : j + 1 <= n => HoldsKeys(f[j + 1], KeysAt(o, j + 1))}
<1>6. 0 \in S
  <2>1. PICK u, cols, s : u = upper[name(o)] /\ cols = MadeColumns(o) /\ s = L[1]
    OBVIOUS
  <2>2. s = TableSaid(o) /\ s.stmt = "table"
    BY <1>3, <2>1 DEF Scripted, Creates, TableSaid
  <2>3. Made(s) = TableOf(u, cols, <<>>, <<>>)
    BY <2>1, <2>2, TableSaidMade
  <2>4. PICK r : r = TableOf(u, cols, <<>>, <<>>)
    OBVIOUS
  <2>5. f[1] = {r}
    <3>1. 1 \in 1 .. n /\ 1 - 1 = 0
      BY <1>2
    <3>2. f[1] = Put({}, s)
      BY <1>4, <2>1, <3>1
    <3>3. Put({}, s) = {} \cup {Made(s)}
      BY <2>2 DEF Put
    <3> QED
      BY <2>3, <2>4, <3>2, <3>3
  <2>6. r.keys = <<>> /\ IsSome(r.keys)
    BY <2>4, NoneIsSome DEF TableOf
  <2>7. ToSet(r.keys) = {}
    BY <2>6 DEF ToSet
  <2>8. PICK K : K = KeysAt(o, 0 + 1)
    OBVIOUS
  <2>9. K = {}
    <3>1. \A q \in 1 .. m : ~ q < 1
      BY <1>2
    <3>2. PICK none : none = {q \in 1 .. m : q < 1}
      OBVIOUS
    <3>3. none = {}
      BY <3>1, <3>2
    <3>4. K = {OriginalKey(ks[j]) : j \in none}
      BY <1>5, <2>8, <3>2
    <3> QED
      BY <3>3, <3>4
  <2>10. HoldsKeys(f[1], K)
    BY <2>5, <2>6, <2>7, <2>9 DEF HoldsKeys
  <2> QED
    BY <2>8, <2>10
<1>7. ASSUME NEW j \in Nat, j \in S
      PROVE  j + 1 \in S
  <2> SUFFICES ASSUME j + 1 + 1 <= n
               PROVE  HoldsKeys(f[j + 1 + 1], KeysAt(o, j + 1 + 1))
    OBVIOUS
  <2>1. PICK k, i : k = j + 1 + 1 /\ i = j + 1
    OBVIOUS
  <2>2. k \in 1 .. n /\ i \in 1 .. n /\ k - 1 = i /\ k = 1 + i /\ i >= 1
    BY <1>2, <2>1
  <2>3. PICK s, x : s = L[k] /\ x = f[i]
    OBVIOUS
  <2>4. IsOf(o, x) /\ f[k] = Put(x, s) /\ HoldsKeys(x, KeysAt(o, i))
    <3>1. f[k] = Put(f[k - 1], L[k]) /\ IsOf(o, f[i])
      BY <1>4, <2>2
    <3>2. HoldsKeys(f[i], KeysAt(o, i))
      BY <1>7, <2>1, <2>2
    <3> QED
      BY <2>2, <2>3, <3>1, <3>2
  <2>5. PICK r : x = {r} /\ IsSome(r.keys) /\ ToSet(r.keys) = KeysAt(o, i)
    BY <2>4 DEF HoldsKeys
  <2>6. PICK u, cols : u = name(o) /\ cols = MadeColumns(o)
    OBVIOUS
  <2>7. PICK keys, idx : r = TableOf(u, cols, keys, idx)
    <3>1. IsTableFor(o, r)
      BY <2>4, <2>5 DEF IsOf, RecordOf
    <3> QED
      BY <2>6, <3>1 DEF IsTableFor
  <2>8. r.keys = keys /\ IsTable(x, u, cols, keys, idx)
    BY <2>5, <2>7 DEF TableOf, IsTable
  <2>9. CASE i <= m
    <3>1. i \in 1 .. m /\ s = KeySaid(o, ks[i])
      BY <1>2, <2>2, <2>3, <2>9
    <3>2. PICK row : row = OriginalKey(ks[i])
      OBVIOUS
    <3>3. s.stmt = "key" /\ u = upper[s.on] /\ KeyRow(s) = row
      BY <2>6, <3>1, <3>2 DEF KeySaid, KeyRow, OriginalKey
    <3>4. PICK more : more = Append(keys, row)
      OBVIOUS
    <3>5. IsTable(f[k], u, cols, more, idx)
      <4>1. IsTable(Put(x, s), u, cols, Append(keys, KeyRow(s)), idx)
        BY <2>8, <3>3, TableGrows
      <4> QED
        BY <2>4, <3>3, <3>4, <4>1
    <3>6. IsSome(more) /\ ToSet(more) = ToSet(keys) \cup {row}
      <4>1. PICK Y : keys \in Seq(Y)
        BY <2>5, <2>8 DEF IsSome
      <4>2. PICK Z : Z = Y \cup {row}
        OBVIOUS
      <4>3. keys \in Seq(Z) /\ more \in Seq(Z)
        <5>1. keys \in Seq(Z)
          BY <4>1, <4>2
        <5> QED
          BY <3>4, <4>2, <5>1
      <4>4. PICK q : q = Len(keys)
        OBVIOUS
      <4>5. /\ q \in Nat /\ DOMAIN keys = 1 .. q /\ DOMAIN more = 1 .. q + 1
            /\ more[q + 1] = row /\ \A p \in 1 .. q : more[p] = keys[p]
        BY <3>4, <4>2, <4>3, <4>4
      <4>6. \A p : p \in 1 .. q + 1 <=> p \in 1 .. q \/ p = q + 1
        BY <4>5
      <4>7. ToSet(more) = {more[p] : p \in 1 .. q + 1} /\ ToSet(keys) = {keys[p] : p \in 1 .. q}
        BY <4>5 DEF ToSet
      <4> QED
        BY <4>3, <4>5, <4>6, <4>7 DEF IsSome
    <3>7. KeysAt(o, k) = KeysAt(o, i) \cup {row}
      <4>1. \A p \in 1 .. m : p < k <=> p < i \/ p = i
        BY <1>2, <2>2
      <4> QED
        BY <1>5, <3>1, <3>2, <4>1
    <3>8. PICK y : y = TableOf(u, cols, more, idx)
      OBVIOUS
    <3>9. f[k] = {y} /\ y.keys = more
      BY <3>5, <3>8 DEF IsTable, TableOf
    <3>10. HoldsKeys(f[k], KeysAt(o, k))
      BY <2>5, <2>8, <3>6, <3>7, <3>9 DEF HoldsKeys
    <3> QED
      BY <2>1, <3>10
  <2>10. CASE ~ i <= m
    <3>1. k \in m + 2 .. n
      BY <1>2, <2>2, <2>10
    <3>2. s.stmt = "index" /\ u = upper[s.on]
      BY <1>2, <2>3, <2>6, <3>1
    <3>3. PICK more : more = Append(idx, IndexRow(s))
      OBVIOUS
    <3>4. IsTable(f[k], u, cols, keys, more)
      BY <2>4, <2>8, <3>2, <3>3, TableGrows
    <3>5. KeysAt(o, k) = KeysAt(o, i)
      <4>1. \A p \in 1 .. m : p < k <=> p < i
        BY <1>2, <2>2, <2>10
      <4> QED
        BY <1>5, <4>1
    <3>6. PICK y : y = TableOf(u, cols, keys, more)
      OBVIOUS
    <3>7. f[k] = {y} /\ y.keys = keys
      BY <3>4, <3>6 DEF IsTable, TableOf
    <3>8. HoldsKeys(f[k], KeysAt(o, k))
      BY <2>5, <2>8, <3>5, <3>7 DEF HoldsKeys
    <3> QED
      BY <2>1, <3>8
  <2> QED
    BY <2>9, <2>10
<1> HIDE DEF S
<1>8. Nat \subseteq S
  BY <1>6, <1>7, SetInduction
<1>9. PICK j : j = t - 1
  OBVIOUS
<1>10. j \in Nat /\ j + 1 = t /\ j + 1 <= n
  BY <1>1, <1>2, <1>9
<1>11. HoldsKeys(f[j + 1], KeysAt(o, j + 1))
  BY <1>8, <1>10 DEF S
<1> QED
  BY <1>10, <1>11

\* What all the statements about an object make.
LEMMA RemadeStage ==
    ASSUME NEW o, NEW L, About(o) = L, Len(L) \in Nat
    PROVE  Remade(o) = Stages(L)[Len(L)]
<1> DEFINE made == CHOOSE f : Making(About(o), Len(About(o)), f)
<1>1. Remade(o) = made[Len(About(o))]
  BY DEF Remade, Making
<1>2. made = Stages(About(o))
  BY DEF Stages
<1> HIDE DEF made
<1> QED
  BY <1>1, <1>2
-----------------------------------------------------------------------------
\* A whole script.
Replaying == TellAll /\ TurnInv /\ Whole

LEMMA OutIs ==
    ASSUME Replaying
    PROVE  /\ IsSome(out) /\ db = stable /\ seen = stable /\ Turns(out)
           /\ \A j \in DOMAIN out : Wanted(What(out[j]), Whose(out[j]))
<1>1. call.tool = "extract" /\ seen = stable
  BY DEF Replaying, Whole, Done
<1>2. IsSome(out) /\ \A j \in DOMAIN out : Wanted(What(out[j]), Whose(out[j]))
  BY <1>1 DEF Replaying, TellAll, ExtractInv, Written, IsSome
<1>3. db = stable
  BY <1>1 DEF Replaying, TellAll, TypeOK, CatalogTypeOK
<1> QED
  BY <1>1, <1>2, <1>3 DEF Replaying, TurnInv

LEMMA UserIs ==
    ASSUME Replaying, NEW o \in Users
    PROVE  /\ o \in Object /\ ToTell(o) /\ upper[name(o)] = name(o)
           /\ About(o) = Script(o) /\ Said(o, out) = Script(o)
<1>1. o \in db /\ ~ World[o].system
  BY DEF Users
<1>2. TypeOK /\ TellInv /\ Done("extract") /\ IsSome(out) /\ db = stable
  BY OutIs DEF Replaying, TellAll, Whole
<1>3. o \in Object
  BY <1>1, <1>2 DEF TypeOK, CatalogTypeOK
<1>4. ToTell(o)
  BY <1>1, <1>2 DEF Replaying, Whole, ToTell
<1>5. About(o) = Script(o)
  BY <1>2, <1>3, <1>4, AllSaid
<1>6. About(o) = Said(o, out)
  BY <1>2, <1>3, AboutIs
<1>7. upper[name(o)] = name(o)
  BY DEF Replaying, Whole
<1> QED
  BY <1>3, <1>4, <1>5, <1>6, <1>7

LEMMA OneUser ==
    ASSUME Replaying, NEW o \in Users, NEW p \in Users, kind(p) \in Space(kind(o)), name(p) = name(o)
    PROVE  p = o
<1>1. SameSlot(o, p)
  BY DEF SameSlot
<1>2. o \in db /\ p \in db
  BY DEF Users
<1> QED
  BY <1>1, <1>2 DEF Replaying, TellAll, Slots

LEMMA EachRegards ==
    ASSUME Replaying, NEW j \in DOMAIN out
    PROVE  \E o \in Users : Regards(o, out[j])
<1>1. Wanted(What(out[j]), Whose(out[j])) /\ seen = db
  BY OutIs
<1>2. PICK o \in seen : kind(o) = What(out[j]) /\ name(o) = Whose(out[j]) /\ ~ World[o].system
  BY <1>1 DEF Wanted
<1> QED
  BY <1>1, <1>2 DEF Users, Regards

LEMMA SpaceIs ==
    ASSUME NEW k
    PROVE  k \in Space(k) /\ ("table" \in Space(k) <=> k \in {"table", "view"})
BY DEF Space

\* The catalog when the first k statements have run.
Stage(o, k) == Stages(Script(o))[Tally(o, out, k)]
Cat(k) == UNION {Stage(o, k) : o \in Users}

LEMMA CatIs ==
    ASSUME Replaying, NEW n, n = Len(out), NEW k \in 0 .. n, NEW o \in Users, NEW t, t = Tally(o, out, k),
           NEW L, L = Script(o)
    PROVE  /\ n \in Nat /\ t \in 0 .. Len(L) /\ Staged(o, L, Stages(L)) /\ Scripted(o, L)
           /\ t = 0 => Stage(o, k) = {}
           /\ t # 0 => IsOf(o, Stage(o, k)) /\ t \in 1 .. Len(L)
<1>1. o \in Object /\ upper[name(o)] = name(o) /\ Said(o, out) = L
  BY UserIs
<1>2. Scripted(o, L)
  BY <1>1, ScriptIs
<1>3. PICK f : f = Stages(L)
  OBVIOUS
<1>4. Staged(o, L, f)
  BY <1>1, <1>2, <1>3, StageIs
<1>5. PICK B, s : s = out /\ s \in Seq(B)
  BY OutIs DEF IsSome
<1>6. n = Len(s) /\ L = Said(o, s) /\ n \in Nat
  BY <1>1, <1>5
<1>7. Tally(o, s, k) \in 0 .. Len(L)
  BY <1>5, <1>6, TallyIs
<1>8. t \in 0 .. Len(L) /\ Len(L) \in Nat
  BY <1>2, <1>5, <1>7 DEF Scripted
<1>9. Stage(o, k) = f[t]
  BY <1>3 DEF Stage
<1>10. t # 0 => t \in 1 .. Len(L)
  BY <1>8
<1>11. (t = 0 => f[t] = {}) /\ (t # 0 => IsOf(o, f[t]))
  BY <1>4, <1>10 DEF Staged
<1> QED
  BY <1>2, <1>3, <1>4, <1>6, <1>8, <1>9, <1>10, <1>11

LEMMA InCat ==
    ASSUME Replaying, NEW k \in 0 .. Len(out), NEW r \in Cat(k)
    PROVE  \E o \in Users : Stage(o, k) = {r} /\ RecordOf(o, r) /\ Tally(o, out, k) # 0
<1>1. PICK o \in Users : r \in Stage(o, k)
  BY DEF Cat
<1>2. PICK t, L : t = Tally(o, out, k) /\ L = Script(o)
  OBVIOUS
<1>3. /\ t = 0 => Stage(o, k) = {}
      /\ t # 0 => IsOf(o, Stage(o, k))
  BY <1>2, CatIs
<1>4. t # 0 /\ IsOf(o, Stage(o, k))
  BY <1>1, <1>3
<1> QED
  BY <1>1, <1>2, <1>4 DEF IsOf

LEMMA HasCat ==
    ASSUME Replaying, NEW k \in 0 .. Len(out), NEW o \in Users, Tally(o, out, k) # 0
    PROVE  \E r \in Cat(k) : Stage(o, k) = {r} /\ RecordOf(o, r)
<1>1. PICK t, L : t = Tally(o, out, k) /\ L = Script(o)
  OBVIOUS
<1>2. IsOf(o, Stage(o, k))
  BY <1>1, CatIs
<1>3. PICK r : Stage(o, k) = {r} /\ RecordOf(o, r)
  BY <1>2 DEF IsOf
<1> QED
  BY <1>3 DEF Cat

\* The object a statement is about, and the statements about others.
Concerns(o, k) == o \in Users /\ k + 1 \in DOMAIN out /\ Regards(o, out[k + 1])

LEMMA TallyNext ==
    ASSUME Replaying, NEW k \in Nat, NEW m, m = k + 1, NEW o, Concerns(o, k), NEW t, t = Tally(o, out, k),
           NEW L, L = Script(o)
    PROVE  /\ k \in 0 .. Len(out) /\ m \in 0 .. Len(out) /\ t \in Nat
           /\ Tally(o, out, m) = t + 1 /\ t + 1 \in 1 .. Len(L) /\ L[t + 1] = out[m]
           /\ \A p \in Users \ {o} : Tally(p, out, m) = Tally(p, out, k) /\ Stage(p, m) = Stage(p, k)
<1>1. o \in Users /\ m \in DOMAIN out /\ Regards(o, out[m])
  BY DEF Concerns
<1>2. PICK B, s : s = out /\ s \in Seq(B)
  BY OutIs DEF IsSome
<1>3. m \in 1 .. Len(s) /\ k + 1 <= Len(s)
  BY <1>1, <1>2
<1>4. L = Said(o, s)
  BY <1>1, <1>2, UserIs
<1>5. Tally(o, s, m) = t + 1 /\ t + 1 \in 1 .. Len(L) /\ L[t + 1] = s[m] /\ t \in Nat
  <2>1. t = Tally(o, s, k) /\ Regards(o, s[m])
    BY <1>1, <1>2
  <2> QED
    BY <1>2, <1>3, <1>4, <2>1, TallyGoes
<1>6. ASSUME NEW p \in Users \ {o}
      PROVE  Tally(p, out, m) = Tally(p, out, k)
  <2>1. ~ Regards(p, s[m])
    <3>1. Regards(p, out[m]) => kind(p) = kind(o) /\ name(p) = name(o)
      BY <1>1 DEF Regards
    <3>2. kind(p) = kind(o) /\ name(p) = name(o) => p = o
      BY <1>1, OneUser, SpaceIs
    <3> QED
      BY <1>2, <3>1, <3>2
  <2>2. PICK c, M : c = Tally(p, s, k) /\ M = Said(p, s)
    OBVIOUS
  <2>3. Tally(p, s, m) = c
    BY <1>2, <1>3, <2>1, <2>2, TallyGoes
  <2> QED
    BY <1>2, <2>2, <2>3
<1>7. \A p \in Users \ {o} : Stage(p, m) = Stage(p, k)
  BY <1>6 DEF Stage
<1>8. k \in 0 .. Len(out) /\ m \in 0 .. Len(out)
  <2>1. Len(s) \in Nat
    BY <1>2
  <2> QED
    BY <1>2, <1>3, <2>1
<1> QED
  BY <1>2, <1>5, <1>6, <1>7, <1>8
-----------------------------------------------------------------------------
\* A statement for a table, on each record.
Alter(s, r) ==
    IF r.kind = "table" /\ r.name = upper[s.on]
    THEN IF s.stmt = "key" THEN [r EXCEPT !.keys = Append(@, <<s.name, s.type, s.cols, s.ref>>)]
                           ELSE [r EXCEPT !.idx = Append(@, <<s.name, s.cols, FALSE>>)]
    ELSE r

LEMMA PutIs ==
    ASSUME NEW c, NEW s
    PROVE  /\ s.stmt \in {"key", "index"} => Put(c, s) = {Alter(s, r) : r \in c}
           /\ s.stmt \notin {"key", "index"} => Put(c, s) = c \cup {Made(s)}
BY DEF Put, Alter

\* What the statement is of the object's own.
LEMMA NextIs ==
    ASSUME Replaying, NEW k \in Nat, NEW m, m = k + 1, NEW o, Concerns(o, k), NEW t, t = Tally(o, out, k),
           NEW s, s = out[m]
    PROVE  /\ t = 0 => Creates(o, s) /\ s.stmt \in Kind /\ s.stmt \notin {"key", "index"}
           /\ t # 0 => AddsTo(o, s) /\ s.stmt \in {"key", "index"}
           /\ Stage(o, m) = Put(Stage(o, k), s)
           /\ t = 0 => Stage(o, k) = {}
<1>1. PICK L, f : L = Script(o) /\ f = Stages(L)
  OBVIOUS
<1>2. o \in Users
  BY DEF Concerns
<1>3. k \in 0 .. Len(out) /\ t \in Nat /\ Tally(o, out, m) = t + 1 /\ t + 1 \in 1 .. Len(L) /\ L[t + 1] = s
  BY <1>1, TallyNext
<1>4. Staged(o, L, f) /\ Scripted(o, L) /\ (t = 0 => Stage(o, k) = {})
  <2>1. k \in 0 .. Len(out)
    BY <1>3
  <2> QED
    BY <1>1, <1>2, <2>1, CatIs
<1>5. Stage(o, m) = Put(Stage(o, k), s)
  <2>1. PICK i : i = t + 1
    OBVIOUS
  <2>2. i \in 1 .. Len(L) /\ i - 1 = t
    BY <1>3, <2>1
  <2>3. f[i] = Put(f[t], L[i])
    BY <1>4, <2>2 DEF Staged
  <2> QED
    BY <1>1, <1>3, <2>1, <2>3 DEF Stage
<1>6. ASSUME t = 0
      PROVE  Creates(o, s) /\ s.stmt \in Kind /\ s.stmt \notin {"key", "index"}
  <2>1. Creates(o, s)
    BY <1>3, <1>4, <1>6 DEF Scripted
  <2>2. kind(o) \in Kind
    BY <1>2, UserIs, KindIs
  <2> QED
    BY <2>1, <2>2 DEF Creates, Kind
<1>7. ASSUME t # 0
      PROVE  AddsTo(o, s) /\ s.stmt \in {"key", "index"}
  <2>1. t + 1 \in 2 .. Len(L)
    BY <1>3, <1>7
  <2>2. AddsTo(o, s)
    BY <1>3, <1>4, <2>1 DEF Scripted
  <2> QED
    BY <2>2 DEF AddsTo
<1> QED
  BY <1>4, <1>5, <1>6, <1>7

LEMMA PutCat ==
    ASSUME Replaying, NEW k \in Nat, NEW m, m = k + 1, NEW o, Concerns(o, k), NEW s, s = out[m]
    PROVE  Put(Cat(k), s) = Cat(m)
<1>1. PICK t, L : t = Tally(o, out, k) /\ L = Script(o)
  OBVIOUS
<1>2. o \in Users /\ upper[name(o)] = name(o)
  BY UserIs DEF Concerns
<1>3. k \in 0 .. Len(out) /\ \A p \in Users \ {o} : Stage(p, m) = Stage(p, k)
  BY <1>1, TallyNext
<1>4. /\ t = 0 => Creates(o, s) /\ s.stmt \notin {"key", "index"}
      /\ t # 0 => AddsTo(o, s) /\ s.stmt \in {"key", "index"}
      /\ Stage(o, m) = Put(Stage(o, k), s)
      /\ t = 0 => Stage(o, k) = {}
  BY <1>1, NextIs
<1>5. CASE t = 0
  <2>1. Put(Cat(k), s) = Cat(k) \cup {Made(s)} /\ Stage(o, m) = {Made(s)} /\ Stage(o, k) = {}
    <3>1. Put(Stage(o, k), s) = Stage(o, k) \cup {Made(s)} /\ Put(Cat(k), s) = Cat(k) \cup {Made(s)}
      BY <1>4, <1>5, PutIs
    <3> QED
      BY <1>4, <1>5, <3>1
  <2>2. \A x : x \in Cat(m) <=> x \in Cat(k) \/ x = Made(s)
    BY <1>2, <1>3, <2>1 DEF Cat
  <2> QED
    BY <2>1, <2>2
<1>6. CASE t # 0
  <2>1. AddsTo(o, s) /\ kind(o) = "table" /\ s.on = name(o) /\ s.stmt \in {"key", "index"}
    BY <1>4, <1>6 DEF AddsTo
  <2>2. Put(Cat(k), s) = {Alter(s, r) : r \in Cat(k)} /\ Stage(o, m) = {Alter(s, r) : r \in Stage(o, k)}
    BY <1>4, <1>6, <2>1, PutIs
  <2>3. ASSUME NEW p \in Users \ {o}, NEW r \in Stage(p, k)
        PROVE  Alter(s, r) = r
    <3>1. PICK i, M : i = Tally(p, out, k) /\ M = Script(p)
      OBVIOUS
    <3>2. (i = 0 => Stage(p, k) = {}) /\ (i # 0 => IsOf(p, Stage(p, k)))
      BY <1>3, <3>1, CatIs
    <3>3. RecordOf(p, r)
      BY <2>3, <3>2 DEF IsOf
    <3>4. ~ (r.kind = "table" /\ r.name = upper[s.on])
      <4> SUFFICES ASSUME r.kind = "table", r.name = upper[s.on]
                   PROVE  FALSE
        OBVIOUS
      <4>1. kind(p) = kind(o) /\ name(p) = name(o)
        BY <1>2, <2>1, <3>3 DEF RecordOf
      <4>2. p = o
        BY <1>2, <4>1, OneUser, SpaceIs
      <4> QED
        BY <4>2
    <3> QED
      BY <3>4 DEF Alter
  <2>4. ASSUME NEW x \in Cat(m)
        PROVE  x \in Put(Cat(k), s)
    <3>1. PICK p \in Users : x \in Stage(p, m)
      BY DEF Cat
    <3>2. CASE p = o
      <4>1. PICK r \in Stage(o, k) : x = Alter(s, r)
        BY <2>2, <3>1, <3>2
      <4>2. r \in Cat(k)
        BY <1>2 DEF Cat
      <4> QED
        BY <2>2, <4>1, <4>2
    <3>3. CASE p # o
      <4>1. x \in Stage(p, k) /\ x \in Cat(k)
        BY <1>3, <3>1, <3>3 DEF Cat
      <4>2. Alter(s, x) = x
        BY <2>3, <3>3, <4>1
      <4> QED
        BY <2>2, <4>1, <4>2
    <3> QED
      BY <3>2, <3>3
  <2>5. ASSUME NEW x \in Put(Cat(k), s)
        PROVE  x \in Cat(m)
    <3>1. PICK r \in Cat(k) : x = Alter(s, r)
      BY <2>2
    <3>2. PICK p \in Users : r \in Stage(p, k)
      BY DEF Cat
    <3>3. CASE p = o
      BY <1>2, <2>2, <3>1, <3>2, <3>3 DEF Cat
    <3>4. CASE p # o
      <4>1. x = r
        BY <2>3, <3>1, <3>2, <3>4
      <4> QED
        BY <1>3, <3>2, <3>4, <4>1 DEF Cat
    <3> QED
      BY <3>3, <3>4
  <2> QED
    BY <2>4, <2>5
<1> QED
  BY <1>5, <1>6

-----------------------------------------------------------------------------
\* An object that comes earlier has all its statements behind it.
LEMMA NotAfter ==
    ASSUME NEW o \in Object, NEW p \in Object, Earlier(p, o)
    PROVE  ~ Ahead(kind(o), name(o), kind(p), name(p))
<1>1. kind(o) \in Kind /\ kind(p) \in Kind /\ name(o) \in Nat /\ name(p) \in Nat
  <2>1. o \in Kind \X Nat \X Nat /\ p \in Kind \X Nat \X Nat
    BY CatalogAssumption
  <2> QED
    BY <2>1 DEF kind, name
<1>2. PICK i, j : i = Place(kind(o)) /\ j = Place(kind(p))
  OBVIOUS
<1>3. i \in Nat /\ j \in Nat
  <2>1. \A k \in Kind : Place(k) \in Nat
    BY PlaceIs DEF Kind
  <2> QED
    BY <1>1, <1>2, <2>1
<1>4. j < i \/ (kind(p) = kind(o) /\ name(p) < name(o))
  BY <1>2 DEF Earlier
<1>5. ASSUME (kind(o) = kind(p) /\ name(o) = name(p)) \/ i < j \/ (kind(o) = kind(p) /\ name(o) < name(p))
      PROVE  FALSE
  <2>1. CASE j < i
    <3>1. ~ i < j /\ kind(o) # kind(p)
      BY <1>2, <1>3, <2>1
    <3> QED
      BY <1>5, <3>1
  <2>2. CASE kind(p) = kind(o) /\ name(p) < name(o)
    <3>1. i = j /\ ~ i < j
      BY <1>2, <1>3, <2>2
    <3>2. name(o) # name(p) /\ ~ name(o) < name(p)
      BY <1>1, <2>2
    <3> QED
      BY <1>5, <3>1, <3>2
  <2> QED
    BY <1>4, <2>1, <2>2
<1> QED
  BY <1>2, <1>5 DEF Ahead

NoMore(o, t, k, n) == \A j \in 1 .. n : j > k => ~ Regards(o, t[j])
LEMMA TallyWhole ==
    ASSUME NEW o, NEW B, NEW t \in Seq(B), NEW n, n = Len(t), NEW L, L = Said(o, t),
           NEW k \in 0 .. n, NoMore(o, t, k, n)
    PROVE  Tally(o, t, k) = Len(L)
BY TallyIs DEF NoMore

LEMMA EarlierWhole ==
    ASSUME Replaying, NEW k \in Nat, NEW o, Concerns(o, k), NEW p \in Users, Earlier(p, o),
           NEW L, L = Script(p)
    PROVE  Tally(p, out, k) = Len(L) /\ Stage(p, k) = Remade(p) /\ Len(L) \in Nat \ {0}
<1>1. PICK m : m = k + 1
  OBVIOUS
<1>2. o \in Users /\ m \in DOMAIN out /\ Regards(o, out[m])
  BY <1>1 DEF Concerns
<1>3. o \in Object /\ p \in Object /\ Said(p, out) = L /\ About(p) = L
  BY <1>2, UserIs
<1>4. PICK B, s : s = out /\ s \in Seq(B)
  BY OutIs DEF IsSome
<1>5. PICK n : n = Len(s)
  OBVIOUS
<1>6. n \in Nat /\ m \in 1 .. n /\ k \in 0 .. n /\ DOMAIN s = 1 .. n
  <2>1. n \in Nat /\ DOMAIN s = 1 .. n
    BY <1>4, <1>5
  <2>2. m \in 1 .. n
    BY <1>2, <1>4, <2>1
  <2> QED
    BY <1>1, <2>1, <2>2
<1>7. ~ Ahead(kind(o), name(o), kind(p), name(p))
  BY <1>3, NotAfter
<1>8. ASSUME NEW j \in 1 .. n, j > k
      PROVE  ~ Regards(p, s[j])
  <2> SUFFICES ASSUME Regards(p, s[j])
               PROVE  FALSE
    OBVIOUS
  <2>1. j = m \/ m < j
    BY <1>1, <1>6, <1>8
  <2>2. CASE j = m
    BY <1>2, <1>4, <1>7, <2>2 DEF Regards, Ahead
  <2>3. CASE m < j
    <3>1. SaidAhead(out[m], out[j])
      <4>1. Turns(out) /\ j \in DOMAIN out /\ m \in DOMAIN out
        BY <1>2, <1>4, <1>6, OutIs
      <4> QED
        BY <2>3, <4>1 DEF Turns
    <3> QED
      BY <1>2, <1>4, <1>7, <3>1 DEF SaidAhead, Regards
  <2> QED
    BY <2>1, <2>2, <2>3
<1>9. Tally(p, s, k) = Len(L)
  <2>1. L = Said(p, s)
    BY <1>3, <1>4
  <2>2. NoMore(p, s, k, n)
    BY <1>8 DEF NoMore
  <2> QED
    BY <1>4, <1>5, <1>6, <2>1, <2>2, TallyWhole
<1>10. Len(L) \in Nat \ {0}
  BY <1>3, ScriptIs DEF Scripted
<1>11. Remade(p) = Stages(L)[Len(L)]
  BY <1>3, <1>10, RemadeStage
<1> QED
  BY <1>4, <1>9, <1>10, <1>11 DEF Stage
-----------------------------------------------------------------------------
\* Something of an object that is told before another is comes earlier.
LEMMA TallyNone ==
    ASSUME NEW o, NEW B, NEW t \in Seq(B), NEW k \in 0 .. Len(t), \A j \in 1 .. k : ~ Regards(o, t[j])
    PROVE  Tally(o, t, k) = 0
<1>1. PICK u : u = UpTo(t, k)
  OBVIOUS
<1>2. k \in Nat /\ u = [j \in 1 .. k |-> t[j]]
  BY <1>1 DEF UpTo
<1>3. ListLong(u, k) /\ \A j \in 1 .. k : ~ Regards(o, u[j])
  BY <1>2 DEF ListLong
<1>4. Said(o, u) = <<>>
  BY <1>2, <1>3, SaidNothing
<1> QED
  BY <1>1, <1>4 DEF Tally

LEMMA BeforeIs ==
    ASSUME Replaying, NEW k \in Nat, NEW o, Concerns(o, k), NEW p \in Users, p # o, Tally(p, out, k) # 0
    PROVE  Earlier(p, o)
<1>1. PICK m : m = k + 1
  OBVIOUS
<1>2. o \in Users /\ m \in DOMAIN out /\ Regards(o, out[m]) /\ Turns(out)
  BY <1>1, OutIs DEF Concerns
<1>3. PICK B, s : s = out /\ s \in Seq(B)
  BY OutIs DEF IsSome
<1>4. DOMAIN s = 1 .. Len(s) /\ Len(s) \in Nat /\ m \in 1 .. Len(s) /\ k \in 0 .. Len(s)
  <2>1. DOMAIN s = 1 .. Len(s) /\ Len(s) \in Nat
    BY <1>3, SeqDomain
  <2> QED
    BY <1>1, <1>2, <1>3, <2>1
<1>5. PICK j \in 1 .. k : Regards(p, s[j])
  BY <1>3, <1>4, TallyNone
<1>6. j \in DOMAIN out /\ j < m
  BY <1>1, <1>3, <1>4
<1>7. SaidAhead(out[j], out[m])
  BY <1>2, <1>6 DEF Turns
<1>8. Ahead(kind(p), name(p), kind(o), name(o))
  BY <1>2, <1>3, <1>5, <1>7 DEF SaidAhead, Regards
<1>9. ~ (kind(p) = kind(o) /\ name(p) = name(o))
  BY <1>2, OneUser, SpaceIs
<1> QED
  BY <1>8, <1>9 DEF Ahead, Earlier

\* What is in the catalog when an object is created is of those that come earlier.
LEMMA NeededThere ==
    ASSUME Replaying, NEW k \in Nat, NEW o, Concerns(o, k), Tally(o, out, k) = 0, NEW l, NEW n, NEW c, c = Cat(k)
    PROVE  Slot(c, l, n) # {} <=> \E p \in Users : kind(p) \in Space(l) /\ name(p) = n /\ Earlier(p, o)
<1>1. o \in Users /\ k \in 0 .. Len(out)
  BY TallyNext DEF Concerns
<1>2. ASSUME NEW p \in Users, kind(p) \in Space(l), name(p) = n, Earlier(p, o)
      PROVE  Slot(c, l, n) # {}
  <2>1. PICK L : L = Script(p)
    OBVIOUS
  <2>2. Tally(p, out, k) = Len(L) /\ Len(L) \in Nat \ {0}
    BY <1>2, <2>1, EarlierWhole
  <2>3. PICK r \in Cat(k) : RecordOf(p, r)
    BY <1>1, <2>2, HasCat
  <2> QED
    BY <1>2, <2>3 DEF Slot, RecordOf
<1>3. ASSUME NEW r \in Slot(c, l, n)
      PROVE  \E p \in Users : kind(p) \in Space(l) /\ name(p) = n /\ Earlier(p, o)
  <2>1. r \in Cat(k) /\ r.kind \in Space(l) /\ r.name = n
    BY <1>3 DEF Slot
  <2>2. PICK p \in Users : RecordOf(p, r) /\ Tally(p, out, k) # 0
    BY <1>1, <2>1, InCat
  <2>3. p # o
    BY <2>2
  <2>4. Earlier(p, o)
    BY <2>2, <2>3, BeforeIs
  <2> QED
    BY <2>1, <2>2, <2>4 DEF RecordOf
<1> QED
  BY <1>2, <1>3

\* A name is free when the object is created.
LEMMA FreeSlot ==
    ASSUME Replaying, NEW k \in Nat, NEW o, Concerns(o, k), Tally(o, out, k) = 0, NEW c, c = Cat(k)
    PROVE  Slot(c, kind(o), name(o)) = {}
<1> SUFFICES ASSUME NEW r \in Cat(k), r.kind \in Space(kind(o)), r.name = name(o)
             PROVE  FALSE
  BY DEF Slot
<1>1. o \in Users /\ k \in 0 .. Len(out)
  BY TallyNext DEF Concerns
<1>2. PICK p \in Users : RecordOf(p, r) /\ Tally(p, out, k) # 0
  BY <1>1, InCat
<1>3. p = o
  BY <1>1, <1>2, OneUser DEF RecordOf
<1> QED
  BY <1>2, <1>3

\* What of an orderly database is about one object: its creation, and one of its keys.
CreatedWell(o) ==
    /\ kind(o) \notin {"procedure", "function"}
    /\ kind(o) = "view" => World[o].named
    /\ kind(o) \in {"view", "trigger"} =>
          \A ref \in Needs(o) :
              \E p \in Users : kind(p) \in Space(ref[1]) /\ name(p) = ref[2] /\ Earlier(p, o)
KeyedWell(o, c) ==
    /\ c.type = "PRIMARY KEY" => \A n \in ToSet(c.cols) : ~ NullableIn(o, n)
    /\ c.type = "FOREIGN KEY" => KeyBefore(o, c)

LEMMA CreateTaken ==
    ASSUME Replaying, NEW k \in Nat, NEW o, Concerns(o, k), Tally(o, out, k) = 0, NEW s, s = out[k + 1],
           NEW c, c = Cat(k)
    PROVE  Takes(c, s) <=> CreatedWell(o)
<1>1. PICK m, t : m = k + 1 /\ t = Tally(o, out, k)
  OBVIOUS
<1>2. Creates(o, s) /\ s.stmt \notin {"key", "index"}
  BY <1>1, NextIs
<1>3. s.stmt = kind(o) /\ s.name = name(o)
  BY <1>2 DEF Creates
<1>4. o \in Users /\ o \in Object /\ upper[name(o)] = name(o)
  BY UserIs DEF Concerns
<1>5. Slot(c, s.stmt, upper[s.name]) = {}
  BY <1>3, <1>4, FreeSlot
<1>6. s.stmt = "table" => s.cols # <<>>
  <2> SUFFICES ASSUME kind(o) = "table"
               PROVE  s.cols # <<>>
    BY <1>3
  <2>1. PICK cols : cols = World[o].cols
    OBVIOUS
  <2>2. cols # <<>> /\ cols \in Seq(ColumnData)
    BY <1>4, <2>1, KeyAssumption, WorldAssumption
  <2>3. PICK n : n = Len(cols)
    OBVIOUS
  <2>4. n \in Nat /\ n # 0
    BY <2>2, <2>3
  <2>5. s.cols = [j \in 1 .. n |-> ColumnDef(cols[j])]
    BY <1>2, <2>1, <2>3 DEF Creates, TableSaid, ForEach
  <2>6. DOMAIN s.cols = 1 .. n /\ 1 \in 1 .. n /\ DOMAIN <<>> = {}
    BY <2>4, <2>5
  <2> QED
    BY <2>6
<1>7. PICK Here : Here = (\A ref \in Needs(o) :
              \E p \in Users : kind(p) \in Space(ref[1]) /\ name(p) = ref[2] /\ Earlier(p, o))
  OBVIOUS
<1>8. kind(o) \in {"view", "trigger"} => (There(c, s.uses) <=> Here)
  <2> SUFFICES ASSUME kind(o) \in {"view", "trigger"}
               PROVE  There(c, s.uses) <=> Here
    OBVIOUS
  <2>1. s.uses = Needs(o)
    BY <1>2 DEF Creates
  <2>2. \A ref \in Needs(o) : Slot(c, ref[1], ref[2]) # {} <=>
            \E p \in Users : kind(p) \in Space(ref[1]) /\ name(p) = ref[2] /\ Earlier(p, o)
    BY NeededThere
  <2> QED
    BY <1>7, <2>1, <2>2 DEF There
<1>9. kind(o) = "trigger" /\ Here => Slot(c, "table", s.on) # {}
  <2> SUFFICES ASSUME kind(o) = "trigger", Here
               PROVE  Slot(c, "table", s.on) # {}
    OBVIOUS
  <2>1. PICK n, ref : n = World[o].on /\ ref = <<"table", n>>
    OBVIOUS
  <2>2. ref \in Needs(o)
    BY <1>4, <2>1, NeedsAssumption
  <2>3. PICK p \in Users : kind(p) \in Space("table") /\ name(p) = n /\ Earlier(p, o)
    BY <1>7, <2>1, <2>2
  <2>4. Slot(c, "table", n) # {}
    BY <2>3, NeededThere
  <2>5. s.on = n
    BY <1>2, <2>1 DEF Creates
  <2> QED
    BY <2>4, <2>5
<1>10. kind(o) = "view" => s.named = World[o].named
  BY <1>2 DEF Creates
<1>11. Takes(c, s) <=> /\ kind(o) \in {"view", "trigger"} => There(c, s.uses)
                       /\ kind(o) = "view" => s.named
                       /\ kind(o) \notin {"procedure", "function"}
                       /\ kind(o) = "trigger" => Slot(c, "table", s.on) # {}
  BY <1>2, <1>3, <1>5, <1>6 DEF Takes
<1>12. CreatedWell(o) <=> /\ kind(o) \notin {"procedure", "function"}
                          /\ kind(o) = "view" => World[o].named
                          /\ kind(o) \in {"view", "trigger"} => Here
  BY <1>7 DEF CreatedWell
<1>13. kind(o) = "trigger" => kind(o) \in {"view", "trigger"}
  OBVIOUS
<1> QED
  BY <1>8, <1>9, <1>10, <1>11, <1>12, <1>13

-----------------------------------------------------------------------------
\* A column is NOT NULL in the table that was made when it says so in the catalog.
LEMMA ColumnNull ==
    ASSUME NEW o \in Object, kind(o) = "table", NEW r, r.cols = MadeColumns(o), NEW x
    PROVE  NotNullIn(r, x) <=> ~ NullableIn(o, x)
<1>1. PICK cols, n : cols = World[o].cols /\ n = Len(cols)
  OBVIOUS
<1>2. cols \in Seq(ColumnData) /\ n \in Nat /\ DOMAIN cols = 1 .. n
  <2>1. cols \in Seq(ColumnData)
    BY <1>1, WorldAssumption
  <2> QED
    BY <1>1, <2>1, SeqDomain
<1>3. PICK made : made = r.cols
  OBVIOUS
<1>4. made = [l \in 1 .. n |-> MadeColumn(ColumnDef(cols[l]))]
  BY <1>1, <1>3 DEF MadeColumns
<1>5. Len(made) = n
  <2>1. DOMAIN made = 1 .. n /\ made = [l \in 1 .. n |-> made[l]]
    BY <1>4
  <2> QED
    BY <1>2, <2>1, LengthOf
<1>6. ASSUME NEW l \in 1 .. n
      PROVE  made[l][1] = cols[l].name /\ (made[l][3] = 1 <=> cols[l].null = 0)
  <2>1. PICK col, d : col = cols[l] /\ d = ColumnDef(col)
    OBVIOUS
  <2>2. d.name = col.name /\ d.notnull = (col.null = 0)
    BY <2>1 DEF ColumnDef, WritesNotNull
  <2>3. made[l] = MadeColumn(d)
    BY <1>4, <2>1
  <2>4. made[l][1] = d.name /\ made[l][3] = Bit(d.notnull)
    BY <2>3 DEF MadeColumn
  <2>5. Bit(d.notnull) = 1 <=> col.null = 0
    <3>1. CASE col.null = 0
      <4>1. d.notnull
        BY <2>2, <3>1
      <4>2. Bit(d.notnull) = 1
        BY <4>1 DEF Bit
      <4> QED
        BY <3>1, <4>2
    <3>2. CASE col.null # 0
      <4>1. ~ d.notnull
        BY <2>2, <3>2
      <4>2. Bit(d.notnull) = 0
        BY <4>1 DEF Bit
      <4> QED
        BY <3>2, <4>2
    <3> QED
      BY <3>1, <3>2
  <2> QED
    BY <2>1, <2>2, <2>4, <2>5
<1>7. NotNullIn(r, x) <=> \E l \in 1 .. n : made[l][1] = x /\ made[l][3] = 1
  BY <1>3, <1>5 DEF NotNullIn
<1>8. NullableIn(o, x) <=> \A l \in 1 .. n : cols[l].name = x => cols[l].null # 0
  BY <1>1, <1>2 DEF NullableIn
<1> QED
  BY <1>6, <1>7, <1>8
-----------------------------------------------------------------------------
\* A constraint with an index is among those with an index.
LEMMA KeyedHas ==
    ASSUME NEW o \in Object, kind(o) = "table", NEW c \in ToSet(World[o].cons),
           c.type \in {"PRIMARY KEY", "UNIQUE", "FOREIGN KEY"}
    PROVE  c \in ToSet(Keyed(World[o].cons))
<1>1. PICK cons : cons = World[o].cons
  OBVIOUS
<1>2. cons \in Seq(ConstraintData)
  BY <1>1, KeysAre
<1>3. PICK places : places = {k \in DOMAIN cons : cons[k].type \in {"PRIMARY KEY", "UNIQUE", "FOREIGN KEY"}}
  OBVIOUS
<1>4. PICK keys : keys = Chosen(cons, places)
  OBVIOUS
<1>5. keys = Keyed(World[o].cons)
  BY <1>1, <1>3, <1>4 DEF Keyed, Where
<1>6. places \in SUBSET DOMAIN cons
  BY <1>3
<1>7. keys \in Seq(ConstraintData) /\ \E at : Picks(keys, cons, places, at)
  BY <1>2, <1>4, <1>6, ChosenIs
<1>8. PICK at : Picks(keys, cons, places, at)
  BY <1>7
<1>9. PICK p \in DOMAIN cons : c = cons[p]
  BY <1>1 DEF ToSet
<1>10. p \in places
  BY <1>3, <1>9
<1>11. PICK k \in DOMAIN keys : at[k] = p
  BY <1>8, <1>10 DEF Picks
<1>12. keys[k] = c
  BY <1>8, <1>9, <1>11 DEF Picks
<1> QED
  BY <1>5, <1>11, <1>12 DEF ToSet

\* The record of a table in the catalog has the keys that were added so far.
KeysThere(o, k, t, r) ==
    /\ Stage(o, k) = {r} /\ RecordOf(o, r) /\ r \in Cat(k)
    /\ r.kind = "table" /\ r.name = name(o) /\ r.cols = MadeColumns(o)
    /\ \A key : key \in ToSet(r.keys) <=>
          \E j \in 1 .. Len(Keyed(World[o].cons)) : j < t /\ key = OriginalKey(Keyed(World[o].cons)[j])

LEMMA KeysThereIs ==
    ASSUME Replaying, NEW k \in 0 .. Len(out), NEW o \in Users, kind(o) = "table",
           NEW t, t = Tally(o, out, k), t # 0
    PROVE  \E r : KeysThere(o, k, t, r)
<1>1. PICK L, f : L = Script(o) /\ f = Stages(L)
  OBVIOUS
<1>2. t \in 1 .. Len(L) /\ o \in Object /\ upper[name(o)] = name(o)
  BY <1>1, CatIs, UserIs
<1>3. PICK K : K = KeysAt(o, t)
  OBVIOUS
<1>4. HoldsKeys(f[t], K)
  BY <1>1, <1>2, <1>3, StageKeys
<1>5. PICK r : f[t] = {r} /\ ToSet(r.keys) = K
  BY <1>4 DEF HoldsKeys
<1>6. Stage(o, k) = {r}
  BY <1>1, <1>5 DEF Stage
<1>7. PICK q \in Cat(k) : Stage(o, k) = {q} /\ RecordOf(o, q)
  BY HasCat
<1>8. RecordOf(o, r) /\ r \in Cat(k)
  BY <1>6, <1>7
<1>9. r.kind = "table" /\ r.name = name(o) /\ r.cols = MadeColumns(o)
  <2>1. IsTableFor(o, r)
    BY <1>8 DEF RecordOf
  <2>2. PICK u, cols : u = name(o) /\ cols = MadeColumns(o)
    OBVIOUS
  <2>3. PICK keys, idx : r = TableOf(u, cols, keys, idx)
    BY <2>1, <2>2 DEF IsTableFor
  <2> QED
    BY <2>2, <2>3 DEF TableOf
<1>10. PICK ks, m : ks = Keyed(World[o].cons) /\ m = Len(ks)
  OBVIOUS
<1>11. \A key : key \in ToSet(r.keys) <=> \E j \in 1 .. m : j < t /\ key = OriginalKey(ks[j])
  BY <1>3, <1>5, <1>10 DEF KeysAt
<1> QED
  BY <1>6, <1>8, <1>9, <1>10, <1>11 DEF KeysThere

\* The primary key that a foreign key is to is there when it is added.
LEMMA ForeignThere ==
    ASSUME Replaying, NEW k \in Nat, NEW o, Concerns(o, k), kind(o) = "table",
           NEW t, t = Tally(o, out, k), t # 0, NEW ks, ks = Keyed(World[o].cons), t \in DOMAIN ks,
           NEW d, d = ks[t], NEW c, c = Cat(k)
    PROVE  (\E p \in PrimaryOf(c, d.ref) : Len(p[3]) = Len(d.cols)) <=> KeyBefore(o, d)
<1>1. o \in Users /\ k \in 0 .. Len(out) /\ o \in Object
  BY TallyNext, UserIs DEF Concerns
<1>2. ASSUME NEW p \in PrimaryOf(c, d.ref), Len(p[3]) = Len(d.cols)
      PROVE  KeyBefore(o, d)
  <2>1. PICK r \in Slot(c, "table", d.ref) : r.kind = "table" /\ p \in ToSet(r.keys) /\ p[2] = "PRIMARY KEY"
    BY <1>2 DEF PrimaryOf
  <2>2. r \in Cat(k) /\ r.name = d.ref
    BY <2>1 DEF Slot
  <2>3. PICK q \in Users : Stage(q, k) = {r} /\ RecordOf(q, r) /\ Tally(q, out, k) # 0
    BY <1>1, <2>2, InCat
  <2>4. kind(q) = "table" /\ name(q) = d.ref /\ q \in Object
    BY <2>1, <2>2, <2>3, UserIs DEF RecordOf
  <2>5. PICK i, qs : i = Tally(q, out, k) /\ qs = Keyed(World[q].cons)
    OBVIOUS
  <2>6. PICK r2 : KeysThere(q, k, i, r2)
    BY <1>1, <2>3, <2>4, <2>5, KeysThereIs
  <2>7. r2 = r
    BY <2>3, <2>6 DEF KeysThere
  <2>8. PICK j \in 1 .. Len(qs) : j < i /\ p = OriginalKey(qs[j])
    BY <2>1, <2>5, <2>6, <2>7 DEF KeysThere
  <2>9. PICK key : key = qs[j]
    OBVIOUS
  <2>10. p[2] = key.type /\ p[3] = key.cols
    BY <2>8, <2>9 DEF OriginalKey
  <2>11. DOMAIN qs = 1 .. Len(qs)
    <3>1. qs \in Seq(ConstraintData)
      BY <2>4, <2>5, KeysAre
    <3> QED
      BY <3>1, SeqDomain
  <2>12. key \in ToSet(World[q].cons)
    <3>1. key \in ToSet(qs)
      BY <2>8, <2>9, <2>11 DEF ToSet
    <3> QED
      BY <2>4, <2>5, <3>1, KeyedAre
  <2>13. Earlier(q, o) \/ (q = o /\ key.name < d.name)
    <3>1. CASE q # o
      BY <2>3, <3>1, BeforeIs
    <3>2. CASE q = o
      <4>1. i = t /\ qs = ks
        BY <2>5, <3>2
      <4>2. j \in DOMAIN ks /\ key = ks[j]
        BY <2>8, <2>9, <2>11, <4>1
      <4>3. key.name < d.name
        BY <1>1, <2>8, <4>1, <4>2, KeysOrdered
      <4> QED
        BY <3>2, <4>3
    <3> QED
      BY <3>1, <3>2
  <2> QED
    BY <1>2, <2>1, <2>4, <2>10, <2>12, <2>13 DEF KeyBefore
<1>3. ASSUME KeyBefore(o, d)
      PROVE  \E p \in PrimaryOf(c, d.ref) : Len(p[3]) = Len(d.cols)
  <2>1. PICK q \in Users : /\ kind(q) = "table" /\ name(q) = d.ref
                           /\ \E key \in ToSet(World[q].cons) :
                                 /\ key.type = "PRIMARY KEY" /\ Len(key.cols) = Len(d.cols)
                                 /\ Earlier(q, o) \/ (q = o /\ key.name < d.name)
    BY <1>3 DEF KeyBefore
  <2>2. PICK key \in ToSet(World[q].cons) : /\ key.type = "PRIMARY KEY" /\ Len(key.cols) = Len(d.cols)
                                            /\ Earlier(q, o) \/ (q = o /\ key.name < d.name)
    BY <2>1
  <2>3. PICK i, qs : i = Tally(q, out, k) /\ qs = Keyed(World[q].cons)
    OBVIOUS
  <2>4. q \in Object /\ qs \in Seq(ConstraintData)
    BY <2>1, <2>3, UserIs, KeysAre
  <2>5. DOMAIN qs = 1 .. Len(qs) /\ Len(qs) \in Nat
    BY <2>4, SeqDomain
  <2>6. key \in ToSet(qs)
    BY <2>1, <2>2, <2>3, <2>4, KeyedHas
  <2>7. PICK j \in 1 .. Len(qs) : key = qs[j]
    BY <2>5, <2>6 DEF ToSet
  <2>8. j < i /\ i # 0
    <3>1. CASE Earlier(q, o)
      <4>1. PICK L : L = Script(q)
        OBVIOUS
      <4>2. i = Len(L) /\ Len(L) \in Nat \ {0}
        BY <2>3, <3>1, <4>1, EarlierWhole
      <4>3. Len(qs) + 1 <= Len(L)
        BY <2>1, <2>3, <2>4, <4>1, KeyPlaces
      <4> QED
        BY <2>5, <4>2, <4>3
    <3>2. CASE q = o /\ key.name < d.name
      <4>1. i = t /\ qs = ks /\ j \in DOMAIN ks /\ key = ks[j]
        BY <2>3, <2>5, <2>7, <3>2
      <4>2. j < t
        BY <1>1, <3>2, <4>1, KeysOrdered
      <4> QED
        BY <4>1, <4>2
    <3> QED
      BY <2>2, <3>1, <3>2
  <2>9. PICK r : KeysThere(q, k, i, r)
    BY <1>1, <2>1, <2>3, <2>8, KeysThereIs
  <2>10. r \in Slot(c, "table", d.ref) /\ r.kind = "table"
    BY <2>1, <2>9, SpaceIs DEF Slot, KeysThere
  <2>11. PICK p : p = OriginalKey(key)
    OBVIOUS
  <2>12. p[2] = "PRIMARY KEY" /\ Len(p[3]) = Len(d.cols)
    BY <2>2, <2>11 DEF OriginalKey
  <2>13. p \in ToSet(r.keys)
    BY <2>3, <2>7, <2>8, <2>9, <2>11 DEF KeysThere
  <2>14. p \in PrimaryOf(c, d.ref)
    BY <2>10, <2>12, <2>13 DEF PrimaryOf
  <2> QED
    BY <2>12, <2>14
<1> QED
  BY <1>2, <1>3

\* An index is taken, and a key when it is in order.
LEMMA AddTaken ==
    ASSUME Replaying, NEW k \in Nat, NEW o, Concerns(o, k), NEW t, t = Tally(o, out, k), t # 0,
           NEW s, s = out[k + 1], NEW c, c = Cat(k), NEW ks, ks = Keyed(World[o].cons)
    PROVE  /\ kind(o) = "table" /\ DOMAIN ks = 1 .. Len(ks)
           /\ t \in DOMAIN ks => (Takes(c, s) <=> KeyedWell(o, ks[t]))
           /\ t \notin DOMAIN ks => Takes(c, s)
<1>1. PICK m, L, l : m = k + 1 /\ L = Script(o) /\ l = Len(ks)
  OBVIOUS
<1>2. AddsTo(o, s) /\ s.stmt \in {"key", "index"}
  BY <1>1, NextIs
<1>3. kind(o) = "table" /\ s.on = name(o)
  BY <1>2 DEF AddsTo
<1>4. o \in Users /\ o \in Object /\ upper[name(o)] = name(o) /\ k \in 0 .. Len(out)
  BY UserIs, TallyNext DEF Concerns
<1>5. /\ l \in Nat /\ ks \in Seq(ConstraintData) /\ Len(L) \in Nat
      /\ \A j \in 1 .. l : L[1 + j] = KeySaid(o, ks[j])
      /\ \A i \in l + 2 .. Len(L) : L[i].stmt = "index"
  BY <1>1, <1>3, <1>4, KeyPlaces
<1>6. DOMAIN ks = 1 .. l
  BY <1>1, <1>5, SeqDomain
<1>7. t \in Nat /\ t + 1 \in 1 .. Len(L) /\ L[t + 1] = s
  <2>1. t \in Nat /\ t + 1 \in 1 .. Len(L) /\ L[t + 1] = out[m]
    <3>1. m = k + 1 /\ L = Script(o)
      BY <1>1
    <3> QED
      BY <3>1, TallyNext
  <2> QED
    BY <1>1, <2>1
<1>8. PICK r : KeysThere(o, k, t, r)
  BY <1>3, <1>4, KeysThereIs
<1>9. r \in Slot(c, "table", upper[s.on])
  BY <1>3, <1>4, <1>8, SpaceIs DEF Slot, KeysThere
<1>10. ASSUME t \notin DOMAIN ks
       PROVE  Takes(c, s)
  <2>1. t + 1 \in l + 2 .. Len(L)
    BY <1>5, <1>6, <1>7, <1>10
  <2>2. s.stmt = "index"
    BY <1>5, <1>7, <2>1
  <2> QED
    BY <1>9, <2>2 DEF Takes
<1>11. ASSUME t \in DOMAIN ks
       PROVE  Takes(c, s) <=> KeyedWell(o, ks[t])
  <2>1. PICK d : d = ks[t]
    OBVIOUS
  <2>2. s = KeySaid(o, d) /\ d \in ConstraintData
    <3>1. PICK i : i = 1 + t
      OBVIOUS
    <3>2. t \in 1 .. l /\ i = t + 1
      BY <1>6, <1>7, <1>11, <3>1
    <3>3. L[i] = KeySaid(o, ks[t])
      BY <1>5, <3>1, <3>2
    <3>4. L[i] = s
      BY <1>7, <3>2
    <3>5. d \in ConstraintData
      BY <1>5, <1>11, <2>1
    <3> QED
      BY <2>1, <3>3, <3>4, <3>5
  <2>3. s.stmt = "key" /\ s.type = d.type /\ s.cols = d.cols /\ s.ref = d.ref
    BY <2>2 DEF KeySaid
  <2>4. ASSUME NEW x \in Slot(c, "table", upper[s.on])
        PROVE  x = r
    <3>1. x \in Cat(k) /\ x.kind \in Space("table") /\ x.name = name(o)
      BY <1>3, <1>4, <2>4 DEF Slot
    <3>2. PICK q \in Users : Stage(q, k) = {x} /\ RecordOf(q, x)
      BY <1>4, <3>1, InCat
    <3>3. q = o
      BY <1>3, <1>4, <3>1, <3>2, OneUser DEF RecordOf
    <3> QED
      BY <1>8, <3>2, <3>3 DEF KeysThere
  <2>5. PICK nulls : nulls = \A i \in 1 .. Len(d.cols) : NotNullIn(r, d.cols[i])
    OBVIOUS
  <2>6. nulls <=> \A n \in ToSet(d.cols) : ~ NullableIn(o, n)
    <3>1. r.cols = MadeColumns(o)
      BY <1>8 DEF KeysThere
    <3>2. \A n : NotNullIn(r, n) <=> ~ NullableIn(o, n)
      BY <1>3, <1>4, <3>1, ColumnNull
    <3>3. PICK cols : cols = d.cols
      OBVIOUS
    <3>4. DOMAIN cols = 1 .. Len(cols)
      <4>1. cols \in Seq(Nat)
        BY <2>2, <3>3 DEF ConstraintData
      <4> QED
        BY <4>1, SeqDomain
    <3>5. ToSet(cols) = {cols[i] : i \in 1 .. Len(cols)}
      BY <3>4 DEF ToSet
    <3> QED
      BY <2>5, <3>2, <3>3, <3>5
  <2>7. PICK primary : primary = \E p \in PrimaryOf(c, d.ref) : Len(p[3]) = Len(d.cols)
    OBVIOUS
  <2>8. primary <=> KeyBefore(o, d)
    BY <1>3, <1>11, <2>1, <2>7, ForeignThere
  <2>9. Takes(c, s) <=> \E x \in Slot(c, "table", upper[s.on]) :
            /\ s.type = "PRIMARY KEY" => \A i \in 1 .. Len(s.cols) : NotNullIn(x, s.cols[i])
            /\ s.type = "FOREIGN KEY" => \E p \in PrimaryOf(c, s.ref) : Len(p[3]) = Len(s.cols)
    BY <2>3 DEF Takes
  <2>10. Takes(c, s) <=> (d.type = "PRIMARY KEY" => nulls) /\ (d.type = "FOREIGN KEY" => primary)
    BY <1>9, <2>3, <2>4, <2>5, <2>7, <2>9
  <2> QED
    BY <2>1, <2>6, <2>8, <2>10 DEF KeyedWell
<1> QED
  BY <1>1, <1>3, <1>6, <1>10, <1>11

\* Each statement is about one object, and leads from one catalog to the next.
LEMMA PutStep ==
    ASSUME Replaying, NEW k \in Nat, NEW m, m = k + 1, m <= Len(out), NEW s, s = out[m], NEW c, c = Cat(k)
    PROVE  Put(c, s) = Cat(m) /\ \E o \in Users : Concerns(o, k)
<1>1. m \in DOMAIN out
  <2>1. PICK B, t : t = out /\ t \in Seq(B)
    BY OutIs DEF IsSome
  <2>2. m \in DOMAIN t
    BY <2>1
  <2> QED
    BY <2>1, <2>2
<1>2. PICK o \in Users : Regards(o, out[m])
  BY <1>1, EachRegards
<1>3. Concerns(o, k)
  BY <1>1, <1>2 DEF Concerns
<1>4. Put(c, s) = Cat(m)
  BY <1>3, PutCat
<1> QED
  BY <1>3, <1>4

\* Every statement of an object has its turn.
LEMMA StageReached ==
    ASSUME Replaying, NEW o \in Users, NEW L, L = Script(o), NEW i \in 1 .. Len(L)
    PROVE  \E k \in Nat : k + 1 <= Len(out) /\ Concerns(o, k) /\ Tally(o, out, k) = i - 1
<1>1. PICK B, s : s = out /\ s \in Seq(B)
  BY OutIs DEF IsSome
<1>2. PICK n : n = Len(s)
  OBVIOUS
<1>3. n \in Nat /\ DOMAIN s = 1 .. n
  BY <1>1, <1>2
<1>4. L = Said(o, s)
  BY <1>1, UserIs
<1>5. Len(L) \in Nat /\ i \in Nat /\ 1 <= i /\ i <= Len(L)
  <2>1. L \in Seq(B)
    BY <1>1, <1>2, <1>4, TallyIs
  <2> QED
    BY <2>1
<1>6. Tally(o, s, 0) = 0 /\ Tally(o, s, n) = Len(L)
  BY <1>1, <1>2, <1>4, TallyIs
<1> DEFINE Turn == \E j \in Nat : j + 1 <= n /\ Concerns(o, j) /\ Tally(o, s, j) = i - 1
           S == {k \in Nat : k <= n /\ Tally(o, s, k) >= i => Turn}
<1>7. 0 \in S
  BY <1>5, <1>6
<1>8. ASSUME NEW k \in Nat, k \in S
      PROVE  k + 1 \in S
  <2> SUFFICES ASSUME k + 1 <= n, Tally(o, s, k + 1) >= i
               PROVE  Turn
    OBVIOUS
  <2>1. PICK m, c : m = k + 1 /\ c = Tally(o, s, k)
    OBVIOUS
  <2>2. /\ c \in Nat
        /\ Regards(o, s[m]) => Tally(o, s, m) = c + 1
        /\ ~ Regards(o, s[m]) => Tally(o, s, m) = c
    BY <1>1, <1>2, <1>4, <2>1, TallyGoes
  <2>3. CASE c >= i
    BY <1>3, <1>8, <2>1, <2>3
  <2>4. CASE ~ c >= i
    <3>1. Regards(o, s[m]) /\ c = i - 1
      <4>1. Tally(o, s, m) >= i
        BY <2>1
      <4> QED
        BY <1>5, <2>2, <2>4, <4>1
    <3>2. m \in DOMAIN out
      BY <1>1, <1>3, <2>1
    <3>3. Concerns(o, k)
      BY <1>1, <2>1, <3>1, <3>2 DEF Concerns
    <3> QED
      BY <2>1, <3>1, <3>3
  <2> QED
    BY <2>3, <2>4
<1> HIDE DEF S
<1>9. n \in S
  BY <1>3, <1>7, <1>8, SetInduction
<1>10. Tally(o, s, n) >= i
  BY <1>5, <1>6
<1>11. Turn
  BY <1>3, <1>9, <1>10 DEF S
<1> QED
  BY <1>1, <1>2, <1>11

\* Before the first statement there is nothing.
LEMMA RunStart ==
    ASSUME Replaying
    PROVE  Cat(0) = {} /\ Len(out) \in Nat
<1>1. PICK B, s : s = out /\ s \in Seq(B)
  BY OutIs DEF IsSome
<1>2. Len(s) \in Nat /\ 0 \in 0 .. Len(s)
  BY <1>1
<1>3. ASSUME NEW o \in Users
      PROVE  Stage(o, 0) = {}
  <2>1. PICK n, k, L, M : n = Len(out) /\ k = 0 /\ L = Script(o) /\ M = Said(o, s)
    OBVIOUS
  <2>2. Tally(o, s, 0) = 0
    BY <1>1, <2>1, TallyIs
  <2>3. PICK t : t = Tally(o, out, k)
    OBVIOUS
  <2>4. t = 0 /\ k \in 0 .. n
    BY <1>1, <1>2, <2>1, <2>2, <2>3
  <2>5. Stage(o, k) = {}
    BY <2>1, <2>3, <2>4, CatIs
  <2> QED
    BY <2>1, <2>5
<1> QED
  BY <1>1, <1>2, <1>3 DEF Cat

\* The engine takes every statement exactly when the database is orderly.
IsTaken(k) == Takes(Cat(k), out[k + 1])
AllTaken(n) == \A k \in Nat : k < n => IsTaken(k)

LEMMA WellTaken ==
    ASSUME Replaying, Orderly
    PROVE  AllTaken(Len(out))
<1> SUFFICES ASSUME NEW k \in Nat, k < Len(out)
             PROVE  IsTaken(k)
  BY DEF AllTaken
<1>1. PICK m, s, c : m = k + 1 /\ s = out[m] /\ c = Cat(k)
  OBVIOUS
<1>2. m <= Len(out)
  <2>1. Len(out) \in Nat
    BY RunStart
  <2> QED
    BY <1>1, <2>1
<1>3. PICK o \in Users : Concerns(o, k)
  BY <1>1, <1>2, PutStep
<1>4. PICK t, ks : t = Tally(o, out, k) /\ ks = Keyed(World[o].cons)
  OBVIOUS
<1>5. CASE t = 0
  <2>1. CreatedWell(o)
    BY DEF Orderly, CreatedWell
  <2>2. Takes(c, s)
    BY <1>1, <1>3, <1>4, <1>5, <2>1, CreateTaken
  <2> QED
    BY <1>1, <2>2 DEF IsTaken
<1>6. CASE t # 0
  <2>1. /\ kind(o) = "table"
        /\ t \in DOMAIN ks => (Takes(c, s) <=> KeyedWell(o, ks[t]))
        /\ t \notin DOMAIN ks => Takes(c, s)
    BY <1>1, <1>3, <1>4, <1>6, AddTaken
  <2>2. ASSUME t \in DOMAIN ks
        PROVE  KeyedWell(o, ks[t])
    <3>1. PICK d : d = ks[t]
      OBVIOUS
    <3>2. d \in ToSet(ks) /\ o \in Object
      BY <2>2, <3>1, UserIs DEF ToSet
    <3>3. d \in ToSet(World[o].cons)
      BY <1>4, <2>1, <3>2, KeyedAre
    <3>4. KeyedWell(o, d)
      BY <2>1, <3>3 DEF Orderly, KeyedWell
    <3> QED
      BY <3>1, <3>4
  <2>3. Takes(c, s)
    BY <2>1, <2>2
  <2> QED
    BY <1>1, <2>3 DEF IsTaken
<1> QED
  BY <1>5, <1>6

LEMMA TakenWell ==
    ASSUME Replaying, AllTaken(Len(out))
    PROVE  Orderly
<1>1. ASSUME NEW o \in Users, NEW L, L = Script(o), NEW i \in 1 .. Len(L)
      PROVE  \E k \in Nat : Concerns(o, k) /\ Tally(o, out, k) = i - 1 /\ IsTaken(k)
  <2>1. PICK k \in Nat : k + 1 <= Len(out) /\ Concerns(o, k) /\ Tally(o, out, k) = i - 1
    BY <1>1, StageReached
  <2>2. k < Len(out)
    <3>1. Len(out) \in Nat
      BY RunStart
    <3> QED
      BY <2>1, <3>1
  <2> QED
    BY <2>1, <2>2 DEF AllTaken
<1>2. ASSUME NEW o \in Users
      PROVE  CreatedWell(o)
  <2>1. PICK L, i : L = Script(o) /\ i = 1
    OBVIOUS
  <2>2. i \in 1 .. Len(L) /\ i - 1 = 0
    <3>1. o \in Object
      BY UserIs
    <3>2. Len(L) \in Nat \ {0}
      BY <2>1, <3>1, ScriptIs DEF Scripted
    <3> QED
      BY <2>1, <3>2
  <2>3. PICK k \in Nat : Concerns(o, k) /\ Tally(o, out, k) = 0 /\ IsTaken(k)
    BY <1>1, <2>1, <2>2
  <2>4. PICK s, c : s = out[k + 1] /\ c = Cat(k)
    OBVIOUS
  <2>5. Takes(c, s) <=> CreatedWell(o)
    BY <2>3, <2>4, CreateTaken
  <2> QED
    BY <2>3, <2>4, <2>5 DEF IsTaken
<1>3. ASSUME NEW o \in Users, kind(o) = "table", NEW c \in ToSet(World[o].cons),
             c.type \in {"PRIMARY KEY", "FOREIGN KEY"}
      PROVE  KeyedWell(o, c)
  <2>1. PICK L, ks : L = Script(o) /\ ks = Keyed(World[o].cons)
    OBVIOUS
  <2>2. o \in Object /\ c.type \in {"PRIMARY KEY", "UNIQUE", "FOREIGN KEY"}
    BY <1>3, UserIs
  <2>3. PICK m : m = Len(ks)
    OBVIOUS
  <2>4. m \in Nat /\ ks \in Seq(ConstraintData) /\ Len(L) \in Nat /\ m + 1 <= Len(L)
    BY <1>3, <2>1, <2>2, <2>3, KeyPlaces
  <2>5. DOMAIN ks = 1 .. m
    BY <2>3, <2>4, SeqDomain
  <2>6. c \in ToSet(ks)
    BY <1>3, <2>1, <2>2, KeyedHas
  <2>7. PICK j \in 1 .. m : c = ks[j]
    BY <2>5, <2>6 DEF ToSet
  <2>8. PICK i : i = j + 1
    OBVIOUS
  <2>9. i \in 1 .. Len(L) /\ i - 1 = j /\ j # 0
    BY <2>4, <2>8
  <2>10. PICK k \in Nat : Concerns(o, k) /\ Tally(o, out, k) = j /\ IsTaken(k)
    BY <1>1, <2>1, <2>9
  <2>11. PICK s, d : s = out[k + 1] /\ d = Cat(k)
    OBVIOUS
  <2>12. j \in DOMAIN ks => (Takes(d, s) <=> KeyedWell(o, ks[j]))
    BY <2>1, <2>9, <2>10, <2>11, AddTaken
  <2>13. Takes(d, s)
    BY <2>10, <2>11 DEF IsTaken
  <2> QED
    BY <2>5, <2>7, <2>12, <2>13
<1>4. ASSUME NEW o \in Users, kind(o) = "table", NEW c \in ToSet(World[o].cons)
      PROVE  /\ c.type = "PRIMARY KEY" => \A n \in ToSet(c.cols) : ~ NullableIn(o, n)
             /\ c.type = "FOREIGN KEY" => KeyBefore(o, c)
  <2>1. c.type \in {"PRIMARY KEY", "FOREIGN KEY"} => KeyedWell(o, c)
    BY <1>3, <1>4
  <2> QED
    BY <2>1 DEF KeyedWell
<1> QED
  BY <1>2, <1>4 DEF Orderly, CreatedWell
-----------------------------------------------------------------------------
\* Running the statements one after the other: the catalog goes on as long as every
\* statement is taken, and a refusal is not forgotten.
Running(n, f) ==
    f = [k \in 0 .. n |-> IF k = 0 THEN [catalog |-> {}, refused |-> FALSE] ELSE Run(f[k - 1], out[k])]
Taken(c) == [catalog |-> c, refused |-> FALSE]
Spoilt(c) == [catalog |-> c, refused |-> TRUE]
RanTo(k, b) ==
    /\ AllTaken(k) => b = Taken(Cat(k))
    /\ ~ AllTaken(k) => \E c : b = Spoilt(c)

LEMMA TakenNext ==
    ASSUME NEW k \in Nat
    PROVE  AllTaken(k + 1) <=> AllTaken(k) /\ IsTaken(k)
<1>1. \A j \in Nat : j < k + 1 <=> j < k \/ j = k
  OBVIOUS
<1> QED
  BY <1>1 DEF AllTaken

\* What a statement does to what was reached.
LEMMA RunGoes ==
    ASSUME NEW b, NEW c, NEW z, b = [catalog |-> c, refused |-> z], NEW s
    PROVE  /\ Takes(c, s) => Run(b, s) = [catalog |-> Put(c, s), refused |-> z]
           /\ ~ Takes(c, s) => Run(b, s) = Spoilt(c)
<1>1. b.catalog = c
  OBVIOUS
<1>2. ASSUME Takes(c, s)
      PROVE  Run(b, s) = [catalog |-> Put(c, s), refused |-> z]
  <2>1. Run(b, s) = [b EXCEPT !.catalog = Put(c, s)]
    BY <1>1, <1>2 DEF Run
  <2>2. PICK d : d = Put(c, s)
    OBVIOUS
  <2>3. [b EXCEPT !.catalog = d] = [catalog |-> d, refused |-> z]
    OBVIOUS
  <2> QED
    BY <2>1, <2>2, <2>3
<1>3. ASSUME ~ Takes(c, s)
      PROVE  Run(b, s) = Spoilt(c)
  <2>1. Run(b, s) = [b EXCEPT !.refused = TRUE]
    BY <1>1, <1>3 DEF Run
  <2>2. \A y : [b EXCEPT !.refused = y] = [catalog |-> c, refused |-> y]
    OBVIOUS
  <2>3. [b EXCEPT !.refused = TRUE] = [catalog |-> c, refused |-> TRUE]
    BY <2>2
  <2> QED
    BY <2>1, <2>3 DEF Spoilt
<1> QED
  BY <1>2, <1>3

LEMMA RunIs ==
    ASSUME NEW c, NEW s
    PROVE  /\ Takes(c, s) => Run(Taken(c), s) = Taken(Put(c, s))
           /\ ~ Takes(c, s) => Run(Taken(c), s) = Spoilt(c)
           /\ \E e : Run(Spoilt(c), s) = Spoilt(e)
<1>1. ASSUME NEW b, b = Taken(c)
      PROVE  /\ Takes(c, s) => Run(b, s) = Taken(Put(c, s))
             /\ ~ Takes(c, s) => Run(b, s) = Spoilt(c)
  <2>1. PICK z : z = FALSE
    OBVIOUS
  <2>2. b = [catalog |-> c, refused |-> z]
    BY <1>1, <2>1 DEF Taken
  <2>3. /\ Takes(c, s) => Run(b, s) = [catalog |-> Put(c, s), refused |-> z]
        /\ ~ Takes(c, s) => Run(b, s) = Spoilt(c)
    BY <2>2, RunGoes
  <2> QED
    BY <2>1, <2>3 DEF Taken
<1>2. ASSUME NEW b, b = Spoilt(c)
      PROVE  \E e : Run(b, s) = Spoilt(e)
  <2>1. PICK z : z = TRUE
    OBVIOUS
  <2>2. b = [catalog |-> c, refused |-> z]
    BY <1>2, <2>1 DEF Spoilt
  <2>3. /\ Takes(c, s) => Run(b, s) = [catalog |-> Put(c, s), refused |-> z]
        /\ ~ Takes(c, s) => Run(b, s) = Spoilt(c)
    BY <2>2, RunGoes
  <2>4. [catalog |-> Put(c, s), refused |-> z] = Spoilt(Put(c, s))
    BY <2>1 DEF Spoilt
  <2> QED
    BY <2>3, <2>4
<1> QED
  BY <1>1, <1>2

LEMMA RunStep ==
    ASSUME Replaying, NEW k \in Nat, NEW m, m = k + 1, m <= Len(out), NEW b, RanTo(k, b)
    PROVE  RanTo(m, Run(b, out[m]))
<1>1. PICK c, s, d : c = Cat(k) /\ s = out[m] /\ d = Run(b, s)
  OBVIOUS
<1>2. AllTaken(m) <=> AllTaken(k) /\ Takes(c, s)
  BY <1>1, TakenNext DEF IsTaken
<1>3. CASE AllTaken(k)
  <2>1. b = Taken(c)
    BY <1>1, <1>3 DEF RanTo
  <2>2. (Takes(c, s) => d = Taken(Put(c, s))) /\ (~ Takes(c, s) => d = Spoilt(c))
    BY <1>1, <2>1, RunIs
  <2>3. Put(c, s) = Cat(m)
    BY <1>1, PutStep
  <2> QED
    BY <1>1, <1>2, <1>3, <2>2, <2>3 DEF RanTo
<1>4. CASE ~ AllTaken(k)
  <2>1. PICK e : b = Spoilt(e)
    BY <1>4 DEF RanTo
  <2>2. \E x : d = Spoilt(x)
    BY <1>1, <2>1, RunIs
  <2> QED
    BY <1>1, <1>2, <1>4, <2>2 DEF RanTo
<1> QED
  BY <1>3, <1>4

LEMMA RunningExists ==
    ASSUME NEW n \in Nat
    PROVE  \E f : Running(n, f)
<1>1. PICK start : start = [catalog |-> {}, refused |-> FALSE]
  OBVIOUS
<1>2. \A m, f : Running(m, f) <=> f = [k \in 0 .. m |-> IF k = 0 THEN start ELSE Run(f[k - 1], out[k])]
  BY <1>1 DEF Running
<1> DEFINE S == {m \in Nat : \E f : Running(m, f)}
<1>3. 0 \in S
  <2>1. PICK f : f = [k \in 0 .. 0 |-> start]
    OBVIOUS
  <2>2. f = [k \in 0 .. 0 |-> IF k = 0 THEN start ELSE Run(f[k - 1], out[k])]
    BY <2>1
  <2> QED
    BY <1>2, <2>2
<1>4. ASSUME NEW m \in Nat, m \in S
      PROVE  m + 1 \in S
  <2>1. PICK f : Running(m, f)
    BY <1>4
  <2>2. PICK last : last = Run(f[m], out[m + 1])
    OBVIOUS
  <2> DEFINE g == [k \in 0 .. m + 1 |-> IF k = m + 1 THEN last ELSE f[k]]
             h == [k \in 0 .. m + 1 |-> IF k = 0 THEN start ELSE Run(g[k - 1], out[k])]
  <2>3. ASSUME NEW k \in 0 .. m + 1
        PROVE  g[k] = h[k]
    <3>1. h[k] = IF k = 0 THEN start ELSE Run(g[k - 1], out[k])
      OBVIOUS
    <3>2. CASE k = m + 1
      <4>1. g[k] = last /\ k # 0 /\ k - 1 = m /\ m \in 0 .. m + 1 /\ m # m + 1
        BY <3>2
      <4>2. g[m] = f[m]
        BY <4>1
      <4>3. h[k] = Run(g[m], out[m + 1])
        BY <3>1, <3>2, <4>1
      <4> QED
        BY <2>2, <4>1, <4>2, <4>3
    <3>3. CASE k # m + 1
      <4>1. k \in 0 .. m /\ g[k] = f[k]
        BY <3>3
      <4>2. f[k] = IF k = 0 THEN start ELSE Run(f[k - 1], out[k])
        <5>1. f = [j \in 0 .. m |-> IF j = 0 THEN start ELSE Run(f[j - 1], out[j])]
          BY <1>2, <2>1
        <5> QED
          BY <4>1, <5>1
      <4>3. CASE k = 0
        BY <3>1, <4>1, <4>2, <4>3
      <4>4. CASE k # 0
        <5>1. k - 1 \in 0 .. m + 1 /\ k - 1 # m + 1
          BY <4>1, <4>4
        <5>2. g[k - 1] = f[k - 1]
          BY <5>1
        <5>3. h[k] = Run(g[k - 1], out[k]) /\ f[k] = Run(f[k - 1], out[k])
          BY <3>1, <4>2, <4>4
        <5> QED
          BY <4>1, <5>2, <5>3
      <4> QED
        BY <4>3, <4>4
    <3> QED
      BY <3>2, <3>3
  <2>4. g = [k \in 0 .. m + 1 |-> g[k]] /\ h = [k \in 0 .. m + 1 |-> h[k]]
    OBVIOUS
  <2>5. g = h
    <3> HIDE DEF g, h
    <3> QED
      BY <2>3, <2>4
  <2>6. Running(m + 1, g)
    BY <1>2, <2>5
  <2> QED
    BY <2>6
<1> HIDE DEF S
<1>5. Nat \subseteq S
  BY <1>3, <1>4, SetInduction
<1> QED
  BY <1>5 DEF S

\* What the script leaves, when it is taken and when it is not.
LEMMA ReplayedIs ==
    ASSUME Replaying
    PROVE  RanTo(Len(out), Replayed)
<1>1. PICK n : n = Len(out)
  OBVIOUS
<1>2. n \in Nat
  BY <1>1, RunStart
<1>3. RanTo(0, [catalog |-> {}, refused |-> FALSE])
  <2>1. AllTaken(0)
    BY DEF AllTaken
  <2> QED
    BY <2>1, RunStart DEF RanTo, Taken
<1>4. PICK f : f = CHOOSE x : Running(n, x)
  OBVIOUS
<1>5. Running(n, f)
  BY <1>2, <1>4, RunningExists
<1>6. Replayed = f[n]
  <2> DEFINE after == CHOOSE x : Running(Len(out), x)
  <2>1. Replayed = after[Len(out)]
    BY DEF Replayed, Running
  <2>2. after = f
    BY <1>1, <1>4
  <2> HIDE DEF after
  <2> QED
    BY <1>1, <2>1, <2>2
<1>7. \A k \in 0 .. n : f[k] = IF k = 0 THEN [catalog |-> {}, refused |-> FALSE] ELSE Run(f[k - 1], out[k])
  BY <1>5 DEF Running
<1> DEFINE S == {k \in Nat : k <= n => RanTo(k, f[k])}
<1>8. 0 \in S
  <2>1. 0 \in 0 .. n
    BY <1>2
  <2>2. f[0] = [catalog |-> {}, refused |-> FALSE]
    BY <1>7, <2>1
  <2> QED
    BY <1>3, <2>2
<1>9. ASSUME NEW k \in Nat, k \in S
      PROVE  k + 1 \in S
  <2> SUFFICES ASSUME k + 1 <= n
               PROVE  RanTo(k + 1, f[k + 1])
    OBVIOUS
  <2>1. PICK m, b : m = k + 1 /\ b = f[k]
    OBVIOUS
  <2>2. m \in 0 .. n /\ m # 0 /\ m - 1 = k /\ m <= Len(out)
    BY <1>1, <1>2, <2>1
  <2>3. RanTo(k, b)
    <3>1. n \in Nat /\ k <= n
      BY <1>2
    <3> QED
      BY <1>9, <2>1, <3>1
  <2>4. f[m] = Run(b, out[m])
    BY <1>7, <2>1, <2>2
  <2>5. RanTo(m, Run(b, out[m]))
    BY <2>1, <2>2, <2>3, RunStep
  <2> QED
    BY <2>1, <2>4, <2>5
<1> HIDE DEF S
<1>10. n \in S
  BY <1>2, <1>8, <1>9, SetInduction
<1>11. RanTo(n, f[n])
  BY <1>2, <1>10 DEF S
<1> QED
  BY <1>1, <1>6, <1>11

\* A script is refused when one of its statements is.
LEMMA RefusedIs ==
    ASSUME Replaying
    PROVE  /\ Replayed.refused <=> ~ AllTaken(Len(out))
           /\ ~ Replayed.refused => Replayed.catalog = Cat(Len(out))
<1>1. PICK n, b : n = Len(out) /\ b = Replayed
  OBVIOUS
<1>2. RanTo(n, b)
  BY <1>1, ReplayedIs
<1>3. CASE AllTaken(n)
  <2>1. b.catalog = Cat(n) /\ b.refused = FALSE
    BY <1>2, <1>3 DEF RanTo, Taken
  <2> QED
    BY <1>1, <1>3, <2>1
<1>4. CASE ~ AllTaken(n)
  <2>1. b.refused = TRUE
    BY <1>2, <1>4 DEF RanTo, Spoilt
  <2> QED
    BY <1>1, <1>4, <2>1
<1> QED
  BY <1>3, <1>4

-----------------------------------------------------------------------------
\* In the end each object has been remade, with its shape.
LEMMA HiddenEmpty ==
    ASSUME Replaying, NEW o \in Users, kind(o) = "table", ~ IndexesShown(o)
    PROVE  ShownRows(o) = <<>>
<1>1. o \in Object /\ ToTell(o) /\ o \in db /\ ~ World[o].system
  BY UserIs DEF Users
<1>2. Len(Segments(World[o].idx)) <= CAP
  BY DEF Replaying, Whole
<1>3. HasNull(name(o))
  BY <1>2 DEF IndexesShown
<1>4. Constraints(name(o)) = World[o].cons
  <2>1. PICK S : S = Called({"table"}, name(o))
    OBVIOUS
  <2>2. o \in S
    BY <1>1, <2>1 DEF Called, User
  <2>3. \A p \in S : p = o
    <3> TAKE p \in S
    <3>1. p \in Users /\ kind(p) = "table" /\ name(p) = name(o)
      BY <2>1 DEF Called, User, Users
    <3> QED
      BY <3>1, OneUser, SpaceIs
  <2>4. The(S) = o
    BY <2>2, <2>3 DEF The
  <2> QED
    BY <2>1, <2>2, <2>4 DEF Constraints
<1>5. Unindexed(o)
  BY <1>3, <1>4 DEF HasNull, Unindexed
<1> QED
  BY <1>5 DEF ShownRows

LEMMA NothingGrouped == Grouped(<<>>) = <<>>
<1>1. PICK rows, starts :
          /\ rows = <<>>
          /\ starts = Ascending({k \in DOMAIN rows : k = 1 \/ rows[k - 1][1] # rows[k][1]})
  OBVIOUS
<1>2. starts = <<>>
  <2>1. DOMAIN rows = {}
    BY <1>1
  <2>2. {k \in DOMAIN rows : k = 1 \/ rows[k - 1][1] # rows[k][1]} = {}
    BY <2>1
  <2>3. Ascending({}) = <<>>
    <3>1. Cardinality({}) = 0
      BY FS_EmptySet
    <3> QED
      BY <3>1 DEF Ascending, Sorted
  <2> QED
    BY <1>1, <2>2, <2>3
<1>3. Len(starts) = 0
  BY <1>2
<1>4. PICK g : g = Grouped(rows)
  OBVIOUS
<1>5. g = [k \in 1 .. Len(starts) |-> g[k]] /\ DOMAIN g = 1 .. Len(starts)
  BY <1>1, <1>4 DEF Grouped
<1>6. \A f : DOMAIN f = 1 .. 0 /\ f = [j \in 1 .. 0 |-> f[j]] => f = <<>>
  OBVIOUS
<1>7. g = <<>>
  BY <1>3, <1>5, <1>6
<1> QED
  BY <1>1, <1>4, <1>7

LEMMA LastStage ==
    ASSUME Replaying, NEW o \in Users, NEW n, n = Len(out)
    PROVE  Stage(o, n) = Remade(o) /\ IsOf(o, Remade(o))
<1>1. PICK L : L = Script(o)
  OBVIOUS
<1>2. o \in Object /\ Said(o, out) = L /\ About(o) = L
  BY <1>1, UserIs
<1>3. PICK B, s : s = out /\ s \in Seq(B)
  BY OutIs DEF IsSome
<1>4. n \in 0 .. n /\ n = Len(s)
  BY <1>3
<1>5. Tally(o, s, n) = Len(L)
  <2>1. L = Said(o, s)
    BY <1>2, <1>3
  <2> QED
    BY <1>3, <1>4, <2>1, TallyIs
<1>6. Len(L) \in Nat \ {0}
  BY <1>1, <1>2, ScriptIs DEF Scripted
<1>7. Remade(o) = Stages(L)[Len(L)]
  BY <1>2, <1>6, RemadeStage
<1>8. Stage(o, n) = Remade(o)
  BY <1>1, <1>3, <1>5, <1>7 DEF Stage
<1>9. IsOf(o, Stage(o, n))
  <2>1. PICK t : t = Tally(o, out, n)
    OBVIOUS
  <2>2. t # 0
    BY <1>3, <1>5, <1>6, <2>1
  <2> QED
    BY <1>1, <1>4, <2>1, <2>2, CatIs
<1> QED
  BY <1>8, <1>9

\* What a table that hides its indexes was made of has none.
LEMMA ModestRemade ==
    ASSUME Replaying, NEW o \in Users, NEW r, Remade(o) = {r}, RecordOf(o, r)
    PROVE  Modest(o, r) = r
<1>1. CASE r.kind # "table" \/ IndexesShown(o)
  BY <1>1 DEF Modest
<1>2. CASE r.kind = "table" /\ ~ IndexesShown(o)
  <2>1. kind(o) = "table" /\ o \in Object /\ About(o) = Script(o) /\ upper[name(o)] = name(o)
    BY <1>2, UserIs DEF RecordOf
  <2>2. PICK keys, g : keys = Keyed(World[o].cons) /\ g = Grouped(ShownRows(o))
    OBVIOUS
  <2>3. g = <<>>
    BY <1>2, <2>1, <2>2, HiddenEmpty, NothingGrouped
  <2>4. PICK u, cols, ks, idx : /\ u = upper[name(o)] /\ cols = MadeColumns(o)
                                /\ ks = KeyOriginals(keys) /\ idx = MadeIndexes(g)
    OBVIOUS
  <2>5. Remade(o) = {TableOf(u, cols, ks, idx)}
    <3>1. IsSome(g)
      BY <2>3, NoneIsSome
    <3> QED
      BY <2>1, <2>2, <2>4, <3>1, TableRemade
  <2>6. r = TableOf(u, cols, ks, idx)
    BY <2>5
  <2>7. idx = <<>>
    <3>1. Len(g) = 0
      BY <2>3
    <3>2. DOMAIN idx = 1 .. 0 /\ idx = [j \in 1 .. 0 |-> idx[j]]
      BY <2>4, <3>1 DEF MadeIndexes
    <3>3. \A f : DOMAIN f = 1 .. 0 /\ f = [j \in 1 .. 0 |-> f[j]] => f = <<>>
      OBVIOUS
    <3> QED
      BY <3>2, <3>3
  <2>8. [r EXCEPT !.idx = idx] = r
    BY <2>6 DEF TableOf
  <2> QED
    BY <1>2, <2>7, <2>8 DEF Modest
<1> QED
  BY <1>1, <1>2

LEMMA ShapeRemade ==
    ASSUME Replaying, NEW o \in Users, NEW n, n = Len(out)
    PROVE  \E r : Stage(o, n) = {r} /\ Shape(r) = Shape(Modest(o, Original(o)))
<1>1. Stage(o, n) = Remade(o) /\ IsOf(o, Remade(o))
  BY LastStage
<1>2. PICK r : Remade(o) = {r} /\ RecordOf(o, r)
  BY <1>1 DEF IsOf
<1>3. Recovered(o)
  <2>1. TellAll /\ Done("extract")
    BY DEF Replaying, Whole
  <2>2. o \in Object /\ ToTell(o)
    BY UserIs
  <2> QED
    BY <2>1, <2>2, AllRecovered
<1>4. Shape(Modest(o, [r EXCEPT !.name = name(o)])) = Shape(Modest(o, Original(o)))
  BY <1>2, <1>3 DEF Recovered
<1>5. [r EXCEPT !.name = name(o)] = r /\ Modest(o, r) = r
  BY <1>2, ModestRemade DEF RecordOf
<1> QED
  BY <1>1, <1>2, <1>4, <1>5

\* A whole script that runs without an error recreates every object of the user with
\* its shape, and nothing else: whatever the objects are, and however many, and
\* whatever was asked before (metadata.rs, extract_ddl_filtered).
THEOREM RunsAreRecreated == Spec => []RecreatesShape
<1>1. ASSUME TellAll, TurnInv
      PROVE  RecreatesShape
  <2> SUFFICES ASSUME Whole, ~ Replayed.refused
               PROVE  {Shape(r) : r \in Replayed.catalog} = {Shape(Modest(o, Original(o))) : o \in Users}
    BY DEF RecreatesShape
  <2>1. Replaying
    BY <1>1 DEF Replaying
  <2>2. PICK n, c : n = Len(out) /\ c = Cat(n)
    OBVIOUS
  <2>3. Replayed.catalog = c
    BY <2>1, <2>2, RefusedIs
  <2>4. ASSUME NEW o \in Users
        PROVE  \E r \in c : Shape(r) = Shape(Modest(o, Original(o)))
    <3>1. PICK r : Stage(o, n) = {r} /\ Shape(r) = Shape(Modest(o, Original(o)))
      BY <2>1, <2>2, ShapeRemade
    <3> QED
      BY <2>2, <3>1 DEF Cat
  <2>5. ASSUME NEW r \in c
        PROVE  \E o \in Users : Shape(r) = Shape(Modest(o, Original(o)))
    <3>1. PICK o \in Users : r \in Stage(o, n)
      BY <2>2 DEF Cat
    <3>2. PICK q : Stage(o, n) = {q} /\ Shape(q) = Shape(Modest(o, Original(o)))
      BY <2>1, <2>2, ShapeRemade
    <3> QED
      BY <3>1, <3>2
  <2> QED
    BY <2>3, <2>4, <2>5
<1> QED
  BY <1>1, TurnAlways, PTL

\* The engine refuses a statement of a whole script exactly when the database is not
\* orderly, in whatever way: a key of columns whose own NOT NULL is not written, a
\* reference to what is written later, a view without the names of its columns, a
\* procedure or a function (metadata.rs, extract_ddl_filtered).
THEOREM RefusalsAreExact == Spec => []RefusedExactly
<1>1. ASSUME TellAll, TurnInv
      PROVE  RefusedExactly
  <2> SUFFICES ASSUME Whole
               PROVE  Replayed.refused <=> ~ Orderly
    BY DEF RefusedExactly
  <2>1. Replaying
    BY <1>1 DEF Replaying
  <2>2. AllTaken(Len(out)) <=> Orderly
    BY <2>1, WellTaken, TakenWell
  <2> QED
    BY <2>1, <2>2, RefusedIs
<1> QED
  BY <1>1, TurnAlways, PTL
=================================================================================
