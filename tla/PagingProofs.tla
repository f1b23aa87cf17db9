----------------------------- MODULE PagingProofs -----------------------------
(***************************************************************************)
(* The pages of a plain statement, for every table, page size, skip and    *)
(* cap, whatever other statements clients send.                            *)
(***************************************************************************)
EXTENDS Paging, SequenceTheorems, FiniteSetTheorems, TLAPS

USE RowAssumption, PagingAssumption

\* In a plain statement the scanner finds the select of the statement itself.
LEMMA PlainInsertion ==
    ASSUME NEW q \in Seq(Word), Plain(q), NEW i \in 1 .. Len(q), Selects(q) = {i}
    PROVE  inject_row_limit(q) = i
<1> DEFINE tops == {k \in 1 .. Len(q) :
                       \/ /\ q[k] \in {"SELECT", "SELECT*", "MYSELECT", "'SELECT'"}
                          /\ ScannedDepth(q, k) = 0
                       \/ q[k] = "(SELECT" /\ ScannedDepth(q, k) = -1}
<1>1. ASSUME NEW k \in 1 .. Len(q)
      PROVE  ScannedDepth(q, k) = Depth(q, k, {"(SELECT"}, {"X)"})
  <2>1. {j \in 1 .. k - 1 : q[j] \in {"(SELECT", "'('"}}
           = {j \in 1 .. k - 1 : q[j] \in {"(SELECT"}}
    BY DEF Plain
  <2>2. {j \in 1 .. k - 1 : q[j] \in {"X)", "')'"}}
           = {j \in 1 .. k - 1 : q[j] \in {"X)"}}
    BY DEF Plain
  <2> QED BY <2>1, <2>2 DEF ScannedDepth, Depth
<1>2. tops = {i}
  <2>1. ASSUME NEW k \in 1 .. Len(q)
        PROVE  k \in tops <=> k \in Selects(q)
    <3>1. Depth(q, k, {"(SELECT"}, {"X)"}) >= 0 /\ q[k] \notin {"MYSELECT", "'SELECT'"}
      BY DEF Plain
    <3> HIDE DEF Plain
    <3>2. Depth(q, k, {"(SELECT"}, {"X)"}) # -1
      BY <3>1
    <3> QED BY <1>1, <3>1, <3>2 DEF Selects
  <2> QED BY <2>1 DEF Selects
<1>3. find_select_insertion_point(q) = i
  BY <1>2 DEF find_select_insertion_point, Nothing
<1>4. ~ HasOwnLimit(q)
  <2>1. \A k \in 1 .. Len(q) : q[k] \notin {"FIRST", "FIRSTNAME", "ROWS", "FETCH"}
    BY DEF Plain
  <2>2. ~ StartsWithLimit(q, i + 1)
    BY <2>1 DEF StartsWithLimit
  <2>3. Len(q) \in Nat
    BY LenProperties
  <2> QED BY <2>1, <2>2, <2>3, <1>3 DEF HasOwnLimit
<1>5. accepts_row_limit(q)
  BY EmptySeq, LenProperties DEF accepts_row_limit, Plain
<1> QED BY <1>3, <1>4, <1>5 DEF inject_row_limit

\* The clause does not slip in a plain statement.
LEMMA PlainStays ==
    ASSUME NEW q \in Seq(Word), Plain(q)
    PROVE  ~ Slips(q)
<1>1. PICK i \in 1 .. Len(q) : Selects(q) = {i}
  BY DEF Plain
<1>2. inject_row_limit(q) = i
  BY <1>1, PlainInsertion
<1>3. \A k \in 1 .. i - 1 : q[k] # "GROWS" /\ q[k] # "SHRINKS"
  BY <1>1 DEF Plain
<1>4. /\ {k \in 1 .. i - 1 : q[k] = "GROWS"} = {}
      /\ {k \in 1 .. i - 1 : q[k] = "SHRINKS"} = {}
  BY <1>3
<1>5. Cardinality({}) = 0
  BY FS_EmptySet
<1>6. Shift(q, i) = Cardinality({}) - Cardinality({})
  BY <1>4, Zenon DEF Shift
<1>7. Shift(q, i) = 0
  BY <1>5, <1>6
<1> QED BY <1>2, <1>7 DEF Slips

\* What the engine returns for a plain statement: the window it was asked for.
LEMMA PlainFetch ==
    ASSUME NEW q \in Seq(Word), Plain(q), NEW m \in 0 .. MAX_ROWS,
           NEW s \in Nat, NEW n \in Nat
    PROVE  Fetch(q, m, s, n) = Window(m, s, n)
<1>1. PICK i \in 1 .. Len(q) : Selects(q) = {i}
  BY DEF Plain
<1>2. inject_row_limit(q) = i
  BY <1>1, PlainInsertion
<1>3. Least(m, MAX_ROWS) = m
  BY DEF Least
<1>4. \A r : Capped(q, r) = r
  <2>1. \A k \in 1 .. Len(q) : q[k] \notin {"ROWS", "FETCH"}
    BY DEF Plain
  <2>2. Len(q) \in Nat
    BY LenProperties
  <2> QED BY <2>1, <2>2 DEF Capped
<1>5. Branch(q, i, i, m, s, n) = Window(m, s, n)
  BY <1>3 DEF Branch
<1>6. /\ (CHOOSE j \in Selects(q) : \A k \in Selects(q) : j <= k) = i
      /\ (CHOOSE j \in Selects(q) : \A k \in Selects(q) : k <= j) = i
  BY <1>1
<1> QED BY <1>2, <1>4, <1>5, <1>6, PlainStays DEF Fetch

\* A window is as long as the page, or ends with the table.
LEMMA WindowLength ==
    ASSUME NEW m \in Nat, NEW s \in Nat, NEW n \in Nat
    PROVE  /\ Window(m, s, n) \in Seq(Nat)
           /\ Len(Window(m, s, n)) \in 0 .. m
           /\ Len(Window(m, s, n)) = 0 \/ s + Len(Window(m, s, n)) <= n
           /\ Len(Window(m, s, n)) < m => s + Len(Window(m, s, n)) >= n
<1> DEFINE len == IF n > s THEN Least(m, n - s) ELSE 0
<1>1. len \in 0 .. m /\ (len = 0 \/ s + len <= n) /\ (len < m => s + len >= n)
  BY DEF Least
<1> HIDE DEF len
<1>2. Window(m, s, n) = [j \in 1 .. len |-> s + j]
  BY DEF Window, len
<1>3. [j \in 1 .. len |-> s + j] \in Seq(Nat)
  BY <1>1
<1>4. Len([j \in 1 .. len |-> s + j]) = len
  BY <1>1
<1> QED BY <1>1, <1>2, <1>3, <1>4

\* It begins with the row after the skipped ones.
RowsFrom(w, s) == \A j \in 1 .. Len(w) : w[j] = s + j

LEMMA WindowRow ==
    ASSUME NEW m \in Nat, NEW s \in Nat, NEW n \in Nat
    PROVE  RowsFrom(Window(m, s, n), s)
<1> DEFINE len == IF n > s THEN Least(m, n - s) ELSE 0
<1>1. len \in Nat
  BY DEF Least
<1> HIDE DEF len
<1>2. Window(m, s, n) = [k \in 1 .. len |-> s + k]
  BY DEF Window, len
<1>3. Len([k \in 1 .. len |-> s + k]) = len
  BY <1>1
<1> QED BY <1>2, <1>3 DEF RowsFrom

\* The next row is the one after those delivered.
Aligned == pc = "ask" => skip = start + Len(got)

\* A hint is a number.
Hinted == pc = "hinted" => hint \in 0 .. U32 - 1

PInv == /\ TypeOK /\ Hinted
        /\ Plain(sql) => Aligned
        /\ InOrder /\ Complete /\ PageBounded /\ HintIsExact

LEMMA PInit == Init => PInv
<1> SUFFICES ASSUME Init PROVE PInv
  OBVIOUS
<1>1. start \in 0 .. U32 - 1
  BY DEF Init, skip_rows, NoArg
<1>2. max_rows(asked) \in Nat
  BY DEF Init, max_rows, NoArg, Least
<1> QED BY <1>1, <1>2 DEF Init, PInv, TypeOK, Hinted, Aligned, InOrder, Complete, PageBounded,
                        HintIsExact, NoArg

\* The engine returns rows, whatever the statement.
LEMMA FetchRows ==
    ASSUME NEW q, NEW m \in Nat, NEW s \in Nat, NEW n \in Nat
    PROVE  Fetch(q, m, s, n) \in Seq(Nat)
<1>1. ASSUME NEW k \in Nat PROVE Prefix(k) \in Seq(Nat)
  BY <1>1 DEF Prefix
<1>2. Least(OwnCap, n) \in Nat /\ Least(m, MAX_ROWS) \in Nat
  BY DEF Least
<1>3. ASSUME NEW i, NEW p PROVE Branch(q, i, p, m, s, n) \in Seq(Nat)
  <2>1. Window(Least(m, MAX_ROWS), s, n) \in Seq(Nat)
    BY <1>2, WindowLength
  <2>2. Prefix(Least(OwnCap, n)) \in Seq(Nat) /\ Prefix(n) \in Seq(Nat)
    BY <1>1, <1>2
  <2>3. CASE p = i
    BY <2>1, <2>3 DEF Branch
  <2>4. CASE p # i /\ i < Len(q) /\ q[i + 1] = "FIRST"
    BY <2>2, <2>4 DEF Branch
  <2>5. CASE p # i /\ ~ (i < Len(q) /\ q[i + 1] = "FIRST")
    BY <2>2, <2>5 DEF Branch
  <2> QED BY <2>3, <2>4, <2>5
<1>4. ASSUME NEW r \in Seq(Nat) PROVE Capped(q, r) \in Seq(Nat)
  <2>1. Len(r) \in Nat
    BY LenProperties
  <2>2. Least(OwnCap, Len(r)) \in 0 .. Len(r)
    BY <2>1 DEF Least
  <2>3. SubSeq(r, 1, Least(OwnCap, Len(r))) \in Seq(Nat)
    BY <2>1, <2>2, SubSeqProperties
  <2> QED BY <2>3 DEF Capped
<1> DEFINE p == IF Slips(q) THEN Nothing ELSE inject_row_limit(q)
           first == CHOOSE i \in Selects(q) : \A k \in Selects(q) : i <= k
           last == CHOOSE i \in Selects(q) : \A k \in Selects(q) : k <= i
<1>5. /\ Branch(q, first, p, m, s, n) \in Seq(Nat)
      /\ Branch(q, last, p, m, s, n) \in Seq(Nat)
  BY <1>3
<1>6. Branch(q, first, p, m, s, n) \o Branch(q, last, p, m, s, n) \in Seq(Nat)
  BY <1>5, ConcatProperties
<1> HIDE DEF p, first, last
<1>7. (IF first = last THEN Branch(q, first, p, m, s, n)
       ELSE Branch(q, first, p, m, s, n) \o Branch(q, last, p, m, s, n)) \in Seq(Nat)
  BY <1>5, <1>6
<1> QED BY <1>4, <1>7 DEF Fetch, p, first, last

\* A page of any statement is a page of rows.
LEMMA PageTypes ==
    ASSUME TypeOK, Page
    PROVE  TypeOK' /\ Hinted'
<1> DEFINE m == max_rows(asked)
           rows == Fetch(sql, m, skip, table)
<1>1. m \in 0 .. MAX_ROWS /\ skip \in 0 .. U32 - 1 /\ table \in Nat /\ skip \in Nat
  BY DEF TypeOK, max_rows, NoArg, Least
<1>2. rows \in Seq(Nat)
  BY <1>1, FetchRows
<1>3. got \o rows \in Seq(Nat) /\ Len(rows) \in Nat
  BY <1>2, ConcatProperties, LenProperties DEF TypeOK
<1>4. next_skip(skip, m) \in 0 .. U32 - 1
  BY <1>1 DEF next_skip
<1>5. /\ got' = got \o rows
      /\ page' = Len(rows)
      /\ \/ pc' = "hinted" /\ hint' = next_skip(skip, m)
         \/ pc' = "done" /\ hint' = NoArg
      /\ seen' = table
      /\ UNCHANGED <<sql, asked, start, skip, table>>
  BY DEF Page
<1> HIDE DEF m, rows
<1> QED BY <1>1, <1>3, <1>4, <1>5 DEF TypeOK, Hinted

\* A page of a plain statement preserves the invariant.
LEMMA PagePreserves ==
    ASSUME Plain(sql), PInv, Page
    PROVE  PInv'
<1> DEFINE m == max_rows(asked)
           rows == Window(m, skip, table)
           len == Len(rows)
<1>1. /\ m \in 0 .. MAX_ROWS
      /\ skip \in 0 .. U32 - 1
      /\ start \in 0 .. U32 - 1
      /\ table \in 0 .. U32 - 1
      /\ got \in Seq(Nat)
      /\ skip = start + Len(got)
  BY DEF PInv, TypeOK, Aligned, Page, max_rows, NoArg, Least
<1>2. Fetch(sql, m, skip, table) = rows
  BY <1>1, PlainFetch DEF PInv, TypeOK
<1>3. /\ rows \in Seq(Nat)
      /\ len \in 0 .. m
      /\ len = 0 \/ skip + len <= table
      /\ len < m => skip + len >= table
      /\ \A j \in 1 .. len : rows[j] = skip + j
  <2>1. m \in Nat /\ skip \in Nat /\ table \in Nat
    BY <1>1
  <2> HIDE DEF m
  <2>2. rows \in Seq(Nat) /\ len \in 0 .. m
    BY <2>1, WindowLength
  <2>3. len = 0 \/ skip + len <= table
    BY <2>1, WindowLength
  <2>4. len < m => skip + len >= table
    BY <2>1, WindowLength
  <2>5. \A j \in 1 .. len : rows[j] = skip + j
    <3>1. RowsFrom(rows, skip)
      BY <2>1, WindowRow
    <3> QED
      BY <3>1 DEF RowsFrom
  <2> HIDE DEF rows, len
  <2> QED
    BY <2>2, <2>3, <2>4, <2>5
<1>4. /\ got' = got \o rows
      /\ page' = Len(rows)
      /\ hint' = IF Len(rows) >= m THEN (skip + m) % U32 ELSE NoArg
      /\ pc' = IF Len(rows) >= m THEN "hinted" ELSE "done"
      /\ seen' = table
      /\ UNCHANGED <<sql, asked, start, skip, table>>
  BY <1>2 DEF Page, full, next_skip
<1> HIDE DEF m, rows
<1>5. len >= m => len = m /\ (skip + m) % U32 = skip + m
  <2> SUFFICES ASSUME len >= m PROVE len = m /\ (skip + m) % U32 = skip + m
    OBVIOUS
  <2>1. len = m
    BY <1>1, <1>3
  <2>2. skip + m \in 0 .. U32 - 1
    BY <2>1, <1>1, <1>3
  <2>3. \A k \in 0 .. U32 - 1 : k % U32 = k
    OBVIOUS
  <2> QED BY <2>1, <2>2, <2>3
<1>6. /\ got' \in Seq(Nat)
      /\ Len(got') = Len(got) + len
      /\ \A j \in 1 .. Len(got') :
            got'[j] = IF j <= Len(got) THEN got[j] ELSE rows[j - Len(got)]
  <2>1. /\ got \o rows \in Seq(Nat)
        /\ Len(got \o rows) = Len(got) + Len(rows)
    BY <1>1, <1>3, ConcatProperties
  <2>2. \A j \in 1 .. Len(got) + Len(rows) :
           (got \o rows)[j] = IF j <= Len(got) THEN got[j] ELSE rows[j - Len(got)]
    BY <1>1, <1>3, ConcatProperties
  <2> QED BY <2>1, <2>2, <1>3, <1>4
<1>7. Len(got) \in Nat /\ len \in Nat
  BY <1>1, <1>3, LenProperties
<1>8. TypeOK'
  BY <1>1, <1>3, <1>4, <1>5, <1>6, <1>7 DEF PInv, TypeOK
<1>9. InOrder'
  <2>1. \A j \in 1 .. Len(got') : got'[j] = start + j
    <3> SUFFICES ASSUME NEW j \in 1 .. Len(got') PROVE got'[j] = start + j
      OBVIOUS
    <3>1. CASE j <= Len(got)
      BY <3>1, <1>6, <1>7 DEF PInv, InOrder
    <3>2. CASE j > Len(got)
      <4>1. j - Len(got) \in 1 .. len
        BY <3>2, <1>6, <1>7
      <4>2. got'[j] = rows[j - Len(got)]
        BY <3>2, <1>6, <1>7
      <4>3. rows[j - Len(got)] = skip + (j - Len(got))
        BY <4>1, <1>3
      <4> QED BY <4>2, <4>3, <1>1, <1>7
    <3> QED BY <3>1, <3>2, <1>6, <1>7
  <2>2. got' = [j \in 1 .. Len(got') |-> got'[j]]
    BY <1>6
  <2> QED BY <2>1, <2>2, <1>4 DEF InOrder
<1>10. Complete'
  BY <1>1, <1>3, <1>4, <1>6, <1>7 DEF Complete
<1>11. PageBounded'
  BY <1>3, <1>4, <1>5, <1>1 DEF PageBounded, m, max_rows
<1>12. HintIsExact'
  <2> SUFFICES ASSUME pc' = "hinted" PROVE hint' = start' + Len(got')
    BY DEF HintIsExact
  <2>1. len >= m
    BY <1>3, <1>4
  <2>2. hint' = skip + len
    BY <2>1, <1>3, <1>4, <1>5
  <2> QED BY <2>2, <1>1, <1>4, <1>6, <1>7
<1>13. Aligned'
  BY <1>4 DEF Aligned
<1>14. Hinted'
  BY PageTypes DEF PInv
<1> QED BY <1>14, <1>8, <1>9, <1>10, <1>11, <1>12, <1>13 DEF PInv

LEMMA StepPreserves ==
    ASSUME PInv, [Next]_vars
    PROVE  PInv'
<1>1. CASE Page
  <2>1. CASE Plain(sql)
    BY <1>1, <2>1, PagePreserves
  <2>2. CASE ~ Plain(sql)
    <3>1. TypeOK' /\ Hinted'
      BY <1>1, PageTypes DEF PInv
    <3>2. ~ Plain(sql')
      BY <1>1, <2>2 DEF Page
    <3> QED
      BY <3>1, <3>2 DEF PInv, InOrder, Complete, PageBounded, HintIsExact
  <2> QED BY <2>1, <2>2
<1>6. CASE Abort
  BY <1>6 DEF Abort, PInv, TypeOK, Hinted, Aligned, InOrder, Complete, PageBounded, HintIsExact
<1>2. CASE Failure
  BY <1>2 DEF Failure, PInv, TypeOK, Hinted, Aligned, InOrder, Complete, PageBounded, HintIsExact
<1>3. CASE Follow
  <2>1. hint \in 0 .. U32 - 1 /\ (Plain(sql) => hint = start + Len(got))
    BY <1>3 DEF Follow, PInv, Hinted, HintIsExact
  <2> QED BY <1>3, <2>1 DEF Follow, PInv, TypeOK, Hinted, Aligned, InOrder, Complete,
                            PageBounded, HintIsExact
<1>4. CASE Insert
  BY <1>4 DEF Insert, PInv, TypeOK, Hinted, Aligned, InOrder, Complete, PageBounded, HintIsExact
<1>5. CASE UNCHANGED vars
  BY <1>5 DEF vars, PInv, TypeOK, Hinted, Aligned, InOrder, Complete, PageBounded, HintIsExact
<1> QED BY <1>1, <1>2, <1>3, <1>4, <1>5, <1>6 DEF Next, Over

\* Whatever the table, the page size and the skip: the pages handle_query
\* returns for a plain statement are the rows of its result in order, each
\* once; none has more rows than max_rows; the hint is exact, and a page
\* without one is the last.
THEOREM PagesExact ==
    Spec => [](TypeOK /\ InOrder /\ Complete /\ PageBounded /\ HintIsExact)
<1>1. Init => PInv
  BY PInit
<1>2. PInv /\ [Next]_vars => PInv'
  BY StepPreserves
<1>3. PInv => TypeOK /\ InOrder /\ Complete /\ PageBounded /\ HintIsExact
  BY DEF PInv
<1> QED BY <1>1, <1>2, <1>3, PTL DEF Spec
=============================================================================
