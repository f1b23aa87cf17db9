--------------------------------- MODULE Lemmas ---------------------------------
(***************************************************************************)
(* What the proofs need of the natural numbers, of rows in an order and of *)
(* the sequences that other sequences are put together from.               *)
(***************************************************************************)
EXTENDS Lists, SequencesExt, FiniteSetTheorems, SequenceTheorems, WellFoundedInduction, TLAPS

\* The intervals below the numbers of the set have a smallest, for inclusion.
LEMMA LeastNumber ==
    ASSUME NEW S \in SUBSET Nat, S # {}
    PROVE  \E m \in S : \A n \in S : m <= n
<1> DEFINE I == {0 .. n - 1 : n \in S}
<1>1. I \subseteq FiniteSubsetsOf(Nat)
  <2> SUFFICES ASSUME NEW n \in S
               PROVE  0 .. n - 1 \in FiniteSubsetsOf(Nat)
    OBVIOUS
  <2>1. IsFiniteSet(0 .. n - 1)
    BY FS_Interval
  <2> QED
    BY <2>1 DEF FiniteSubsetsOf
<1>2. I # {}
  OBVIOUS
<1>3. IsWellFoundedOn(StrictSubsetOrdering(Nat), FiniteSubsetsOf(Nat))
  BY FS_StrictSubsetOrderingWellFounded
<1>4. PICK x \in I : \A y \in I : ~ (<<y, x>> \in StrictSubsetOrdering(Nat))
  <2> HIDE DEF I
  <2> QED
    BY <1>1, <1>2, <1>3, WFMin
<1>5. PICK m \in S : x = 0 .. m - 1
  BY <1>4
<1>6. ASSUME NEW n \in S
      PROVE  m <= n
  <2>1. CASE n < m
    <3>1. 0 .. n - 1 \subseteq 0 .. m - 1 /\ n \in 0 .. m - 1 /\ n \notin 0 .. n - 1
      BY <2>1
    <3>2. <<0 .. n - 1, x>> \in StrictSubsetOrdering(Nat)
      BY <1>5, <3>1 DEF StrictSubsetOrdering
    <3> QED
      BY <1>4, <3>2
  <2> QED
    BY <2>1
<1> QED
  BY <1>6

LEMMA SetInduction ==
    ASSUME NEW S, 0 \in S, \A n \in Nat : n \in S => n + 1 \in S
    PROVE  Nat \subseteq S
<1> DEFINE M == Nat \ S
<1> SUFFICES ASSUME M # {}
             PROVE  FALSE
  OBVIOUS
<1>1. PICK m \in M : \A n \in M : m <= n
  BY LeastNumber
<1>2. m # 0 /\ m - 1 \in Nat /\ m - 1 \notin M
  BY <1>1
<1> QED
  BY <1>2

LEMMA GreatestNumber ==
    ASSUME NEW b \in Nat, NEW S \in SUBSET (0 .. b), S # {}
    PROVE  \E m \in S : \A n \in S : n <= m
<1> DEFINE M == {b - n : n \in S}
<1>1. PICK k \in M : \A n \in M : k <= n
  <2>1. \A n \in S : b - n \in Nat
    OBVIOUS
  <2>2. M \in SUBSET Nat /\ M # {}
    BY <2>1, Zenon
  <2> HIDE DEF M
  <2> QED
    BY <2>2, LeastNumber
<1>2. PICK m \in S : k = b - m
  BY <1>1
<1>3. ASSUME NEW n \in S
      PROVE  n <= m
  <2>1. b - n \in M
    OBVIOUS
  <2> QED
    BY <2>1, <1>1, <1>2
<1> QED
  BY <1>3

-----------------------------------------------------------------------------

\* Numbers that tell the members of a set apart.
Tells(S, key) ==
    /\ \A x \in S : key[x] \in Int
    /\ \A x, y \in S : key[x] = key[y] => x = y

Before(S, key, x) == Cardinality({y \in S : key[y] < key[x]})

LEMMA PlaceGrows ==
    ASSUME NEW S, IsFiniteSet(S), NEW key, Tells(S, key), NEW x \in S
    PROVE  /\ Before(S, key, x) \in 0 .. Cardinality(S) - 1
           /\ \A y \in S : key[x] < key[y] <=> Before(S, key, x) < Before(S, key, y)
<1> DEFINE B(z) == {y \in S : key[y] < key[z]}
<1>1. ASSUME NEW z \in S
      PROVE  IsFiniteSet(B(z)) /\ Cardinality(B(z)) \in Nat /\ Cardinality(B(z)) < Cardinality(S)
             /\ Cardinality(S) \in Nat
  <2>1. B(z) \in SUBSET S /\ z \notin B(z)
    BY DEF Tells
  <2>2. B(z) # S
    BY <2>1
  <2> HIDE DEF B
  <2> QED
    BY <2>1, <2>2, FS_Subset, FS_CardinalityType
<1>2. ASSUME NEW y \in S, NEW z \in S, key[y] < key[z]
      PROVE  Cardinality(B(y)) < Cardinality(B(z))
  <2>1. B(y) \in SUBSET B(z) /\ y \in B(z) /\ y \notin B(y)
    BY <1>2 DEF Tells
  <2>2. B(y) # B(z)
    BY <2>1
  <2> HIDE DEF B
  <2> QED
    BY <1>1, <2>1, <2>2, FS_Subset
<1>3. \A z \in S : Before(S, key, z) = Cardinality(B(z))
  BY DEF Before
<1> HIDE DEF B
<1>4. ASSUME NEW y \in S
      PROVE  key[x] < key[y] <=> Before(S, key, x) < Before(S, key, y)
  <2>1. key[x] < key[y] \/ x = y \/ key[y] < key[x]
    BY DEF Tells
  <2> QED
    BY <2>1, <1>1, <1>2, <1>3 DEF Tells
<1> QED
  BY <1>1, <1>3, <1>4

\* Every number below the size of the set is the rank of one member.
LEMMA PlaceTaken ==
    ASSUME NEW S, IsFiniteSet(S), NEW key, Tells(S, key), NEW k \in 0 .. Cardinality(S) - 1
    PROVE  \E x \in S : Before(S, key, x) = k
<1> DEFINE n == Cardinality(S)
           R == 0 .. n - 1
           f == [x \in S |-> Before(S, key, x)]
<1>1. n \in Nat
  BY FS_CardinalityType
<1>2. \A x \in S : Before(S, key, x) \in 0 .. n - 1
  BY PlaceGrows
<1>3. \A x, y \in S : Before(S, key, x) = Before(S, key, y) => x = y
  <2> SUFFICES ASSUME NEW x \in S, NEW y \in S, Before(S, key, x) = Before(S, key, y)
               PROVE  x = y
    OBVIOUS
  <2>1. ~ (key[x] < key[y]) /\ ~ (key[y] < key[x])
    BY PlaceGrows, <1>2, <1>1
  <2> QED
    BY <2>1 DEF Tells
<1>4. IsFiniteSet(R) /\ Cardinality(R) = n
  BY <1>1, FS_Interval
<1>5. f \in Injection(S, R)
  BY <1>2, <1>3 DEF Injection, IsInjective
<1>6. f \in Surjection(S, R)
  <2> HIDE DEF f, R
  <2> QED
    BY <1>4, <1>5, FS_Injection
<1>7. PICK x \in S : f[x] = k
  BY <1>6 DEF Surjection
<1> QED
  BY <1>7

LEMMA SortedIs ==
    ASSUME NEW S, IsFiniteSet(S), NEW key, Tells(S, key)
    PROVE  /\ Sorted(S, key) \in Seq(S) /\ Len(Sorted(S, key)) = Cardinality(S)
           /\ DOMAIN Sorted(S, key) = 1 .. Cardinality(S) /\ Cardinality(S) \in Nat
           /\ \A k \in 1 .. Cardinality(S) : Before(S, key, Sorted(S, key)[k]) = k - 1
           /\ \A j, k \in 1 .. Cardinality(S) :
                 j < k <=> key[Sorted(S, key)[j]] < key[Sorted(S, key)[k]]
           /\ \A x \in S : \E k \in 1 .. Cardinality(S) : Sorted(S, key)[k] = x
<1> DEFINE n == Cardinality(S)
           s == Sorted(S, key)
<1>1. n \in Nat
  BY FS_CardinalityType
<1>2. ASSUME NEW k \in 1 .. n
      PROVE  s[k] \in S /\ Before(S, key, s[k]) = k - 1
  <2>1. k - 1 \in 0 .. n - 1
    BY <1>1
  <2>2. \E x \in S : Before(S, key, x) = k - 1
    BY <2>1, PlaceTaken
  <2> QED
    BY <2>2 DEF Sorted, Before
<1>3. s = [k \in 1 .. n |-> s[k]]
  BY DEF Sorted
<1> HIDE DEF s
<1>4. s \in Seq(S) /\ Len(s) = n /\ DOMAIN s = 1 .. n
  <2>1. s \in [1 .. n -> S]
    BY <1>2, <1>3
  <2> QED
    BY <1>1, <2>1
<1>5. \A j, k \in 1 .. n : j < k <=> key[s[j]] < key[s[k]]
  <2> SUFFICES ASSUME NEW j \in 1 .. n, NEW k \in 1 .. n
               PROVE  j < k <=> key[s[j]] < key[s[k]]
    OBVIOUS
  <2>1. key[s[j]] < key[s[k]] <=> Before(S, key, s[j]) < Before(S, key, s[k])
    BY <1>2, PlaceGrows
  <2> QED
    BY <1>1, <1>2, <2>1
<1>6. ASSUME NEW x \in S
      PROVE  \E k \in 1 .. n : s[k] = x
  <2>1. PICK r \in 0 .. n - 1 : r = Before(S, key, x)
    BY PlaceGrows
  <2>2. r + 1 \in 1 .. n /\ Before(S, key, s[r + 1]) = r
    <3>1. r + 1 \in 1 .. n /\ (r + 1) - 1 = r
      BY <1>1
    <3> QED
      BY <1>2, <3>1
  <2>3. s[r + 1] \in S /\ ~ (key[x] < key[s[r + 1]]) /\ ~ (key[s[r + 1]] < key[x])
    BY <1>1, <1>2, <2>1, <2>2, PlaceGrows
  <2> QED
    BY <2>2, <2>3 DEF Tells
<1> QED
  BY <1>1, <1>2, <1>4, <1>5, <1>6 DEF s

LEMMA AscendingIs ==
    ASSUME NEW places, IsFiniteSet(places), \A k \in places : k \in Int
    PROVE  /\ Cardinality(places) \in Nat
           /\ Ascending(places) \in [1 .. Cardinality(places) -> places]
           /\ \A j, k \in 1 .. Cardinality(places) :
                 j < k <=> Ascending(places)[j] < Ascending(places)[k]
           /\ \A p \in places : \E k \in 1 .. Cardinality(places) : Ascending(places)[k] = p
<1> DEFINE key == [k \in places |-> k]
           n == Cardinality(places)
           s == Sorted(places, key)
<1>1. Tells(places, key)
  BY DEF Tells
<1>2. \A p \in places : key[p] = p
  OBVIOUS
<1> HIDE DEF key
<1>3. /\ s \in Seq(places) /\ Len(s) = n /\ DOMAIN s = 1 .. n /\ n \in Nat
      /\ \A j, k \in 1 .. n : j < k <=> key[s[j]] < key[s[k]]
      /\ \A p \in places : \E k \in 1 .. n : s[k] = p
  BY <1>1, SortedIs
<1>4. s = Ascending(places)
  BY DEF Ascending, key
<1> HIDE DEF s, n
<1>5. s \in [1 .. n -> places]
  BY <1>3
<1>6. \A j, k \in 1 .. n : j < k <=> s[j] < s[k]
  BY <1>2, <1>3, <1>5
<1> QED
  BY <1>3, <1>4, <1>5, <1>6 DEF n

\* What is chosen stands at increasing places.
Picks(c, s, places, at) ==
    /\ c \in Seq(Range(s)) /\ DOMAIN c = DOMAIN at
    /\ at \in [DOMAIN c -> places]
    /\ \A j, k \in DOMAIN c : j < k <=> at[j] < at[k]
    /\ \A p \in places : \E k \in DOMAIN c : at[k] = p
    /\ \A k \in DOMAIN c : c[k] = s[at[k]]

LEMMA ChosenIs ==
    ASSUME NEW X, NEW s \in Seq(X), NEW places \in SUBSET DOMAIN s
    PROVE  /\ Chosen(s, places) \in Seq(X)
           /\ Len(Chosen(s, places)) = Cardinality(places)
           /\ \E at : Picks(Chosen(s, places), s, places, at)
<1> DEFINE at == Ascending(places)
           n == Cardinality(places)
           c == Chosen(s, places)
<1>1. IsFiniteSet(places) /\ \A k \in places : k \in Int
  <2>1. DOMAIN s = 1 .. Len(s) /\ Len(s) \in Nat
    OBVIOUS
  <2>2. IsFiniteSet(1 .. Len(s))
    BY <2>1, FS_Interval
  <2>3. \A k \in places : k \in Int
    BY <2>1
  <2> QED
    BY <2>1, <2>2, <2>3, FS_Subset
<1>2. /\ n \in Nat /\ at \in [1 .. n -> places]
      /\ \A j, k \in 1 .. n : j < k <=> at[j] < at[k]
      /\ \A p \in places : \E k \in 1 .. n : at[k] = p
  BY <1>1, AscendingIs
<1> HIDE DEF at, n
<1>3. c = [j \in 1 .. n |-> s[at[j]]]
  BY <1>2 DEF Chosen, at
<1> HIDE DEF c
<1>4. \A k \in 1 .. n : s[at[k]] \in X /\ s[at[k]] \in Range(s)
  BY <1>2 DEF Range
<1>5. c \in [1 .. n -> X] /\ c \in [1 .. n -> Range(s)]
  BY <1>3, <1>4
<1>6. c \in Seq(X) /\ c \in Seq(Range(s)) /\ Len(c) = n /\ DOMAIN c = 1 .. n
  BY <1>2, <1>5
<1>7. Picks(c, s, places, at)
  BY <1>2, <1>3, <1>6 DEF Picks
<1> QED
  BY <1>6, <1>7 DEF c, n

\* A row comes within the first c if fewer than c of the numbers that the rows may
\* have are below its own.
LEMMA WithinFirst ==
    ASSUME NEW S, IsFiniteSet(S), NEW key, Tells(S, key), NEW x \in S,
           NEW M, IsFiniteSet(M), \A y \in S : key[y] \in M,
           NEW c \in Nat, Cardinality({m \in M : m < key[x]}) < c
    PROVE  \E k \in 1 .. c : k <= Cardinality(S) /\ Sorted(S, key)[k] = x
<1> DEFINE B == {y \in S : key[y] < key[x]}
           L == {m \in M : m < key[x]}
           f == [y \in B |-> key[y]]
           s == Sorted(S, key)
           n == Cardinality(S)
<1>1. IsFiniteSet(L) /\ IsFiniteSet(B)
  BY FS_Subset
<1>2. f \in Injection(B, L)
  BY DEF Tells, Injection, IsInjective
<1>3. Cardinality(B) <= Cardinality(L) /\ Cardinality(B) \in Nat /\ Cardinality(L) \in Nat
  <2> HIDE DEF f, B, L
  <2> QED
    BY <1>1, <1>2, FS_Injection, FS_CardinalityType
<1>4. Before(S, key, x) = Cardinality(B)
  BY DEF Before
<1>5. Cardinality(L) < c
  OBVIOUS
<1> HIDE DEF B, L, f, s, n
<1>6. /\ n \in Nat
      /\ \A k \in 1 .. n : Before(S, key, s[k]) = k - 1
      /\ \A y \in S : \E k \in 1 .. n : s[k] = y
  BY SortedIs DEF s, n
<1>7. PICK k \in 1 .. n : s[k] = x
  BY <1>6
<1>8. k - 1 = Cardinality(B)
  BY <1>4, <1>6, <1>7
<1>9. k \in 1 .. c
  BY <1>3, <1>5, <1>6, <1>8
<1> QED
  BY <1>6, <1>7, <1>9 DEF s, n

\* A list put together from the lists ss[1], ..., ss[n]: the place p holds the
\* member at[p][2] of the list at[p][1].
Joins(s, ss, n, at) ==
    /\ at \in [DOMAIN s -> (1 .. n) \X Nat]
    /\ \A p \in DOMAIN s : at[p][2] \in DOMAIN ss[at[p][1]] /\ s[p] = ss[at[p][1]][at[p][2]]
    /\ \A i \in 1 .. n : \A j \in DOMAIN ss[i] : \E p \in DOMAIN s : at[p] = <<i, j>>
    /\ \A p, q \in DOMAIN s :
          p < q => \/ at[p][1] < at[q][1]
                  \/ (at[p][1] = at[q][1] /\ at[p][2] < at[q][2])

LEMMA JoinsOne ==
    ASSUME NEW X, NEW ss, ss[1] \in Seq(X)
    PROVE  \E at : Joins(ss[1], ss, 1, at)
<1> DEFINE at == [p \in DOMAIN ss[1] |-> <<1, p>>]
<1>1. DOMAIN ss[1] = 1 .. Len(ss[1]) /\ Len(ss[1]) \in Nat
  OBVIOUS
<1>2. \A p \in DOMAIN ss[1] : at[p][1] = 1 /\ at[p][2] = p /\ at[p] = <<1, p>>
  OBVIOUS
<1>3. at \in [DOMAIN ss[1] -> (1 .. 1) \X Nat]
  BY <1>1
<1> HIDE DEF at
<1>4. 1 .. 1 = {1}
  OBVIOUS
<1>5. \A p \in DOMAIN ss[1] :
         at[p][2] \in DOMAIN ss[at[p][1]] /\ ss[1][p] = ss[at[p][1]][at[p][2]]
  BY <1>2
<1>6. \A i \in 1 .. 1 : \A j \in DOMAIN ss[i] : \E p \in DOMAIN ss[1] : at[p] = <<i, j>>
  BY <1>2, <1>4
<1>7. Joins(ss[1], ss, 1, at)
  BY <1>1, <1>2, <1>3, <1>5, <1>6 DEF Joins
<1> QED
  BY <1>7

LEMMA JoinsNext ==
    ASSUME NEW X, NEW ss, NEW m \in Nat, NEW s \in Seq(X), ss[m + 1] \in Seq(X),
           NEW at, Joins(s, ss, m, at)
    PROVE  \E b : Joins(s \o ss[m + 1], ss, m + 1, b)
<1> DEFINE t == ss[m + 1]
           u == s \o t
           b == [p \in DOMAIN u |-> IF p <= Len(s) THEN at[p] ELSE <<m + 1, p - Len(s)>>]
<1>1. /\ Len(s) \in Nat /\ Len(t) \in Nat /\ Len(u) = Len(s) + Len(t)
      /\ DOMAIN s = 1 .. Len(s) /\ DOMAIN t = 1 .. Len(t) /\ DOMAIN u = 1 .. Len(s) + Len(t)
  OBVIOUS
<1>2. \A p \in DOMAIN s : p \in DOMAIN u /\ u[p] = s[p] /\ b[p] = at[p]
  BY <1>1
<1>3. ASSUME NEW p \in DOMAIN u, ~ (p <= Len(s))
      PROVE  /\ p - Len(s) \in DOMAIN t /\ u[p] = t[p - Len(s)]
             /\ b[p] = <<m + 1, p - Len(s)>> /\ b[p][1] = m + 1 /\ b[p][2] = p - Len(s)
  BY <1>1, <1>3
<1>4. \A p \in DOMAIN u : p <= Len(s) => p \in DOMAIN s
  BY <1>1
<1>5. \A p \in DOMAIN s : at[p] \in (1 .. m) \X Nat
  BY DEF Joins
<1> HIDE DEF b, u, t
<1>6. b \in [DOMAIN u -> (1 .. m + 1) \X Nat]
  <2>1. ASSUME NEW p \in DOMAIN u
        PROVE  b[p] \in (1 .. m + 1) \X Nat
    <3>1. CASE p <= Len(s)
      BY <1>2, <1>4, <1>5, <3>1
    <3>2. CASE ~ (p <= Len(s))
      <4>1. b[p] = <<m + 1, p - Len(s)>> /\ p - Len(s) \in Nat /\ m + 1 \in 1 .. m + 1
        BY <1>1, <1>3, <3>2
      <4> QED
        BY <4>1
    <3> QED
      BY <3>1, <3>2
  <2> QED
    BY <2>1 DEF b
<1>7. ASSUME NEW p \in DOMAIN u
      PROVE  b[p][2] \in DOMAIN ss[b[p][1]] /\ u[p] = ss[b[p][1]][b[p][2]]
  <2>1. CASE p <= Len(s)
    BY <1>2, <1>4, <2>1 DEF Joins
  <2>2. CASE ~ (p <= Len(s))
    BY <1>3, <2>2 DEF t
  <2> QED
    BY <2>1, <2>2
<1>8. ASSUME NEW i \in 1 .. m + 1, NEW j \in DOMAIN ss[i]
      PROVE  \E p \in DOMAIN u : b[p] = <<i, j>>
  <2>1. CASE i \in 1 .. m
    <3>1. PICK p \in DOMAIN s : at[p] = <<i, j>>
      BY <2>1 DEF Joins
    <3> QED
      BY <1>2, <3>1
  <2>2. CASE i = m + 1
    <3>1. j \in DOMAIN t
      BY <2>2 DEF t
    <3>2. Len(s) + j \in DOMAIN u /\ ~ (Len(s) + j <= Len(s)) /\ (Len(s) + j) - Len(s) = j
      BY <1>1, <3>1
    <3> QED
      BY <1>3, <2>2, <3>2
  <2> QED
    BY <2>1, <2>2
<1>9. ASSUME NEW p \in DOMAIN u, NEW q \in DOMAIN u, p < q
      PROVE  b[p][1] < b[q][1] \/ (b[p][1] = b[q][1] /\ b[p][2] < b[q][2])
  <2>1. CASE q <= Len(s)
    <3>1. p \in DOMAIN s /\ q \in DOMAIN s
      BY <1>1, <1>4, <1>9, <2>1
    <3> QED
      BY <1>2, <1>9, <3>1 DEF Joins
  <2>2. CASE ~ (q <= Len(s)) /\ p <= Len(s)
    <3>1. b[p][1] \in 1 .. m /\ b[q][1] = m + 1
      BY <1>2, <1>3, <1>4, <1>5, <2>2
    <3> QED
      BY <3>1
  <2>3. CASE ~ (q <= Len(s)) /\ ~ (p <= Len(s))
    BY <1>1, <1>3, <1>9, <2>3
  <2> QED
    BY <2>1, <2>2, <2>3
<1>10. Joins(u, ss, m + 1, b)
  BY <1>6, <1>7, <1>8, <1>9 DEF Joins
<1> QED
  BY <1>10 DEF u, t

\* The lists joined up to each place, the way FlattenSeq defines them.
Joined(ss, f, n) ==
    f = [i \in 1 .. n |-> IF i = 1 THEN ss[i] ELSE f[i - 1] \o ss[i]]

LEMMA JoinedExists ==
    ASSUME NEW ss, NEW n \in Nat
    PROVE  \E f : Joined(ss, f, n)
<1> DEFINE S == {m \in Nat : \E f : Joined(ss, f, m)}
<1>1. 0 \in S
  <2>1. Joined(ss, [i \in 1 .. 0 |-> 0], 0)
    BY DEF Joined
  <2> QED
    BY <2>1
<1>2. ASSUME NEW m \in Nat, m \in S
      PROVE  m + 1 \in S
  <2>1. PICK f : Joined(ss, f, m)
    BY <1>2
  <2> DEFINE last == IF m = 0 THEN ss[1] ELSE f[m] \o ss[m + 1]
             g == [i \in 1 .. m + 1 |-> IF i = m + 1 THEN last ELSE f[i]]
             h == [i \in 1 .. m + 1 |-> IF i = 1 THEN ss[i] ELSE g[i - 1] \o ss[i]]
  <2>2. ASSUME NEW i \in 1 .. m + 1
        PROVE  g[i] = IF i = 1 THEN ss[i] ELSE g[i - 1] \o ss[i]
    <3>1. CASE i = m + 1
      <4>1. g[i] = last
        BY <3>1
      <4>2. CASE m = 0
        BY <3>1, <4>1, <4>2
      <4>3. CASE m # 0
        <5>1. i - 1 \in 1 .. m + 1 /\ i - 1 # m + 1 /\ i # 1 /\ i - 1 = m
          BY <3>1, <4>3
        <5>2. g[i - 1] = f[m]
          BY <5>1
        <5> QED
          BY <3>1, <4>1, <4>3, <5>1, <5>2
      <4> QED
        BY <4>2, <4>3
    <3>2. CASE i # m + 1
      <4>1. i \in 1 .. m /\ g[i] = f[i]
        BY <3>2
      <4>2. f[i] = IF i = 1 THEN ss[i] ELSE f[i - 1] \o ss[i]
        BY <2>1, <4>1 DEF Joined
      <4>3. i # 1 => i - 1 \in 1 .. m + 1 /\ i - 1 # m + 1
        BY <4>1
      <4>4. i # 1 => g[i - 1] = f[i - 1]
        BY <4>3
      <4> QED
        BY <4>1, <4>2, <4>4
    <3> QED
      BY <3>1, <3>2
  <2>3. g = h
    <3>1. DOMAIN g = 1 .. m + 1 /\ DOMAIN h = 1 .. m + 1
      OBVIOUS
    <3>2. g = [i \in 1 .. m + 1 |-> g[i]]
      OBVIOUS
    <3> HIDE DEF g
    <3> QED
      BY <2>2, <3>2
  <2>4. Joined(ss, g, m + 1)
    BY <2>3 DEF Joined
  <2> QED
    BY <2>4
<1> HIDE DEF S
<1>3. Nat \subseteq S
  BY <1>1, <1>2, SetInduction
<1> QED
  BY <1>3 DEF S

LEMMA FlattenIs ==
    ASSUME NEW X, NEW ss, NEW n \in Nat, DOMAIN ss = 1 .. n, Len(ss) = n,
           \A i \in 1 .. n : ss[i] \in Seq(X)
    PROVE  FlattenSeq(ss) \in Seq(X) /\ \E at : Joins(FlattenSeq(ss), ss, n, at)
<1>1. CASE n = 0
  <2>1. FlattenSeq(ss) = ss
    BY <1>1 DEF FlattenSeq
  <2>2. ss = <<>>
    BY <1>1
  <2>3. Joins(<<>>, ss, 0, <<>>)
    BY DEF Joins
  <2> QED
    BY <1>1, <2>1, <2>2, <2>3
<1>2. CASE n # 0
  <2> DEFINE flat == CHOOSE f : Joined(ss, f, n)
  <2>1. Joined(ss, flat, n)
    BY JoinedExists
  <2>2. FlattenSeq(ss) = flat[n]
    BY <1>2 DEF FlattenSeq, Joined
  <2> HIDE DEF flat
  <2> DEFINE S == {m \in Nat : m + 1 \in 1 .. n =>
                     flat[m + 1] \in Seq(X) /\ \E at : Joins(flat[m + 1], ss, m + 1, at)}
  <2>3. 0 \in S
    <3>1. flat[1] = ss[1] /\ ss[1] \in Seq(X)
      BY <1>2, <2>1 DEF Joined
    <3> QED
      BY <3>1, JoinsOne
  <2>4. ASSUME NEW m \in Nat, m \in S
        PROVE  m + 1 \in S
    <3>0. PICK k \in Nat : k = m + 1
      OBVIOUS
    <3> SUFFICES ASSUME k + 1 \in 1 .. n
                 PROVE  /\ flat[k + 1] \in Seq(X)
                        /\ \E at : Joins(flat[k + 1], ss, k + 1, at)
      BY <3>0
    <3>1. m + 1 \in 1 .. n
      BY <3>0
    <3>2. flat[k] \in Seq(X)
      BY <2>4, <3>0, <3>1
    <3>3. PICK at : Joins(flat[k], ss, k, at)
      BY <2>4, <3>0, <3>1
    <3>4. flat[k + 1] = flat[k] \o ss[k + 1]
      <4>1. k + 1 # 1 /\ (k + 1) - 1 = k
        BY <3>0
      <4>2. flat[k + 1] = IF k + 1 = 1 THEN ss[k + 1] ELSE flat[(k + 1) - 1] \o ss[k + 1]
        BY <2>1 DEF Joined
      <4> QED
        BY <4>1, <4>2
    <3>5. ss[k + 1] \in Seq(X)
      OBVIOUS
    <3>6. \E b : Joins(flat[k] \o ss[k + 1], ss, k + 1, b)
      BY <3>2, <3>3, <3>5, JoinsNext
    <3> QED
      BY <3>2, <3>4, <3>5, <3>6
  <2> HIDE DEF S
  <2>5. Nat \subseteq S
    BY <2>3, <2>4, SetInduction
  <2>6. n - 1 \in Nat /\ (n - 1) + 1 = n /\ n \in 1 .. n
    BY <1>2
  <2>7. n - 1 \in S
    BY <2>5, <2>6
  <2> QED
    BY <2>2, <2>6, <2>7 DEF S
<1> QED
  BY <1>1, <1>2

LEMMA IsList ==
    ASSUME NEW X, NEW s, Len(s) \in Nat, s \in [1 .. Len(s) -> X]
    PROVE  s \in Seq(X)
  OBVIOUS

\* A list in place of the head of another.
LEMMA SplicedIs ==
    ASSUME NEW A, NEW s \in Seq(A), s # <<>>, NEW B, NEW t \in Seq(B),
           NEW u, u = t \o Tail(s)
    PROVE  /\ u \in Seq(A \cup B) /\ Len(s) \in Nat /\ Len(t) \in Nat
           /\ 1 \in DOMAIN s /\ Head(s) = s[1]
           /\ \A k \in DOMAIN u :
                 \/ k \in DOMAIN t /\ u[k] = t[k]
                 \/ (k - Len(t) + 1 \in DOMAIN s /\ k - Len(t) + 1 > 1 /\ u[k] = s[k - Len(t) + 1])
<1>1. Len(s) \in Nat /\ Len(s) > 0 /\ DOMAIN s = 1 .. Len(s) /\ Len(t) \in Nat /\ DOMAIN t = 1 .. Len(t)
  OBVIOUS
<1>2. /\ Tail(s) \in Seq(A) /\ Len(Tail(s)) = Len(s) - 1
      /\ \A k \in 1 .. Len(s) - 1 : Tail(s)[k] = s[k + 1]
  BY <1>1
<1>3. \A k \in 1 .. Len(s) - 1 : Tail(s)[k] \in A \cup B
  BY <1>2
<1>4. Tail(s) \in Seq(A \cup B) /\ t \in Seq(A \cup B)
  <2>1. t \in [1 .. Len(t) -> A \cup B]
    BY <1>1
  <2>2. Tail(s) \in [1 .. Len(Tail(s)) -> A \cup B] /\ Len(Tail(s)) \in Nat
    <3> DEFINE v == Tail(s)
    <3>1. v \in Seq(A) /\ Len(v) = Len(s) - 1 /\ \A k \in 1 .. Len(s) - 1 : v[k] \in A \cup B
      BY <1>2, <1>3
    <3> HIDE DEF v
    <3>2. v \in [1 .. Len(v) -> A \cup B] /\ Len(v) \in Nat
      BY <1>1, <3>1
    <3> QED
      BY <3>2 DEF v
  <2>3. t \in Seq(A \cup B)
    BY <1>1, <2>1
  <2> DEFINE v == Tail(s)
  <2> HIDE DEF v
  <2>4. v \in Seq(A \cup B)
    <3>1. v \in [1 .. Len(v) -> A \cup B] /\ Len(v) \in Nat
      BY <2>2 DEF v
    <3>2. PICK X : X = A \cup B
      OBVIOUS
    <3>3. v \in Seq(X)
      BY <3>1, <3>2, IsList
    <3> QED
      BY <3>2, <3>3
  <2> QED
    BY <2>3, <2>4 DEF v
<1>5. u \in Seq(A \cup B) /\ Len(u) = Len(t) + (Len(s) - 1) /\ DOMAIN u = 1 .. Len(t) + (Len(s) - 1)
  BY <1>1, <1>2, <1>4
<1>6. ASSUME NEW k \in DOMAIN u
      PROVE  \/ k \in DOMAIN t /\ u[k] = t[k]
             \/ (k - Len(t) + 1 \in DOMAIN s /\ k - Len(t) + 1 > 1 /\ u[k] = s[k - Len(t) + 1])
  <2>1. CASE k <= Len(t)
    BY <1>1, <1>4, <1>5, <2>1
  <2>2. CASE ~ (k <= Len(t))
    <3>1. k - Len(t) \in 1 .. Len(s) - 1
      BY <1>1, <1>5, <2>2
    <3>2. u[k] = Tail(s)[k - Len(t)]
      BY <1>1, <1>2, <1>4, <1>5, <2>2
    <3> QED
      BY <1>1, <1>2, <3>1, <3>2
  <2> QED
    BY <2>1, <2>2
<1> QED
  BY <1>1, <1>5, <1>6

LEMMA AppendedIs ==
    ASSUME NEW A, NEW s \in Seq(A), NEW B, NEW t \in Seq(B), NEW u, u = s \o t
    PROVE  /\ u \in Seq(A \cup B) /\ Len(s) \in Nat /\ Len(u) = Len(s) + Len(t)
           /\ DOMAIN s = 1 .. Len(s) /\ DOMAIN t = 1 .. Len(t) /\ Len(t) \in Nat
           /\ \A k \in DOMAIN s : k \in DOMAIN u /\ u[k] = s[k]
           /\ \A k \in DOMAIN t : Len(s) + k \in DOMAIN u /\ u[Len(s) + k] = t[k]
           /\ \A k \in DOMAIN u :
                 \/ k \in DOMAIN s /\ u[k] = s[k]
                 \/ (k - Len(s) \in DOMAIN t /\ u[k] = t[k - Len(s)])
<1>1. Len(s) \in Nat /\ DOMAIN s = 1 .. Len(s) /\ Len(t) \in Nat /\ DOMAIN t = 1 .. Len(t)
  OBVIOUS
<1>2. t \in Seq(A \cup B) /\ s \in Seq(A \cup B)
  <2>1. s \in [1 .. Len(s) -> A \cup B] /\ t \in [1 .. Len(t) -> A \cup B]
    BY <1>1
  <2> QED
    BY <1>1, <2>1
<1>3. u \in Seq(A \cup B) /\ Len(u) = Len(s) + Len(t) /\ DOMAIN u = 1 .. Len(s) + Len(t)
  BY <1>1, <1>2
<1>4. ASSUME NEW k \in DOMAIN u
      PROVE  \/ k \in DOMAIN s /\ u[k] = s[k]
             \/ (k - Len(s) \in DOMAIN t /\ u[k] = t[k - Len(s)])
  <2>1. CASE k <= Len(s)
    BY <1>1, <1>2, <1>3, <2>1
  <2>2. CASE ~ (k <= Len(s))
    BY <1>1, <1>2, <1>3, <2>2
  <2> QED
    BY <2>1, <2>2
<1>5. \A k \in DOMAIN s : k \in DOMAIN u /\ u[k] = s[k]
  BY <1>1, <1>3
<1>6. \A k \in DOMAIN t : Len(s) + k \in DOMAIN u /\ u[Len(s) + k] = t[k]
  BY <1>1, <1>2, <1>3
<1> QED
  BY <1>1, <1>3, <1>4, <1>5, <1>6

-----------------------------------------------------------------------------
\* A list that grows and takes every place counts the places.
Counts(f, m, l) ==
    /\ f \in [1 .. m -> 1 .. l]
    /\ \A j, k \in 1 .. m : j < k => f[j] < f[k]
    /\ \A p \in 1 .. l : \E k \in 1 .. m : f[k] = p

LEMMA IdentityIs ==
    ASSUME NEW m \in Nat, NEW l \in Nat, NEW f, Counts(f, m, l)
    PROVE  m = l /\ \A k \in 1 .. m : f[k] = k
<1> USE DEF Counts
<1>1. ASSUME NEW k \in 1 .. m, f[k] # k
      PROVE  FALSE
  <2> DEFINE S == {j \in 1 .. m : f[j] # j}
  <2>0. k \in S /\ \A j \in S : j \in Nat
    BY <1>1
  <2>1. S \in SUBSET Nat /\ S # {}
    <3> HIDE DEF S
    <3> QED
      BY <2>0, Zenon
  <2>2. PICK i \in S : \A j \in S : i <= j
    BY <2>1, LeastNumber
  <2>3. i \in 1 .. m /\ f[i] # i /\ f[i] \in 1 .. l
    OBVIOUS
  <2>4. \A j \in 1 .. m : j < i => f[j] = j
    BY <2>2
  <2>5. CASE f[i] < i
    <3>1. f[i] \in 1 .. m
      BY <2>3, <2>5
    <3> QED
      BY <2>3, <2>4, <2>5, <3>1
  <2>6. CASE i < f[i]
    <3>1. i \in 1 .. l
      BY <2>3, <2>6
    <3>2. PICK j \in 1 .. m : f[j] = i
      BY <3>1
    <3>3. j # i /\ ~ (j < i)
      BY <2>3, <2>4, <3>2
    <3>4. f[i] < f[j]
      BY <2>3, <3>3
    <3> QED
      BY <2>3, <2>6, <3>2, <3>4
  <2> QED
    BY <2>3, <2>5, <2>6
<1>2. \A k \in 1 .. m : k \in 1 .. l
  BY <1>1
<1>3. \A p \in 1 .. l : p \in 1 .. m
  BY <1>1
<1>4. m <= l
  <2>1. CASE m = 0
    BY <2>1
  <2>2. CASE m # 0
    <3>1. m \in 1 .. m
      BY <2>2
    <3>2. m \in 1 .. l
      BY <1>2, <3>1
    <3> QED
      BY <3>2
  <2> QED
    BY <2>1, <2>2
<1>5. l <= m
  <2>1. CASE l = 0
    BY <2>1
  <2>2. CASE l # 0
    <3>1. l \in 1 .. l
      BY <2>2
    <3>2. l \in 1 .. m
      BY <1>3, <3>1
    <3> QED
      BY <3>2
  <2> QED
    BY <2>1, <2>2
<1> QED
  BY <1>1, <1>4, <1>5

\* What is chosen of lists that were put together, where one of them stands.
ListsOf(X, ss, n) == \A i \in 1 .. n : ss[i] \in Seq(X)

LEMMA BlockIs ==
    ASSUME NEW X, NEW ss, NEW n \in Nat, ListsOf(X, ss, n),
           NEW s \in Seq(X), NEW at, Joins(s, ss, n, at),
           NEW i \in 1 .. n, NEW places, places = {p \in DOMAIN s : at[p][1] = i}
    PROVE  Chosen(s, places) = ss[i]
<1> DEFINE c == Chosen(s, places)
           t == ss[i]
<1>1. c \in Seq(X)
  BY ChosenIs
<1>2. PICK b : Picks(c, s, places, b)
  BY ChosenIs
<1> HIDE DEF c
<1>3. t \in Seq(X)
  BY DEF ListsOf
<1> HIDE DEF t
<1>4. /\ Len(c) \in Nat /\ DOMAIN c = 1 .. Len(c)
      /\ Len(t) \in Nat /\ DOMAIN t = 1 .. Len(t)
  BY <1>1, <1>3
<1> DEFINE f == [k \in 1 .. Len(c) |-> at[b[k]][2]]
<1>5. ASSUME NEW k \in 1 .. Len(c)
      PROVE  /\ b[k] \in DOMAIN s /\ at[b[k]][1] = i /\ f[k] = at[b[k]][2]
             /\ f[k] \in 1 .. Len(t) /\ c[k] = t[f[k]]
  <2>1. b[k] \in places /\ c[k] = s[b[k]]
    BY <1>2, <1>4 DEF Picks
  <2>2. b[k] \in DOMAIN s /\ at[b[k]][1] = i
    BY <2>1
  <2>3. at[b[k]][2] \in DOMAIN ss[i] /\ s[b[k]] = ss[i][at[b[k]][2]]
    BY <2>2 DEF Joins
  <2> QED
    BY <1>4, <2>1, <2>2, <2>3 DEF t
<1>6. f \in [1 .. Len(c) -> 1 .. Len(t)]
  BY <1>5
<1>7. ASSUME NEW j \in 1 .. Len(c), NEW k \in 1 .. Len(c), j < k
      PROVE  f[j] < f[k]
  <2>1. b[j] < b[k]
    BY <1>2, <1>4, <1>7 DEF Picks
  <2>2. PICK p \in DOMAIN s, q \in DOMAIN s : p = b[j] /\ q = b[k]
    BY <1>5
  <2>0. at \in [DOMAIN s -> (1 .. n) \X Nat]
    BY DEF Joins
  <2>3. PICK u \in 1 .. n, v \in Nat : at[p] = <<u, v>>
    BY <2>0
  <2>4. PICK w \in 1 .. n, x \in Nat : at[q] = <<w, x>>
    BY <2>0
  <2>5. u = i /\ w = i /\ f[j] = v /\ f[k] = x
    BY <1>5, <2>2, <2>3, <2>4
  <2>6. u < w \/ (u = w /\ v < x)
    BY <2>1, <2>2, <2>3, <2>4 DEF Joins
  <2> QED
    BY <2>5, <2>6
<1>8. ASSUME NEW j \in 1 .. Len(t)
      PROVE  \E k \in 1 .. Len(c) : f[k] = j
  <2>1. j \in DOMAIN ss[i]
    BY <1>4 DEF t
  <2>2. PICK p \in DOMAIN s : at[p] = <<i, j>>
    BY <2>1 DEF Joins
  <2>3. p \in places
    BY <2>2
  <2>4. PICK k \in DOMAIN c : b[k] = p
    BY <1>2, <2>3 DEF Picks
  <2> QED
    BY <1>4, <1>5, <2>2, <2>4
<1> HIDE DEF f
<1>9. Len(c) = Len(t) /\ \A k \in 1 .. Len(c) : f[k] = k
  <2>1. PICK m \in Nat, l \in Nat : m = Len(c) /\ l = Len(t)
    BY <1>4
  <2>2. Counts(f, m, l)
    BY <1>6, <1>7, <1>8, <2>1 DEF Counts
  <2>3. m = l /\ \A k \in 1 .. m : f[k] = k
    BY <2>2, IdentityIs
  <2> QED
    BY <2>1, <2>3
<1>10. \A k \in 1 .. Len(c) : c[k] = t[k]
  BY <1>5, <1>9
<1>11. c = t
  BY <1>1, <1>3, <1>9, <1>10, SeqEqual
<1> QED
  BY <1>11 DEF c, t

\* A list of different members of a finite set is no longer than the set.
LEMMA DistinctBound ==
    ASSUME NEW T, IsFiniteSet(T), NEW s \in Seq(T),
           \A j, k \in DOMAIN s : s[j] = s[k] => j = k
    PROVE  Len(s) <= Cardinality(T)
<1>1. Len(s) \in Nat /\ DOMAIN s = 1 .. Len(s)
  OBVIOUS
<1>2. s \in Injection(1 .. Len(s), T)
  BY <1>1 DEF Injection, IsInjective
<1>3. Cardinality(1 .. Len(s)) <= Cardinality(T)
  BY <1>2, FS_Injection
<1>4. Cardinality(1 .. Len(s)) = Len(s)
  BY <1>1, FS_Interval
<1> QED
  BY <1>3, <1>4

\* The image of a finite set is finite.
LEMMA ImageFinite ==
    ASSUME NEW S, IsFiniteSet(S), NEW f, NEW T, \A x \in S : f[x] \in T,
           \A y \in T : \E x \in S : f[x] = y
    PROVE  IsFiniteSet(T)
<1> DEFINE g == [x \in S |-> f[x]]
<1>1. g \in Surjection(S, T)
  BY DEF Surjection
<1> QED
  BY <1>1, FS_Surjection

-----------------------------------------------------------------------------
\* Lists that are chosen from others, and put together of others.
\* What is chosen is the only list that takes the places in their order.
LEMMA ChosenOnly ==
    ASSUME NEW X, NEW s \in Seq(X), NEW places \in SUBSET DOMAIN s,
           NEW c \in Seq(X), NEW at, Picks(c, s, places, at)
    PROVE  c = Chosen(s, places)
<1> DEFINE d == Chosen(s, places)
<1>1. d \in Seq(X)
  BY ChosenIs
<1>2. PICK b : Picks(d, s, places, b)
  BY ChosenIs
<1> HIDE DEF d
<1>3. /\ Len(c) \in Nat /\ DOMAIN c = 1 .. Len(c)
      /\ Len(d) \in Nat /\ DOMAIN d = 1 .. Len(d)
  BY <1>1
<1>4. PICK m \in Nat, l \in Nat : m = Len(c) /\ l = Len(d)
  BY <1>3
<1>5. /\ at \in [1 .. m -> places] /\ b \in [1 .. l -> places]
      /\ \A j, k \in 1 .. m : j < k <=> at[j] < at[k]
      /\ \A j, k \in 1 .. l : j < k <=> b[j] < b[k]
      /\ \A p \in places : \E k \in 1 .. m : at[k] = p
      /\ \A p \in places : \E k \in 1 .. l : b[k] = p
      /\ \A k \in 1 .. m : c[k] = s[at[k]]
      /\ \A k \in 1 .. l : d[k] = s[b[k]]
  BY <1>2, <1>3, <1>4 DEF Picks
<1> DEFINE f == [k \in 1 .. m |-> CHOOSE j \in 1 .. l : b[j] = at[k]]
<1>6. ASSUME NEW k \in 1 .. m
      PROVE  f[k] \in 1 .. l /\ b[f[k]] = at[k]
  BY <1>5
<1>7. \A k \in 1 .. m : f[k] \in 1 .. l /\ b[f[k]] = at[k]
  BY <1>6
<1>8. f \in [1 .. m -> 1 .. l]
  BY <1>7
<1> HIDE DEF f
<1>9. ASSUME NEW j \in 1 .. m, NEW k \in 1 .. m, j < k
      PROVE  f[j] < f[k]
  <2>1. at[j] < at[k]
    BY <1>5, <1>9
  <2>2. b[f[j]] < b[f[k]]
    BY <1>7, <2>1
  <2>3. f[j] \in 1 .. l /\ f[k] \in 1 .. l
    BY <1>7
  <2> QED
    BY <1>5, <2>2, <2>3
<1>10. ASSUME NEW p \in 1 .. l
       PROVE  \E k \in 1 .. m : f[k] = p
  <2>1. b[p] \in places
    BY <1>5
  <2>2. PICK k \in 1 .. m : at[k] = b[p]
    BY <1>5, <2>1
  <2>3. f[k] \in 1 .. l /\ b[f[k]] = b[p]
    BY <1>7, <2>2
  <2>4. ~ (b[f[k]] < b[p]) /\ ~ (b[p] < b[f[k]])
    <3>1. b[p] \in Int
      <4>1. b[p] \in DOMAIN s
        BY <2>1
      <4> QED
        BY <4>1
    <3>2. PICK z \in Int : z = b[p]
      BY <3>1
    <3> QED
      BY <2>3, <3>2
  <2>5. ~ (f[k] < p) /\ ~ (p < f[k])
    BY <1>5, <2>3, <2>4
  <2> QED
    BY <2>3, <2>5
<1>11. Counts(f, m, l)
  BY <1>8, <1>9, <1>10 DEF Counts
<1>12. m = l /\ \A k \in 1 .. m : f[k] = k
  BY <1>11, IdentityIs
<1>13. \A k \in 1 .. m : c[k] = d[k]
  <2> TAKE k \in 1 .. m
  <2>1. f[k] = k /\ b[f[k]] = at[k] /\ k \in 1 .. l
    BY <1>7, <1>12
  <2>2. b[k] = at[k]
    BY <2>1
  <2>3. c[k] = s[at[k]] /\ d[k] = s[b[k]]
    BY <1>5, <2>1
  <2> QED
    BY <2>2, <2>3
<1>14. c = d
  BY <1>1, <1>4, <1>12, <1>13, SeqEqual
<1> QED
  BY <1>14 DEF d

\* A stretch of a list.
LEMMA StretchIs ==
    ASSUME NEW X, NEW s \in Seq(X), NEW p \in Nat, NEW c \in Seq(X), p + Len(c) <= Len(s),
           \A k \in 1 .. Len(c) : c[k] = s[p + k],
           NEW places, places = {k \in DOMAIN s : p < k /\ k <= p + Len(c)}
    PROVE  Chosen(s, places) = c
<1>1. PICK n \in Nat, m \in Nat : n = Len(c) /\ DOMAIN c = 1 .. n /\ m = Len(s) /\ DOMAIN s = 1 .. m
  OBVIOUS
<1> DEFINE at == [k \in 1 .. n |-> p + k]
<1>2. \A k \in 1 .. n : at[k] = p + k /\ at[k] \in places /\ c[k] = s[at[k]]
  BY <1>1
<1>3. at \in [1 .. n -> places]
  BY <1>2
<1> HIDE DEF at
<1>4. \A j, k \in 1 .. n : j < k <=> at[j] < at[k]
  BY <1>2
<1>5. ASSUME NEW q \in places
      PROVE  \E k \in 1 .. n : at[k] = q
  <2>1. PICK k : k = q - p
    OBVIOUS
  <2>2. k \in 1 .. n /\ p + k = q
    BY <1>1, <2>1
  <2> QED
    BY <1>2, <2>2
<1>6. DOMAIN at = 1 .. n /\ places \in SUBSET DOMAIN s
  BY <1>3
<1>7. c \in Seq(Range(s))
  <2>1. PICK A : A = Range(s)
    OBVIOUS
  <2>2. \A k \in 1 .. n : c[k] \in A
    <3>1. \A k \in 1 .. n : at[k] \in DOMAIN s /\ c[k] = s[at[k]]
      BY <1>2
    <3> QED
      BY <2>1, <3>1 DEF Range
  <2>3. c \in Seq(A)
    BY <1>1, <2>2
  <2> QED
    BY <2>1, <2>3
<1>8. Picks(c, s, places, at)
  BY <1>1, <1>2, <1>3, <1>4, <1>5, <1>6, <1>7 DEF Picks
<1> QED
  BY <1>6, <1>8, ChosenOnly

\* All of a list.
LEMMA AllChosen ==
    ASSUME NEW X, NEW s \in Seq(X), NEW places, places = DOMAIN s
    PROVE  Chosen(s, places) = s
<1>1. PICK m \in Nat : m = Len(s) /\ DOMAIN s = 1 .. m
  OBVIOUS
<1>2. places = {k \in DOMAIN s : 0 < k /\ k <= 0 + Len(s)}
  BY <1>1
<1>3. \A k \in 1 .. Len(s) : s[k] = s[0 + k]
  OBVIOUS
<1>4. 0 \in Nat /\ 0 + Len(s) <= Len(s)
  BY <1>1
<1> QED
  BY <1>2, <1>3, <1>4, StretchIs

\* A choice from the image of a choice is the image of one choice.
MadeOf(g, F, r) == g = [k \in 1 .. Len(r) |-> F[r[k]]]
KeptAlike(g, F, s, P, Q, PQ) ==
    \A k \in DOMAIN g : \A p \in P : g[k] = F[s[p]] => (k \in Q <=> p \in PQ)
LEMMA ChosenTwice ==
    ASSUME NEW X, NEW s \in Seq(X), NEW P \in SUBSET DOMAIN s, NEW r, r = Chosen(s, P),
           NEW Y, NEW F \in [X -> Y],
           NEW g, MadeOf(g, F, r),
           NEW Q \in SUBSET DOMAIN g, NEW PQ \in SUBSET P,
           KeptAlike(g, F, s, P, Q, PQ), NEW d, d = Chosen(s, PQ)
    PROVE  MadeOf(Chosen(g, Q), F, d)
<1> g = [k \in 1 .. Len(r) |-> F[r[k]]]
  BY DEF MadeOf
<1> \A k \in DOMAIN g : \A p \in P : g[k] = F[s[p]] => (k \in Q <=> p \in PQ)
  BY DEF KeptAlike
<1> SUFFICES Chosen(g, Q) = [j \in 1 .. Len(d) |-> F[d[j]]]
  BY DEF MadeOf
<1>1. r \in Seq(X) /\ d \in Seq(X)
  BY ChosenIs
<1>2. PICK at : Picks(r, s, P, at)
  BY ChosenIs
<1>3. PICK n \in Nat : n = Len(r) /\ DOMAIN r = 1 .. n
  BY <1>1
<1>4. /\ at \in [1 .. n -> P]
      /\ \A j, k \in 1 .. n : j < k <=> at[j] < at[k]
      /\ \A p \in P : \E k \in 1 .. n : at[k] = p
      /\ \A k \in 1 .. n : r[k] = s[at[k]]
  BY <1>2, <1>3 DEF Picks
<1>5. /\ DOMAIN g = 1 .. n /\ Len(g) = n
      /\ \A k \in 1 .. n : g[k] = F[r[k]] /\ r[k] \in X
  BY <1>1, <1>3
<1>6. g \in Seq(Y)
  <2>1. g \in [1 .. n -> Y]
    BY <1>3, <1>5
  <2> QED
    BY <2>1
<1>7. PICK c : c = Chosen(g, Q)
  OBVIOUS
<1>8. c \in Seq(Y)
  BY <1>6, <1>7, ChosenIs
<1>9. PICK b : Picks(c, g, Q, b)
  BY <1>6, <1>7, ChosenIs
<1>10. PICK m \in Nat : m = Len(c) /\ DOMAIN c = 1 .. m
  BY <1>8
<1>11. /\ b \in [1 .. m -> Q] /\ DOMAIN b = 1 .. m
       /\ \A j, k \in 1 .. m : j < k <=> b[j] < b[k]
       /\ \A q \in Q : \E k \in 1 .. m : b[k] = q
       /\ \A k \in 1 .. m : c[k] = g[b[k]]
  BY <1>9, <1>10 DEF Picks
<1>12. \A k \in 1 .. m : b[k] \in 1 .. n
  BY <1>5, <1>11
<1> DEFINE e == [k \in 1 .. m |-> r[b[k]]]
           to == [k \in 1 .. m |-> at[b[k]]]
<1>13. ASSUME NEW k \in 1 .. m
       PROVE  /\ e[k] = r[b[k]] /\ to[k] = at[b[k]] /\ to[k] \in PQ /\ e[k] = s[to[k]]
              /\ c[k] = F[e[k]] /\ e[k] \in X
  <2>1. PICK j \in 1 .. n : j = b[k] /\ j \in Q
    BY <1>11, <1>12
  <2>2. at[j] \in P /\ r[j] = s[at[j]] /\ g[j] = F[r[j]] /\ r[j] \in X
    BY <1>4, <1>5
  <2>3. at[j] \in PQ
    BY <1>5, <2>1, <2>2
  <2> QED
    BY <1>11, <2>1, <2>2, <2>3
<1>14. /\ e \in [1 .. m -> X] /\ to \in [1 .. m -> PQ]
       /\ \A k \in 1 .. m : e[k] = s[to[k]] /\ c[k] = F[e[k]] /\ to[k] = at[b[k]]
  BY <1>13
<1> HIDE DEF e, to
<1>15. e \in Seq(X) /\ Len(e) = m /\ DOMAIN e = 1 .. m /\ DOMAIN to = 1 .. m
  <2>1. e \in [1 .. m -> X] /\ DOMAIN to = 1 .. m /\ DOMAIN e = 1 .. m
    BY <1>14
  <2>2. e \in Seq(X)
    BY <2>1
  <2> QED
    BY <2>1, <2>2
<1>16. ASSUME NEW j \in 1 .. m, NEW k \in 1 .. m
       PROVE  j < k <=> to[j] < to[k]
  <2>1. PICK x \in 1 .. n, y \in 1 .. n : x = b[j] /\ y = b[k]
    BY <1>12
  <2>2. (j < k <=> x < y) /\ (x < y <=> at[x] < at[y])
    BY <1>4, <1>11, <2>1
  <2> QED
    BY <1>14, <2>1, <2>2
<1>17. ASSUME NEW p \in PQ
       PROVE  \E k \in 1 .. m : to[k] = p
  <2>1. PICK j \in 1 .. n : at[j] = p
    BY <1>4
  <2>2. g[j] = F[s[p]]
    BY <1>4, <1>5, <2>1
  <2>3. j \in Q
    BY <1>5, <2>2
  <2>4. PICK k \in 1 .. m : b[k] = j
    BY <1>11, <2>3
  <2> QED
    BY <1>14, <2>1, <2>4
<1>18. e \in Seq(Range(s))
  <2>1. PICK A : A = Range(s)
    OBVIOUS
  <2>2. \A k \in 1 .. m : e[k] \in A
    <3>1. \A k \in 1 .. m : to[k] \in DOMAIN s /\ e[k] = s[to[k]]
      BY <1>14
    <3> QED
      BY <2>1, <3>1 DEF Range
  <2>3. e \in Seq(A)
    BY <1>15, <2>2
  <2> QED
    BY <2>1, <2>3
<1>19. Picks(e, s, PQ, to)
  BY <1>14, <1>15, <1>16, <1>17, <1>18 DEF Picks
<1>20. PQ \in SUBSET DOMAIN s
  OBVIOUS
<1>21. e = d
  BY <1>15, <1>19, <1>20, ChosenOnly
<1> DEFINE h == [j \in 1 .. Len(d) |-> F[d[j]]]
<1>22. h = [j \in 1 .. m |-> F[e[j]]] /\ DOMAIN h = 1 .. m
  BY <1>15, <1>21
<1>23. c = h
  <2>1. c = [k \in 1 .. m |-> c[k]]
    BY <1>8, <1>10
  <2>2. [k \in 1 .. m |-> c[k]] = [k \in 1 .. m |-> F[e[k]]]
    BY <1>14
  <2> QED
    BY <1>22, <2>1, <2>2
<1> QED
  BY <1>7, <1>23

-----------------------------------------------------------------------------
\* Lists put together, one more each time.
Agree(f, g, m) == \A k \in 1 .. m : f[k] = g[k]

LEMMA JoinedSame ==
    ASSUME NEW ss, NEW tt, NEW f, NEW g, NEW n \in Nat, NEW m \in Nat, m <= n,
           Joined(ss, f, n), Joined(tt, g, m), Agree(ss, tt, m)
    PROVE  Agree(f, g, m)
<1> DEFINE S == {j \in Nat : j \in 1 .. m => f[j] = g[j]}
<1>1. 0 \in S
  OBVIOUS
<1>2. ASSUME NEW j \in Nat, j \in S
      PROVE  j + 1 \in S
  <2> SUFFICES ASSUME j + 1 \in 1 .. m
               PROVE  f[j + 1] = g[j + 1]
    OBVIOUS
  <2>1. PICK k \in 1 .. m : k = j + 1 /\ k - 1 = j
    OBVIOUS
  <2>2. k \in 1 .. n
    OBVIOUS
  <2>3. f[k] = IF k = 1 THEN ss[k] ELSE f[k - 1] \o ss[k]
    BY <2>2 DEF Joined
  <2>4. g[k] = IF k = 1 THEN tt[k] ELSE g[k - 1] \o tt[k]
    BY DEF Joined
  <2>5. k # 1 => f[k - 1] = g[k - 1]
    BY <1>2, <2>1
  <2>6. ss[k] = tt[k]
    BY DEF Agree
  <2> QED
    BY <2>1, <2>3, <2>4, <2>5, <2>6
<1> HIDE DEF S
<1>3. Nat \subseteq S
  BY <1>1, <1>2, SetInduction
<1>4. \A k \in 1 .. m : f[k] = g[k]
  BY <1>3 DEF S
<1> QED
  BY <1>4 DEF Agree

LEMMA FlatIsJoined ==
    ASSUME NEW n \in Nat \ {0}, NEW ss, Len(ss) = n
    PROVE  \E f : Joined(ss, f, n) /\ FlattenSeq(ss) = f[n]
<1> DEFINE flat == CHOOSE f : Joined(ss, f, n)
<1>1. Joined(ss, flat, n)
  BY JoinedExists
<1>2. FlattenSeq(ss) = flat[n]
  BY DEF FlattenSeq, Joined
<1> HIDE DEF flat
<1> QED
  BY <1>1, <1>2

LEMMA FlatIs ==
    ASSUME NEW X, NEW n \in Nat, NEW f \in [1 .. n -> Seq(X)]
    PROVE  /\ FlattenSeq(f) \in Seq(X) /\ \E at : Joins(FlattenSeq(f), f, n, at)
           /\ n = 0 => FlattenSeq(f) = <<>>
<1>1. DOMAIN f = 1 .. n /\ Len(f) = n /\ \A i \in 1 .. n : f[i] \in Seq(X)
  OBVIOUS
<1>2. n = 0 => FlattenSeq(f) = f /\ f = <<>>
  BY <1>1 DEF FlattenSeq
<1> QED
  BY <1>1, <1>2, FlattenIs

LEMMA FlatStep ==
    ASSUME NEW X, NEW n \in Nat, NEW f \in [1 .. n + 1 -> Seq(X)],
           NEW g, g = [k \in 1 .. n |-> f[k]]
    PROVE  FlattenSeq(f) = FlattenSeq(g) \o f[n + 1]
<1>1. n + 1 \in Nat \ {0} /\ n + 1 \in 1 .. n + 1 /\ Len(f) = n + 1
  OBVIOUS
<1>2. PICK j : Joined(f, j, n + 1) /\ FlattenSeq(f) = j[n + 1]
  BY <1>1, FlatIsJoined
<1>3. j[n + 1] = IF n + 1 = 1 THEN f[n + 1] ELSE j[(n + 1) - 1] \o f[n + 1]
  BY <1>1, <1>2 DEF Joined
<1>4. g \in [1 .. n -> Seq(X)] /\ Len(g) = n
  OBVIOUS
<1>5. CASE n = 0
  <2>1. FlattenSeq(g) = <<>>
    BY <1>4, <1>5, FlatIs
  <2>2. f[n + 1] \in Seq(X)
    BY <1>1
  <2>3. <<>> \o f[n + 1] = f[n + 1]
    BY <2>2
  <2> QED
    BY <1>2, <1>3, <1>5, <2>1, <2>3
<1>6. CASE n # 0
  <2>1. n \in Nat \ {0}
    BY <1>6
  <2>2. PICK i : Joined(g, i, n) /\ FlattenSeq(g) = i[n]
    BY <1>4, <2>1, FlatIsJoined
  <2>3. n \in 1 .. n /\ \A k \in 1 .. n : f[k] = g[k]
    BY <2>1
  <2>10. Agree(f, g, n)
    BY <2>3 DEF Agree
  <2>4. PICK l \in Nat : l = n + 1 /\ n <= l
    OBVIOUS
  <2>6. Joined(f, j, l)
    BY <1>2, <2>4
  <2>7. Agree(j, i, n)
    BY <2>2, <2>4, <2>6, <2>10, JoinedSame
  <2>5. j[n] = i[n]
    BY <2>3, <2>7 DEF Agree
  <2>8. n + 1 # 1 /\ (n + 1) - 1 = n
    BY <1>6
  <2>9. j[n + 1] = j[n] \o f[n + 1]
    BY <1>3, <2>8
  <2> QED
    BY <1>2, <2>2, <2>5, <2>9
<1> QED
  BY <1>5, <1>6

\* Two lists of lists, one after the other.
Concat(s, t) == s \o t
Adjoined(X, h, f, m, g, n) ==
    /\ f \in [1 .. m -> Seq(X)] /\ g \in [1 .. n -> Seq(X)] /\ h \in [1 .. m + n -> Seq(X)]
    /\ \A k \in 1 .. m : h[k] = f[k]
    /\ \A k \in 1 .. n : h[m + k] = g[k]

LEMMA FlatJoin ==
    ASSUME NEW X, NEW m \in Nat, NEW n \in Nat, NEW f, NEW g, NEW h, Adjoined(X, h, f, m, g, n)
    PROVE  FlattenSeq(h) = Concat(FlattenSeq(f), FlattenSeq(g))
<1> /\ f \in [1 .. m -> Seq(X)] /\ g \in [1 .. n -> Seq(X)] /\ h \in [1 .. m + n -> Seq(X)]
  BY DEF Adjoined
<1> \A k \in 1 .. m : h[k] = f[k]
  BY DEF Adjoined
<1> \A k \in 1 .. n : h[m + k] = g[k]
  BY DEF Adjoined
<1> DEFINE H(j) == [k \in 1 .. m + j |-> h[k]]
           G(j) == [k \in 1 .. j |-> g[k]]
           S == {j \in Nat : j <= n => FlattenSeq(H(j)) = FlattenSeq(f) \o FlattenSeq(G(j))}
<1>1. FlattenSeq(f) \in Seq(X)
  BY FlatIs
<1>2. 0 \in S
  <2>1. H(0) = f
    OBVIOUS
  <2>2. G(0) \in [1 .. 0 -> Seq(X)]
    OBVIOUS
  <2>3. FlattenSeq(G(0)) = <<>>
    BY <2>2, FlatIs
  <2>4. FlattenSeq(f) \o <<>> = FlattenSeq(f)
    BY <1>1
  <2> QED
    BY <2>1, <2>3, <2>4
<1>3. ASSUME NEW j \in Nat, j \in S
      PROVE  j + 1 \in S
  <2>0. j + 1 \in Nat
    OBVIOUS
  <2> SUFFICES ASSUME j + 1 <= n
               PROVE  FlattenSeq(H(j + 1)) = FlattenSeq(f) \o FlattenSeq(G(j + 1))
    BY <2>0
  <2>1. /\ j <= n /\ j + 1 \in 1 .. n /\ m + (j + 1) = (m + j) + 1 /\ m + j \in Nat
        /\ (m + j) + 1 = m + (j + 1)
    OBVIOUS
  <2>13. PICK l \in Nat : l = m + j
    OBVIOUS
  <2>2. PICK H1, G1, H0, G0 : H1 = H(j + 1) /\ G1 = G(j + 1) /\ H0 = H(j) /\ G0 = G(j)
    OBVIOUS
  <2>3. H1 \in [1 .. l + 1 -> Seq(X)] /\ G1 \in [1 .. j + 1 -> Seq(X)]
    BY <2>1, <2>2, <2>13
  <2>4. H0 = [k \in 1 .. l |-> H1[k]] /\ G0 = [k \in 1 .. j |-> G1[k]]
    BY <2>1, <2>2, <2>13
  <2>5. H1[l + 1] = g[j + 1] /\ G1[j + 1] = g[j + 1]
    BY <2>1, <2>2, <2>13
  <2>6. G0 \in [1 .. j -> Seq(X)] /\ g[j + 1] \in Seq(X)
    BY <2>1, <2>2
  <2>7. FlattenSeq(H0) = FlattenSeq(f) \o FlattenSeq(G0)
    BY <1>3, <2>1, <2>2
  <2> HIDE DEF H, G
  <2>8. FlattenSeq(H1) = FlattenSeq(H0) \o H1[l + 1]
    BY <2>3, <2>4, FlatStep
  <2>9. FlattenSeq(G1) = FlattenSeq(G0) \o G1[j + 1]
    BY <2>3, <2>4, FlatStep
  <2>10. FlattenSeq(G0) \in Seq(X)
    BY <2>6, FlatIs
  <2>11. PICK a, b, c : a = FlattenSeq(f) /\ b = FlattenSeq(G0) /\ c = g[j + 1]
    OBVIOUS
  <2>12. (a \o b) \o c = a \o (b \o c)
    <3>1. a \in Seq(X) /\ b \in Seq(X) /\ c \in Seq(X)
      BY <1>1, <2>6, <2>10, <2>11
    <3> QED
      BY <3>1, ConcatAssociative
  <2> QED
    BY <2>2, <2>5, <2>7, <2>8, <2>9, <2>11, <2>12
<1>4. H(n) = h /\ G(n) = g
  OBVIOUS
<1> HIDE DEF S
<1>5. Nat \subseteq S
  BY <1>2, <1>3, SetInduction
<1>6. FlattenSeq(h) = FlattenSeq(f) \o FlattenSeq(g)
  BY <1>4, <1>5 DEF S
<1> QED
  BY <1>6 DEF Concat

\* All but one are empty.
Alone(f, n, i) == \A k \in 1 .. n : k # i => f[k] = <<>>

LEMMA FlatOne ==
    ASSUME NEW X, NEW n \in Nat, NEW f \in [1 .. n -> Seq(X)], NEW i \in 1 .. n, Alone(f, n, i)
    PROVE  FlattenSeq(f) = f[i]
<1>1. PICK s : s = FlattenSeq(f)
  OBVIOUS
<1>2. s \in Seq(X)
  BY <1>1, FlatIs
<1>3. PICK at : Joins(s, f, n, at)
  BY <1>1, FlatIs
<1>4. \A p \in DOMAIN s : at[p][1] = i
  <2> TAKE p \in DOMAIN s
  <2>1. at[p] \in (1 .. n) \X Nat
    BY <1>3 DEF Joins
  <2>2. at[p][2] \in DOMAIN f[at[p][1]] /\ at[p][1] \in 1 .. n
    BY <1>3, <2>1 DEF Joins
  <2>3. DOMAIN <<>> = {}
    OBVIOUS
  <2> QED
    BY <2>2, <2>3 DEF Alone
<1>5. PICK places : places = {p \in DOMAIN s : at[p][1] = i}
  OBVIOUS
<1>9. places = DOMAIN s
  BY <1>4, <1>5
<1>6. ListsOf(X, f, n)
  BY DEF ListsOf
<1>10. Chosen(s, places) = f[i]
  BY <1>2, <1>3, <1>5, <1>6, BlockIs
<1>7. Chosen(s, DOMAIN s) = f[i]
  BY <1>9, <1>10
<1>8. Chosen(s, DOMAIN s) = s
  BY <1>2, AllChosen
<1> QED
  BY <1>1, <1>7, <1>8

LEMMA FlatNone ==
    ASSUME NEW X, NEW n \in Nat, NEW f \in [1 .. n -> Seq(X)], \A k \in 1 .. n : f[k] = <<>>
    PROVE  FlattenSeq(f) = <<>>
<1>1. CASE n = 0
  BY <1>1, FlatIs
<1>2. CASE n # 0
  <2>1. 1 \in 1 .. n
    BY <1>2
  <2>3. Alone(f, n, 1)
    BY DEF Alone
  <2>2. FlattenSeq(f) = f[1]
    BY <2>1, <2>3, FlatOne
  <2> QED
    BY <2>1, <2>2
<1> QED
  BY <1>1, <1>2

\* What is chosen of a list is a list of one or none for each place.
LEMMA ChosenFlat ==
    ASSUME NEW X, NEW s \in Seq(X), NEW P \in SUBSET DOMAIN s, NEW n \in Nat, n = Len(s),
           NEW f, f = [k \in 1 .. n |-> IF k \in P THEN <<s[k]>> ELSE <<>>]
    PROVE  Chosen(s, P) = FlattenSeq(f)
<1>1. DOMAIN s = 1 .. n /\ \A k \in 1 .. n : s[k] \in X
  OBVIOUS
<1>2. f \in [1 .. n -> Seq(X)]
  <2>1. \A k \in 1 .. n : f[k] \in Seq(X)
    <3> TAKE k \in 1 .. n
    <3>1. <<s[k]>> \in Seq(X) /\ <<>> \in Seq(X)
      BY <1>1
    <3> QED
      BY <3>1
  <2> QED
    BY <2>1
<1>3. PICK c : c = FlattenSeq(f)
  OBVIOUS
<1>4. c \in Seq(X)
  BY <1>2, <1>3, FlatIs
<1>5. PICK at : Joins(c, f, n, at)
  BY <1>2, <1>3, FlatIs
<1>6. PICK m \in Nat : m = Len(c) /\ DOMAIN c = 1 .. m
  BY <1>4
<1>7. ASSUME NEW p \in 1 .. m
      PROVE  at[p][1] \in P /\ at[p][2] = 1 /\ c[p] = s[at[p][1]]
  <2>1. at[p] \in (1 .. n) \X Nat
    BY <1>5, <1>6 DEF Joins
  <2>2. PICK i \in 1 .. n, j \in Nat : at[p] = <<i, j>>
    BY <2>1
  <2>3. j \in DOMAIN f[i] /\ c[p] = f[i][j]
    <3>1. at[p][2] \in DOMAIN f[at[p][1]] /\ c[p] = f[at[p][1]][at[p][2]]
      BY <1>5, <1>6 DEF Joins
    <3>2. at[p][1] = i /\ at[p][2] = j
      BY <2>2
    <3> QED
      BY <3>1, <3>2
  <2>4. CASE i \in P
    <3>1. f[i] = <<s[i]>>
      BY <2>4
    <3>2. j = 1 /\ f[i][j] = s[i]
      BY <2>3, <3>1
    <3> QED
      BY <2>2, <2>3, <2>4, <3>2
  <2>5. CASE i \notin P
    <3>1. f[i] = <<>>
      BY <2>5
    <3> QED
      BY <2>3, <3>1
  <2> QED
    BY <2>4, <2>5
<1> DEFINE to == [p \in 1 .. m |-> at[p][1]]
<1>8. to \in [1 .. m -> P] /\ DOMAIN to = 1 .. m /\ \A p \in 1 .. m : to[p] = at[p][1] /\ c[p] = s[to[p]]
  BY <1>7
<1> HIDE DEF to
<1>9. ASSUME NEW j \in 1 .. m, NEW k \in 1 .. m, j < k
      PROVE  to[j] < to[k]
  <2>1. at[j][1] < at[k][1] \/ (at[j][1] = at[k][1] /\ at[j][2] < at[k][2])
    BY <1>5, <1>6, <1>9 DEF Joins
  <2>2. at[j][2] = 1 /\ at[k][2] = 1
    BY <1>7
  <2>3. ~ (at[j][2] < at[k][2])
    BY <2>2
  <2> QED
    BY <1>8, <2>1, <2>3
<1>10. \A j, k \in 1 .. m : j < k <=> to[j] < to[k]
  <2> TAKE j, k \in 1 .. m
  <2>1. to[j] \in 1 .. n /\ to[k] \in 1 .. n
    BY <1>1, <1>8
  <2>2. j < k => to[j] < to[k]
    BY <1>9
  <2>3. k < j => to[k] < to[j]
    BY <1>9
  <2>4. j < k \/ k < j \/ j = k
    OBVIOUS
  <2>5. PICK x \in Int, y \in Int : x = to[j] /\ y = to[k]
    BY <2>1
  <2>6. (k < j => y < x) /\ (j = k => x = y)
    BY <2>3, <2>5
  <2>7. x < y => j < k
    BY <2>4, <2>6
  <2> QED
    BY <2>2, <2>5, <2>7
<1>11. ASSUME NEW p \in P
       PROVE  \E k \in 1 .. m : to[k] = p
  <2>1. p \in 1 .. n /\ f[p] = <<s[p]>>
    BY <1>1
  <2>2. 1 \in DOMAIN f[p]
    BY <2>1
  <2>3. PICK k \in DOMAIN c : at[k] = <<p, 1>>
    BY <1>5, <2>1, <2>2 DEF Joins
  <2> QED
    BY <1>6, <1>8, <2>3
<1>12. c \in Seq(Range(s))
  <2>1. PICK A : A = Range(s)
    OBVIOUS
  <2>2. \A k \in 1 .. m : c[k] \in A
    <3>1. \A k \in 1 .. m : to[k] \in DOMAIN s /\ c[k] = s[to[k]]
      BY <1>8
    <3> QED
      BY <2>1, <3>1 DEF Range
  <2>3. c \in Seq(A)
    BY <1>4, <1>6, <2>2
  <2> QED
    BY <2>1, <2>3
<1>13. Picks(c, s, P, to)
  BY <1>6, <1>8, <1>10, <1>11, <1>12 DEF Picks
<1> QED
  BY <1>3, <1>4, <1>13, ChosenOnly

-----------------------------------------------------------------------------
\* What the members of a list stand for, put together.
Across(G, s) == FlattenSeq([k \in 1 .. Len(s) |-> G[s[k]]])

Stands(G, A, X) == G \in [A -> Seq(X)]

LEMMA OverIs ==
    ASSUME NEW A, NEW X, NEW G, Stands(G, A, X), NEW s \in Seq(A)
    PROVE  /\ [k \in 1 .. Len(s) |-> G[s[k]]] \in [1 .. Len(s) -> Seq(X)] /\ Len(s) \in Nat
           /\ Across(G, s) \in Seq(X)
           /\ s = <<>> => Across(G, s) = <<>>
<1> G \in [A -> Seq(X)]
  BY DEF Stands
<1>1. PICK n \in Nat : n = Len(s) /\ \A k \in 1 .. n : s[k] \in A
  OBVIOUS
<1>2. PICK f : f = [k \in 1 .. Len(s) |-> G[s[k]]]
  OBVIOUS
<1>3. f \in [1 .. n -> Seq(X)]
  BY <1>1, <1>2
<1>4. FlattenSeq(f) \in Seq(X) /\ (n = 0 => FlattenSeq(f) = <<>>)
  BY <1>3, FlatIs
<1>5. s = <<>> => n = 0
  BY <1>1
<1> QED
  BY <1>1, <1>2, <1>3, <1>4, <1>5 DEF Across

LEMMA OverConcat ==
    ASSUME NEW A, NEW X, NEW G, Stands(G, A, X), NEW s \in Seq(A), NEW t \in Seq(A)
    PROVE  Across(G, Concat(s, t)) = Concat(Across(G, s), Across(G, t))
<1>a. PICK u : u = s \o t
  OBVIOUS
<1>0. u = Concat(s, t)
  BY <1>a DEF Concat
<1>1. PICK m \in Nat, n \in Nat : m = Len(s) /\ n = Len(t)
  OBVIOUS
<1>2. /\ u \in Seq(A) /\ Len(u) = m + n
      /\ \A k \in 1 .. m : u[k] = s[k]
      /\ \A k \in 1 .. n : u[m + k] = t[k]
  BY <1>a, <1>1
<1>3. PICK f, g, h : /\ f = [k \in 1 .. Len(s) |-> G[s[k]]] /\ g = [k \in 1 .. Len(t) |-> G[t[k]]]
                     /\ h = [k \in 1 .. Len(u) |-> G[u[k]]]
  OBVIOUS
<1>4. f \in [1 .. m -> Seq(X)] /\ g \in [1 .. n -> Seq(X)] /\ h \in [1 .. m + n -> Seq(X)]
  <2>1. f \in [1 .. m -> Seq(X)]
    BY <1>1, <1>3, OverIs
  <2>2. g \in [1 .. n -> Seq(X)]
    BY <1>1, <1>3, OverIs
  <2>3. h \in [1 .. Len(u) -> Seq(X)]
    <3>1. u \in Seq(A)
      BY <1>2
    <3> QED
      BY <1>3, <3>1, OverIs
  <2> QED
    BY <1>2, <2>1, <2>2, <2>3
<1>5. \A k \in 1 .. m : h[k] = f[k]
  <2> TAKE k \in 1 .. m
  <2>1. k \in 1 .. Len(u) /\ k \in 1 .. Len(s)
    BY <1>1, <1>2
  <2> QED
    BY <1>2, <1>3, <2>1
<1>6. \A k \in 1 .. n : h[m + k] = g[k]
  <2> TAKE k \in 1 .. n
  <2>1. m + k \in 1 .. Len(u) /\ k \in 1 .. Len(t)
    BY <1>1, <1>2
  <2>2. h[m + k] = G[u[m + k]] /\ g[k] = G[t[k]]
    BY <1>3, <2>1
  <2> QED
    BY <1>2, <2>2
<1>8. Adjoined(X, h, f, m, g, n)
  BY <1>4, <1>5, <1>6 DEF Adjoined
<1>9. m \in Nat /\ n \in Nat
  BY <1>1
<1>7. FlattenSeq(h) = Concat(FlattenSeq(f), FlattenSeq(g))
  BY <1>8, <1>9, FlatJoin
<1> QED
  BY <1>0, <1>3, <1>7 DEF Across

LEMMA OverSingle ==
    ASSUME NEW A, NEW X, NEW G, Stands(G, A, X), NEW x \in A
    PROVE  Across(G, <<x>>) = G[x]
<1> G \in [A -> Seq(X)]
  BY DEF Stands
<1>1. <<x>> \in Seq(A) /\ Len(<<x>>) = 1
  OBVIOUS
<1>2. PICK f : f = [k \in 1 .. Len(<<x>>) |-> G[<<x>>[k]]]
  OBVIOUS
<1>3. f \in [1 .. 1 -> Seq(X)] /\ f[1] = G[x]
  BY <1>1, <1>2
<1>4. 1 \in 1 .. 1 /\ 1 \in Nat /\ Alone(f, 1, 1)
  BY DEF Alone
<1>5. FlattenSeq(f) = f[1]
  BY <1>3, <1>4, FlatOne
<1> QED
  BY <1>2, <1>3, <1>5 DEF Across

\* Of one member only, or of none.
LEMMA OverOne ==
    ASSUME NEW A, NEW X, NEW G, Stands(G, A, X), NEW s \in Seq(A), NEW i \in DOMAIN s,
           \A k \in DOMAIN s : k # i => G[s[k]] = <<>>
    PROVE  Across(G, s) = G[s[i]]
<1> G \in [A -> Seq(X)]
  BY DEF Stands
<1>1. PICK n \in Nat : n = Len(s) /\ DOMAIN s = 1 .. n
  OBVIOUS
<1>2. PICK f : f = [k \in 1 .. Len(s) |-> G[s[k]]]
  OBVIOUS
<1>3. f \in [1 .. n -> Seq(X)]
  BY <1>1, <1>2, OverIs
<1>4. \A k \in 1 .. n : f[k] = G[s[k]]
  BY <1>1, <1>2
<1>5. Alone(f, n, i) /\ i \in 1 .. n
  BY <1>1, <1>4 DEF Alone
<1>6. FlattenSeq(f) = f[i]
  BY <1>1, <1>3, <1>5, FlatOne
<1> QED
  BY <1>1, <1>2, <1>4, <1>6 DEF Across

LEMMA OverNone ==
    ASSUME NEW A, NEW X, NEW G, Stands(G, A, X), NEW s \in Seq(A),
           \A k \in DOMAIN s : G[s[k]] = <<>>
    PROVE  Across(G, s) = <<>>
<1> G \in [A -> Seq(X)]
  BY DEF Stands
<1>1. PICK n \in Nat : n = Len(s) /\ DOMAIN s = 1 .. n
  OBVIOUS
<1>2. PICK f : f = [k \in 1 .. Len(s) |-> G[s[k]]]
  OBVIOUS
<1>3. f \in [1 .. n -> Seq(X)]
  BY <1>1, <1>2, OverIs
<1>4. \A k \in 1 .. n : f[k] = <<>>
  BY <1>1, <1>2
<1>5. FlattenSeq(f) = <<>>
  BY <1>3, <1>4, FlatNone
<1> QED
  BY <1>2, <1>5 DEF Across

\* Of lists that are put together.
LEMMA OverEmpty ==
    ASSUME NEW A, NEW X, NEW G, Stands(G, A, X)
    PROVE  Across(G, <<>>) = <<>>
<1>1. <<>> \in Seq(A)
  OBVIOUS
<1> QED
  BY <1>1, OverIs

ListsIn(ss, n, A) == ss \in [1 .. n -> Seq(A)]
FirstOf(g, f, j) == g = [k \in 1 .. j |-> f[k]]

LEMMA OverMore ==
    ASSUME NEW A, NEW X, NEW G, Stands(G, A, X), NEW j \in Nat,
           NEW r1, ListsIn(r1, j + 1, A), NEW r0, FirstOf(r0, r1, j),
           NEW f1, ListsIn(f1, j + 1, X), NEW f0, FirstOf(f0, f1, j),
           f1[j + 1] = Across(G, r1[j + 1]), Across(G, FlattenSeq(r0)) = FlattenSeq(f0)
    PROVE  Across(G, FlattenSeq(r1)) = FlattenSeq(f1)
<1>1. FlattenSeq(r1) = FlattenSeq(r0) \o r1[j + 1]
  BY FlatStep DEF ListsIn, FirstOf
<1>2. FlattenSeq(f1) = FlattenSeq(f0) \o f1[j + 1]
  BY FlatStep DEF ListsIn, FirstOf
<1>3. r0 \in [1 .. j -> Seq(A)] /\ r1[j + 1] \in Seq(A)
  <2>1. \A k \in 1 .. j : k \in 1 .. j + 1
    OBVIOUS
  <2>2. j + 1 \in 1 .. j + 1
    OBVIOUS
  <2> QED
    BY <2>1, <2>2 DEF ListsIn, FirstOf
<1>4. FlattenSeq(r0) \in Seq(A)
  BY <1>3, FlatIs
<1>5. PICK a, b, u : a = FlattenSeq(r0) /\ b = r1[j + 1] /\ u = FlattenSeq(r1)
  OBVIOUS
<1>6. Across(G, u) = Concat(Across(G, a), Across(G, b))
  <2>1. u = Concat(a, b)
    BY <1>1, <1>5 DEF Concat
  <2>2. a \in Seq(A) /\ b \in Seq(A)
    BY <1>3, <1>4, <1>5
  <2> QED
    BY <2>1, <2>2, OverConcat
<1>7. Across(G, FlattenSeq(r1)) = Concat(Across(G, FlattenSeq(r0)), Across(G, r1[j + 1]))
  BY <1>5, <1>6
<1> QED
  BY <1>2, <1>7 DEF Concat

LEMMA OverFlat ==
    ASSUME NEW A, NEW X, NEW G, Stands(G, A, X), NEW n \in Nat, NEW ss, ListsIn(ss, n, A),
           NEW f, f = [k \in 1 .. n |-> Across(G, ss[k])]
    PROVE  Across(G, FlattenSeq(ss)) = FlattenSeq(f) /\ ListsIn(f, n, X)
<1> DEFINE R(j) == [k \in 1 .. j |-> ss[k]]
           F(j) == [k \in 1 .. j |-> f[k]]
           S == {j \in Nat : j <= n => Across(G, FlattenSeq(R(j))) = FlattenSeq(F(j))}
<1>0. \A k \in 1 .. n : ss[k] \in Seq(A) /\ f[k] \in Seq(X) /\ f[k] = Across(G, ss[k])
  <2> TAKE k \in 1 .. n
  <2>1. ss[k] \in Seq(A)
    BY DEF ListsIn
  <2>2. Across(G, ss[k]) \in Seq(X)
    BY <2>1, OverIs
  <2> QED
    BY <2>1, <2>2
<1>1. 0 \in S
  <2>1. PICK r, e : r = R(0) /\ e = F(0)
    OBVIOUS
  <2>2. r \in [1 .. 0 -> Seq(A)] /\ e \in [1 .. 0 -> Seq(X)]
    BY <2>1
  <2>3. FlattenSeq(r) = <<>> /\ FlattenSeq(e) = <<>>
    BY <2>2, FlatIs
  <2> QED
    BY <2>1, <2>3, OverEmpty
<1>2. ASSUME NEW j \in Nat, j \in S
      PROVE  j + 1 \in S
  <2>0. j + 1 \in Nat
    OBVIOUS
  <2> SUFFICES ASSUME j + 1 <= n
               PROVE  Across(G, FlattenSeq(R(j + 1))) = FlattenSeq(F(j + 1))
    BY <2>0
  <2>1. j <= n /\ j + 1 \in 1 .. n /\ j + 1 \in 1 .. j + 1
    OBVIOUS
  <2>2. PICK r0, r1, f0, f1 : r0 = R(j) /\ r1 = R(j + 1) /\ f0 = F(j) /\ f1 = F(j + 1)
    OBVIOUS
  <2>3. ListsIn(r1, j + 1, A) /\ ListsIn(f1, j + 1, X)
    BY <1>0, <2>1, <2>2 DEF ListsIn
  <2>4. FirstOf(r0, r1, j) /\ FirstOf(f0, f1, j)
    BY <2>2 DEF FirstOf
  <2>5. f1[j + 1] = Across(G, r1[j + 1])
    BY <1>0, <2>1, <2>2
  <2>6. Across(G, FlattenSeq(r0)) = FlattenSeq(f0)
    BY <1>2, <2>1, <2>2
  <2> HIDE DEF R, F
  <2>7. Across(G, FlattenSeq(r1)) = FlattenSeq(f1)
    BY <2>3, <2>4, <2>5, <2>6, OverMore
  <2> QED
    BY <2>2, <2>7
<1>3. R(n) = ss /\ F(n) = f /\ ListsIn(f, n, X)
  BY <1>0 DEF ListsIn
<1> HIDE DEF S
<1>4. Nat \subseteq S
  BY <1>1, <1>2, SetInduction
<1> QED
  BY <1>3, <1>4 DEF S

-----------------------------------------------------------------------------
\* Concat is associative, with <<>> for its unit.
LEMMA ConcatIs ==
    ASSUME NEW X, NEW s \in Seq(X), NEW t \in Seq(X)
    PROVE  Concat(s, t) \in Seq(X) /\ Concat(s, <<>>) = s /\ Concat(<<>>, s) = s
  BY DEF Concat

LEMMA ConcatJoins ==
    ASSUME NEW X, NEW s \in Seq(X), NEW t \in Seq(X), NEW u \in Seq(X)
    PROVE  Concat(Concat(s, t), u) = Concat(s, Concat(t, u))
  BY DEF Concat

LEMMA SeqGrows ==
    ASSUME NEW X, NEW Y, X \subseteq Y, NEW s \in Seq(X)
    PROVE  s \in Seq(Y)
  OBVIOUS

LEMMA StandsGrows ==
    ASSUME NEW A, NEW X, NEW Y, X \subseteq Y, NEW G, Stands(G, A, X)
    PROVE  Stands(G, A, Y)
<1>1. G \in [A -> Seq(X)]
  BY DEF Stands
<1>2. \A s \in Seq(X) : s \in Seq(Y)
  BY SeqGrows
<1> QED
  BY <1>1, <1>2 DEF Stands

\* Lists, whatever their members are.
IsSome(s) == \E X : s \in Seq(X)

LEMMA StandsForSome ==
    ASSUME NEW A, NEW G, DOMAIN G = A, G = [x \in A |-> G[x]], \A x \in A : IsSome(G[x])
    PROVE  \E X : Stands(G, A, X)
<1>1. PICK X : X = UNION {Range(G[x]) : x \in A}
  OBVIOUS
<1>2. \A x \in A : G[x] \in Seq(X)
  <2> TAKE x \in A
  <2>1. PICK Y : G[x] \in Seq(Y)
    BY DEF IsSome
  <2>2. PICK g : g = G[x] /\ g \in Seq(Y)
    BY <2>1
  <2>3. Range(g) \subseteq X
    BY <1>1, <2>2
  <2>4. \A k \in 1 .. Len(g) : g[k] \in Range(g)
    BY <2>2 DEF Range
  <2>5. g \in Seq(Range(g))
    BY <2>2, <2>4
  <2> QED
    BY <2>2, <2>3, <2>5, SeqGrows
<1> QED
  BY <1>2 DEF Stands

LEMMA FlatSingles ==
    ASSUME NEW X, NEW x \in Seq(X), NEW n \in Nat, n = Len(x),
           NEW f, f = [k \in 1 .. n |-> <<x[k]>>]
    PROVE  FlattenSeq(f) = x
<1>1. DOMAIN x = 1 .. n
  OBVIOUS
<1>2. PICK P : P = DOMAIN x
  OBVIOUS
<1>3. f = [k \in 1 .. n |-> IF k \in P THEN <<x[k]>> ELSE <<>>]
  BY <1>1, <1>2
<1>4. Chosen(x, P) = FlattenSeq(f)
  <2>1. P \in SUBSET DOMAIN x
    BY <1>2
  <2> QED
    BY <1>3, <2>1, ChosenFlat
<1> QED
  BY <1>2, <1>4, AllChosen

\* Three lists, one after the other.
LEMMA OverBoth ==
    ASSUME NEW A, NEW X, NEW G, Stands(G, A, X), NEW x \in A, NEW s \in Seq(A)
    PROVE  Across(G, Concat(<<x>>, s)) = Concat(G[x], Across(G, s))
<1>1. PICK t : t = <<x>>
  OBVIOUS
<1>2. t \in Seq(A)
  BY <1>1
<1>3. Across(G, Concat(t, s)) = Concat(Across(G, t), Across(G, s))
  BY <1>2, OverConcat
<1> QED
  BY <1>1, <1>3, OverSingle

LEMMA OneAndOne ==
    ASSUME NEW a, NEW b
    PROVE  Concat(<<a>>, <<b>>) = <<a, b>>
<1> DEFINE s == <<a>> \o <<b>>
           t == <<a, b>>
<1>1. s \in Seq({a, b}) /\ t \in Seq({a, b}) /\ Len(s) = 2 /\ Len(t) = 2
  OBVIOUS
<1>2. s[1] = a /\ s[2] = b /\ t[1] = a /\ t[2] = b
  OBVIOUS
<1> HIDE DEF s, t
<1>3. \A k \in 1 .. Len(s) : s[k] = t[k]
  BY <1>1, <1>2
<1>4. s = t
  BY <1>1, <1>3, SeqEqual
<1> QED
  BY <1>4 DEF s, t, Concat

LEMMA OneAndTwo ==
    ASSUME NEW a, NEW b, NEW c
    PROVE  Concat(<<a>>, <<b, c>>) = <<a, b, c>>
<1> DEFINE s == <<a>> \o <<b, c>>
           t == <<a, b, c>>
<1>1. s \in Seq({a, b, c}) /\ t \in Seq({a, b, c}) /\ Len(s) = 3 /\ Len(t) = 3
  OBVIOUS
<1>2. s[1] = a /\ s[2] = b /\ s[3] = c /\ t[1] = a /\ t[2] = b /\ t[3] = c
  OBVIOUS
<1> HIDE DEF s, t
<1>3. \A k \in 1 .. Len(s) : s[k] = t[k]
  BY <1>1, <1>2
<1>4. s = t
  BY <1>1, <1>3, SeqEqual
<1> QED
  BY <1>4 DEF s, t, Concat

LEMMA OverTwo ==
    ASSUME NEW A, NEW X, NEW G, Stands(G, A, X), NEW a \in A, NEW b \in A
    PROVE  Across(G, <<a, b>>) = Concat(G[a], G[b])
<1>1. PICK t : t = <<b>>
  OBVIOUS
<1>2. t \in Seq(A)
  BY <1>1
<1>3. Across(G, Concat(<<a>>, t)) = Concat(G[a], Across(G, t))
  BY <1>2, OverBoth
<1>4. Across(G, t) = G[b]
  BY <1>1, OverSingle
<1>5. Concat(<<a>>, t) = <<a, b>>
  BY <1>1, OneAndOne
<1> QED
  BY <1>3, <1>4, <1>5

LEMMA OverThree ==
    ASSUME NEW A, NEW X, NEW G, Stands(G, A, X), NEW a \in A, NEW b \in A, NEW c \in A
    PROVE  Across(G, <<a, b, c>>) = Concat(G[a], Concat(G[b], G[c]))
<1>1. PICK t : t = <<b, c>>
  OBVIOUS
<1>2. t \in Seq(A)
  BY <1>1
<1>3. Across(G, Concat(<<a>>, t)) = Concat(G[a], Across(G, t))
  BY <1>2, OverBoth
<1>4. Across(G, t) = Concat(G[b], G[c])
  BY <1>1, OverTwo
<1>5. Concat(<<a>>, t) = <<a, b, c>>
  BY <1>1, OneAndTwo
<1> QED
  BY <1>3, <1>4, <1>5
=============================================================================
