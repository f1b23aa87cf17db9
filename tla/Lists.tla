--------------------------------- MODULE Lists ---------------------------------
(***************************************************************************)
(* Rows put in order, and the rows that a condition selects: what SortSeq  *)
(* and SelectSeq compute, defined by the places of the rows instead of a   *)
(* recursion, so that lemmas about them can be proved.                     *)
(***************************************************************************)
EXTENDS Integers, Sequences, FiniteSets

\* The members of a finite set, in the order of the numbers that key gives them.
Sorted(S, key) ==
    [k \in 1 .. Cardinality(S) |->
        CHOOSE x \in S : Cardinality({y \in S : key[y] < key[x]}) = k - 1]
Ascending(places) == Sorted(places, [k \in places |-> k])

\* What stands at some places of a list; the rows that satisfy P. Both keep the order.
Chosen(s, places) == LET at == Ascending(places) IN [j \in DOMAIN at |-> s[at[j]]]
Where(s, P(_)) == Chosen(s, {k \in DOMAIN s : P(s[k])})
=============================================================================
