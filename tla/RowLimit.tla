------------------------------- MODULE RowLimit -------------------------------
(***************************************************************************)
(* query/row_limit.rs: where a FIRST/SKIP clause goes into a SELECT, and   *)
(* what the engine then returns. A statement is the sequence of its words, *)
(* separated by single blanks, after the trailing semicolon is trimmed. A  *)
(* word is named by what the scanner can see in it:                        *)
(*   SELECT, WITH, UNION, FIRST, ROWS, FETCH   the keywords                *)
(*   SELECT*    the keyword with its list glued to it                      *)
(*   (SELECT    a nested select, which X) closes                           *)
(*   FIRSTNAME  a name that begins with a keyword of the scanner           *)
(*   MYSELECT   a name that ends with one                                  *)
(*   '(' and ')' and 'SELECT'   string literals, or comments, with just    *)
(*              that in them                                               *)
(*   --         a comment of other words                                   *)
(*   GROWS, SHRINKS   literals with a letter whose upper case is a byte     *)
(*              longer, or shorter, than the letter                         *)
(*   X          anything else                                              *)
(* The clause is not spliced into the words: inject_row_limit is the place *)
(* after which it goes, Nothing where the statement is left as it is or    *)
(* (Refuses) the clause goes before it. The place is found in the upper    *)
(* case of the text and used in the text: Slips says when it is another.   *)
(***************************************************************************)
EXTENDS Integers, Sequences, FiniteSets

CONSTANTS MAX_ROWS,  \* hard cap on the rows of a query call
          OwnCap     \* the number of rows a statement's own clause asks for

ASSUME RowAssumption == MAX_ROWS \in Nat \ {0} /\ OwnCap \in Nat

Word == {"SELECT", "SELECT*", "(SELECT", "X)", "WITH", "UNION", "FIRST",
         "FIRSTNAME", "MYSELECT", "ROWS", "FETCH", "'('", "')'", "'SELECT'", "--", "GROWS",
         "SHRINKS", "X"}

Nothing == 0
Least(a, b) == IF a < b THEN a ELSE b

\* Parentheses opened and not closed before the i-th word, by those who see
\* the opening and closing words of open and close.
Depth(q, i, open, close) ==
    Cardinality({k \in 1 .. i - 1 : q[k] \in open})
        - Cardinality({k \in 1 .. i - 1 : q[k] \in close})

MutantSelectOnly(q) == Len(q) > 0 /\ q[1] = "SELECT"
accepts_row_limit(q) == Len(q) > 0 /\ q[1] \in {"SELECT", "WITH"}

\* The scanner counts parentheses and finds SELECT in string literals too.
ScannedDepth(q, i) == Depth(q, i, {"(SELECT", "'('"}, {"X)", "')'"})

\* The last SELECT the scanner sees outside parentheses. It wants no letter
\* after it, and does not look at what is before it.
MutantNoDepth(q) ==
    LET all == {i \in 1 .. Len(q) : q[i] \in {"SELECT", "SELECT*", "(SELECT"}}
    IN IF all = {} THEN Nothing ELSE CHOOSE i \in all : \A k \in all : k <= i
find_select_insertion_point(q) ==
    LET tops == {i \in 1 .. Len(q) :
                    \/ /\ q[i] \in {"SELECT", "SELECT*", "MYSELECT", "'SELECT'"}
                       /\ ScannedDepth(q, i) = 0
                    \/ q[i] = "(SELECT" /\ ScannedDepth(q, i) = -1}
    IN IF tops = {} THEN Nothing
       ELSE CHOOSE i \in tops : \A k \in tops : k <= i

StartsWithLimit(q, i) ==
    \/ i <= Len(q) /\ q[i] \in {"FIRST", "FIRSTNAME", "ROWS"}
    \/ i < Len(q) /\ q[i] = "FETCH" /\ q[i + 1] \in {"FIRST", "FIRSTNAME"}

\* The words " FIRST ", " FETCH FIRST" and " ROWS" anywhere, or a word after
\* the SELECT that begins like one of them.
HasOwnLimit(q) ==
    \/ \E i \in 2 .. Len(q) - 1 : q[i] = "FIRST"
    \/ \E i \in 2 .. Len(q) : q[i] = "ROWS"
    \/ \E i \in 2 .. Len(q) - 1 :
          q[i] = "FETCH" /\ q[i + 1] \in {"FIRST", "FIRSTNAME"}
    \/ LET p == find_select_insertion_point(q)
       IN p # Nothing /\ q[p] # "SELECT*" /\ StartsWithLimit(q, p + 1)

inject_row_limit(q) ==
    IF ~ accepts_row_limit(q) \/ HasOwnLimit(q) THEN Nothing
    ELSE find_select_insertion_point(q)

\* Bytes by which the end of the i-th word lies further on in the upper case.
Shift(q, i) == Cardinality({k \in 1 .. i - 1 : q[k] = "GROWS"})
                   - Cardinality({k \in 1 .. i - 1 : q[k] = "SHRINKS"})

\* The text is sliced at a place of its upper case that is not the end of the
\* SELECT, nor of the blank after it: somewhere in the words around.
Slips(q) ==
    LET p == inject_row_limit(q)
    IN /\ p # Nothing
       /\ Shift(q, p) # 0
       /\ ~ (Shift(q, p) = 1 /\ p < Len(q) /\ q[p] = "SELECT")

-----------------------------------------------------------------------------
(* The engine, on a table of n rows 1 .. n in a fixed order.               *)

Prefix(k)  == [j \in 1 .. k |-> j]
Window(max, skip, n) ==
    [j \in 1 .. (IF n > skip THEN Least(max, n - skip) ELSE 0) |-> skip + j]

\* The selects of the statement itself, one for each branch of a UNION.
Selects(q) == {i \in 1 .. Len(q) : /\ q[i] \in {"SELECT", "SELECT*"}
                                   /\ Depth(q, i, {"(SELECT"}, {"X)"}) = 0}

\* Rows of the select at i, with the clause FIRST max SKIP skip after word p.
Branch(q, i, p, max, skip, n) ==
    CASE p = i -> Window(Least(max, MAX_ROWS), skip, n)
      [] p # i /\ i < Len(q) /\ q[i + 1] = "FIRST" -> Prefix(Least(OwnCap, n))
      [] OTHER -> Prefix(n)

\* A ROWS or FETCH FIRST clause after the selects caps them all.
Capped(q, rows) ==
    IF \E i \in 2 .. Len(q) : /\ q[i] \in {"ROWS", "FETCH"}
                              /\ Depth(q, i, {"(SELECT"}, {"X)"}) = 0
    THEN SubSeq(rows, 1, Least(OwnCap, Len(rows))) ELSE rows

\* A clause that follows a name, or that is put before a statement whose
\* select the scanner has missed, is a syntax error.
Refuses(q) ==
    /\ accepts_row_limit(q) /\ ~ HasOwnLimit(q)
    /\ LET p == find_select_insertion_point(q)
       IN p = Nothing \/ q[p] = "MYSELECT"

\* What the engine returns for q (of at most two branches). Where the clause
\* slips into a literal or a comment, it limits nothing.
Fetch(q, max, skip, n) ==
    LET p     == IF Slips(q) THEN Nothing ELSE inject_row_limit(q)
        first == CHOOSE i \in Selects(q) : \A k \in Selects(q) : i <= k
        last  == CHOOSE i \in Selects(q) : \A k \in Selects(q) : k <= i
    IN Capped(q, IF first = last THEN Branch(q, first, p, max, skip, n)
                 ELSE Branch(q, first, p, max, skip, n)
                          \o Branch(q, last, p, max, skip, n))

-----------------------------------------------------------------------------
\* Statements with one select of their own, without a clause of their own,
\* names and string literals that look like SQL to the scanner, or letters
\* that change their size in upper case.
Plain(q) ==
    /\ q # <<>> /\ q[1] \in {"SELECT", "WITH"}
    /\ \A i \in 1 .. Len(q) : q[i] \notin {"'('", "')'", "'SELECT'", "FIRST",
                                           "FIRSTNAME", "MYSELECT", "ROWS",
                                           "FETCH", "GROWS", "SHRINKS"}
    /\ \A i \in 1 .. Len(q) : Depth(q, i, {"(SELECT"}, {"X)"}) >= 0
    /\ \E i \in 1 .. Len(q) : Selects(q) = {i}
=============================================================================
