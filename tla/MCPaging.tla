------------------------------- MODULE MCPaging -------------------------------
(***************************************************************************)
(* Statements for the model-checking runs of Paging.                       *)
(***************************************************************************)
EXTENDS Paging, TLC

\* SELECT X FROM T; a CTE; nested selects, one in the other.
PlainStmts == { <<"SELECT", "X">>,
                <<"WITH", "X", "(SELECT", "X)", "SELECT", "X">>,
                <<"WITH", "X", "(SELECT", "X)", "SELECT*", "X">>,
                <<"SELECT", "X", "(SELECT", "(SELECT", "X)", "X)", "X">> }

\* SELECT 'n' FROM T UNION SELECT ...: the first literal makes the place of the
\* second SELECT slip by one byte, onto the blank; the others into a word.
SlippingStmts == { <<"SELECT", "GROWS", "UNION", "SELECT", "X">>,
                   <<"SELECT", "GROWS", "GROWS", "UNION", "SELECT", "X">>,
                   <<"WITH", "X", "(SELECT", "SHRINKS", "X)", "SELECT", "X">>,
                   <<"SELECT", "X", "GROWS">> }

\* Statements the row limit is not put into, or is put into the wrong place:
\* a comment first, no blank after SELECT, a column whose name begins with
\* FIRST, two branches, a literal; literals whose
\* upper case is longer or shorter before the SELECT.
OddStmts == { <<"--", "SELECT", "X">>,
              <<"SELECT*", "X">>,
              <<"SELECT", "FIRSTNAME", "X">>,
              <<"SELECT", "X", "UNION", "SELECT", "X">>,
              <<"SELECT", "X", "'SELECT'">> } \cup SlippingStmts

\* Statements with a clause of their own.
OwnStmts == { <<"SELECT", "FIRST", "X">>,
              <<"SELECT", "X", "ROWS">>,
              <<"SELECT", "X", "FETCH", "FIRST">> }

\* Statements with a FIRST of their own that is not about the whole result.
PartStmts == { <<"SELECT", "X", "(SELECT", "FIRST", "X)">>,
               <<"SELECT", "FIRST", "X", "UNION", "SELECT", "X">> }

PagedStmts == PlainStmts \cup OddStmts \cup OwnStmts

\* None, small, the cap, too large; a start, a place inside, the end of the numbers;
\* absent.
PageArgs == {0, 1, 3, 9, NoArg}
SkipArgs == {0, 2, 15, NoArg}

ASSUME \A q \in PlainStmts : Plain(q)
ASSUME \A q \in OddStmts \cup OwnStmts \cup PartStmts : ~ Plain(q)
=============================================================================
