-------------------------------- MODULE Paging --------------------------------
(***************************************************************************)
(* firebird_query (handle_query) as a client pages through a result: it    *)
(* asks for a page, and while the answer carries the hint "Results         *)
(* truncated ... Use skip: n" it asks again with that skip. Every page is  *)
(* a call of its own, with a connection and a snapshot of its own; between *)
(* the pages another session may add rows after the last one.              *)
(*                                                                         *)
(* max_rows and skip arrive as text: an argument that is absent or is not  *)
(* a number of 32 bits is NoArg here. The sum of the two wraps at U32 (a   *)
(* release build).                                                         *)
(***************************************************************************)
EXTENDS RowLimit

CONSTANTS DEFAULT_ROWS, \* rows of a page when max_rows is not given
          U32,          \* the numbers of 32 bits are 0 .. U32 - 1
          Stmt,         \* the statements clients send, sequences of words
          MaxRowsArg,   \* the max_rows they send
          SkipArg,      \* the skip they send first
          MaxTable      \* bound: the table never has more rows, and a client
                        \* that has been given more asks for no more

NoArg == -1

ASSUME PagingAssumption ==
    /\ DEFAULT_ROWS \in 1 .. MAX_ROWS
    /\ U32 \in Nat
    /\ MAX_ROWS < U32
    /\ Stmt \subseteq Seq(Word)
    /\ \A q \in Stmt : Selects(q) # {}
    /\ MaxRowsArg \subseteq (0 .. U32 - 1) \cup {NoArg}
    /\ SkipArg \subseteq (0 .. U32 - 1) \cup {NoArg}
    /\ MaxTable \in 0 .. U32 - 1

VARIABLES pc,     \* "ask" (a call is made), "hinted", "failed", "aborted" or "done"
          sql,    \* the statement
          asked,  \* the max_rows argument
          start,  \* where the client began
          skip,   \* the skip of the next call
          got,    \* the rows delivered so far
          page,   \* how many of them came with the last page
          hint,   \* the skip its hint suggests, or NoArg
          table,  \* how many rows the table has
          seen    \* how many it had when the last page was read

vars == <<pc, sql, asked, start, skip, got, page, hint, table, seen>>

TypeOK ==
    /\ pc \in {"ask", "hinted", "failed", "aborted", "done"}
    /\ sql \in Stmt
    /\ asked \in MaxRowsArg
    /\ start \in 0 .. U32 - 1
    /\ skip \in 0 .. U32 - 1
    /\ got \in Seq(Nat)
    /\ page \in Nat
    /\ hint \in (0 .. U32 - 1) \cup {NoArg}
    /\ table \in 0 .. MaxTable
    /\ seen \in 0 .. table

\* parse().ok().unwrap_or(DEFAULT_ROWS).min(MAX_ROWS)
MutantDefaultZero(arg) == IF arg = NoArg THEN 0 ELSE Least(arg, MAX_ROWS)
max_rows(arg) == IF arg = NoArg THEN DEFAULT_ROWS ELSE Least(arg, MAX_ROWS)

\* parse().ok().unwrap_or(0)
MutantSkipUnset(arg) == arg
skip_rows(arg) == IF arg = NoArg THEN 0 ELSE arg

\* The skip that the hint of a full page suggests.
MutantNextPage(s, m) == s + m + 1
next_skip(s, m) == (s + m) % U32

\* result.rows.len() >= max_rows
MutantOverfull(n, m) == n > m
full(n, m) == n >= m

Init ==
    /\ pc = "ask"
    /\ sql \in Stmt
    /\ asked \in MaxRowsArg
    /\ \E arg \in SkipArg : start = skip_rows(arg)
    /\ skip = start
    /\ got = <<>>
    /\ page = 0
    /\ hint = NoArg
    /\ table \in 0 .. MaxTable
    /\ seen = 0

\* handle_query: one page, with a hint when it is full.
Page ==
    /\ pc = "ask"
    /\ ~ Refuses(sql)
    /\ LET m    == max_rows(asked)
           rows == Fetch(sql, m, skip, table)
           more == full(Len(rows), m)
       IN /\ got' = got \o rows
          /\ page' = Len(rows)
          /\ hint' = IF more THEN next_skip(skip, m) ELSE NoArg
          /\ pc' = IF more THEN "hinted" ELSE "done"
    /\ seen' = table
    /\ UNCHANGED <<sql, asked, start, skip, table>>

\* handle_query, when the engine refuses the statement or the call fails for
\* a reason of its own.
Failure ==
    /\ pc = "ask"
    /\ pc' = "failed"
    /\ UNCHANGED <<sql, asked, start, skip, got, page, hint, table, seen>>

\* handle_query, when the place for the clause, found in the upper case, is
\* inside a character of the text or past its end.
Abort ==
    /\ pc = "ask"
    /\ Slips(sql)
    /\ pc' = "aborted"
    /\ UNCHANGED <<sql, asked, start, skip, got, page, hint, table, seen>>

\* The client follows the hint.
Follow ==
    /\ pc = "hinted"
    /\ Len(got) <= MaxTable
    /\ skip' = hint
    /\ pc' = "ask"
    /\ UNCHANGED <<sql, asked, start, got, page, hint, table, seen>>

\* Another session commits a row.
Insert ==
    /\ table < MaxTable
    /\ table' = table + 1
    /\ UNCHANGED <<pc, sql, asked, start, skip, got, page, hint, seen>>

Over ==
    /\ pc \in {"done", "failed", "aborted"} \/ Len(got) > MaxTable
    /\ UNCHANGED vars

Next == Page \/ Failure \/ Abort \/ Follow \/ Insert \/ Over

Spec == Init /\ [][Next]_vars

\* Each call returns, and the client goes on as long as it is told to.
FairSpec == Spec /\ WF_vars(Page \/ Failure \/ Abort) /\ WF_vars(Follow)

-----------------------------------------------------------------------------
\* The pages handle_query returns for a plain statement, one after the other,
\* are the rows of the result from the first skip on: none twice, none left
\* out, none out of order.
InOrder == Plain(sql) => got = [i \in 1 .. Len(got) |-> start + i]

\* A page of a plain statement without a hint is the last: no row that was
\* there when it was read is missing (rows.len() >= max_rows).
Complete == Plain(sql) /\ pc = "done" => start + Len(got) >= seen

\* "SELECT results are bounded to 100 rows by default (hard cap: 1000)"
\* (definitions.rs, firebird_query): no page of a plain statement has more
\* rows than that.
PageBounded == Plain(sql) => page <= max_rows(asked)

\* The hint for a plain statement is the place of the row after the last one
\* delivered, wherever the client began: skip + max_rows never wraps, and no
\* short page has one.
HintIsExact == Plain(sql) /\ pc = "hinted" => hint = start + Len(got)

\* A client that follows the hints of handle_query for a plain statement, in
\* pages of at least one row, comes to an end once no more rows are added.
Ends == Plain(sql) /\ asked # 0 => <>(pc \in {"done", "failed"})

-----------------------------------------------------------------------------
\* What definitions.rs says of every page that carries a hint, whatever the SELECT: it
\* has no more rows than the hard cap ("SELECT results are bounded to 100 rows by
\* default (hard cap: 1000)", 19); with those before it, it is the rows
\* of the result, each once and in order ("use max_rows and skip to paginate", 19); and
\* its hint leads on ("use the value suggested in the truncation hint", 26). One of the
\* three at least holds. (What refutes this, in the run Pages, refutes all three.)
Bounded == page <= MAX_ROWS
OnceInOrder == got = [i \in 1 .. Len(got) |-> start + i]
LeadsOn == hint # skip
SomePagingHolds == pc = "hinted" => Bounded \/ OnceInOrder \/ LeadsOn
=============================================================================
