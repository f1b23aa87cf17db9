-------------------------------- MODULE Handler --------------------------------
(***************************************************************************)
(* A tool call that reads the catalog: a sequence of queries, some of them *)
(* for the rows of an earlier one. work holds what is still to do, in      *)
(* order; a step does its head, and may put further items in its place.    *)
(* An error ends the call, unless the code swallows it.                    *)
(***************************************************************************)
EXTENDS Catalog

Tool == {"extract", "describe", "describe_table", "describe_database", "list",
         "domains", "find_column", "generate", "view_dto", "duplicates"}

CONSTANT Calls  \* the calls a client may make: the tool, names (or a limit), the kinds of a list

\* What a list is of: TABLES are tables and views; no kind stands for INDEXES.
ListType == {{}, {"table", "view"}} \cup {{k} : k \in Kind \ {"table", "view"}}

ASSUME CallsAssumption ==
    Calls \subseteq [tool : Tool, names : Seq(Nat), kinds : ListType]

VARIABLES call,    \* the request
          status,  \* "start", "run", "done", "failed"
          work,    \* what is left to do: an operation, a name, a row at hand
          part,    \* what is being put together: a routine's parameters, a schema
          out,     \* what has been written
          faulted  \* a query has failed

handlerVars == <<call, status, work, part, out, faulted>>
vars == <<catalogVars, handlerVars>>

Item(op, of, row) == [op |-> op, of |-> of, row |-> row]
Do(op) == Item(op, 0, <<>>)

At(op) == status = "run" /\ work # <<>> /\ Head(work).op = op
Of == Head(work).of
Row == Head(work).row
Rest == Tail(work)

\* The head is done; items come in its place, statements are written.
Goes(items, statements) ==
    /\ work' = items \o Rest
    /\ out' = out \o statements
    /\ UNCHANGED <<catalogVars, call, status, faulted>>

\* One item for each row, one statement for each row.
ForEach(rows, F(_)) == [k \in 1 .. Len(rows) |-> F(rows[k])]

\* `?` on an error: the call ends with it, and with nothing else.
MutantKeepsOut ==
    /\ status' = "failed"
    /\ faulted' = TRUE
    /\ work' = <<>>
    /\ part' = <<>>
    /\ UNCHANGED <<catalogVars, call, out>>
Fails ==
    /\ status' = "failed"
    /\ faulted' = TRUE
    /\ work' = <<>>
    /\ out' = <<>>
    /\ part' = <<>>
    /\ UNCHANGED <<catalogVars, call>>

Finish ==
    /\ status = "run" /\ work = <<>>
    /\ status' = "done"
    /\ UNCHANGED <<catalogVars, call, work, part, out, faulted>>
=============================================================================
