---------------------------- MODULE ToolRequests ----------------------------
(***************************************************************************)
(* What a tools/call request asks for, as far as the transaction handling  *)
(* of the handlers can tell: the tool, the SQL statements it carries (a    *)
(* script after split_statements, the rows of a batch, the one statement   *)
(* of the other tools), and the isolation and lock_wait arguments.         *)
(*                                                                         *)
(* A statement is a kind and the row it touches:                           *)
(*   select  reads the row                                                 *)
(*   next    reads, and advances a sequence (SELECT GEN_ID ...)            *)
(*   dml     writes the row (DML, or DDL: the row is then a catalog row)   *)
(*   proc    advances a sequence, then writes the row (EXECUTE PROCEDURE)  *)
(*   end     ends the transaction from inside SQL (a COMMIT statement)     *)
(*   bad     does not prepare, or is a batch row of the wrong length       *)
(*   wrapped is text between SET TERM directives, sent as it stands        *)
(***************************************************************************)
EXTENDS Naturals, Sequences

CONSTANTS Row,      \* the rows (or catalog rows) statements touch
          Request   \* the requests clients send, a subset of RequestSpace

Kind == {"select", "next", "dml", "proc", "end", "bad", "wrapped"}
Statement == [kind : Kind, row : Row]

Tool == {"select", "execute", "script", "batch", "immediate", "sequence",
         "ddl", "routine", "explain"}

IsolationArg == {"absent", "read-committed", "snapshot", "consistency",
                 "readonly", "bogus"}
LockWaitArg  == {"absent", "0", "10"}

\* A script has any number of statements, a batch any number of rows, and an
\* introspection tool sends several queries; the other tools carry one statement.
\* A COMMIT handed to explain_plan is left out.
RequestSpace ==
    {r \in [tool : Tool, stmts : Seq(Statement),
            isolation : IsolationArg, lock_wait : LockWaitArg] :
        /\ r.tool \notin {"select", "script", "batch"} => Len(r.stmts) = 1
        /\ r.tool = "explain" => r.stmts[1].kind # "end"}

ASSUME RequestAssumption == Request \subseteq RequestSpace

NoRequest == [tool |-> "none", stmts |-> <<>>,
              isolation |-> "absent", lock_wait |-> "absent"]

Reads(st)  == IF st.kind \in {"select", "next", "dml", "proc"} THEN {st.row} ELSE {}
Writes(st) == IF st.kind \in {"dml", "proc"} THEN {st.row} ELSE {}
Advances(st) == st.kind \in {"next", "proc"}

\* The statements of r whose effect a transaction carries.
WriteSet(r) == {i \in 1 .. Len(r.stmts) : Writes(r.stmts[i]) # {}}

\* ddl.rs wraps the text of a trigger, a procedure or a function in SET TERM
\* directives and sends it in one piece; everything else is sent as it came.
Sent(r, i) == IF r.tool = "routine" THEN [r.stmts[i] EXCEPT !.kind = "wrapped"]
              ELSE r.stmts[i]

\* What r leaves in the database when it succeeds: explain_plan leaves nothing.
Effect(r) == IF r.tool = "explain" THEN {} ELSE WriteSet(r)
=============================================================================
