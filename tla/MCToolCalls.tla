----------------------------- MODULE MCToolCalls -----------------------------
(***************************************************************************)
(* Requests for the model-checking runs of ToolCalls.                      *)
(***************************************************************************)
EXTENDS ToolCallsProperties, TLC

CONSTANTS r1, r2   \* rows

Do(kind, row) == [kind |-> kind, row |-> row]

Ask(tool, stmts) == [tool |-> tool, stmts |-> stmts,
                     isolation |-> "absent", lock_wait |-> "absent"]

ScriptOf(stmts, isolation, wait) == [tool |-> "script", stmts |-> stmts,
                                     isolation |-> isolation,
                                     lock_wait |-> wait]

\* One of each kind of call, scripts that write two rows in opposite orders,
\* and calls that fail in their middle.
AtomicRequests ==
    { Ask("script", <<Do("dml", r1), Do("dml", r2)>>),
      Ask("script", <<Do("dml", r2), Do("dml", r1)>>),
      Ask("script", <<Do("dml", r1), Do("bad", r1)>>),
      Ask("script", <<>>),
      Ask("batch", <<Do("dml", r1), Do("dml", r1)>>),
      Ask("batch", <<Do("dml", r1), Do("bad", r1)>>),
      Ask("batch", <<>>),
      Ask("execute", <<Do("proc", r1)>>),
      Ask("execute", <<Do("next", r1)>>),
      Ask("ddl", <<Do("dml", r2)>>),
      Ask("select", <<Do("select", r1), Do("next", r2)>>),
      Ask("immediate", <<Do("next", r1)>>),
      Ask("explain", <<Do("next", r1)>>) }

\* Scripts of every preset, with a lock-wait bound; one of them commits inside.
IsolationRequests ==
    { ScriptOf(<<Do("select", r1), Do("dml", r1)>>, "read-committed", "10"),
      ScriptOf(<<Do("select", r1), Do("dml", r1)>>, "snapshot", "10"),
      ScriptOf(<<Do("select", r1), Do("dml", r2)>>, "consistency", "10"),
      ScriptOf(<<Do("dml", r2), Do("select", r1)>>, "absent", "10"),
      ScriptOf(<<Do("select", r1), Do("dml", r2)>>, "readonly", "10"),
      ScriptOf(<<Do("dml", r1), Do("end", r1), Do("dml", r2)>>, "snapshot", "10"),
      ScriptOf(<<Do("dml", r1)>>, "bogus", "10"),
      Ask("explain", <<Do("proc", r1)>>),
      Ask("sequence", <<Do("dml", r2)>>),
      Ask("routine", <<Do("dml", r2)>>) }

\* What five tools are described for: a script, one of whose statements fails after a
\* COMMIT; statements for execute_immediate and explain_plan that write; a routine; a
\* statement that advances a sequence.
DescribedRequests ==
    { Ask("script", <<Do("dml", r1), Do("end", r1), Do("dml", r2)>>),
      Ask("immediate", <<Do("dml", r1)>>),
      Ask("explain", <<Do("dml", r1)>>),
      Ask("routine", <<Do("dml", r1)>>),
      Ask("execute", <<Do("proc", r1)>>) }
AnyCall == Permutations(Call)

\* A bound of the search for a counterexample: each of them sent once, and nothing
\* goes wrong outside them.
OnceEach ==
    /\ \A c, d \in Call : req[c] = req[d] /\ req[c] # NoRequest => c = d
    /\ \A c \in Call : ~ hurt[c] /\ ans[c] # "lost"

\* Scripts that need a row: with lock_wait '0', and without the argument.
WaitRequests == { ScriptOf(<<Do("dml", r1)>>, "absent", "0"),
                  ScriptOf(<<Do("dml", r1)>>, "absent", "absent") }
=============================================================================
