------------------------- MODULE ToolCallsProperties -------------------------
(***************************************************************************)
(* What should hold of the tool calls.                                     *)
(***************************************************************************)
EXTENDS ToolCalls, FiniteSets

\* No request ends its transaction with a statement of its own.
NoInnerCommit == \A r \in Request : \A i \in 1 .. Len(r.stmts) : r.stmts[i].kind # "end"

\* A call's statements are in the database all together or not at all, at
\* every moment and whatever the other calls, faults and crashes do (the
\* single transaction of run_script, insert_batch, exec and exec_block).
AllOrNothing == \A c \in Call : saved[c] \in {{}, WriteSet(req[c])}

\* A success is answered only when every write of the call is committed, and
\* an error that is not commit's own only when nothing is.
AnswersTrue ==
    \A c \in Call :
        /\ ans[c] \in {"ok", "planned"} => saved[c] = Effect(req[c])
        /\ ans[c] = "failed" => saved[c] = {}

\* The handlers implement the atomic calls their descriptions promise.
Atomic == INSTANCE AtomicCalls WITH Call <- Call, req <- req, saved <- saved, ans <- ans
ImplementsAtomicCalls == Atomic!Spec

\* A transaction is open only while its statements run: none is open when the
\* next is begun (exec, then explain_plan), and a handler returns with one
\* open only when commit()? refused; then nothing but the drop of the client
\* ends it. Without a transaction no row is held.
NoLeak ==
    \A s \in Server :
        /\ tx[s] # NoTx =>
            \/ pc[s] \in {"run", "rollback", "explain_exec", "explain_read"}
            \/ pc[s] = "return" /\ out[s] = "uncertain"
        /\ tx[s] = NoTx => view[s] \cup dirty[s] = {}

\* No statement of r is refused for what it is: each can be prepared, and the
\* caller has not asked for a transaction that may not write it.
Sound(r) ==
    /\ ~ Rejected(r)
    /\ r.stmts # <<>>
    /\ \A i \in 1 .. Len(r.stmts) :
        /\ r.stmts[i].kind \notin {"bad", "wrapped", "end"}
        /\ Writes(r.stmts[i]) # {} =>
            /\ r.tool # "select"
            /\ r.tool = "script" => preset(r.isolation) # "ReadOnly"

\* A call that asks for something its tool describes fails only when another
\* transaction, the engine or the link got in its way: the transaction the
\* handler chose allows what the tool is for.
NoCauselessError ==
    \A c \in Call :
        ans[c] \in {"failed", "uncertain"} /\ Sound(req[c]) => hurt[c]

\* Every call is answered (or its server dies): no process waits for ever.
Answered == \A c \in Call : req[c] # NoRequest ~> ans[c] # "none"

Script(s, presets) == /\ cur[s] # NoCall
                      /\ R(s).tool = "script"
                      /\ preset(R(s).isolation) \in presets

\* A script that asked for a snapshot (or more) reads one state of the
\* database, and never writes over what another committed after that state:
\* "scripts that read and rewrite data and need a stable view" (client.rs).
StableView ==
    \A s \in Server : Script(s, {"Snapshot", "Consistency", "ReadOnly"}) =>
        fresh[s] = {} /\ dirty[s] \cap old[s] = {}

\* No one writes what a consistency script has touched while it runs: "locks
\* all tables it touches, preventing concurrent writes" (client.rs).
TablesLocked ==
    \A s \in Server : Script(s, {"Consistency"}) =>
        /\ \A t \in Server \ {s} : (view[s] \cup dirty[s]) \cap dirty[t] = {}
        /\ (view[s] \cup dirty[s]) \cap ext = {}

\* A readonly script writes nothing, not even for a moment, and explain_plan
\* leaves nothing behind, whatever statements they are given ("must not
\* accidentally modify data", client.rs; "no data changes persist", explain.rs).
ReadOnlyIsHarmless ==
    \A s \in Server : cur[s] # NoCall =>
        /\ Script(s, {"ReadOnly"}) => dirty[s] = {}
        /\ Script(s, {"ReadOnly"}) \/ R(s).tool = "explain" => saved[cur[s]] = {}

-----------------------------------------------------------------------------
\* What definitions.rs and README.md promise of a call, whatever its tool: its
\* statements take effect all together or not at all ("the entire transaction is
\* rolled back"); it "executes a single SQL statement", so that a sequence moves
\* once per statement that advances it; and it can do what it is described for, so
\* that it fails only when something outside its request got in its way.
Kept(c) ==
    /\ saved[c] \in {{}, WriteSet(req[c])}
    /\ advanced[c] <= Cardinality({i \in 1 .. Len(req[c].stmts) :
                                       Advances(req[c].stmts[i])})
    /\ ans[c] \in {"failed", "uncertain"} /\ Sound(req[c]) => hurt[c]

\* When every request has been sent once and answered, one of the calls at least was
\* kept. (What refutes this refutes the promise of every request there is.)
SomeCallIsKept ==
    /\ {req[c] : c \in Call} = Request
    /\ \A c \in Call : ans[c] \in Outcome
    => \E c \in Call : Kept(c)

\* A script waits for locks as definitions.rs says of lock_wait: with '0' it does not
\* fail while another session holds the row it needs ("Use '0' or omit for indefinite
\* wait"), and without the argument it does not wait for ever ("Default: 10"). One of
\* the two at least holds.
ZeroTimedOut ==
    \E s \in Server :
        /\ pc[s] = "rollback" /\ out[s] = "failed" /\ Live(s)
        /\ R(s).lock_wait = "0" /\ Sound(R(s)) /\ Blocked(s, Stmt(s))
WaitsAsTold == []~ZeroTimedOut \/ Answered

=============================================================================
