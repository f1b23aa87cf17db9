------------------------------ MODULE ToolCalls ------------------------------
(***************************************************************************)
(* The life of tools/call requests. Each MCP server process serves one     *)
(* request at a time: the handler opens a connection of its own, runs the  *)
(* statements, and drops the connection when it returns. Several processes *)
(* (and sessions of other programs) share one database.                    *)
(*                                                                         *)
(*   select     query, query_with_limit, the introspection tools           *)
(*   execute    handle_query's other branch: query::execute, then the plan *)
(*   script     run_script             batch    insert_batch               *)
(*   immediate  execute_immediate      sequence create_sequence            *)
(*   ddl        drop, alter            routine  create_trigger, _procedure,*)
(*   explain    explain_plan                    _function                  *)
(***************************************************************************)
EXTENDS Firebird

CONSTANT NoCall
ASSUME CallAssumption == NoCall \notin Call

VARIABLES
    pc,     \* pc[s]: where the process s is in the handler it runs
    cur,    \* cur[s]: the call it serves, or NoCall
    req,    \* req[c]: what call c asks for, NoRequest until it is received
    idx,    \* idx[s]: `executed`, the statements run so far
    out,    \* out[s]: the result the handler is going to return
    ans,    \* ans[c]: what the client of c has heard
    linked, \* linked[s]: the connection of s is up
    hurt    \* hurt[c]: an event outside c's own request disturbed c (history)

handlers == <<pc, cur, req, idx, out, ans, linked, hurt>>
vars == <<engine, handlers>>

PC == {"idle", "open", "auto", "begin", "run", "rollback",
       "explain_begin", "explain_exec", "explain_read", "return"}

\* ok and planned are successes, the second with a plan attached; failed is any
\* error but that of commit itself, which is uncertain. spurious is the error
\* that exec takes for a success. A call whose server died is lost.
Outcome == {"ok", "planned", "failed", "uncertain"}

TypeOK ==
    /\ EngineTypeOK
    /\ pc \in [Server -> PC]
    /\ cur \in [Server -> Call \cup {NoCall}]
    /\ req \in [Call -> Request \cup {NoRequest}]
    /\ idx \in [Server -> Nat]
    /\ out \in [Server -> Outcome \cup {"none", "spurious"}]
    /\ ans \in [Call -> Outcome \cup {"none", "lost"}]
    /\ linked \in [Server -> BOOLEAN]
    /\ hurt \in [Call -> BOOLEAN]

Init ==
    /\ EngineInit
    /\ pc = [s \in Server |-> "idle"]
    /\ cur = [s \in Server |-> NoCall]
    /\ req = [c \in Call |-> NoRequest]
    /\ idx = [s \in Server |-> 0]
    /\ out = [s \in Server |-> "none"]
    /\ ans = [c \in Call |-> "none"]
    /\ linked = [s \in Server |-> FALSE]
    /\ hurt = [c \in Call |-> FALSE]

-----------------------------------------------------------------------------
R(s)    == req[cur[s]]
Stmt(s) == Sent(R(s), idx[s] + 1)
More(s) == idx[s] < Len(R(s).stmts)
Live(s) == linked[s] /\ tx[s] # NoTx

Goto(s, p)   == pc' = [pc EXCEPT ![s] = p]
Result(s, o) == out' = [out EXCEPT ![s] = o]
Finish(s, o) == Goto(s, "return") /\ Result(s, o)
Disturb(s)   == hurt' = [hurt EXCEPT ![cur[s]] = TRUE]

-----------------------------------------------------------------------------
\* The checks of the handlers that refuse a request before they connect.
Rejected(r) == \/ r.tool = "script" /\ preset(r.isolation) = "None"
               \/ r.tool = "batch" /\ r.stmts = <<>>

Receive(s, c) ==
    /\ pc[s] = "idle"
    /\ req[c] = NoRequest
    /\ \E r \in Request :
        /\ req' = [req EXCEPT ![c] = r]
        /\ Goto(s, IF Rejected(r) THEN "return" ELSE "open")
        /\ Result(s, IF Rejected(r) THEN "failed" ELSE "none")
    /\ cur' = [cur EXCEPT ![s] = c]
    /\ idx' = [idx EXCEPT ![s] = 0]
    /\ UNCHANGED <<engine, ans, linked, hurt>>

FirstStep(tool) ==
    CASE tool \in {"select", "execute", "immediate", "sequence"} -> "auto"
      [] tool = "explain" -> "explain_begin"
      [] OTHER            -> "begin"

Open(s) ==
    /\ pc[s] = "open"
    /\ Goto(s, FirstStep(R(s).tool))
    /\ linked' = [linked EXCEPT ![s] = TRUE]
    /\ UNCHANGED <<engine, cur, req, idx, out, ans, hurt>>

OpenFails(s) ==
    /\ pc[s] = "open"
    /\ Finish(s, "failed")
    /\ Disturb(s)
    /\ UNCHANGED <<engine, cur, req, idx, ans, linked>>

-----------------------------------------------------------------------------
\* A statement outside a transaction: the driver runs it in one of its own,
\* with the configuration the connection was built with.
AutoOk(s) ==
    /\ pc[s] = "auto"
    /\ More(s)
    /\ linked[s]
    /\ Accepts(metadata_transaction_conf.access, Stmt(s))
    /\ AutoRun(cur[s], idx[s] + 1, Stmt(s))
    /\ idx' = [idx EXCEPT ![s] = @ + 1]
    /\ UNCHANGED <<pc, cur, req, out, ans, linked, hurt>>

AutoDone(s) ==
    /\ pc[s] = "auto"
    /\ ~ More(s)
    /\ Finish(s, "ok")
    /\ UNCHANGED <<engine, cur, req, idx, ans, linked, hurt>>

\* execute falls back from query to exec on any error.
AutoErr(s) ==
    /\ pc[s] = "auto"
    /\ More(s)
    /\ \/ ~ linked[s]
       \/ ~ Accepts(metadata_transaction_conf.access, Stmt(s))
       \/ Stmt(s).kind = "end"
    /\ IF R(s).tool = "execute" THEN Goto(s, "begin") /\ UNCHANGED out
                                ELSE Finish(s, "failed")
    /\ IF linked[s] THEN StmtFails(cur[s], Stmt(s)) ELSE UNCHANGED engine
    /\ UNCHANGED <<cur, req, idx, ans, linked, hurt>>

-----------------------------------------------------------------------------
\* begin_rw_transaction, begin_transaction(preset, lock_wait); run_script
\* refuses a script without statements first.
Begin(s) ==
    /\ pc[s] = "begin"
    /\ linked[s]
    /\ R(s).stmts # <<>>
    /\ TxBegin(s, BeginConf(R(s)))
    /\ Goto(s, "run")
    /\ idx' = [idx EXCEPT ![s] = 0]
    /\ UNCHANGED <<cur, req, out, ans, linked, hurt>>

BeginFails(s) ==
    /\ pc[s] = "begin"
    /\ ~ linked[s] \/ R(s).stmts = <<>>
    /\ Finish(s, "failed")
    /\ UNCHANGED <<engine, cur, req, idx, ans, linked, hurt>>

\* The process waits inside execute for a lock.
Waiting(s) == /\ pc[s] = "run"
              /\ More(s)
              /\ Live(s)
              /\ Accepts(tx[s].access, Stmt(s))
              /\ Blocked(s, Stmt(s))

Run(s) ==
    /\ pc[s] = "run"
    /\ More(s)
    /\ Live(s)
    /\ Stmt(s).kind # "end"
    /\ Accepts(tx[s].access, Stmt(s))
    /\ ~ Blocked(s, Stmt(s))
    /\ ~ Conflicts(s, Stmt(s))
    /\ TxRun(s, cur[s], idx[s] + 1, Stmt(s))
    /\ idx' = [idx EXCEPT ![s] = @ + 1]
    /\ UNCHANGED <<pc, cur, req, out, ans, linked, hurt>>

\* The `Err(e)` of the statement loop: the handler goes on to its rollback.
Fails(s) ==
    /\ Goto(s, "rollback")
    /\ Result(s, "failed")
    /\ IF Live(s) THEN StmtFails(cur[s], Stmt(s)) ELSE UNCHANGED engine
    /\ UNCHANGED <<cur, req, idx, ans, linked>>

RunErr(s) ==
    /\ pc[s] = "run"
    /\ More(s)
    /\ ~ Live(s) \/ ~ Accepts(tx[s].access, Stmt(s))
    /\ Fails(s)
    /\ UNCHANGED hurt

UpdateConflict(s) ==
    /\ pc[s] = "run"
    /\ More(s)
    /\ Live(s)
    /\ Accepts(tx[s].access, Stmt(s))
    /\ ~ Blocked(s, Stmt(s))
    /\ Conflicts(s, Stmt(s))
    /\ Fails(s)
    /\ Disturb(s)

LockTimeout(s) ==
    /\ Waiting(s)
    /\ tx[s].wait = "timed"
    /\ Fails(s)
    /\ Disturb(s)

\* The engine fails one of a set of processes that wait for each other.
DeadlockVictim(s) ==
    /\ \E circle \in SUBSET Server :
        /\ s \in circle
        /\ \A t \in circle :
            Waiting(t) /\ Blockers(t, Stmt(t)) \cap circle # {}
    /\ Fails(s)
    /\ Disturb(s)

\* COMMIT as a statement: the work is committed and the driver's transaction
\* handle is void, which the driver may report at once or on its next use.
RunEnd(s) ==
    /\ pc[s] = "run"
    /\ More(s)
    /\ Live(s)
    /\ Stmt(s).kind = "end"
    /\ TxCommit(s, cur[s])
    /\ \/ /\ idx' = [idx EXCEPT ![s] = @ + 1]
          /\ UNCHANGED <<pc, out>>
       \/ /\ Goto(s, "rollback")
          /\ Result(s, IF R(s).tool = "execute" THEN "spurious" ELSE "failed")
          /\ UNCHANGED idx
    /\ UNCHANGED <<cur, req, ans, linked, hurt>>

-----------------------------------------------------------------------------
Committing(s) == pc[s] = "run" /\ ~ More(s)

Commit(s) ==
    /\ Committing(s)
    /\ Live(s)
    /\ TxCommit(s, cur[s])
    /\ Result(s, "ok")
    /\ Goto(s, IF R(s).tool = "execute" THEN "explain_begin" ELSE "return")
    /\ UNCHANGED <<cur, req, idx, ans, linked, hurt>>

MutantIgnoredCommit(s) ==
    /\ Committing(s)
    /\ ~ Live(s)
    /\ Finish(s, "ok")
    /\ UNCHANGED <<engine, cur, req, idx, ans, linked, hurt>>

\* commit()? returns the error as it is, without a rollback.
CommitFails(s) ==
    /\ Committing(s)
    /\ ~ Live(s)
    /\ Finish(s, "uncertain")
    /\ UNCHANGED <<engine, cur, req, idx, ans, linked, hurt>>

\* The engine refuses (deferred DDL work, an object in use) and leaves the
\* transaction open.
CommitRefused(s) ==
    /\ Committing(s)
    /\ Live(s)
    /\ Finish(s, "uncertain")
    /\ Disturb(s)
    /\ UNCHANGED <<engine, cur, req, idx, ans, linked>>

\* The engine commits, and the link breaks before its reply arrives.
CommitReplyLost(s) ==
    /\ Committing(s)
    /\ Live(s)
    /\ TxCommit(s, cur[s])
    /\ Finish(s, "uncertain")
    /\ Disturb(s)
    /\ linked' = [linked EXCEPT ![s] = FALSE]
    /\ UNCHANGED <<cur, req, idx, ans>>

MutantKeepPartial(s) ==
    /\ pc[s] = "rollback"
    /\ IF Live(s) THEN TxCommit(s, cur[s]) ELSE UNCHANGED engine
    /\ Goto(s, "return")
    /\ UNCHANGED <<cur, req, idx, out, ans, linked, hurt>>

\* `let _ = rollback()`: its own failure is ignored. exec answers a success
\* for the spurious error; handle_query then asks for the plan.
Rollback(s) ==
    /\ pc[s] = "rollback"
    /\ IF Live(s) THEN TxRollback(s) ELSE UNCHANGED engine
    /\ IF out[s] = "spurious" THEN Goto(s, "explain_begin") /\ Result(s, "ok")
                              ELSE Goto(s, "return") /\ UNCHANGED out
    /\ UNCHANGED <<cur, req, idx, ans, linked, hurt>>

-----------------------------------------------------------------------------
\* explain_plan. handle_query drops its error and answers without a plan.
NoPlan(s) == IF R(s).tool = "explain" THEN "failed" ELSE "ok"

ExplainBegin(s) ==
    /\ pc[s] = "explain_begin"
    /\ linked[s]
    /\ TxBegin(s, metadata_transaction_conf)
    /\ Goto(s, "explain_exec")
    /\ idx' = [idx EXCEPT ![s] = 0]
    /\ UNCHANGED <<cur, req, out, ans, linked, hurt>>

ExplainBeginFails(s) ==
    /\ pc[s] = "explain_begin"
    /\ ~ linked[s]
    /\ Finish(s, NoPlan(s))
    /\ UNCHANGED <<engine, cur, req, idx, ans, linked, hurt>>

\* exec_result: the statement runs in full.
ExplainExec(s) ==
    /\ pc[s] = "explain_exec"
    /\ Live(s)
    /\ Accepts(tx[s].access, Stmt(s))
    /\ TxRun(s, cur[s], 1, Stmt(s))
    /\ Goto(s, "explain_read")
    /\ Result(s, "planned")
    /\ UNCHANGED <<cur, req, idx, ans, linked, hurt>>

ExplainExecFails(s) ==
    /\ pc[s] = "explain_exec"
    /\ ~ Live(s) \/ ~ Accepts(tx[s].access, Stmt(s))
    /\ IF Live(s) THEN StmtFails(cur[s], Stmt(s)) ELSE UNCHANGED engine
    /\ Goto(s, "explain_read")
    /\ Result(s, NoPlan(s))
    /\ UNCHANGED <<cur, req, idx, ans, linked, hurt>>

\* plan_result is read whatever exec_result is; either error wins.
ExplainRead(s) ==
    /\ pc[s] = "explain_read"
    /\ Goto(s, "rollback")
    /\ Result(s, IF Live(s) THEN out[s] ELSE NoPlan(s))
    /\ UNCHANGED <<engine, cur, req, idx, ans, linked, hurt>>

-----------------------------------------------------------------------------
MutantNoDrop(s) ==
    /\ pc[s] = "return"
    /\ Goto(s, "idle")
    /\ Result(s, "none")
    /\ ans' = [ans EXCEPT ![cur[s]] = out[s]]
    /\ cur' = [cur EXCEPT ![s] = NoCall]
    /\ idx' = [idx EXCEPT ![s] = 0]
    /\ linked' = [linked EXCEPT ![s] = FALSE]
    /\ UNCHANGED <<engine, req, hurt>>

\* The handler returns: its client goes out of scope, which closes the
\* connection, and the main loop writes the response.
Return(s) ==
    /\ pc[s] = "return"
    /\ TxRollback(s)
    /\ Goto(s, "idle")
    /\ Result(s, "none")
    /\ ans' = [ans EXCEPT ![cur[s]] = out[s]]
    /\ cur' = [cur EXCEPT ![s] = NoCall]
    /\ idx' = [idx EXCEPT ![s] = 0]
    /\ linked' = [linked EXCEPT ![s] = FALSE]
    /\ UNCHANGED <<req, hurt>>

\* The process dies (a panic aborts it, or its client kills it) and a new one
\* takes its place; the engine rolls the open transaction back.
Crash(s) ==
    /\ pc[s] # "idle"
    /\ TxRollback(s)
    /\ Goto(s, "idle")
    /\ Result(s, "none")
    /\ ans' = [ans EXCEPT ![cur[s]] = "lost"]
    /\ cur' = [cur EXCEPT ![s] = NoCall]
    /\ idx' = [idx EXCEPT ![s] = 0]
    /\ linked' = [linked EXCEPT ![s] = FALSE]
    /\ UNCHANGED <<req, hurt>>

\* The link to the engine breaks; the engine rolls the open transaction back.
Fault(s) ==
    /\ linked[s]
    /\ pc[s] # "return"
    /\ TxRollback(s)
    /\ linked' = [linked EXCEPT ![s] = FALSE]
    /\ Disturb(s)
    /\ UNCHANGED <<pc, cur, req, idx, out, ans>>

-----------------------------------------------------------------------------
Step(s) ==
    \/ Open(s) \/ OpenFails(s)
    \/ AutoOk(s) \/ AutoDone(s) \/ AutoErr(s)
    \/ Begin(s) \/ BeginFails(s)
    \/ Run(s) \/ RunErr(s) \/ UpdateConflict(s) \/ LockTimeout(s)
    \/ DeadlockVictim(s) \/ RunEnd(s)
    \/ Commit(s) \/ CommitFails(s) \/ CommitRefused(s) \/ CommitReplyLost(s)
    \/ Rollback(s)
    \/ ExplainBegin(s) \/ ExplainBeginFails(s)
    \/ ExplainExec(s) \/ ExplainExecFails(s) \/ ExplainRead(s)
    \/ Return(s)

\* Every call has been received and every process is idle.
Quiet == /\ \A s \in Server : pc[s] = "idle"
         /\ \A c \in Call : req[c] # NoRequest
         /\ UNCHANGED vars

Next ==
    \/ \E s \in Server : \/ \E c \in Call : Receive(s, c)
                         \/ Step(s)
                         \/ Crash(s)
                         \/ Fault(s)
    \/ Outside /\ UNCHANGED handlers
    \/ Quiet

Spec == Init /\ [][Next]_vars

\* A process runs on while it can; the engine serves, times out or breaks a
\* circle of those who can be served. Nothing obliges other sessions, crashes
\* or faults to happen.
FairSpec == Spec /\ \A s \in Server : WF_vars(Step(s))
=============================================================================
