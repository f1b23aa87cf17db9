--------------------------- MODULE ToolCallsProofs ---------------------------
(***************************************************************************)
(* Proofs about ToolCalls, for every set of processes, calls, rows and     *)
(* requests.                                                               *)
(***************************************************************************)
EXTENDS ToolCallsProperties, TLAPS

-----------------------------------------------------------------------------
(* The operators of the model.                                             *)

\* What is sent for the i-th statement of a request is a statement.
LEMMA SentIsStatement ==
    ASSUME NEW r \in RequestSpace, NEW i \in 1 .. Len(r.stmts)
    PROVE  /\ Sent(r, i) \in Statement
           /\ Writes(Sent(r, i)) \subseteq Row
           /\ Reads(Sent(r, i)) \subseteq Row
<1>1. r.stmts[i] \in Statement
  BY DEF RequestSpace
<1>2. Sent(r, i) \in Statement
  BY <1>1 DEF Sent, Statement, Kind
<1> QED
  BY <1>2 DEF Statement, Writes, Reads

\* Every transaction a handler begins has a proper configuration.
LEMMA BeginConfIsConf ==
    ASSUME NEW r \in RequestSpace
    PROVE  BeginConf(r) \in Conf
<1>1. ASSUME NEW p, NEW w \in {"forever", "timed"}
      PROVE  to_conf(p, w) \in Conf
  BY <1>1 DEF to_conf, Conf
<1>2. lock_wait(r.lock_wait) \in {"forever", "timed"}
  BY DEF lock_wait
<1>3. rw_transaction_conf \in Conf
  BY DEF rw_transaction_conf, Conf
<1> QED
  BY <1>1, <1>2, <1>3 DEF BeginConf

LEMMA MetadataConfIsConf == metadata_transaction_conf \in Conf
  BY DEF metadata_transaction_conf, Conf

-----------------------------------------------------------------------------
(* The engine's operations keep its type.                                  *)

LEMMA TxBeginType ==
    ASSUME EngineTypeOK, NEW s \in Server, NEW conf \in Conf, TxBegin(s, conf)
    PROVE  EngineTypeOK'
  BY DEF EngineTypeOK, TxBegin, locks

LEMMA TxRollbackType ==
    ASSUME EngineTypeOK, NEW s \in Server, TxRollback(s)
    PROVE  EngineTypeOK'
  BY DEF EngineTypeOK, TxRollback, TxEnd

LEMMA OvertakeType ==
    ASSUME EngineTypeOK, NEW rows \in SUBSET Row, NEW others
    PROVE  Overtake(rows, others) \in [Server -> SUBSET Row]
  BY DEF EngineTypeOK, Overtake

LEMMA TxCommitType ==
    ASSUME EngineTypeOK, NEW s \in Server, NEW c \in Call, TxCommit(s, c)
    PROVE  EngineTypeOK'
<1>1. dirty[s] \in SUBSET Row
  BY DEF EngineTypeOK
<1>2. Overtake(dirty[s], Server \ {s}) \in [Server -> SUBSET Row]
  BY <1>1, OvertakeType
<1>3. old' \in [Server -> SUBSET Row]
  BY <1>2 DEF TxCommit
<1>4. saved' \in [Call -> SUBSET Nat]
  BY DEF EngineTypeOK, TxCommit
<1> QED
  BY <1>3, <1>4 DEF EngineTypeOK, TxCommit, TxEnd

LEMMA AdvanceType ==
    ASSUME EngineTypeOK, NEW c \in Call, NEW st, Advance(c, st)
    PROVE  advanced' \in [Call -> Nat]
  BY DEF EngineTypeOK, Advance

LEMMA StmtFailsType ==
    ASSUME EngineTypeOK, NEW c \in Call, NEW st, StmtFails(c, st)
    PROVE  EngineTypeOK'
<1>1. advanced' \in [Call -> Nat]
  BY AdvanceType DEF StmtFails
<1> QED
  BY <1>1 DEF EngineTypeOK, StmtFails, locks

LEMMA TxRunType ==
    ASSUME EngineTypeOK, NEW s \in Server, NEW c \in Call, NEW i \in Nat, NEW st,
           Writes(st) \subseteq Row, Reads(st) \subseteq Row,
           TxRun(s, c, i, st)
    PROVE  EngineTypeOK'
<1>1. advanced' \in [Call -> Nat]
  BY AdvanceType DEF TxRun
<1>2. work' \in [Server -> SUBSET Nat]
  BY DEF EngineTypeOK, TxRun
<1>3. view' \in [Server -> SUBSET Row] /\ dirty' \in [Server -> SUBSET Row]
  BY DEF EngineTypeOK, TxRun
<1>4. fresh' \in [Server -> SUBSET Row]
  BY DEF EngineTypeOK, TxRun
<1> QED
  BY <1>1, <1>2, <1>3, <1>4 DEF EngineTypeOK, TxRun

LEMMA AutoRunType ==
    ASSUME EngineTypeOK, NEW c \in Call, NEW i \in Nat, NEW st,
           Writes(st) \subseteq Row, AutoRun(c, i, st)
    PROVE  EngineTypeOK'
<1>1. advanced' \in [Call -> Nat]
  BY AdvanceType DEF AutoRun
<1>2. old' \in [Server -> SUBSET Row]
  BY OvertakeType DEF AutoRun
<1>3. saved' \in [Call -> SUBSET Nat]
  BY DEF EngineTypeOK, AutoRun
<1> QED
  BY <1>1, <1>2, <1>3 DEF EngineTypeOK, AutoRun

LEMMA OutsideType ==
    ASSUME EngineTypeOK, Outside
    PROVE  EngineTypeOK'
<1>1. PICK r \in Row : ExtLock(r) \/ ExtCommit(r) \/ ExtRollback(r)
  BY DEF Outside
<1>2. Overtake({r}, Server) \in [Server -> SUBSET Row]
  BY OvertakeType
<1>3. ext' \in SUBSET Row
  BY <1>1 DEF ExtLock, ExtCommit, ExtRollback, EngineTypeOK
<1>4. CASE ExtLock(r) \/ ExtRollback(r)
  BY <1>3, <1>4 DEF EngineTypeOK, ExtLock, ExtRollback, locks
<1>5. CASE ExtCommit(r)
  BY <1>2, <1>3, <1>5 DEF EngineTypeOK, ExtCommit
<1> QED
  BY <1>1, <1>4, <1>5

-----------------------------------------------------------------------------
(* Type correctness.                                                       *)

Explaining == {"explain_begin", "explain_exec", "explain_read"}

\* What the control state of a process says of the call it serves.
Serving(s) ==
    /\ pc[s] # "idle" => /\ cur[s] \in Call
                         /\ req[cur[s]] \in Request
    /\ pc[s] = "return" => out[s] \in Outcome
    /\ pc[s] = "rollback" => out[s] \in Outcome \cup {"spurious"}
    /\ out[s] = "spurious" => /\ pc[s] = "rollback"
                             /\ R(s).tool = "execute"
    /\ pc[s] \in Explaining => R(s).tool \in {"execute", "explain"}
    /\ pc[s] = "explain_exec" => idx[s] = 0
    /\ pc[s] = "explain_read" => out[s] \in Outcome

TInv == TypeOK /\ \A s \in Server : Serving(s)

LEMMA TInvInit == Init => TInv
<1> SUFFICES ASSUME Init PROVE TInv
  OBVIOUS
<1>1. EngineTypeOK
  BY DEF Init, EngineInit, EngineTypeOK
<1>2. TypeOK
  BY <1>1 DEF Init, TypeOK, PC, Outcome
<1>3. \A s \in Server : Serving(s)
  BY DEF Init, Serving, Explaining
<1> QED
  BY <1>2, <1>3 DEF TInv

\* The statement a busy process is about to run.
LEMMA StmtType ==
    ASSUME TInv, NEW s \in Server, pc[s] # "idle",
           More(s) \/ pc[s] = "explain_exec"
    PROVE  /\ cur[s] \in Call
           /\ idx[s] + 1 \in Nat
           /\ Writes(Stmt(s)) \subseteq Row
           /\ Reads(Stmt(s)) \subseteq Row
<1>1. cur[s] \in Call /\ R(s) \in RequestSpace /\ idx[s] \in Nat
  BY RequestAssumption DEF TInv, Serving, TypeOK, R
<1>2. Len(R(s).stmts) \in Nat
  BY <1>1 DEF RequestSpace
<1>3. CASE More(s)
  BY <1>1, <1>2, <1>3, SentIsStatement DEF More, Stmt
<1>4. CASE pc[s] = "explain_exec"
  <2>1. idx[s] = 0 /\ R(s).tool \in {"execute", "explain"}
    BY <1>4 DEF TInv, Serving, Explaining
  <2>2. Len(R(s).stmts) = 1
    BY <1>1, <2>1 DEF RequestSpace
  <2> QED
    BY <1>1, <2>1, <2>2, SentIsStatement DEF Stmt
<1> QED
  BY <1>3, <1>4

LEMMA NoRequestIsNone == NoRequest \notin Request
  BY RequestAssumption DEF RequestSpace, NoRequest, Tool

\* A step of s that keeps the requests keeps TInv if it keeps the types and
\* leaves the other processes alone and s in order.
Alone(s) ==
    \A t \in Server \ {s} : /\ pc'[t] = pc[t] /\ cur'[t] = cur[t]
                            /\ idx'[t] = idx[t] /\ out'[t] = out[t]

LEMMA TInvStep ==
    ASSUME TInv, NEW s \in Server, TypeOK', req' = req, Alone(s), Serving(s)'
    PROVE  TInv'
<1>1. ASSUME NEW t \in Server \ {s} PROVE Serving(t)'
  BY DEF TInv, Serving, R, Alone
<1> QED
  BY <1>1 DEF TInv

\* Every step of a process keeps TInv.
LEMMA TInvServerStep ==
    ASSUME TInv, NEW s \in Server, Step(s) \/ Crash(s) \/ Fault(s)
    PROVE  TInv'
<1> USE DEF Goto, Result, Finish, Disturb
<1>1. Serving(s) /\ TypeOK /\ EngineTypeOK
  BY DEF TInv, TypeOK
<1>2. CASE Open(s)
  <2>1. EngineTypeOK'
    BY <1>1, <1>2 DEF Open, EngineTypeOK, engine, locks
  <2>2. TypeOK'
    BY <1>1, <1>2, <2>1 DEF Open, FirstStep, TypeOK, PC, Outcome, Serving
  <2>3. Alone(s) /\ req' = req
    BY <1>1, <1>2 DEF Open, FirstStep, Alone, TypeOK
  <2>4. Serving(s)'
    BY <1>1, <1>2, <2>3 DEF Open, FirstStep, TypeOK, Serving, Explaining, Outcome, R
  <2> QED
    BY <2>2, <2>3, <2>4, TInvStep
<1>3. CASE OpenFails(s)
  <2>1. EngineTypeOK'
    BY <1>1, <1>3 DEF OpenFails, EngineTypeOK, engine, locks
  <2>2. TypeOK'
    BY <1>1, <1>3, <2>1 DEF OpenFails, TypeOK, PC, Outcome, Serving
  <2>3. Alone(s) /\ req' = req
    BY <1>1, <1>3 DEF OpenFails, Alone, TypeOK
  <2>4. Serving(s)'
    BY <1>1, <1>3, <2>3 DEF OpenFails, TypeOK, Serving, Explaining, Outcome, R
  <2> QED
    BY <2>2, <2>3, <2>4, TInvStep
<1>4. CASE AutoOk(s)
  <2>1. EngineTypeOK'
    BY <1>1, <1>4, StmtType, AutoRunType DEF AutoOk
  <2>2. TypeOK'
    BY <1>1, <1>4, <2>1 DEF AutoOk, TypeOK, PC, Outcome, Serving
  <2>3. Alone(s) /\ req' = req
    BY <1>1, <1>4 DEF AutoOk, Alone, TypeOK
  <2>4. Serving(s)'
    BY <1>1, <1>4, <2>3 DEF AutoOk, TypeOK, Serving, Explaining, Outcome, R
  <2> QED
    BY <2>2, <2>3, <2>4, TInvStep
<1>5. CASE AutoDone(s)
  <2>1. EngineTypeOK'
    BY <1>1, <1>5 DEF AutoDone, EngineTypeOK, engine, locks
  <2>2. TypeOK'
    BY <1>1, <1>5, <2>1 DEF AutoDone, TypeOK, PC, Outcome, Serving
  <2>3. Alone(s) /\ req' = req
    BY <1>1, <1>5 DEF AutoDone, Alone, TypeOK
  <2>4. Serving(s)'
    BY <1>1, <1>5, <2>3 DEF AutoDone, TypeOK, Serving, Explaining, Outcome, R
  <2> QED
    BY <2>2, <2>3, <2>4, TInvStep
<1>6. CASE AutoErr(s)
  <2>1. EngineTypeOK'
    BY <1>1, <1>6, StmtFailsType DEF AutoErr, Serving, EngineTypeOK, engine, locks
  <2>2. TypeOK'
    BY <1>1, <1>6, <2>1 DEF AutoErr, TypeOK, PC, Outcome, Serving
  <2>3. Alone(s) /\ req' = req
    BY <1>1, <1>6 DEF AutoErr, Alone, TypeOK
  <2>4. Serving(s)'
    BY <1>1, <1>6, <2>3 DEF AutoErr, TypeOK, Serving, Explaining, Outcome, R
  <2> QED
    BY <2>2, <2>3, <2>4, TInvStep
<1>7. CASE Begin(s)
  <2>1. EngineTypeOK'
    BY <1>1, <1>7, BeginConfIsConf, RequestAssumption, TxBeginType DEF Begin, Serving, R
  <2>2. TypeOK'
    BY <1>1, <1>7, <2>1 DEF Begin, TypeOK, PC, Outcome, Serving
  <2>3. Alone(s) /\ req' = req
    BY <1>1, <1>7 DEF Begin, Alone, TypeOK
  <2>4. Serving(s)'
    BY <1>1, <1>7, <2>3 DEF Begin, TypeOK, Serving, Explaining, Outcome, R
  <2> QED
    BY <2>2, <2>3, <2>4, TInvStep
<1>8. CASE BeginFails(s)
  <2>1. EngineTypeOK'
    BY <1>1, <1>8 DEF BeginFails, EngineTypeOK, engine, locks
  <2>2. TypeOK'
    BY <1>1, <1>8, <2>1 DEF BeginFails, TypeOK, PC, Outcome, Serving
  <2>3. Alone(s) /\ req' = req
    BY <1>1, <1>8 DEF BeginFails, Alone, TypeOK
  <2>4. Serving(s)'
    BY <1>1, <1>8, <2>3 DEF BeginFails, TypeOK, Serving, Explaining, Outcome, R
  <2> QED
    BY <2>2, <2>3, <2>4, TInvStep
<1>9. CASE Run(s)
  <2>1. EngineTypeOK'
    BY <1>1, <1>9, StmtType, TxRunType DEF Run
  <2>2. TypeOK'
    BY <1>1, <1>9, <2>1 DEF Run, TypeOK, PC, Outcome, Serving
  <2>3. Alone(s) /\ req' = req
    BY <1>1, <1>9 DEF Run, Alone, TypeOK
  <2>4. Serving(s)'
    BY <1>1, <1>9, <2>3 DEF Run, TypeOK, Serving, Explaining, Outcome, R
  <2> QED
    BY <2>2, <2>3, <2>4, TInvStep
<1>10. CASE RunErr(s)
  <2>1. EngineTypeOK'
    BY <1>1, <1>10, StmtFailsType DEF RunErr, Fails, Waiting, Serving, EngineTypeOK, engine, locks
  <2>2. TypeOK'
    BY <1>1, <1>10, <2>1 DEF RunErr, Fails, Waiting, TypeOK, PC, Outcome, Serving
  <2>3. Alone(s) /\ req' = req
    BY <1>1, <1>10 DEF RunErr, Fails, Waiting, Alone, TypeOK
  <2>4. Serving(s)'
    BY <1>1, <1>10, <2>3 DEF RunErr, Fails, Waiting, TypeOK, Serving, Explaining, Outcome, R
  <2> QED
    BY <2>2, <2>3, <2>4, TInvStep
<1>11. CASE UpdateConflict(s)
  <2>1. EngineTypeOK'
    BY <1>1, <1>11, StmtFailsType DEF UpdateConflict, Fails, Waiting, Serving, EngineTypeOK, engine, locks
  <2>2. TypeOK'
    BY <1>1, <1>11, <2>1 DEF UpdateConflict, Fails, Waiting, TypeOK, PC, Outcome, Serving
  <2>3. Alone(s) /\ req' = req
    BY <1>1, <1>11 DEF UpdateConflict, Fails, Waiting, Alone, TypeOK
  <2>4. Serving(s)'
    BY <1>1, <1>11, <2>3 DEF UpdateConflict, Fails, Waiting, TypeOK, Serving, Explaining, Outcome, R
  <2> QED
    BY <2>2, <2>3, <2>4, TInvStep
<1>12. CASE LockTimeout(s)
  <2>1. EngineTypeOK'
    BY <1>1, <1>12, StmtFailsType DEF LockTimeout, Fails, Waiting, Serving, EngineTypeOK, engine, locks
  <2>2. TypeOK'
    BY <1>1, <1>12, <2>1 DEF LockTimeout, Fails, Waiting, TypeOK, PC, Outcome, Serving
  <2>3. Alone(s) /\ req' = req
    BY <1>1, <1>12 DEF LockTimeout, Fails, Waiting, Alone, TypeOK
  <2>4. Serving(s)'
    BY <1>1, <1>12, <2>3 DEF LockTimeout, Fails, Waiting, TypeOK, Serving, Explaining, Outcome, R
  <2> QED
    BY <2>2, <2>3, <2>4, TInvStep
<1>13. CASE DeadlockVictim(s)
  <2>1. EngineTypeOK'
    BY <1>1, <1>13, StmtFailsType DEF DeadlockVictim, Fails, Waiting, Serving, EngineTypeOK, engine, locks
  <2>2. TypeOK'
    BY <1>1, <1>13, <2>1 DEF DeadlockVictim, Fails, Waiting, TypeOK, PC, Outcome, Serving
  <2>3. Alone(s) /\ req' = req
    BY <1>1, <1>13 DEF DeadlockVictim, Fails, Waiting, Alone, TypeOK
  <2>4. Serving(s)'
    BY <1>1, <1>13, <2>3 DEF DeadlockVictim, Fails, Waiting, TypeOK, Serving, Explaining, Outcome, R
  <2> QED
    BY <2>2, <2>3, <2>4, TInvStep
<1>14. CASE RunEnd(s)
  <2>1. EngineTypeOK'
    BY <1>1, <1>14, TxCommitType DEF RunEnd, Serving
  <2>2. TypeOK'
    BY <1>1, <1>14, <2>1 DEF RunEnd, TypeOK, PC, Outcome, Serving
  <2>3. Alone(s) /\ req' = req
    BY <1>1, <1>14 DEF RunEnd, Alone, TypeOK
  <2>4. Serving(s)'
    BY <1>1, <1>14, <2>3 DEF RunEnd, TypeOK, Serving, Explaining, Outcome, R
  <2> QED
    BY <2>2, <2>3, <2>4, TInvStep
<1>15. CASE Commit(s)
  <2>1. EngineTypeOK'
    BY <1>1, <1>15, TxCommitType DEF Commit, Committing, Serving
  <2>2. TypeOK'
    BY <1>1, <1>15, <2>1 DEF Commit, Committing, TypeOK, PC, Outcome, Serving
  <2>3. Alone(s) /\ req' = req
    BY <1>1, <1>15 DEF Commit, Committing, Alone, TypeOK
  <2>4. Serving(s)'
    BY <1>1, <1>15, <2>3 DEF Commit, Committing, TypeOK, Serving, Explaining, Outcome, R
  <2> QED
    BY <2>2, <2>3, <2>4, TInvStep
<1>16. CASE CommitFails(s)
  <2>1. EngineTypeOK'
    BY <1>1, <1>16 DEF CommitFails, EngineTypeOK, engine, locks
  <2>2. TypeOK'
    BY <1>1, <1>16, <2>1 DEF CommitFails, Committing, TypeOK, PC, Outcome, Serving
  <2>3. Alone(s) /\ req' = req
    BY <1>1, <1>16 DEF CommitFails, Committing, Alone, TypeOK
  <2>4. Serving(s)'
    BY <1>1, <1>16, <2>3 DEF CommitFails, Committing, TypeOK, Serving, Explaining, Outcome, R
  <2> QED
    BY <2>2, <2>3, <2>4, TInvStep
<1>17. CASE CommitRefused(s)
  <2>1. EngineTypeOK'
    BY <1>1, <1>17 DEF CommitRefused, EngineTypeOK, engine, locks
  <2>2. TypeOK'
    BY <1>1, <1>17, <2>1 DEF CommitRefused, Committing, TypeOK, PC, Outcome, Serving
  <2>3. Alone(s) /\ req' = req
    BY <1>1, <1>17 DEF CommitRefused, Committing, Alone, TypeOK
  <2>4. Serving(s)'
    BY <1>1, <1>17, <2>3 DEF CommitRefused, Committing, TypeOK, Serving, Explaining, Outcome, R
  <2> QED
    BY <2>2, <2>3, <2>4, TInvStep
<1>18. CASE CommitReplyLost(s)
  <2>1. EngineTypeOK'
    BY <1>1, <1>18, TxCommitType DEF CommitReplyLost, Committing, Serving
  <2>2. TypeOK'
    BY <1>1, <1>18, <2>1 DEF CommitReplyLost, Committing, TypeOK, PC, Outcome, Serving
  <2>3. Alone(s) /\ req' = req
    BY <1>1, <1>18 DEF CommitReplyLost, Committing, Alone, TypeOK
  <2>4. Serving(s)'
    BY <1>1, <1>18, <2>3 DEF CommitReplyLost, Committing, TypeOK, Serving, Explaining, Outcome, R
  <2> QED
    BY <2>2, <2>3, <2>4, TInvStep
<1>19. CASE Rollback(s)
  <2>1. EngineTypeOK'
    BY <1>1, <1>19, TxRollbackType DEF Rollback, EngineTypeOK, engine, locks
  <2>2. TypeOK'
    BY <1>1, <1>19, <2>1 DEF Rollback, TypeOK, PC, Outcome, Serving
  <2>3. Alone(s) /\ req' = req
    BY <1>1, <1>19 DEF Rollback, Alone, TypeOK
  <2>4. Serving(s)'
    BY <1>1, <1>19, <2>3 DEF Rollback, TypeOK, Serving, Explaining, Outcome, R
  <2> QED
    BY <2>2, <2>3, <2>4, TInvStep
<1>20. CASE ExplainBegin(s)
  <2>1. EngineTypeOK'
    BY <1>1, <1>20, MetadataConfIsConf, TxBeginType DEF ExplainBegin
  <2>2. TypeOK'
    BY <1>1, <1>20, <2>1 DEF ExplainBegin, NoPlan, TypeOK, PC, Outcome, Serving
  <2>3. Alone(s) /\ req' = req
    BY <1>1, <1>20 DEF ExplainBegin, NoPlan, Alone, TypeOK
  <2>4. Serving(s)'
    BY <1>1, <1>20, <2>3 DEF ExplainBegin, NoPlan, TypeOK, Serving, Explaining, Outcome, R
  <2> QED
    BY <2>2, <2>3, <2>4, TInvStep
<1>21. CASE ExplainBeginFails(s)
  <2>1. EngineTypeOK'
    BY <1>1, <1>21 DEF ExplainBeginFails, EngineTypeOK, engine, locks
  <2>2. TypeOK'
    BY <1>1, <1>21, <2>1 DEF ExplainBeginFails, NoPlan, TypeOK, PC, Outcome, Serving
  <2>3. Alone(s) /\ req' = req
    BY <1>1, <1>21 DEF ExplainBeginFails, NoPlan, Alone, TypeOK
  <2>4. Serving(s)'
    BY <1>1, <1>21, <2>3 DEF ExplainBeginFails, NoPlan, TypeOK, Serving, Explaining, Outcome, R
  <2> QED
    BY <2>2, <2>3, <2>4, TInvStep
<1>22. CASE ExplainExec(s)
  <2>1. EngineTypeOK'
    BY <1>1, <1>22, StmtType, TxRunType DEF ExplainExec
  <2>2. TypeOK'
    BY <1>1, <1>22, <2>1 DEF ExplainExec, NoPlan, TypeOK, PC, Outcome, Serving
  <2>3. Alone(s) /\ req' = req
    BY <1>1, <1>22 DEF ExplainExec, NoPlan, Alone, TypeOK
  <2>4. Serving(s)'
    BY <1>1, <1>22, <2>3 DEF ExplainExec, NoPlan, TypeOK, Serving, Explaining, Outcome, R
  <2> QED
    BY <2>2, <2>3, <2>4, TInvStep
<1>23. CASE ExplainExecFails(s)
  <2>1. EngineTypeOK'
    BY <1>1, <1>23, StmtFailsType DEF ExplainExecFails, Serving, EngineTypeOK, engine, locks
  <2>2. TypeOK'
    BY <1>1, <1>23, <2>1 DEF ExplainExecFails, NoPlan, TypeOK, PC, Outcome, Serving
  <2>3. Alone(s) /\ req' = req
    BY <1>1, <1>23 DEF ExplainExecFails, NoPlan, Alone, TypeOK
  <2>4. Serving(s)'
    BY <1>1, <1>23, <2>3 DEF ExplainExecFails, NoPlan, TypeOK, Serving, Explaining, Outcome, R
  <2> QED
    BY <2>2, <2>3, <2>4, TInvStep
<1>24. CASE ExplainRead(s)
  <2>1. EngineTypeOK'
    BY <1>1, <1>24 DEF ExplainRead, EngineTypeOK, engine, locks
  <2>2. TypeOK'
    BY <1>1, <1>24, <2>1 DEF ExplainRead, NoPlan, TypeOK, PC, Outcome, Serving
  <2>3. Alone(s) /\ req' = req
    BY <1>1, <1>24 DEF ExplainRead, NoPlan, Alone, TypeOK
  <2>4. Serving(s)'
    BY <1>1, <1>24, <2>3 DEF ExplainRead, NoPlan, TypeOK, Serving, Explaining, Outcome, R
  <2> QED
    BY <2>2, <2>3, <2>4, TInvStep
<1>25. CASE Return(s)
  <2>1. EngineTypeOK'
    BY <1>1, <1>25, TxRollbackType DEF Return
  <2>2. TypeOK'
    BY <1>1, <1>25, <2>1 DEF Return, TypeOK, PC, Outcome, Serving
  <2>3. Alone(s) /\ req' = req
    BY <1>1, <1>25 DEF Return, Alone, TypeOK
  <2>4. Serving(s)'
    BY <1>1, <1>25, <2>3 DEF Return, TypeOK, Serving, Explaining, Outcome, R
  <2> QED
    BY <2>2, <2>3, <2>4, TInvStep
<1>26. CASE Crash(s)
  <2>1. EngineTypeOK'
    BY <1>1, <1>26, TxRollbackType DEF Crash
  <2>2. TypeOK'
    BY <1>1, <1>26, <2>1 DEF Crash, TypeOK, PC, Outcome, Serving
  <2>3. Alone(s) /\ req' = req
    BY <1>1, <1>26 DEF Crash, Alone, TypeOK
  <2>4. Serving(s)'
    BY <1>1, <1>26, <2>3 DEF Crash, TypeOK, Serving, Explaining, Outcome, R
  <2> QED
    BY <2>2, <2>3, <2>4, TInvStep
<1>27. CASE Fault(s)
  <2>1. EngineTypeOK'
    BY <1>1, <1>27, TxRollbackType DEF Fault
  <2>2. TypeOK'
    BY <1>1, <1>27, <2>1 DEF Fault, TypeOK, PC, Outcome, Serving
  <2>3. Alone(s) /\ req' = req
    BY <1>1, <1>27 DEF Fault, Alone, TypeOK
  <2>4. Serving(s)'
    BY <1>1, <1>27, <2>3 DEF Fault, TypeOK, Serving, Explaining, Outcome, R
  <2> QED
    BY <2>2, <2>3, <2>4, TInvStep
<1> QED
  BY <1>2, <1>3, <1>4, <1>5, <1>6, <1>7, <1>8, <1>9, <1>10, <1>11, <1>12, <1>13, <1>14, <1>15, <1>16, <1>17, <1>18, <1>19, <1>20, <1>21, <1>22, <1>23, <1>24, <1>25, <1>26, <1>27 DEF Step

LEMMA TInvReceive ==
    ASSUME TInv, NEW s \in Server, NEW c \in Call, Receive(s, c)
    PROVE  TInv'
<1>1. PICK r \in Request :
        /\ req' = [req EXCEPT ![c] = r]
        /\ Goto(s, IF Rejected(r) THEN "return" ELSE "open")
        /\ Result(s, IF Rejected(r) THEN "failed" ELSE "none")
  BY DEF Receive
<1>2. req[c] = NoRequest /\ pc[s] = "idle" /\ TypeOK
  BY DEF Receive, TInv
<1>3. EngineTypeOK'
  BY <1>2 DEF Receive, EngineTypeOK, TypeOK, engine, locks
<1>4. TypeOK'
  BY <1>1, <1>2, <1>3 DEF Receive, TypeOK, Goto, Result, PC, Outcome
<1>5. ASSUME NEW t \in Server PROVE Serving(t)'
  <2>1. CASE t = s
    BY <1>1, <1>2, <2>1
    DEF Receive, TypeOK, Serving, Goto, Result, R, Explaining, Outcome
  <2>2. CASE t # s
    <3>1. /\ pc'[t] = pc[t] /\ cur'[t] = cur[t]
          /\ idx'[t] = idx[t] /\ out'[t] = out[t]
      BY <1>1, <1>2, <2>2 DEF Receive, TypeOK, Goto, Result
    <3>2. Serving(t)
      BY DEF TInv
    <3>3. pc[t] # "idle" => cur[t] # c
      BY <1>2, <3>2, NoRequestIsNone DEF Serving
    <3>4. pc[t] # "idle" => req'[cur[t]] = req[cur[t]]
      BY <1>1, <1>2, <3>2, <3>3 DEF TypeOK, Serving
    <3> QED
      BY <3>1, <3>2, <3>4 DEF Serving, R, Explaining
  <2> QED
    BY <2>1, <2>2
<1> QED
  BY <1>4, <1>5 DEF TInv

LEMMA TInvStutter ==
    ASSUME TInv, UNCHANGED vars
    PROVE  TInv'
  BY DEF TInv, TypeOK, EngineTypeOK, Serving, R, vars, engine, locks, handlers

LEMMA TInvOutside ==
    ASSUME TInv, Outside, UNCHANGED handlers
    PROVE  TInv'
<1>1. EngineTypeOK'
  BY OutsideType DEF TInv, TypeOK
<1> QED
  BY <1>1 DEF TInv, TypeOK, Serving, R, handlers

LEMMA TInvNext == TInv /\ [Next]_vars => TInv'
<1> SUFFICES ASSUME TInv, [Next]_vars PROVE TInv'
  OBVIOUS
<1>1. CASE \E s \in Server, c \in Call : Receive(s, c)
  BY <1>1, TInvReceive
<1>2. CASE \E s \in Server : Step(s) \/ Crash(s) \/ Fault(s)
  BY <1>2, TInvServerStep
<1>3. CASE Outside /\ UNCHANGED handlers
  BY <1>3, TInvOutside
<1>4. CASE Quiet \/ UNCHANGED vars
  BY <1>4, TInvStutter DEF Quiet
<1> QED
  BY <1>1, <1>2, <1>3, <1>4 DEF Next

LEMMA TInvAlways == Spec => []TInv
  BY TInvInit, TInvNext, PTL DEF Spec

\* Every variable keeps its type: with any number of processes, calls and
\* requests, a transaction always has one of the configurations of client.rs.
THEOREM TypeCorrect == Spec => []TypeOK
<1>1. TInv => TypeOK
  BY DEF TInv
<1> QED
  BY <1>1, TInvAlways, PTL

-----------------------------------------------------------------------------
(* Nothing is left behind.                                                 *)

\* A process without a transaction holds nothing in the engine, and it has
\* none before it begins one, after its link broke, and when it is idle; when
\* it returns, only a commit that failed can have left one.
Clean(s) ==
    /\ tx[s] = NoTx => /\ work[s] = {} /\ view[s] = {} /\ fresh[s] = {}
                       /\ dirty[s] = {} /\ old[s] = {}
    /\ ~ linked[s] => tx[s] = NoTx
    /\ pc[s] = "idle" => ~ linked[s]
    /\ pc[s] \in {"idle", "open", "auto", "begin", "explain_begin"} => tx[s] = NoTx
    /\ pc[s] = "return" => tx[s] = NoTx \/ out[s] = "uncertain"

CInv == \A s \in Server : Clean(s)

LEMMA CInvInit == Init => CInv
  BY DEF Init, EngineInit, CInv, Clean

\* A step of s keeps CInv if the engine's record of the other processes does
\* not change, or grows by committed rows where a transaction is open.
Apart(s) ==
    \A t \in Server \ {s} :
        /\ tx'[t] = tx[t] /\ work'[t] = work[t] /\ view'[t] = view[t]
        /\ fresh'[t] = fresh[t] /\ dirty'[t] = dirty[t]
        /\ tx[t] = NoTx => old'[t] = old[t]
        /\ linked'[t] = linked[t] /\ pc'[t] = pc[t] /\ out'[t] = out[t]

LEMMA CInvStep ==
    ASSUME CInv, NEW s \in Server, Apart(s), Clean(s)'
    PROVE  CInv'
<1>1. ASSUME NEW t \in Server \ {s} PROVE Clean(t)'
  BY DEF CInv, Clean, Apart
<1> QED
  BY <1>1 DEF CInv

LEMMA CInvServerStep ==
    ASSUME TInv, CInv, NEW s \in Server, Step(s) \/ Crash(s) \/ Fault(s)
    PROVE  CInv'
<1> USE DEF Goto, Result, Finish, Disturb
<1>1. Clean(s) /\ TypeOK /\ EngineTypeOK
  BY DEF CInv, TInv, TypeOK
<1>2. CASE Open(s)
  <2>1. Apart(s)
    BY <1>1, <1>2 DEF Open, engine, locks, FirstStep, Apart, TypeOK, EngineTypeOK
  <2>2. Clean(s)'
    BY <1>1, <1>2 DEF Open, engine, locks, FirstStep, Clean, TypeOK, EngineTypeOK
  <2> QED
    BY <2>1, <2>2, CInvStep
<1>3. CASE OpenFails(s)
  <2>1. Apart(s)
    BY <1>1, <1>3 DEF OpenFails, engine, locks, Apart, TypeOK, EngineTypeOK
  <2>2. Clean(s)'
    BY <1>1, <1>3 DEF OpenFails, engine, locks, Clean, TypeOK, EngineTypeOK
  <2> QED
    BY <2>1, <2>2, CInvStep
<1>4. CASE AutoOk(s)
  <2>1. Apart(s)
    BY <1>1, <1>4 DEF AutoOk, AutoRun, Advance, Overtake, locks, Apart, TypeOK, EngineTypeOK
  <2>2. Clean(s)'
    BY <1>1, <1>4, StmtType DEF AutoOk, AutoRun, Advance, Overtake, locks, Clean, TypeOK, EngineTypeOK
  <2> QED
    BY <2>1, <2>2, CInvStep
<1>5. CASE AutoDone(s)
  <2>1. Apart(s)
    BY <1>1, <1>5 DEF AutoDone, engine, locks, Apart, TypeOK, EngineTypeOK
  <2>2. Clean(s)'
    BY <1>1, <1>5 DEF AutoDone, engine, locks, Clean, TypeOK, EngineTypeOK
  <2> QED
    BY <2>1, <2>2, CInvStep
<1>6. CASE AutoErr(s)
  <2>1. Apart(s)
    BY <1>1, <1>6 DEF AutoErr, StmtFails, engine, locks, Apart, TypeOK, EngineTypeOK
  <2>2. Clean(s)'
    BY <1>1, <1>6 DEF AutoErr, StmtFails, engine, locks, Clean, TypeOK, EngineTypeOK
  <2> QED
    BY <2>1, <2>2, CInvStep
<1>7. CASE Begin(s)
  <2>1. Apart(s)
    BY <1>1, <1>7 DEF Begin, TxBegin, NoTx, BeginConf, locks, Apart, TypeOK, EngineTypeOK
  <2>2. Clean(s)'
    BY <1>1, <1>7 DEF Begin, TxBegin, NoTx, BeginConf, locks, Clean, TypeOK, EngineTypeOK
  <2> QED
    BY <2>1, <2>2, CInvStep
<1>8. CASE BeginFails(s)
  <2>1. Apart(s)
    BY <1>1, <1>8 DEF BeginFails, engine, locks, Apart, TypeOK, EngineTypeOK
  <2>2. Clean(s)'
    BY <1>1, <1>8 DEF BeginFails, engine, locks, Clean, TypeOK, EngineTypeOK
  <2> QED
    BY <2>1, <2>2, CInvStep
<1>9. CASE Run(s)
  <2>1. Apart(s)
    BY <1>1, <1>9 DEF Run, TxRun, Live, locks, Apart, TypeOK, EngineTypeOK
  <2>2. Clean(s)'
    BY <1>1, <1>9 DEF Run, TxRun, Live, locks, Clean, TypeOK, EngineTypeOK
  <2> QED
    BY <2>1, <2>2, CInvStep
<1>10. CASE RunErr(s)
  <2>1. Apart(s)
    BY <1>1, <1>10 DEF RunErr, Fails, Waiting, StmtFails, engine, locks, Apart, TypeOK, EngineTypeOK
  <2>2. Clean(s)'
    BY <1>1, <1>10 DEF RunErr, Fails, Waiting, StmtFails, engine, locks, Clean, TypeOK, EngineTypeOK
  <2> QED
    BY <2>1, <2>2, CInvStep
<1>11. CASE UpdateConflict(s)
  <2>1. Apart(s)
    BY <1>1, <1>11 DEF UpdateConflict, Fails, Waiting, StmtFails, engine, locks, Apart, TypeOK, EngineTypeOK
  <2>2. Clean(s)'
    BY <1>1, <1>11 DEF UpdateConflict, Fails, Waiting, StmtFails, engine, locks, Clean, TypeOK, EngineTypeOK
  <2> QED
    BY <2>1, <2>2, CInvStep
<1>12. CASE LockTimeout(s)
  <2>1. Apart(s)
    BY <1>1, <1>12 DEF LockTimeout, Fails, Waiting, StmtFails, engine, locks, Apart, TypeOK, EngineTypeOK
  <2>2. Clean(s)'
    BY <1>1, <1>12 DEF LockTimeout, Fails, Waiting, StmtFails, engine, locks, Clean, TypeOK, EngineTypeOK
  <2> QED
    BY <2>1, <2>2, CInvStep
<1>13. CASE DeadlockVictim(s)
  <2>1. Apart(s)
    BY <1>1, <1>13 DEF DeadlockVictim, Fails, Waiting, StmtFails, engine, locks, Apart, TypeOK, EngineTypeOK
  <2>2. Clean(s)'
    BY <1>1, <1>13 DEF DeadlockVictim, Fails, Waiting, StmtFails, engine, locks, Clean, TypeOK, EngineTypeOK
  <2> QED
    BY <2>1, <2>2, CInvStep
<1>14. CASE RunEnd(s)
  <2>1. Apart(s)
    BY <1>1, <1>14 DEF RunEnd, TxCommit, TxEnd, Overtake, locks, Apart, TypeOK, EngineTypeOK
  <2>2. Clean(s)'
    BY <1>1, <1>14 DEF RunEnd, TxCommit, TxEnd, Overtake, locks, Clean, TypeOK, EngineTypeOK
  <2> QED
    BY <2>1, <2>2, CInvStep
<1>15. CASE Commit(s)
  <2>1. Apart(s)
    BY <1>1, <1>15 DEF Commit, TxCommit, TxEnd, Overtake, locks, Committing, Apart, TypeOK, EngineTypeOK
  <2>2. Clean(s)'
    BY <1>1, <1>15 DEF Commit, TxCommit, TxEnd, Overtake, locks, Committing, Clean, TypeOK, EngineTypeOK
  <2> QED
    BY <2>1, <2>2, CInvStep
<1>16. CASE CommitFails(s)
  <2>1. Apart(s)
    BY <1>1, <1>16 DEF CommitFails, engine, locks, Committing, Apart, TypeOK, EngineTypeOK
  <2>2. Clean(s)'
    BY <1>1, <1>16 DEF CommitFails, engine, locks, Committing, Clean, TypeOK, EngineTypeOK
  <2> QED
    BY <2>1, <2>2, CInvStep
<1>17. CASE CommitRefused(s)
  <2>1. Apart(s)
    BY <1>1, <1>17 DEF CommitRefused, engine, locks, Committing, Apart, TypeOK, EngineTypeOK
  <2>2. Clean(s)'
    BY <1>1, <1>17 DEF CommitRefused, engine, locks, Committing, Clean, TypeOK, EngineTypeOK
  <2> QED
    BY <2>1, <2>2, CInvStep
<1>18. CASE CommitReplyLost(s)
  <2>1. Apart(s)
    BY <1>1, <1>18 DEF CommitReplyLost, TxCommit, TxEnd, Overtake, locks, Committing, Apart, TypeOK, EngineTypeOK
  <2>2. Clean(s)'
    BY <1>1, <1>18 DEF CommitReplyLost, TxCommit, TxEnd, Overtake, locks, Committing, Clean, TypeOK, EngineTypeOK
  <2> QED
    BY <2>1, <2>2, CInvStep
<1>19. CASE Rollback(s)
  <2>1. Apart(s)
    BY <1>1, <1>19 DEF Rollback, TxRollback, TxEnd, engine, Live, locks, Apart, TypeOK, EngineTypeOK
  <2>2. Clean(s)'
    BY <1>1, <1>19 DEF Rollback, TxRollback, TxEnd, engine, Live, locks, Clean, TypeOK, EngineTypeOK
  <2> QED
    BY <2>1, <2>2, CInvStep
<1>20. CASE ExplainBegin(s)
  <2>1. Apart(s)
    BY <1>1, <1>20 DEF ExplainBegin, TxBegin, locks, Apart, TypeOK, EngineTypeOK
  <2>2. Clean(s)'
    BY <1>1, <1>20 DEF ExplainBegin, TxBegin, locks, Clean, TypeOK, EngineTypeOK
  <2> QED
    BY <2>1, <2>2, CInvStep
<1>21. CASE ExplainBeginFails(s)
  <2>1. Apart(s)
    BY <1>1, <1>21 DEF ExplainBeginFails, engine, locks, Apart, TypeOK, EngineTypeOK
  <2>2. Clean(s)'
    BY <1>1, <1>21 DEF ExplainBeginFails, engine, locks, Clean, TypeOK, EngineTypeOK
  <2> QED
    BY <2>1, <2>2, CInvStep
<1>22. CASE ExplainExec(s)
  <2>1. Apart(s)
    BY <1>1, <1>22 DEF ExplainExec, TxRun, Live, locks, Apart, TypeOK, EngineTypeOK
  <2>2. Clean(s)'
    BY <1>1, <1>22 DEF ExplainExec, TxRun, Live, locks, Clean, TypeOK, EngineTypeOK
  <2> QED
    BY <2>1, <2>2, CInvStep
<1>23. CASE ExplainExecFails(s)
  <2>1. Apart(s)
    BY <1>1, <1>23 DEF ExplainExecFails, StmtFails, engine, locks, Apart, TypeOK, EngineTypeOK
  <2>2. Clean(s)'
    BY <1>1, <1>23 DEF ExplainExecFails, StmtFails, engine, locks, Clean, TypeOK, EngineTypeOK
  <2> QED
    BY <2>1, <2>2, CInvStep
<1>24. CASE ExplainRead(s)
  <2>1. Apart(s)
    BY <1>1, <1>24 DEF ExplainRead, engine, locks, Apart, TypeOK, EngineTypeOK
  <2>2. Clean(s)'
    BY <1>1, <1>24 DEF ExplainRead, engine, locks, Clean, TypeOK, EngineTypeOK
  <2> QED
    BY <2>1, <2>2, CInvStep
<1>25. CASE Return(s)
  <2>1. Apart(s)
    BY <1>1, <1>25 DEF Return, TxRollback, TxEnd, locks, Apart, TypeOK, EngineTypeOK
  <2>2. Clean(s)'
    BY <1>1, <1>25 DEF Return, TxRollback, TxEnd, locks, Clean, TypeOK, EngineTypeOK
  <2> QED
    BY <2>1, <2>2, CInvStep
<1>26. CASE Crash(s)
  <2>1. Apart(s)
    BY <1>1, <1>26 DEF Crash, TxRollback, TxEnd, locks, Apart, TypeOK, EngineTypeOK
  <2>2. Clean(s)'
    BY <1>1, <1>26 DEF Crash, TxRollback, TxEnd, locks, Clean, TypeOK, EngineTypeOK
  <2> QED
    BY <2>1, <2>2, CInvStep
<1>27. CASE Fault(s)
  <2>1. Apart(s)
    BY <1>1, <1>27 DEF Fault, TxRollback, TxEnd, locks, Apart, TypeOK, EngineTypeOK
  <2>2. Clean(s)'
    BY <1>1, <1>27 DEF Fault, TxRollback, TxEnd, locks, Clean, TypeOK, EngineTypeOK
  <2> QED
    BY <2>1, <2>2, CInvStep
<1> QED
  BY <1>2, <1>3, <1>4, <1>5, <1>6, <1>7, <1>8, <1>9, <1>10, <1>11, <1>12, <1>13, <1>14, <1>15, <1>16, <1>17, <1>18, <1>19, <1>20, <1>21, <1>22, <1>23, <1>24, <1>25, <1>26, <1>27 DEF Step

LEMMA CInvNext == TInv /\ CInv /\ [Next]_vars => CInv'
<1> SUFFICES ASSUME TInv, CInv, [Next]_vars PROVE CInv'
  OBVIOUS
<1>0. TypeOK /\ EngineTypeOK
  BY DEF TInv, TypeOK
<1>1. ASSUME NEW s \in Server, NEW c \in Call, Receive(s, c) PROVE CInv'
  <2>1. Clean(s)
    BY DEF CInv
  <2>2. pc[s] = "idle" /\ tx' = tx /\ work' = work /\ view' = view
        /\ fresh' = fresh /\ dirty' = dirty /\ old' = old /\ linked' = linked
    BY <1>1 DEF Receive, engine, locks
  <2>3. \A t \in Server \ {s} : pc'[t] = pc[t] /\ out'[t] = out[t]
    BY <1>0, <1>1 DEF Receive, Goto, Result, TypeOK
  <2>4. Clean(s)'
    BY <2>1, <2>2 DEF Clean
  <2> QED
    BY <2>2, <2>3, <2>4, CInvStep DEF Apart
<1>2. CASE \E s \in Server : Step(s) \/ Crash(s) \/ Fault(s)
  BY <1>2, CInvServerStep
<1>3. CASE Outside /\ UNCHANGED handlers
  BY <1>0, <1>3 DEF Outside, ExtLock, ExtCommit, ExtRollback, Overtake, CInv,
                    Clean, handlers, locks, TypeOK, EngineTypeOK
<1>4. CASE Quiet \/ UNCHANGED vars
  BY <1>4 DEF Quiet, CInv, Clean, vars, engine, locks, handlers
<1> QED
  BY <1>1, <1>2, <1>3, <1>4 DEF Next

LEMMA CInvAlways == Spec => [](TInv /\ CInv)
  BY TInvInit, TInvNext, CInvInit, CInvNext, PTL DEF Spec

\* A transaction is open only while its statements run, whichever way the
\* call goes; the one that a refused commit leaves open ends with the call.
THEOREM NothingLeft == Spec => []NoLeak
<1>1. TInv /\ CInv => NoLeak
  BY DEF TInv, TypeOK, PC, CInv, Clean, NoLeak
<1> QED
  BY <1>1, CInvAlways, PTL

-----------------------------------------------------------------------------
(* Which call a process serves, and in which transaction.                  *)

\* Calls that may not write: explain_plan and readonly scripts.
MayNotWrite(r) == \/ r.tool = "explain"
                  \/ r.tool = "script" /\ preset(r.isolation) = "ReadOnly"

Mode(s) ==
    /\ pc[s] = "idle" => cur[s] = NoCall
    /\ pc[s] \in {"auto", "begin", "run"} => R(s).tool # "explain"
    /\ pc[s] = "auto" => R(s).tool \in {"select", "execute", "immediate", "sequence"}
    /\ pc[s] # "idle" =>
        /\ ans[cur[s]] = "none"
        /\ R(s).tool = "script" => tx[s] \in {NoTx, BeginConf(R(s))}
        /\ R(s).tool = "explain" => tx[s] \in {NoTx, metadata_transaction_conf}
        /\ MayNotWrite(R(s)) => saved[cur[s]] = {}
    /\ pc[s] \in Explaining => tx[s] \in {NoTx, metadata_transaction_conf}
    /\ tx[s].access = "ReadOnly" => work[s] = {} /\ dirty[s] = {}

\* No two processes serve one call.
OneServer == \A s, t \in Server : s # t /\ pc[s] # "idle" /\ pc[t] # "idle"
                                    => cur[s] # cur[t]

Unheard(c) == req[c] = NoRequest => saved[c] = {} /\ ans[c] = "none"

MInv == /\ OneServer
        /\ \A s \in Server : Mode(s)
        /\ \A c \in Call : Unheard(c)

LEMMA MInvInit == Init => MInv
  BY DEF Init, EngineInit, MInv, OneServer, Mode, Unheard, NoTx, Explaining

\* A step of s touches the answer and the effect of its own call only, and the
\* transaction of s only.
Own(s) ==
    /\ req' = req
    /\ \A c \in Call : c # cur[s] => saved'[c] = saved[c] /\ ans'[c] = ans[c]
    /\ \A t \in Server \ {s} : /\ tx'[t] = tx[t] /\ work'[t] = work[t]
                               /\ dirty'[t] = dirty[t]
    /\ pc[s] # "idle" /\ pc'[s] # "idle" => cur'[s] = cur[s]

LEMMA MInvStep ==
    ASSUME TInv, MInv, NEW s \in Server, pc[s] # "idle", Own(s), Alone(s), Mode(s)'
    PROVE  MInv'
<1>1. cur[s] \in Call /\ req[cur[s]] \in Request
  BY DEF TInv, Serving
<1>2. ASSUME NEW t \in Server \ {s}, pc[t] # "idle"
      PROVE  cur[t] \in Call /\ cur[t] # cur[s]
  BY <1>2 DEF TInv, Serving, MInv, OneServer
<1>3. OneServer'
  BY <1>2 DEF MInv, OneServer, Own, Alone
<1>4. ASSUME NEW t \in Server \ {s} PROVE Mode(t)'
  <2>1. Mode(t)
    BY DEF MInv
  <2>2. pc[t] # "idle" => /\ saved'[cur[t]] = saved[cur[t]]
                          /\ ans'[cur[t]] = ans[cur[t]]
    BY <1>2 DEF Own
  <2>3. tx'[t] = tx[t] /\ work'[t] = work[t] /\ dirty'[t] = dirty[t] /\ req' = req
    BY DEF Own
  <2>4. pc'[t] = pc[t] /\ cur'[t] = cur[t]
    BY DEF Alone
  <2> QED
    BY <2>1, <2>2, <2>3, <2>4 DEF Mode, R, Explaining
<1>5. ASSUME NEW c \in Call PROVE Unheard(c)'
  <2>1. CASE c = cur[s]
    BY <1>1, <2>1, NoRequestIsNone DEF Own, Unheard
  <2>2. CASE c # cur[s]
    BY <2>2 DEF MInv, Own, Unheard
  <2> QED
    BY <2>1, <2>2
<1> QED
  BY <1>3, <1>4, <1>5 DEF MInv

\* A configuration that reads only: that of explain_plan and of readonly.
LEMMA ReadOnlyConf ==
    /\ metadata_transaction_conf.access = "ReadOnly"
    /\ NoTx.access = "none"
    /\ \A r \in RequestSpace : r.tool = "script" /\ preset(r.isolation) = "ReadOnly"
         => BeginConf(r).access = "ReadOnly"
  BY DEF metadata_transaction_conf, NoTx, BeginConf, to_conf

LEMMA MInvServerStep ==
    ASSUME TInv, CInv, MInv, NEW s \in Server, Step(s) \/ Crash(s) \/ Fault(s)
    PROVE  MInv'
<1> USE DEF Goto, Result, Finish, Disturb
<1>1. Serving(s) /\ TypeOK /\ EngineTypeOK /\ Mode(s) /\ Clean(s)
  BY DEF TInv, TypeOK, MInv, CInv
<1>2. pc[s] # "idle" => R(s) \in RequestSpace
  BY <1>1, RequestAssumption DEF Serving, R
<1>3. CASE Open(s)
  <2>1. pc[s] # "idle" /\ Alone(s)
    BY <1>1, <1>3 DEF Open, engine, locks, FirstStep, Alone, TypeOK, Serving
  <2>2. Own(s)
    BY <1>1, <1>3, <2>1 DEF Open, engine, locks, FirstStep, Own, TypeOK, EngineTypeOK, Serving
  <2>3. Mode(s)'
    BY <1>1, <1>2, <1>3, <2>1, <2>2, ReadOnlyConf DEF Open, engine, locks, FirstStep, Mode, Serving, Clean, R, MayNotWrite, Explaining, TypeOK, EngineTypeOK
  <2> QED
    BY <2>1, <2>2, <2>3, MInvStep
<1>4. CASE OpenFails(s)
  <2>1. pc[s] # "idle" /\ Alone(s)
    BY <1>1, <1>4 DEF OpenFails, engine, locks, Alone, TypeOK, Serving
  <2>2. Own(s)
    BY <1>1, <1>4, <2>1 DEF OpenFails, engine, locks, Own, TypeOK, EngineTypeOK, Serving
  <2>3. Mode(s)'
    BY <1>1, <1>2, <1>4, <2>1, <2>2, ReadOnlyConf DEF OpenFails, engine, locks, Mode, Serving, Clean, R, MayNotWrite, Explaining, TypeOK, EngineTypeOK
  <2> QED
    BY <2>1, <2>2, <2>3, MInvStep
<1>5. CASE AutoOk(s)
  <2>1. pc[s] # "idle" /\ Alone(s)
    BY <1>1, <1>5 DEF AutoOk, AutoRun, Accepts, locks, Alone, TypeOK, Serving
  <2>2. Own(s)
    BY <1>1, <1>5, <2>1 DEF AutoOk, AutoRun, Accepts, locks, metadata_transaction_conf, Own, TypeOK, EngineTypeOK, Serving
  <2>3. Mode(s)'
    BY <1>1, <1>2, <1>5, <2>1, <2>2, ReadOnlyConf DEF AutoOk, AutoRun, Accepts, locks, Mode, Serving, Clean, R, MayNotWrite, Explaining, TypeOK, EngineTypeOK
  <2> QED
    BY <2>1, <2>2, <2>3, MInvStep
<1>6. CASE AutoDone(s)
  <2>1. pc[s] # "idle" /\ Alone(s)
    BY <1>1, <1>6 DEF AutoDone, engine, locks, Alone, TypeOK, Serving
  <2>2. Own(s)
    BY <1>1, <1>6, <2>1 DEF AutoDone, engine, locks, Own, TypeOK, EngineTypeOK, Serving
  <2>3. Mode(s)'
    BY <1>1, <1>2, <1>6, <2>1, <2>2, ReadOnlyConf DEF AutoDone, engine, locks, Mode, Serving, Clean, R, MayNotWrite, Explaining, TypeOK, EngineTypeOK
  <2> QED
    BY <2>1, <2>2, <2>3, MInvStep
<1>7. CASE AutoErr(s)
  <2>1. pc[s] # "idle" /\ Alone(s)
    BY <1>1, <1>7 DEF AutoErr, StmtFails, engine, locks, Alone, TypeOK, Serving
  <2>2. Own(s)
    BY <1>1, <1>7, <2>1 DEF AutoErr, StmtFails, engine, locks, Own, TypeOK, EngineTypeOK, Serving
  <2>3. Mode(s)'
    BY <1>1, <1>2, <1>7, <2>1, <2>2, ReadOnlyConf DEF AutoErr, StmtFails, engine, locks, Mode, Serving, Clean, R, MayNotWrite, Explaining, TypeOK, EngineTypeOK
  <2> QED
    BY <2>1, <2>2, <2>3, MInvStep
<1>8. CASE Begin(s)
  <2>1. pc[s] # "idle" /\ Alone(s)
    BY <1>1, <1>8 DEF Begin, TxBegin, locks, Alone, TypeOK, Serving
  <2>2. Own(s)
    BY <1>1, <1>8, <2>1 DEF Begin, TxBegin, locks, Own, TypeOK, EngineTypeOK, Serving
  <2>3. Mode(s)'
    BY <1>1, <1>2, <1>8, <2>1, <2>2, ReadOnlyConf DEF Begin, TxBegin, locks, Mode, Serving, Clean, R, MayNotWrite, Explaining, TypeOK, EngineTypeOK
  <2> QED
    BY <2>1, <2>2, <2>3, MInvStep
<1>9. CASE BeginFails(s)
  <2>1. pc[s] # "idle" /\ Alone(s)
    BY <1>1, <1>9 DEF BeginFails, engine, locks, Alone, TypeOK, Serving
  <2>2. Own(s)
    BY <1>1, <1>9, <2>1 DEF BeginFails, engine, locks, Own, TypeOK, EngineTypeOK, Serving
  <2>3. Mode(s)'
    BY <1>1, <1>2, <1>9, <2>1, <2>2, ReadOnlyConf DEF BeginFails, engine, locks, Mode, Serving, Clean, R, MayNotWrite, Explaining, TypeOK, EngineTypeOK
  <2> QED
    BY <2>1, <2>2, <2>3, MInvStep
<1>10. CASE Run(s)
  <2>1. pc[s] # "idle" /\ Alone(s)
    BY <1>1, <1>10 DEF Run, TxRun, Live, Accepts, locks, Alone, TypeOK, Serving
  <2>2. Own(s)
    BY <1>1, <1>10, <2>1 DEF Run, TxRun, Live, Accepts, locks, Own, TypeOK, EngineTypeOK, Serving
  <2>3. Mode(s)'
    BY <1>1, <1>2, <1>10, <2>1, <2>2, ReadOnlyConf DEF Run, TxRun, Live, Accepts, locks, Mode, Serving, Clean, R, MayNotWrite, Explaining, TypeOK, EngineTypeOK
  <2> QED
    BY <2>1, <2>2, <2>3, MInvStep
<1>11. CASE RunErr(s)
  <2>1. pc[s] # "idle" /\ Alone(s)
    BY <1>1, <1>11 DEF RunErr, Fails, Waiting, StmtFails, engine, locks, Alone, TypeOK, Serving
  <2>2. Own(s)
    BY <1>1, <1>11, <2>1 DEF RunErr, Fails, Waiting, StmtFails, engine, locks, Own, TypeOK, EngineTypeOK, Serving
  <2>3. Mode(s)'
    BY <1>1, <1>2, <1>11, <2>1, <2>2, ReadOnlyConf DEF RunErr, Fails, Waiting, StmtFails, engine, locks, Mode, Serving, Clean, R, MayNotWrite, Explaining, TypeOK, EngineTypeOK
  <2> QED
    BY <2>1, <2>2, <2>3, MInvStep
<1>12. CASE UpdateConflict(s)
  <2>1. pc[s] # "idle" /\ Alone(s)
    BY <1>1, <1>12 DEF UpdateConflict, Fails, Waiting, StmtFails, engine, locks, Alone, TypeOK, Serving
  <2>2. Own(s)
    BY <1>1, <1>12, <2>1 DEF UpdateConflict, Fails, Waiting, StmtFails, engine, locks, Own, TypeOK, EngineTypeOK, Serving
  <2>3. Mode(s)'
    BY <1>1, <1>2, <1>12, <2>1, <2>2, ReadOnlyConf DEF UpdateConflict, Fails, Waiting, StmtFails, engine, locks, Mode, Serving, Clean, R, MayNotWrite, Explaining, TypeOK, EngineTypeOK
  <2> QED
    BY <2>1, <2>2, <2>3, MInvStep
<1>13. CASE LockTimeout(s)
  <2>1. pc[s] # "idle" /\ Alone(s)
    BY <1>1, <1>13 DEF LockTimeout, Fails, Waiting, StmtFails, engine, locks, Alone, TypeOK, Serving
  <2>2. Own(s)
    BY <1>1, <1>13, <2>1 DEF LockTimeout, Fails, Waiting, StmtFails, engine, locks, Own, TypeOK, EngineTypeOK, Serving
  <2>3. Mode(s)'
    BY <1>1, <1>2, <1>13, <2>1, <2>2, ReadOnlyConf DEF LockTimeout, Fails, Waiting, StmtFails, engine, locks, Mode, Serving, Clean, R, MayNotWrite, Explaining, TypeOK, EngineTypeOK
  <2> QED
    BY <2>1, <2>2, <2>3, MInvStep
<1>14. CASE DeadlockVictim(s)
  <2>1. pc[s] # "idle" /\ Alone(s)
    BY <1>1, <1>14 DEF DeadlockVictim, Fails, Waiting, StmtFails, engine, locks, Alone, TypeOK, Serving
  <2>2. Own(s)
    BY <1>1, <1>14, <2>1 DEF DeadlockVictim, Fails, Waiting, StmtFails, engine, locks, Own, TypeOK, EngineTypeOK, Serving
  <2>3. Mode(s)'
    BY <1>1, <1>2, <1>14, <2>1, <2>2, ReadOnlyConf DEF DeadlockVictim, Fails, Waiting, StmtFails, engine, locks, Mode, Serving, Clean, R, MayNotWrite, Explaining, TypeOK, EngineTypeOK
  <2> QED
    BY <2>1, <2>2, <2>3, MInvStep
<1>15. CASE RunEnd(s)
  <2>1. pc[s] # "idle" /\ Alone(s)
    BY <1>1, <1>15 DEF RunEnd, TxCommit, TxEnd, locks, Alone, TypeOK, Serving
  <2>2. Own(s)
    BY <1>1, <1>15, <2>1 DEF RunEnd, TxCommit, TxEnd, locks, Own, TypeOK, EngineTypeOK, Serving
  <2>3. Mode(s)'
    BY <1>1, <1>2, <1>15, <2>1, <2>2, ReadOnlyConf DEF RunEnd, TxCommit, TxEnd, locks, Mode, Serving, Clean, R, MayNotWrite, Explaining, TypeOK, EngineTypeOK
  <2> QED
    BY <2>1, <2>2, <2>3, MInvStep
<1>16. CASE Commit(s)
  <2>1. pc[s] # "idle" /\ Alone(s)
    BY <1>1, <1>16 DEF Commit, TxCommit, TxEnd, locks, Committing, Alone, TypeOK, Serving
  <2>2. Own(s)
    BY <1>1, <1>16, <2>1 DEF Commit, TxCommit, TxEnd, locks, Committing, Own, TypeOK, EngineTypeOK, Serving
  <2>3. Mode(s)'
    BY <1>1, <1>2, <1>16, <2>1, <2>2, ReadOnlyConf DEF Commit, TxCommit, TxEnd, locks, Committing, Mode, Serving, Clean, R, MayNotWrite, Explaining, TypeOK, EngineTypeOK
  <2> QED
    BY <2>1, <2>2, <2>3, MInvStep
<1>17. CASE CommitFails(s)
  <2>1. pc[s] # "idle" /\ Alone(s)
    BY <1>1, <1>17 DEF CommitFails, engine, locks, Committing, Alone, TypeOK, Serving
  <2>2. Own(s)
    BY <1>1, <1>17, <2>1 DEF CommitFails, engine, locks, Committing, Own, TypeOK, EngineTypeOK, Serving
  <2>3. Mode(s)'
    BY <1>1, <1>2, <1>17, <2>1, <2>2, ReadOnlyConf DEF CommitFails, engine, locks, Committing, Mode, Serving, Clean, R, MayNotWrite, Explaining, TypeOK, EngineTypeOK
  <2> QED
    BY <2>1, <2>2, <2>3, MInvStep
<1>18. CASE CommitRefused(s)
  <2>1. pc[s] # "idle" /\ Alone(s)
    BY <1>1, <1>18 DEF CommitRefused, engine, locks, Committing, Alone, TypeOK, Serving
  <2>2. Own(s)
    BY <1>1, <1>18, <2>1 DEF CommitRefused, engine, locks, Committing, Own, TypeOK, EngineTypeOK, Serving
  <2>3. Mode(s)'
    BY <1>1, <1>2, <1>18, <2>1, <2>2, ReadOnlyConf DEF CommitRefused, engine, locks, Committing, Mode, Serving, Clean, R, MayNotWrite, Explaining, TypeOK, EngineTypeOK
  <2> QED
    BY <2>1, <2>2, <2>3, MInvStep
<1>19. CASE CommitReplyLost(s)
  <2>1. pc[s] # "idle" /\ Alone(s)
    BY <1>1, <1>19 DEF CommitReplyLost, TxCommit, TxEnd, locks, Committing, Alone, TypeOK, Serving
  <2>2. Own(s)
    BY <1>1, <1>19, <2>1 DEF CommitReplyLost, TxCommit, TxEnd, locks, Committing, Own, TypeOK, EngineTypeOK, Serving
  <2>3. Mode(s)'
    BY <1>1, <1>2, <1>19, <2>1, <2>2, ReadOnlyConf DEF CommitReplyLost, TxCommit, TxEnd, locks, Committing, Mode, Serving, Clean, R, MayNotWrite, Explaining, TypeOK, EngineTypeOK
  <2> QED
    BY <2>1, <2>2, <2>3, MInvStep
<1>20. CASE Rollback(s)
  <2>1. pc[s] # "idle" /\ Alone(s)
    BY <1>1, <1>20 DEF Rollback, TxRollback, TxEnd, engine, Live, locks, Alone, TypeOK, Serving
  <2>2. Own(s)
    BY <1>1, <1>20, <2>1 DEF Rollback, TxRollback, TxEnd, engine, Live, locks, Own, TypeOK, EngineTypeOK, Serving
  <2>3. Mode(s)'
    BY <1>1, <1>2, <1>20, <2>1, <2>2, ReadOnlyConf DEF Rollback, TxRollback, TxEnd, engine, Live, locks, Mode, Serving, Clean, R, MayNotWrite, Explaining, TypeOK, EngineTypeOK
  <2> QED
    BY <2>1, <2>2, <2>3, MInvStep
<1>21. CASE ExplainBegin(s)
  <2>1. pc[s] # "idle" /\ Alone(s)
    BY <1>1, <1>21 DEF ExplainBegin, TxBegin, locks, Alone, TypeOK, Serving
  <2>2. Own(s)
    BY <1>1, <1>21, <2>1 DEF ExplainBegin, TxBegin, locks, Own, TypeOK, EngineTypeOK, Serving
  <2>3. Mode(s)'
    BY <1>1, <1>2, <1>21, <2>1, <2>2, ReadOnlyConf DEF ExplainBegin, TxBegin, locks, Mode, Serving, Clean, R, MayNotWrite, Explaining, TypeOK, EngineTypeOK
  <2> QED
    BY <2>1, <2>2, <2>3, MInvStep
<1>22. CASE ExplainBeginFails(s)
  <2>1. pc[s] # "idle" /\ Alone(s)
    BY <1>1, <1>22 DEF ExplainBeginFails, engine, locks, Alone, TypeOK, Serving
  <2>2. Own(s)
    BY <1>1, <1>22, <2>1 DEF ExplainBeginFails, engine, locks, Own, TypeOK, EngineTypeOK, Serving
  <2>3. Mode(s)'
    BY <1>1, <1>2, <1>22, <2>1, <2>2, ReadOnlyConf DEF ExplainBeginFails, engine, locks, Mode, Serving, Clean, R, MayNotWrite, Explaining, TypeOK, EngineTypeOK
  <2> QED
    BY <2>1, <2>2, <2>3, MInvStep
<1>23. CASE ExplainExec(s)
  <2>1. pc[s] # "idle" /\ Alone(s)
    BY <1>1, <1>23 DEF ExplainExec, TxRun, Live, Accepts, locks, Alone, TypeOK, Serving
  <2>2. Own(s)
    BY <1>1, <1>23, <2>1 DEF ExplainExec, TxRun, Live, Accepts, locks, Own, TypeOK, EngineTypeOK, Serving
  <2>3. Mode(s)'
    BY <1>1, <1>2, <1>23, <2>1, <2>2, ReadOnlyConf DEF ExplainExec, TxRun, Live, Accepts, locks, Mode, Serving, Clean, R, MayNotWrite, Explaining, TypeOK, EngineTypeOK
  <2> QED
    BY <2>1, <2>2, <2>3, MInvStep
<1>24. CASE ExplainExecFails(s)
  <2>1. pc[s] # "idle" /\ Alone(s)
    BY <1>1, <1>24 DEF ExplainExecFails, StmtFails, engine, locks, Alone, TypeOK, Serving
  <2>2. Own(s)
    BY <1>1, <1>24, <2>1 DEF ExplainExecFails, StmtFails, engine, locks, Own, TypeOK, EngineTypeOK, Serving
  <2>3. Mode(s)'
    BY <1>1, <1>2, <1>24, <2>1, <2>2, ReadOnlyConf DEF ExplainExecFails, StmtFails, engine, locks, Mode, Serving, Clean, R, MayNotWrite, Explaining, TypeOK, EngineTypeOK
  <2> QED
    BY <2>1, <2>2, <2>3, MInvStep
<1>25. CASE ExplainRead(s)
  <2>1. pc[s] # "idle" /\ Alone(s)
    BY <1>1, <1>25 DEF ExplainRead, engine, locks, Alone, TypeOK, Serving
  <2>2. Own(s)
    BY <1>1, <1>25, <2>1 DEF ExplainRead, engine, locks, Own, TypeOK, EngineTypeOK, Serving
  <2>3. Mode(s)'
    BY <1>1, <1>2, <1>25, <2>1, <2>2, ReadOnlyConf DEF ExplainRead, engine, locks, Mode, Serving, Clean, R, MayNotWrite, Explaining, TypeOK, EngineTypeOK
  <2> QED
    BY <2>1, <2>2, <2>3, MInvStep
<1>26. CASE Return(s)
  <2>1. pc[s] # "idle" /\ Alone(s)
    BY <1>1, <1>26 DEF Return, TxRollback, TxEnd, locks, Alone, TypeOK, Serving
  <2>2. Own(s)
    BY <1>1, <1>26, <2>1 DEF Return, TxRollback, TxEnd, locks, Own, TypeOK, EngineTypeOK, Serving
  <2>3. Mode(s)'
    BY <1>1, <1>2, <1>26, <2>1, <2>2, ReadOnlyConf DEF Return, TxRollback, TxEnd, locks, Mode, Serving, Clean, R, MayNotWrite, Explaining, TypeOK, EngineTypeOK
  <2> QED
    BY <2>1, <2>2, <2>3, MInvStep
<1>27. CASE Crash(s)
  <2>1. pc[s] # "idle" /\ Alone(s)
    BY <1>1, <1>27 DEF Crash, TxRollback, TxEnd, locks, Alone, TypeOK, Serving
  <2>2. Own(s)
    BY <1>1, <1>27, <2>1 DEF Crash, TxRollback, TxEnd, locks, Own, TypeOK, EngineTypeOK, Serving
  <2>3. Mode(s)'
    BY <1>1, <1>2, <1>27, <2>1, <2>2, ReadOnlyConf DEF Crash, TxRollback, TxEnd, locks, Mode, Serving, Clean, R, MayNotWrite, Explaining, TypeOK, EngineTypeOK
  <2> QED
    BY <2>1, <2>2, <2>3, MInvStep
<1>28. CASE Fault(s)
  <2>1. pc[s] # "idle" /\ Alone(s)
    BY <1>1, <1>28 DEF Fault, TxRollback, TxEnd, locks, Alone, TypeOK, Serving, Clean
  <2>2. Own(s)
    BY <1>1, <1>28, <2>1 DEF Fault, TxRollback, TxEnd, locks, Own, TypeOK, EngineTypeOK, Serving
  <2>3. Mode(s)'
    BY <1>1, <1>2, <1>28, <2>1, <2>2, ReadOnlyConf DEF Fault, TxRollback, TxEnd, locks, Mode, Serving, Clean, R, MayNotWrite, Explaining, TypeOK, EngineTypeOK
  <2> QED
    BY <2>1, <2>2, <2>3, MInvStep
<1> QED
  BY <1>3, <1>4, <1>5, <1>6, <1>7, <1>8, <1>9, <1>10, <1>11, <1>12, <1>13, <1>14, <1>15, <1>16, <1>17, <1>18, <1>19, <1>20, <1>21, <1>22, <1>23, <1>24, <1>25, <1>26, <1>27, <1>28 DEF Step

LEMMA MInvReceive ==
    ASSUME TInv, CInv, MInv, NEW s \in Server, NEW c \in Call, Receive(s, c)
    PROVE  MInv'
<1>1. PICK r \in Request :
        /\ req' = [req EXCEPT ![c] = r]
        /\ Goto(s, IF Rejected(r) THEN "return" ELSE "open")
  BY DEF Receive
<1>2. TypeOK /\ pc[s] = "idle" /\ req[c] = NoRequest
      /\ UNCHANGED <<tx, work, dirty, saved, ans>>
  BY DEF Receive, TInv, engine, locks
<1>3. ASSUME NEW t \in Server \ {s}, pc[t] # "idle"
      PROVE  cur[t] \in Call /\ cur[t] # c
  BY <1>2, <1>3, NoRequestIsNone DEF TInv, Serving
<1>4. /\ pc'[s] \in {"open", "return"} /\ cur'[s] = c
      /\ \A t \in Server \ {s} : pc'[t] = pc[t] /\ cur'[t] = cur[t]
  BY <1>1, <1>2 DEF Receive, Goto, TypeOK
<1>5. OneServer'
  BY <1>3, <1>4 DEF MInv, OneServer
<1>6. Mode(s)'
  <2>1. Clean(s) /\ Mode(s) /\ Unheard(c)
    BY DEF CInv, MInv
  <2> QED
    BY <1>2, <1>4, <2>1 DEF Clean, Mode, Unheard, Explaining
<1>7. ASSUME NEW t \in Server \ {s} PROVE Mode(t)'
  <2>1. Mode(t)
    BY DEF MInv
  <2>2. pc[t] # "idle" => req'[cur[t]] = req[cur[t]]
    BY <1>1, <1>2, <1>3 DEF TypeOK
  <2> QED
    BY <1>2, <1>4, <2>1, <2>2 DEF Mode, R, Explaining
<1>8. ASSUME NEW d \in Call PROVE Unheard(d)'
  <2>1. Unheard(d)
    BY DEF MInv
  <2>2. CASE d = c
    BY <1>1, <1>2, <2>2, NoRequestIsNone DEF TypeOK, Unheard
  <2>3. CASE d # c
    BY <1>1, <1>2, <2>1, <2>3 DEF TypeOK, Unheard
  <2> QED
    BY <2>2, <2>3
<1> QED
  BY <1>5, <1>6, <1>7, <1>8 DEF MInv

LEMMA MInvNext == TInv /\ CInv /\ MInv /\ [Next]_vars => MInv'
<1> SUFFICES ASSUME TInv, CInv, MInv, [Next]_vars PROVE MInv'
  OBVIOUS
<1>1. CASE \E s \in Server, c \in Call : Receive(s, c)
  BY <1>1, MInvReceive
<1>2. CASE \E s \in Server : Step(s) \/ Crash(s) \/ Fault(s)
  BY <1>2, MInvServerStep
<1>3. CASE Outside /\ UNCHANGED handlers
  <2>1. UNCHANGED <<tx, work, dirty, saved>>
    BY <1>3 DEF Outside, ExtLock, ExtCommit, ExtRollback, locks
  <2> QED
    BY <1>3, <2>1 DEF MInv, OneServer, Mode, Unheard, R, handlers
<1>4. CASE Quiet \/ UNCHANGED vars
  BY <1>4 DEF Quiet, MInv, OneServer, Mode, Unheard, R, vars, engine, locks, handlers
<1> QED
  BY <1>1, <1>2, <1>3, <1>4 DEF Next

LEMMA MInvAlways == Spec => [](TInv /\ CInv /\ MInv)
  BY TInvInit, TInvNext, CInvInit, CInvNext, MInvInit, MInvNext, PTL DEF Spec

\* A readonly script never holds a write, and neither it nor explain_plan leaves
\* one: whatever statements they carry, their transactions cannot write.
THEOREM HarmlessReads == Spec => []ReadOnlyIsHarmless
<1>1. TInv /\ CInv /\ MInv => ReadOnlyIsHarmless
  <2> SUFFICES ASSUME TInv, CInv, MInv, NEW s \in Server, cur[s] # NoCall,
                      R(s).tool = "explain" \/ Script(s, {"ReadOnly"})
               PROVE  dirty[s] = {} /\ saved[cur[s]] = {}
    BY DEF ReadOnlyIsHarmless
  <2>1. Mode(s) /\ Clean(s) /\ Serving(s) /\ TypeOK
    BY DEF TInv, CInv, MInv
  <2>2. CASE pc[s] = "idle"
    BY <2>1, <2>2 DEF Mode
  <2>3. CASE pc[s] # "idle"
    <3>1. R(s) \in RequestSpace
      BY <2>1, <2>3, RequestAssumption DEF Serving, R
    <3>2. MayNotWrite(R(s))
      BY DEF Script, MayNotWrite
    <3>3. tx[s] = NoTx \/ tx[s].access = "ReadOnly"
      BY <2>1, <2>3, <3>1, <3>2, ReadOnlyConf DEF Mode, MayNotWrite
    <3> QED
      BY <2>1, <2>3, <3>2, <3>3 DEF Mode, Clean
  <2> QED
    BY <2>2, <2>3
<1> QED
  BY <1>1, MInvAlways, PTL

-----------------------------------------------------------------------------
(* Isolation.                                                              *)

\* Written rows are held by one transaction, a consistency transaction also
\* holds what it read, and a snapshot is never left behind.
LInv ==
    \A s \in Server :
        /\ \A t \in Server \ {s} : dirty[s] \cap dirty[t] = {}
        /\ dirty[s] \cap ext = {}
        /\ tx[s].isolation = "Consistency" =>
            /\ view[s] \cap ext = {}
            /\ \A t \in Server \ {s} : view[s] \cap dirty[t] = {}
        /\ tx[s] # NoTx /\ tx[s].isolation # "ReadCommited" =>
            /\ fresh[s] = {}
            /\ dirty[s] \cap old[s] = {}

LEMMA LInvInit == Init => LInv
  BY DEF Init, EngineInit, LInv

LEMMA LInvUnchanged ==
    ASSUME LInv, UNCHANGED <<tx, view, fresh, dirty, old, ext>>
    PROVE  LInv'
  BY DEF LInv

LEMMA LInvBegin ==
    ASSUME EngineTypeOK, LInv, NEW s \in Server, NEW conf,
           Clean(s), tx[s] = NoTx, TxBegin(s, conf)
    PROVE  LInv'
<1>1. /\ UNCHANGED <<view, fresh, dirty, old, ext>>
      /\ tx' = [tx EXCEPT ![s] = conf]
      /\ view[s] = {} /\ fresh[s] = {} /\ dirty[s] = {}
  BY DEF TxBegin, locks, Clean
<1> QED
  BY <1>1 DEF LInv, EngineTypeOK

LEMMA LInvRollback ==
    ASSUME EngineTypeOK, LInv, NEW s \in Server, TxRollback(s)
    PROVE  LInv'
<1>1. NoTx.isolation = "none"
  BY DEF NoTx
<1> QED
  BY <1>1 DEF LInv, EngineTypeOK, TxRollback, TxEnd

LEMMA LInvCommit ==
    ASSUME EngineTypeOK, LInv, NEW s \in Server, NEW c, TxCommit(s, c)
    PROVE  LInv'
<1>1. NoTx.isolation = "none"
  BY DEF NoTx
<1>2. /\ ext' = ext
      /\ tx' = [tx EXCEPT ![s] = NoTx]
      /\ view' = [view EXCEPT ![s] = {}]
      /\ fresh' = [fresh EXCEPT ![s] = {}]
      /\ dirty' = [dirty EXCEPT ![s] = {}]
  BY DEF TxCommit, TxEnd
<1>3. \A t \in Server \ {s} : old'[t] \in {old[t], old[t] \cup dirty[s]}
  BY DEF TxCommit, Overtake, EngineTypeOK
<1> QED
  BY <1>1, <1>2, <1>3 DEF LInv, EngineTypeOK

LEMMA RunEffect ==
    ASSUME EngineTypeOK, NEW s \in Server, NEW c, NEW i, NEW st, TxRun(s, c, i, st)
    PROVE  /\ UNCHANGED <<tx, old, ext>>
           /\ view' = [view EXCEPT ![s] = @ \cup Reads(st)]
           /\ dirty' = [dirty EXCEPT ![s] = @ \cup Writes(st)]
           /\ \A t \in Server : tx[t].isolation # "ReadCommited" => fresh'[t] = fresh[t]
  BY DEF TxRun, EngineTypeOK

\* A statement that reads in a snapshot takes no row.
LEMMA LInvRead ==
    ASSUME EngineTypeOK, LInv, NEW s \in Server, NEW c, NEW i, NEW st,
           tx[s].isolation = "Concurrency", Writes(st) = {}, TxRun(s, c, i, st)
    PROVE  LInv'
  BY RunEffect DEF LInv, EngineTypeOK

\* A statement that runs in a handler's transaction took no row from another.
LEMMA LInvRun ==
    ASSUME EngineTypeOK, LInv, NEW s \in Server, NEW c, NEW i, NEW st,
           TxRun(s, c, i, st), ~ Blocked(s, st), ~ Conflicts(s, st)
    PROVE  LInv'
<1>1. /\ \A t \in Server \ {s} :
           /\ Writes(st) \cap dirty[t] = {}
           /\ tx[t].isolation = "Consistency" => Writes(st) \cap view[t] = {}
      /\ Writes(st) \cap ext = {}
  BY DEF Blocked, Blockers, Needs
<1>2. tx[s].isolation = "Consistency" =>
          /\ \A t \in Server \ {s} : Reads(st) \cap dirty[t] = {}
          /\ Reads(st) \cap ext = {}
  BY DEF Blocked, Blockers, Needs
<1>3. tx[s].isolation # "ReadCommited" => Writes(st) \cap old[s] = {}
  BY DEF Conflicts
<1> QED
  BY <1>1, <1>2, <1>3, RunEffect DEF LInv, EngineTypeOK

LEMMA LInvOutside ==
    ASSUME EngineTypeOK, LInv, Outside
    PROVE  LInv'
<1>1. PICK r \in Row : ExtLock(r) \/ ExtCommit(r) \/ ExtRollback(r)
  BY DEF Outside
<1>2. CASE ExtLock(r)
  BY <1>2 DEF LInv, ExtLock, locks
<1>3. CASE ExtCommit(r)
  <2>1. \A t \in Server : old'[t] \in {old[t], old[t] \cup {r}}
    BY <1>3 DEF ExtCommit, Overtake
  <2> QED
    BY <1>3, <2>1 DEF LInv, ExtCommit
<1>4. CASE ExtRollback(r)
  BY <1>4 DEF LInv, ExtRollback, locks
<1> QED
  BY <1>1, <1>2, <1>3, <1>4

LEMMA LInvServerStep ==
    ASSUME TInv, CInv, MInv, LInv, NEW s \in Server, Step(s) \/ Crash(s) \/ Fault(s)
    PROVE  LInv'
<1>1. EngineTypeOK /\ Clean(s) /\ Mode(s) /\ Serving(s)
  BY DEF TInv, TypeOK, CInv, MInv
<1>2. CASE \/ Open(s) \/ OpenFails(s) \/ AutoDone(s) \/ BeginFails(s)
           \/ CommitFails(s) \/ CommitRefused(s)
           \/ ExplainBeginFails(s) \/ ExplainRead(s)
  <2>1. UNCHANGED engine
    BY <1>2 DEF Open, OpenFails, AutoDone, BeginFails, CommitFails, CommitRefused,
                ExplainBeginFails, ExplainRead
  <2> QED
    BY <2>1, LInvUnchanged DEF engine, locks
<1>3. CASE AutoErr(s) \/ ExplainExecFails(s) \/ RunErr(s) \/ UpdateConflict(s)
           \/ LockTimeout(s) \/ DeadlockVictim(s)
  <2>1. UNCHANGED engine \/ StmtFails(cur[s], Stmt(s))
    BY <1>3 DEF AutoErr, ExplainExecFails, RunErr, UpdateConflict, LockTimeout,
                DeadlockVictim, Fails
  <2> QED
    BY <2>1, LInvUnchanged DEF StmtFails, engine, locks
<1>4. CASE AutoOk(s)
  <2>1. Writes(Stmt(s)) = {} /\ AutoRun(cur[s], idx[s] + 1, Stmt(s))
    BY <1>4 DEF AutoOk, Accepts, metadata_transaction_conf
  <2>2. UNCHANGED <<tx, view, fresh, dirty, ext>> /\ old' = old
    BY <1>1, <2>1 DEF AutoRun, Overtake, EngineTypeOK
  <2> QED
    BY <2>2, LInvUnchanged
<1>5. CASE Begin(s) \/ ExplainBegin(s)
  <2>1. tx[s] = NoTx /\ \E conf : TxBegin(s, conf)
    BY <1>1, <1>5 DEF Begin, ExplainBegin, Clean
  <2> QED
    BY <1>1, <2>1, LInvBegin
<1>6. CASE Run(s)
  BY <1>1, <1>6, LInvRun DEF Run
<1>7. CASE ExplainExec(s)
  <2>1. tx[s] = metadata_transaction_conf /\ tx[s] # NoTx
    BY <1>1, <1>7 DEF ExplainExec, Live, Mode, Explaining
  <2>2. Writes(Stmt(s)) = {} /\ tx[s].isolation = "Concurrency"
    BY <1>7, <2>1 DEF ExplainExec, Accepts, metadata_transaction_conf
  <2>3. TxRun(s, cur[s], 1, Stmt(s))
    BY <1>7 DEF ExplainExec
  <2> QED
    BY <1>1, <2>2, <2>3, LInvRead
<1>8. CASE RunEnd(s) \/ Commit(s) \/ CommitReplyLost(s)
  BY <1>1, <1>8, LInvCommit DEF RunEnd, Commit, CommitReplyLost
<1>9. CASE Rollback(s) \/ Return(s) \/ Crash(s) \/ Fault(s)
  <2>1. TxRollback(s) \/ UNCHANGED engine
    BY <1>9 DEF Rollback, Return, Crash, Fault
  <2>2. CASE TxRollback(s)
    BY <1>1, <2>2, LInvRollback
  <2>3. CASE UNCHANGED engine
    BY <2>3, LInvUnchanged DEF engine, locks
  <2> QED
    BY <2>1, <2>2, <2>3
<1> QED
  BY <1>2, <1>3, <1>4, <1>5, <1>6, <1>7, <1>8, <1>9 DEF Step

LEMMA LInvNext == TInv /\ CInv /\ MInv /\ LInv /\ [Next]_vars => LInv'
<1> SUFFICES ASSUME TInv, CInv, MInv, LInv, [Next]_vars PROVE LInv'
  OBVIOUS
<1>1. CASE \E s \in Server, c \in Call : Receive(s, c)
  BY <1>1, LInvUnchanged DEF Receive, engine, locks
<1>2. CASE \E s \in Server : Step(s) \/ Crash(s) \/ Fault(s)
  BY <1>2, LInvServerStep
<1>3. CASE Outside /\ UNCHANGED handlers
  BY <1>3, LInvOutside DEF TInv, TypeOK
<1>4. CASE Quiet \/ UNCHANGED vars
  BY <1>4, LInvUnchanged DEF Quiet, vars, engine, locks
<1> QED
  BY <1>1, <1>2, <1>3, <1>4 DEF Next

LEMMA LInvAlways == Spec => [](TInv /\ CInv /\ MInv /\ LInv)
  BY TInvInit, TInvNext, CInvInit, CInvNext, MInvInit, MInvNext, LInvInit, LInvNext,
     PTL DEF Spec

\* The transaction of a script with each of the presets that promise a view.
LEMMA ScriptIsolation ==
    ASSUME NEW r \in RequestSpace, r.tool = "script"
    PROVE  /\ preset(r.isolation) \in {"Snapshot", "Consistency", "ReadOnly"}
                => BeginConf(r).isolation # "ReadCommited" /\ BeginConf(r) # NoTx
           /\ preset(r.isolation) = "Consistency"
                => BeginConf(r).isolation = "Consistency"
  BY DEF BeginConf, to_conf, NoTx, preset

LEMMA ScriptTx ==
    ASSUME TInv, CInv, MInv, NEW s \in Server, NEW P, Script(s, P)
    PROVE  R(s) \in RequestSpace /\ tx[s] \in {NoTx, BeginConf(R(s))}
<1>1. Mode(s) /\ Serving(s)
  BY DEF TInv, MInv
<1>2. pc[s] # "idle"
  BY <1>1 DEF Mode, Script
<1> QED
  BY <1>1, <1>2, RequestAssumption DEF Mode, Serving, Script, R

\* Snapshot, consistency and readonly scripts keep one view of the database
\* and lose no update, among any number of processes and sessions.
THEOREM Stability == Spec => []StableView
<1>1. TInv /\ CInv /\ MInv /\ LInv => StableView
  <2> SUFFICES ASSUME TInv, CInv, MInv, LInv, NEW s \in Server,
                      Script(s, {"Snapshot", "Consistency", "ReadOnly"})
               PROVE  fresh[s] = {} /\ dirty[s] \cap old[s] = {}
    BY DEF StableView
  <2>1. tx[s] = NoTx \/ (tx[s] # NoTx /\ tx[s].isolation # "ReadCommited")
    BY ScriptTx, ScriptIsolation DEF Script
  <2> QED
    BY <2>1 DEF LInv, CInv, Clean
<1> QED
  BY <1>1, LInvAlways, PTL

\* What a consistency script touched is its own until it ends.
THEOREM Locking == Spec => []TablesLocked
<1>1. TInv /\ CInv /\ MInv /\ LInv => TablesLocked
  <2> SUFFICES ASSUME TInv, CInv, MInv, LInv, NEW s \in Server,
                      Script(s, {"Consistency"})
               PROVE  /\ \A t \in Server \ {s} :
                            (view[s] \cup dirty[s]) \cap dirty[t] = {}
                      /\ (view[s] \cup dirty[s]) \cap ext = {}
    BY DEF TablesLocked
  <2>1. tx[s] = NoTx \/ tx[s].isolation = "Consistency"
    BY ScriptTx, ScriptIsolation DEF Script
  <2> QED
    BY <2>1 DEF LInv, CInv, Clean
<1> QED
  BY <1>1, LInvAlways, PTL

-----------------------------------------------------------------------------
(* Atomicity, for requests that do not end their transaction from inside.  *)

\* The statements among the first n of r that write.
Written(r, n) == {i \in 1 .. n : Writes(r.stmts[i]) # {}}

LEMMA WrittenNext ==
    ASSUME NEW r \in RequestSpace, NEW n \in Nat, n < Len(r.stmts)
    PROVE  /\ Written(r, 0) = {}
           /\ Written(r, Len(r.stmts)) = WriteSet(r)
           /\ r.tool # "routine" =>
                Written(r, n + 1) =
                    IF Writes(Sent(r, n + 1)) = {} THEN Written(r, n)
                                                   ELSE Written(r, n) \cup {n + 1}
<1>1. Len(r.stmts) \in Nat
  BY DEF RequestSpace
<1>2. Written(r, 0) = {} /\ Written(r, Len(r.stmts)) = WriteSet(r)
  BY DEF Written, WriteSet
<1>3. \A i : i \in 1 .. (n + 1) <=> i \in 1 .. n \/ i = n + 1
  OBVIOUS
<1> QED
  BY <1>2, <1>3 DEF Written, Sent

\* An outcome that tells the truth about an effect.
Right(o, effect, r) == /\ o \in {"ok", "planned"} => effect = Effect(r)
                       /\ o = "failed" => effect = {}

\* How far the call of s has come.
Prog(s) ==
    pc[s] # "idle" =>
        LET done == saved[cur[s]] IN
        /\ pc[s] \in {"open", "auto", "begin", "run"} => done = {}
        /\ pc[s] = "open" => idx[s] = 0
        /\ pc[s] = "auto" => idx[s] <= Len(R(s).stmts) /\ Written(R(s), idx[s]) = {}
        /\ pc[s] = "run" => /\ idx[s] <= Len(R(s).stmts)
                            /\ tx[s] # NoTx => work[s] = Written(R(s), idx[s])
        /\ pc[s] \in {"rollback", "return"} => out[s] # "spurious"
        /\ pc[s] \in {"rollback", "return", "explain_read"} =>
              Right(out[s], done, R(s))
        /\ pc[s] \in Explaining => done = Effect(R(s))

Settled(c) == /\ saved[c] \in {{}, WriteSet(req[c])}
              /\ Right(ans[c], saved[c], req[c])

AInv == /\ \A s \in Server : Prog(s)
        /\ \A c \in Call : Settled(c)

LEMMA AInvInit == Init => AInv
  BY DEF Init, EngineInit, AInv, Prog, Settled, Right

LEMMA AInvStep ==
    ASSUME TInv, MInv, AInv, NEW s \in Server, pc[s] # "idle", Own(s), Alone(s),
           Prog(s)', NEW c, c = cur[s], Settled(c)'
    PROVE  AInv'
<1>1. ASSUME NEW t \in Server \ {s}, pc[t] # "idle"
      PROVE  cur[t] # cur[s]
  BY <1>1 DEF MInv, OneServer
<1>2. ASSUME NEW t \in Server \ {s} PROVE Prog(t)'
  <2>1. Prog(t) /\ Serving(t)
    BY DEF AInv, TInv
  <2>2. pc[t] # "idle" => saved'[cur[t]] = saved[cur[t]]
    BY <1>1, <2>1 DEF Own, Serving
  <2>3. /\ pc'[t] = pc[t] /\ cur'[t] = cur[t] /\ idx'[t] = idx[t] /\ out'[t] = out[t]
        /\ tx'[t] = tx[t] /\ work'[t] = work[t] /\ req' = req
    BY DEF Own, Alone
  <2> QED
    BY <2>1, <2>2, <2>3 DEF Prog, R, Explaining
<1>3. ASSUME NEW d \in Call, d # c PROVE Settled(d)'
  BY <1>3 DEF AInv, Settled, Own
<1> QED
  BY <1>2, <1>3 DEF AInv

LEMMA AInvServerStep ==
    ASSUME NoInnerCommit, TInv, CInv, MInv, AInv, NEW s \in Server,
           Step(s) \/ Crash(s) \/ Fault(s)
    PROVE  AInv'
<1> USE DEF Goto, Result, Finish, Disturb
<1>1. Serving(s) /\ TypeOK /\ EngineTypeOK /\ Mode(s) /\ Clean(s) /\ Prog(s)
  BY DEF TInv, TypeOK, MInv, CInv, AInv
<1>2. pc[s] # "idle" => /\ R(s) \in RequestSpace
                        /\ Len(R(s).stmts) \in Nat
                        /\ cur[s] \in Call
                        /\ Settled(cur[s])
  BY <1>1, RequestAssumption DEF Serving, R, RequestSpace, AInv
<1>3. pc[s] # "idle" /\ More(s) => Stmt(s).kind # "end"
  <2> SUFFICES ASSUME pc[s] # "idle", More(s) PROVE Stmt(s).kind # "end"
    OBVIOUS
  <2>1. idx[s] + 1 \in 1 .. Len(R(s).stmts)
    BY <1>1, <1>2 DEF More, TypeOK
  <2>2. R(s).stmts[idx[s] + 1].kind # "end"
    BY <1>1, <2>1 DEF NoInnerCommit, Serving, R
  <2>3. R(s).stmts[idx[s] + 1] \in Statement
    BY <1>2, <2>1 DEF RequestSpace
  <2> QED
    BY <2>2, <2>3 DEF Stmt, Sent, Statement
<1>4. pc[s] # "idle" /\ More(s) /\ Stmt(s).kind # "wrapped" => R(s).tool # "routine"
  <2> SUFFICES ASSUME pc[s] # "idle", More(s), R(s).tool = "routine"
               PROVE  Stmt(s).kind = "wrapped"
    OBVIOUS
  <2>1. R(s).stmts[idx[s] + 1] \in Statement
    BY <1>1, <1>2 DEF More, TypeOK, RequestSpace
  <2> QED
    BY <2>1 DEF Stmt, Sent, Statement
<1>5. CASE Open(s)
  <2>1. pc[s] # "idle" /\ Alone(s)
    BY <1>1, <1>5 DEF Open, engine, locks, FirstStep, Alone, TypeOK, Serving, Clean
  <2>3. Own(s)
    BY <1>1, <1>5, <2>1 DEF Open, engine, locks, FirstStep, Own, TypeOK, EngineTypeOK, Serving
  <2>4. idx[s] = 0 /\ idx'[s] = idx[s] /\ R(s)' = R(s)
    BY <1>1, <1>5, <2>3 DEF Prog, Open, R, Own
  <2>5. Written(R(s), idx[s]) = {}
    BY <2>4 DEF Written
  <2>6. Prog(s)'
    BY <1>1, <1>2, <1>5, <2>4, <2>5, <2>1, <2>3 DEF Open, engine, locks, FirstStep, Effect, Prog, Right, Serving, Mode, Clean, Explaining, Own, TypeOK, EngineTypeOK, Outcome
  <2>7. ASSUME NEW c, c = cur[s] PROVE Settled(c)'
    BY <1>1, <1>2, <1>5, <2>4, <2>1, <2>3, <2>7 DEF Open, engine, locks, FirstStep, Settled, Right, Prog, Mode, Own, R, TypeOK, EngineTypeOK
  <2> QED
    BY <2>1, <2>3, <2>6, <2>7, AInvStep
<1>6. CASE OpenFails(s)
  <2>1. pc[s] # "idle" /\ Alone(s)
    BY <1>1, <1>6 DEF OpenFails, engine, locks, Alone, TypeOK, Serving, Clean
  <2>3. Own(s)
    BY <1>1, <1>6, <2>1 DEF OpenFails, engine, locks, Own, TypeOK, EngineTypeOK, Serving
  <2>6. Prog(s)'
    BY <1>1, <1>2, <1>6, <2>1, <2>3 DEF OpenFails, engine, locks, Prog, Right, Serving, Mode, Clean, Explaining, Own, R, TypeOK, EngineTypeOK, Outcome
  <2>7. ASSUME NEW c, c = cur[s] PROVE Settled(c)'
    BY <1>1, <1>2, <1>6, <2>1, <2>3, <2>7 DEF OpenFails, engine, locks, Settled, Right, Prog, Mode, Own, R, TypeOK, EngineTypeOK
  <2> QED
    BY <2>1, <2>3, <2>6, <2>7, AInvStep
<1>7. CASE AutoOk(s)
  <2>1. pc[s] # "idle" /\ Alone(s)
    BY <1>1, <1>7 DEF AutoOk, AutoRun, locks, Alone, TypeOK, Serving, Clean
  <2>2. Writes(Stmt(s)) = {} /\ saved' = saved
    BY <1>7 DEF AutoOk, AutoRun, Accepts, metadata_transaction_conf
  <2>3. Own(s)
    BY <1>1, <1>7, <2>2, <2>1 DEF AutoOk, AutoRun, locks, Own, TypeOK, EngineTypeOK, Serving
  <2>4. /\ idx'[s] = idx[s] + 1 /\ idx[s] < Len(R(s).stmts)
        /\ R(s).tool # "routine" /\ R(s)' = R(s) /\ pc'[s] = pc[s]
    BY <1>1, <1>2, <1>4, <1>7, <2>3 DEF AutoOk, Accepts, More, Mode, Own, R, TypeOK
  <2>5. Written(R(s), idx[s] + 1) = IF Writes(Stmt(s)) = {} THEN Written(R(s), idx[s])
                                        ELSE Written(R(s), idx[s]) \cup {idx[s] + 1}
    BY <1>1, <1>2, <2>1, <2>4, WrittenNext DEF Stmt, TypeOK
  <2>6. Prog(s)'
    BY <1>1, <1>2, <1>7, <2>2, <2>4, <2>5, <2>1, <2>3 DEF AutoOk, AutoRun, locks, Prog, Right, Serving, Mode, Clean, Explaining, Own, R, TypeOK, EngineTypeOK, Outcome
  <2>7. ASSUME NEW c, c = cur[s] PROVE Settled(c)'
    BY <1>1, <1>2, <1>7, <2>2, <2>4, <2>5, <2>1, <2>3, <2>7 DEF AutoOk, AutoRun, locks, Settled, Right, Prog, Mode, Own, R, TypeOK, EngineTypeOK
  <2> QED
    BY <2>1, <2>3, <2>6, <2>7, AInvStep
<1>8. CASE AutoDone(s)
  <2>1. pc[s] # "idle" /\ Alone(s)
    BY <1>1, <1>8 DEF AutoDone, engine, locks, Alone, TypeOK, Serving, Clean
  <2>3. Own(s)
    BY <1>1, <1>8, <2>1 DEF AutoDone, engine, locks, Own, TypeOK, EngineTypeOK, Serving
  <2>4. Effect(R(s)) = {} /\ R(s)' = R(s)
    <3>1. idx[s] = Len(R(s).stmts) /\ Written(R(s), idx[s]) = {}
      BY <1>1, <1>2, <1>8, <2>1 DEF AutoDone, More, Prog, TypeOK
    <3>2. Written(R(s), Len(R(s).stmts)) = WriteSet(R(s))
      BY DEF Written, WriteSet
    <3> QED
      BY <3>1, <3>2, <1>8 DEF AutoDone, Effect, R
  <2>6. Prog(s)'
    BY <1>1, <1>2, <1>8, <2>4, <2>1, <2>3 DEF AutoDone, engine, locks, Prog, Right, Serving, Mode, Clean, Explaining, Own, R, TypeOK, EngineTypeOK, Outcome
  <2>7. ASSUME NEW c, c = cur[s] PROVE Settled(c)'
    BY <1>1, <1>2, <1>8, <2>4, <2>1, <2>3, <2>7 DEF AutoDone, engine, locks, Settled, Right, Prog, Mode, Own, R, TypeOK, EngineTypeOK
  <2> QED
    BY <2>1, <2>3, <2>6, <2>7, AInvStep
<1>9. CASE AutoErr(s)
  <2>1. pc[s] # "idle" /\ Alone(s)
    BY <1>1, <1>9 DEF AutoErr, StmtFails, engine, locks, Alone, TypeOK, Serving, Clean
  <2>3. Own(s)
    BY <1>1, <1>9, <2>1 DEF AutoErr, StmtFails, engine, locks, Own, TypeOK, EngineTypeOK, Serving
  <2>6. Prog(s)'
    BY <1>1, <1>2, <1>9, <2>1, <2>3 DEF AutoErr, StmtFails, engine, locks, Prog, Right, Serving, Mode, Clean, Explaining, Own, R, TypeOK, EngineTypeOK, Outcome
  <2>7. ASSUME NEW c, c = cur[s] PROVE Settled(c)'
    BY <1>1, <1>2, <1>9, <2>1, <2>3, <2>7 DEF AutoErr, StmtFails, engine, locks, Settled, Right, Prog, Mode, Own, R, TypeOK, EngineTypeOK
  <2> QED
    BY <2>1, <2>3, <2>6, <2>7, AInvStep
<1>10. CASE Begin(s)
  <2>1. pc[s] # "idle" /\ Alone(s)
    BY <1>1, <1>10 DEF Begin, TxBegin, locks, Alone, TypeOK, Serving, Clean
  <2>3. Own(s)
    BY <1>1, <1>10, <2>1 DEF Begin, TxBegin, locks, Own, TypeOK, EngineTypeOK, Serving
  <2>4. idx'[s] = 0 /\ R(s)' = R(s)
    BY <1>1, <1>10, <2>3 DEF Begin, R, Own, TypeOK
  <2>5. Written(R(s)', idx'[s]) = {}
    BY <2>4 DEF Written
  <2>6. Prog(s)'
    <3>1. pc'[s] = "run" /\ cur' = cur /\ saved' = saved /\ work'[s] = {}
      BY <1>1, <1>10 DEF Begin, TxBegin, Clean, TypeOK
    <3>2. idx'[s] <= Len(R(s)'.stmts) /\ saved[cur[s]] = {}
      BY <1>1, <1>2, <1>10, <2>1, <2>4 DEF Begin, Prog
    <3> QED
      BY <2>5, <3>1, <3>2 DEF Prog, Explaining
  <2>7. ASSUME NEW c, c = cur[s] PROVE Settled(c)'
    BY <1>1, <1>2, <1>10, <2>4, <2>1, <2>3, <2>7 DEF Begin, TxBegin, locks, Settled, Right, Prog, Mode, Own, R, TypeOK, EngineTypeOK
  <2> QED
    BY <2>1, <2>3, <2>6, <2>7, AInvStep
<1>11. CASE BeginFails(s)
  <2>1. pc[s] # "idle" /\ Alone(s)
    BY <1>1, <1>11 DEF BeginFails, engine, locks, Alone, TypeOK, Serving, Clean
  <2>3. Own(s)
    BY <1>1, <1>11, <2>1 DEF BeginFails, engine, locks, Own, TypeOK, EngineTypeOK, Serving
  <2>6. Prog(s)'
    BY <1>1, <1>2, <1>11, <2>1, <2>3 DEF BeginFails, engine, locks, Prog, Right, Serving, Mode, Clean, Explaining, Own, R, TypeOK, EngineTypeOK, Outcome
  <2>7. ASSUME NEW c, c = cur[s] PROVE Settled(c)'
    BY <1>1, <1>2, <1>11, <2>1, <2>3, <2>7 DEF BeginFails, engine, locks, Settled, Right, Prog, Mode, Own, R, TypeOK, EngineTypeOK
  <2> QED
    BY <2>1, <2>3, <2>6, <2>7, AInvStep
<1>12. CASE Run(s)
  <2>1. pc[s] # "idle" /\ Alone(s)
    BY <1>1, <1>12 DEF Run, TxRun, Live, locks, Alone, TypeOK, Serving, Clean
  <2>3. Own(s)
    BY <1>1, <1>12, <2>1 DEF Run, TxRun, Live, locks, Own, TypeOK, EngineTypeOK, Serving
  <2>4. /\ idx'[s] = idx[s] + 1 /\ idx[s] < Len(R(s).stmts)
        /\ R(s).tool # "routine" /\ R(s)' = R(s) /\ pc'[s] = pc[s]
    BY <1>1, <1>2, <1>4, <1>12, <2>3 DEF Run, Accepts, More, Mode, Own, R, TypeOK
  <2>5. Written(R(s), idx[s] + 1) = IF Writes(Stmt(s)) = {} THEN Written(R(s), idx[s])
                                        ELSE Written(R(s), idx[s]) \cup {idx[s] + 1}
    BY <1>1, <1>2, <2>1, <2>4, WrittenNext DEF Stmt, TypeOK
  <2>6. Prog(s)'
    BY <1>1, <1>2, <1>12, <2>4, <2>5, <2>1, <2>3 DEF Run, TxRun, Live, locks, Prog, Right, Serving, Mode, Clean, Explaining, Own, R, TypeOK, EngineTypeOK, Outcome
  <2>7. ASSUME NEW c, c = cur[s] PROVE Settled(c)'
    BY <1>1, <1>2, <1>12, <2>4, <2>5, <2>1, <2>3, <2>7 DEF Run, TxRun, Live, locks, Settled, Right, Prog, Mode, Own, R, TypeOK, EngineTypeOK
  <2> QED
    BY <2>1, <2>3, <2>6, <2>7, AInvStep
<1>13. CASE RunErr(s)
  <2>1. pc[s] # "idle" /\ Alone(s)
    BY <1>1, <1>13 DEF RunErr, Fails, Waiting, StmtFails, engine, locks, Alone, TypeOK, Serving, Clean
  <2>3. Own(s)
    BY <1>1, <1>13, <2>1 DEF RunErr, Fails, Waiting, StmtFails, engine, locks, Own, TypeOK, EngineTypeOK, Serving
  <2>6. Prog(s)'
    BY <1>1, <1>2, <1>13, <2>1, <2>3 DEF RunErr, Fails, Waiting, StmtFails, engine, locks, Prog, Right, Serving, Mode, Clean, Explaining, Own, R, TypeOK, EngineTypeOK, Outcome
  <2>7. ASSUME NEW c, c = cur[s] PROVE Settled(c)'
    BY <1>1, <1>2, <1>13, <2>1, <2>3, <2>7 DEF RunErr, Fails, Waiting, StmtFails, engine, locks, Settled, Right, Prog, Mode, Own, R, TypeOK, EngineTypeOK
  <2> QED
    BY <2>1, <2>3, <2>6, <2>7, AInvStep
<1>14. CASE UpdateConflict(s)
  <2>1. pc[s] # "idle" /\ Alone(s)
    BY <1>1, <1>14 DEF UpdateConflict, Fails, Waiting, StmtFails, engine, locks, Alone, TypeOK, Serving, Clean
  <2>3. Own(s)
    BY <1>1, <1>14, <2>1 DEF UpdateConflict, Fails, Waiting, StmtFails, engine, locks, Own, TypeOK, EngineTypeOK, Serving
  <2>6. Prog(s)'
    BY <1>1, <1>2, <1>14, <2>1, <2>3 DEF UpdateConflict, Fails, Waiting, StmtFails, engine, locks, Prog, Right, Serving, Mode, Clean, Explaining, Own, R, TypeOK, EngineTypeOK, Outcome
  <2>7. ASSUME NEW c, c = cur[s] PROVE Settled(c)'
    BY <1>1, <1>2, <1>14, <2>1, <2>3, <2>7 DEF UpdateConflict, Fails, Waiting, StmtFails, engine, locks, Settled, Right, Prog, Mode, Own, R, TypeOK, EngineTypeOK
  <2> QED
    BY <2>1, <2>3, <2>6, <2>7, AInvStep
<1>15. CASE LockTimeout(s)
  <2>1. pc[s] # "idle" /\ Alone(s)
    BY <1>1, <1>15 DEF LockTimeout, Fails, Waiting, StmtFails, engine, locks, Alone, TypeOK, Serving, Clean
  <2>3. Own(s)
    BY <1>1, <1>15, <2>1 DEF LockTimeout, Fails, Waiting, StmtFails, engine, locks, Own, TypeOK, EngineTypeOK, Serving
  <2>6. Prog(s)'
    BY <1>1, <1>2, <1>15, <2>1, <2>3 DEF LockTimeout, Fails, Waiting, StmtFails, engine, locks, Prog, Right, Serving, Mode, Clean, Explaining, Own, R, TypeOK, EngineTypeOK, Outcome
  <2>7. ASSUME NEW c, c = cur[s] PROVE Settled(c)'
    BY <1>1, <1>2, <1>15, <2>1, <2>3, <2>7 DEF LockTimeout, Fails, Waiting, StmtFails, engine, locks, Settled, Right, Prog, Mode, Own, R, TypeOK, EngineTypeOK
  <2> QED
    BY <2>1, <2>3, <2>6, <2>7, AInvStep
<1>16. CASE DeadlockVictim(s)
  <2>1. pc[s] # "idle" /\ Alone(s)
    BY <1>1, <1>16 DEF DeadlockVictim, Fails, Waiting, StmtFails, engine, locks, Alone, TypeOK, Serving, Clean
  <2>3. Own(s)
    BY <1>1, <1>16, <2>1 DEF DeadlockVictim, Fails, Waiting, StmtFails, engine, locks, Own, TypeOK, EngineTypeOK, Serving
  <2>6. Prog(s)'
    BY <1>1, <1>2, <1>16, <2>1, <2>3 DEF DeadlockVictim, Fails, Waiting, StmtFails, engine, locks, Prog, Right, Serving, Mode, Clean, Explaining, Own, R, TypeOK, EngineTypeOK, Outcome
  <2>7. ASSUME NEW c, c = cur[s] PROVE Settled(c)'
    BY <1>1, <1>2, <1>16, <2>1, <2>3, <2>7 DEF DeadlockVictim, Fails, Waiting, StmtFails, engine, locks, Settled, Right, Prog, Mode, Own, R, TypeOK, EngineTypeOK
  <2> QED
    BY <2>1, <2>3, <2>6, <2>7, AInvStep
<1>17. CASE RunEnd(s)
  BY <1>3, <1>17 DEF RunEnd
<1>18. CASE Commit(s)
  <2>1. pc[s] # "idle" /\ Alone(s)
    BY <1>1, <1>18 DEF Commit, TxCommit, TxEnd, Live, locks, Committing, More, Alone, TypeOK, Serving, Clean
  <2>3. Own(s)
    BY <1>1, <1>18, <2>1 DEF Commit, TxCommit, TxEnd, Live, locks, Committing, More, Own, TypeOK, EngineTypeOK, Serving
  <2>4. saved'[cur[s]] = Effect(R(s)) /\ Effect(R(s)) = WriteSet(R(s)) /\ R(s)' = R(s)
    <3>1. idx[s] = Len(R(s).stmts) /\ work[s] = Written(R(s), idx[s]) /\ saved[cur[s]] = {}
      BY <1>1, <1>2, <1>18, <2>1 DEF Commit, Committing, More, Live, Prog, TypeOK
    <3>2. Written(R(s), Len(R(s).stmts)) = WriteSet(R(s))
      BY DEF Written, WriteSet
    <3> QED
      BY <1>1, <1>2, <1>18, <2>1, <3>1, <3>2 DEF Commit, Committing, TxCommit, Effect, Mode, R, EngineTypeOK
  <2>6. Prog(s)'
    BY <1>1, <1>2, <1>18, <2>4, <2>1, <2>3 DEF Commit, TxCommit, TxEnd, Live, locks, Committing, More, Prog, Right, Serving, Mode, Clean, Explaining, Own, R, TypeOK, EngineTypeOK, Outcome
  <2>7. ASSUME NEW c, c = cur[s] PROVE Settled(c)'
    BY <1>1, <1>2, <1>18, <2>4, <2>1, <2>3, <2>7 DEF Commit, TxCommit, TxEnd, Live, locks, Committing, More, Settled, Right, Prog, Mode, Own, R, TypeOK, EngineTypeOK
  <2> QED
    BY <2>1, <2>3, <2>6, <2>7, AInvStep
<1>19. CASE CommitFails(s)
  <2>1. pc[s] # "idle" /\ Alone(s)
    BY <1>1, <1>19 DEF CommitFails, engine, locks, Committing, More, Alone, TypeOK, Serving, Clean
  <2>3. Own(s)
    BY <1>1, <1>19, <2>1 DEF CommitFails, engine, locks, Committing, More, Own, TypeOK, EngineTypeOK, Serving
  <2>6. Prog(s)'
    BY <1>1, <1>2, <1>19, <2>1, <2>3 DEF CommitFails, engine, locks, Committing, More, Prog, Right, Serving, Mode, Clean, Explaining, Own, R, TypeOK, EngineTypeOK, Outcome
  <2>7. ASSUME NEW c, c = cur[s] PROVE Settled(c)'
    BY <1>1, <1>2, <1>19, <2>1, <2>3, <2>7 DEF CommitFails, engine, locks, Committing, More, Settled, Right, Prog, Mode, Own, R, TypeOK, EngineTypeOK
  <2> QED
    BY <2>1, <2>3, <2>6, <2>7, AInvStep
<1>20. CASE CommitRefused(s)
  <2>1. pc[s] # "idle" /\ Alone(s)
    BY <1>1, <1>20 DEF CommitRefused, engine, locks, Committing, More, Alone, TypeOK, Serving, Clean
  <2>3. Own(s)
    BY <1>1, <1>20, <2>1 DEF CommitRefused, engine, locks, Committing, More, Own, TypeOK, EngineTypeOK, Serving
  <2>6. Prog(s)'
    BY <1>1, <1>2, <1>20, <2>1, <2>3 DEF CommitRefused, engine, locks, Committing, More, Prog, Right, Serving, Mode, Clean, Explaining, Own, R, TypeOK, EngineTypeOK, Outcome
  <2>7. ASSUME NEW c, c = cur[s] PROVE Settled(c)'
    BY <1>1, <1>2, <1>20, <2>1, <2>3, <2>7 DEF CommitRefused, engine, locks, Committing, More, Settled, Right, Prog, Mode, Own, R, TypeOK, EngineTypeOK
  <2> QED
    BY <2>1, <2>3, <2>6, <2>7, AInvStep
<1>21. CASE CommitReplyLost(s)
  <2>1. pc[s] # "idle" /\ Alone(s)
    BY <1>1, <1>21 DEF CommitReplyLost, TxCommit, TxEnd, Live, locks, Committing, More, Alone, TypeOK, Serving, Clean
  <2>3. Own(s)
    BY <1>1, <1>21, <2>1 DEF CommitReplyLost, TxCommit, TxEnd, Live, locks, Committing, More, Own, TypeOK, EngineTypeOK, Serving
  <2>4. saved'[cur[s]] = Effect(R(s)) /\ Effect(R(s)) = WriteSet(R(s)) /\ R(s)' = R(s)
    <3>1. idx[s] = Len(R(s).stmts) /\ work[s] = Written(R(s), idx[s]) /\ saved[cur[s]] = {}
      BY <1>1, <1>2, <1>21, <2>1 DEF CommitReplyLost, Committing, More, Live, Prog, TypeOK
    <3>2. Written(R(s), Len(R(s).stmts)) = WriteSet(R(s))
      BY DEF Written, WriteSet
    <3> QED
      BY <1>1, <1>2, <1>21, <2>1, <3>1, <3>2 DEF CommitReplyLost, Committing, TxCommit, Effect, Mode, R, EngineTypeOK
  <2>6. Prog(s)'
    BY <1>1, <1>2, <1>21, <2>4, <2>1, <2>3 DEF CommitReplyLost, TxCommit, TxEnd, Live, locks, Committing, More, Prog, Right, Serving, Mode, Clean, Explaining, Own, R, TypeOK, EngineTypeOK, Outcome
  <2>7. ASSUME NEW c, c = cur[s] PROVE Settled(c)'
    BY <1>1, <1>2, <1>21, <2>4, <2>1, <2>3, <2>7 DEF CommitReplyLost, TxCommit, TxEnd, Live, locks, Committing, More, Settled, Right, Prog, Mode, Own, R, TypeOK, EngineTypeOK
  <2> QED
    BY <2>1, <2>3, <2>6, <2>7, AInvStep
<1>22. CASE Rollback(s)
  <2>1. pc[s] # "idle" /\ Alone(s)
    BY <1>1, <1>22 DEF Rollback, TxRollback, TxEnd, engine, Live, locks, Alone, TypeOK, Serving, Clean
  <2>3. Own(s)
    BY <1>1, <1>22, <2>1 DEF Rollback, TxRollback, TxEnd, engine, Live, locks, Own, TypeOK, EngineTypeOK, Serving
  <2>4. saved' = saved /\ cur' = cur /\ req' = req /\ idx' = idx /\ pc[s] = "rollback"
    BY <1>22 DEF Rollback, TxRollback, engine
  <2>5. out[s] # "spurious" /\ Right(out[s], saved[cur[s]], R(s)) /\ R(s)' = R(s)
    <3>1. R(s)' = R(s)
      BY <2>4 DEF R
    <3>2. Prog(s)
      BY <1>1
    <3>3. out[s] # "spurious"
      BY <2>1, <2>4, <3>2 DEF Prog
    <3>4. Right(out[s], saved[cur[s]], R(s))
      BY <2>1, <2>4, <3>2 DEF Prog, Right
    <3> QED
      BY <3>1, <3>3, <3>4
  <2>6. Prog(s)'
    <3>1. pc'[s] = "return" /\ out'[s] = out[s]
      BY <1>1, <1>22, <2>5 DEF Rollback, Goto, TypeOK
    <3> QED
      BY <2>4, <2>5, <3>1 DEF Prog, Right, Explaining
  <2>7. ASSUME NEW c, c = cur[s] PROVE Settled(c)'
    BY <1>1, <1>2, <1>22, <2>1, <2>3, <2>7 DEF Rollback, TxRollback, TxEnd, engine, Live, locks, Settled, Right, Prog, Mode, Own, R, TypeOK, EngineTypeOK
  <2> QED
    BY <2>1, <2>3, <2>6, <2>7, AInvStep
<1>23. CASE ExplainBegin(s)
  <2>1. pc[s] # "idle" /\ Alone(s)
    BY <1>1, <1>23 DEF ExplainBegin, TxBegin, locks, Alone, TypeOK, Serving, Clean
  <2>3. Own(s)
    BY <1>1, <1>23, <2>1 DEF ExplainBegin, TxBegin, locks, Own, TypeOK, EngineTypeOK, Serving
  <2>6. Prog(s)'
    BY <1>1, <1>2, <1>23, <2>1, <2>3 DEF ExplainBegin, TxBegin, locks, NoPlan, Effect, Prog, Right, Serving, Mode, Clean, Explaining, Own, R, TypeOK, EngineTypeOK, Outcome
  <2>7. ASSUME NEW c, c = cur[s] PROVE Settled(c)'
    BY <1>1, <1>2, <1>23, <2>1, <2>3, <2>7 DEF ExplainBegin, TxBegin, locks, Settled, Right, Prog, Mode, Own, R, TypeOK, EngineTypeOK
  <2> QED
    BY <2>1, <2>3, <2>6, <2>7, AInvStep
<1>24. CASE ExplainBeginFails(s)
  <2>1. pc[s] # "idle" /\ Alone(s)
    BY <1>1, <1>24 DEF ExplainBeginFails, engine, locks, Alone, TypeOK, Serving, Clean
  <2>3. Own(s)
    BY <1>1, <1>24, <2>1 DEF ExplainBeginFails, engine, locks, Own, TypeOK, EngineTypeOK, Serving
  <2>6. Prog(s)'
    BY <1>1, <1>2, <1>24, <2>1, <2>3 DEF ExplainBeginFails, engine, locks, NoPlan, Effect, Prog, Right, Serving, Mode, Clean, Explaining, Own, R, TypeOK, EngineTypeOK, Outcome
  <2>7. ASSUME NEW c, c = cur[s] PROVE Settled(c)'
    BY <1>1, <1>2, <1>24, <2>1, <2>3, <2>7 DEF ExplainBeginFails, engine, locks, Settled, Right, Prog, Mode, Own, R, TypeOK, EngineTypeOK
  <2> QED
    BY <2>1, <2>3, <2>6, <2>7, AInvStep
<1>25. CASE ExplainExec(s)
  <2>1. pc[s] # "idle" /\ Alone(s)
    BY <1>1, <1>25 DEF ExplainExec, TxRun, Live, locks, Alone, TypeOK, Serving, Clean
  <2>3. Own(s)
    BY <1>1, <1>25, <2>1 DEF ExplainExec, TxRun, Live, locks, Own, TypeOK, EngineTypeOK, Serving
  <2>6. Prog(s)'
    BY <1>1, <1>2, <1>25, <2>1, <2>3 DEF ExplainExec, TxRun, Live, locks, NoPlan, Effect, Prog, Right, Serving, Mode, Clean, Explaining, Own, R, TypeOK, EngineTypeOK, Outcome
  <2>7. ASSUME NEW c, c = cur[s] PROVE Settled(c)'
    BY <1>1, <1>2, <1>25, <2>1, <2>3, <2>7 DEF ExplainExec, TxRun, Live, locks, Settled, Right, Prog, Mode, Own, R, TypeOK, EngineTypeOK
  <2> QED
    BY <2>1, <2>3, <2>6, <2>7, AInvStep
<1>26. CASE ExplainExecFails(s)
  <2>1. pc[s] # "idle" /\ Alone(s)
    BY <1>1, <1>26 DEF ExplainExecFails, StmtFails, engine, locks, Alone, TypeOK, Serving, Clean
  <2>3. Own(s)
    BY <1>1, <1>26, <2>1 DEF ExplainExecFails, StmtFails, engine, locks, Own, TypeOK, EngineTypeOK, Serving
  <2>6. Prog(s)'
    BY <1>1, <1>2, <1>26, <2>1, <2>3 DEF ExplainExecFails, StmtFails, engine, locks, NoPlan, Effect, Prog, Right, Serving, Mode, Clean, Explaining, Own, R, TypeOK, EngineTypeOK, Outcome
  <2>7. ASSUME NEW c, c = cur[s] PROVE Settled(c)'
    BY <1>1, <1>2, <1>26, <2>1, <2>3, <2>7 DEF ExplainExecFails, StmtFails, engine, locks, Settled, Right, Prog, Mode, Own, R, TypeOK, EngineTypeOK
  <2> QED
    BY <2>1, <2>3, <2>6, <2>7, AInvStep
<1>27. CASE ExplainRead(s)
  <2>1. pc[s] # "idle" /\ Alone(s)
    BY <1>1, <1>27 DEF ExplainRead, engine, locks, Alone, TypeOK, Serving, Clean
  <2>3. Own(s)
    BY <1>1, <1>27, <2>1 DEF ExplainRead, engine, locks, Own, TypeOK, EngineTypeOK, Serving
  <2>6. Prog(s)'
    BY <1>1, <1>2, <1>27, <2>1, <2>3 DEF ExplainRead, engine, locks, NoPlan, Effect, Prog, Right, Serving, Mode, Clean, Explaining, Own, R, TypeOK, EngineTypeOK, Outcome
  <2>7. ASSUME NEW c, c = cur[s] PROVE Settled(c)'
    BY <1>1, <1>2, <1>27, <2>1, <2>3, <2>7 DEF ExplainRead, engine, locks, Settled, Right, Prog, Mode, Own, R, TypeOK, EngineTypeOK
  <2> QED
    BY <2>1, <2>3, <2>6, <2>7, AInvStep
<1>28. CASE Return(s)
  <2>1. pc[s] # "idle" /\ Alone(s)
    BY <1>1, <1>28 DEF Return, TxRollback, TxEnd, locks, Alone, TypeOK, Serving, Clean
  <2>3. Own(s)
    BY <1>1, <1>28, <2>1 DEF Return, TxRollback, TxEnd, locks, Own, TypeOK, EngineTypeOK, Serving
  <2>6. Prog(s)'
    BY <1>1, <1>2, <1>28, <2>1, <2>3 DEF Return, TxRollback, TxEnd, locks, Prog, Right, Serving, Mode, Clean, Explaining, Own, R, TypeOK, EngineTypeOK, Outcome
  <2>7. ASSUME NEW c, c = cur[s] PROVE Settled(c)'
    BY <1>1, <1>2, <1>28, <2>1, <2>3, <2>7 DEF Return, TxRollback, TxEnd, locks, Settled, Right, Prog, Mode, Own, R, TypeOK, EngineTypeOK
  <2> QED
    BY <2>1, <2>3, <2>6, <2>7, AInvStep
<1>29. CASE Crash(s)
  <2>1. pc[s] # "idle" /\ Alone(s)
    BY <1>1, <1>29 DEF Crash, TxRollback, TxEnd, locks, Alone, TypeOK, Serving, Clean
  <2>3. Own(s)
    BY <1>1, <1>29, <2>1 DEF Crash, TxRollback, TxEnd, locks, Own, TypeOK, EngineTypeOK, Serving
  <2>6. Prog(s)'
    BY <1>1, <1>2, <1>29, <2>1, <2>3 DEF Crash, TxRollback, TxEnd, locks, Prog, Right, Serving, Mode, Clean, Explaining, Own, R, TypeOK, EngineTypeOK, Outcome
  <2>7. ASSUME NEW c, c = cur[s] PROVE Settled(c)'
    BY <1>1, <1>2, <1>29, <2>1, <2>3, <2>7 DEF Crash, TxRollback, TxEnd, locks, Settled, Right, Prog, Mode, Own, R, TypeOK, EngineTypeOK
  <2> QED
    BY <2>1, <2>3, <2>6, <2>7, AInvStep
<1>30. CASE Fault(s)
  <2>1. pc[s] # "idle" /\ Alone(s)
    BY <1>1, <1>30 DEF Fault, TxRollback, TxEnd, locks, Alone, TypeOK, Serving, Clean
  <2>3. Own(s)
    BY <1>1, <1>30, <2>1 DEF Fault, TxRollback, TxEnd, locks, Own, TypeOK, EngineTypeOK, Serving
  <2>6. Prog(s)'
    BY <1>1, <1>2, <1>30, <2>1, <2>3 DEF Fault, TxRollback, TxEnd, locks, Prog, Right, Serving, Mode, Clean, Explaining, Own, R, TypeOK, EngineTypeOK, Outcome
  <2>7. ASSUME NEW c, c = cur[s] PROVE Settled(c)'
    BY <1>1, <1>2, <1>30, <2>1, <2>3, <2>7 DEF Fault, TxRollback, TxEnd, locks, Settled, Right, Prog, Mode, Own, R, TypeOK, EngineTypeOK
  <2> QED
    BY <2>1, <2>3, <2>6, <2>7, AInvStep
<1> QED
  BY <1>5, <1>6, <1>7, <1>8, <1>9, <1>10, <1>11, <1>12, <1>13, <1>14, <1>15, <1>16, <1>17, <1>18, <1>19, <1>20, <1>21, <1>22, <1>23, <1>24, <1>25, <1>26, <1>27, <1>28, <1>29, <1>30 DEF Step

LEMMA AInvReceive ==
    ASSUME TInv, CInv, MInv, AInv, NEW s \in Server, NEW c \in Call, Receive(s, c)
    PROVE  AInv'
<1>1. PICK r \in Request :
        /\ req' = [req EXCEPT ![c] = r]
        /\ Goto(s, IF Rejected(r) THEN "return" ELSE "open")
        /\ Result(s, IF Rejected(r) THEN "failed" ELSE "none")
  BY DEF Receive
<1>2. TypeOK /\ pc[s] = "idle" /\ req[c] = NoRequest
      /\ UNCHANGED <<tx, work, saved, ans>>
  BY DEF Receive, TInv, engine, locks
<1>3. saved[c] = {} /\ ans[c] = "none"
  BY <1>2 DEF MInv, Unheard
<1>4. /\ pc'[s] = "open" \/ (pc'[s] = "return" /\ out'[s] = "failed")
      /\ cur'[s] = c /\ idx'[s] = 0
      /\ \A t \in Server \ {s} : /\ pc'[t] = pc[t] /\ cur'[t] = cur[t]
                                 /\ idx'[t] = idx[t] /\ out'[t] = out[t]
  BY <1>1, <1>2 DEF Receive, Goto, Result, TypeOK
<1>5. Prog(s)'
  BY <1>2, <1>3, <1>4 DEF Prog, Right, Explaining
<1>6. ASSUME NEW t \in Server \ {s} PROVE Prog(t)'
  <2>1. Prog(t) /\ Serving(t)
    BY DEF AInv, TInv
  <2>2. pc[t] # "idle" => req'[cur[t]] = req[cur[t]]
    BY <1>1, <1>2, <2>1, NoRequestIsNone DEF Serving, TypeOK
  <2> QED
    BY <1>2, <1>4, <2>1, <2>2 DEF Prog, R, Explaining
<1>7. ASSUME NEW d \in Call PROVE Settled(d)'
  <2>1. CASE d = c
    BY <1>2, <1>3, <2>1 DEF Settled, Right
  <2>2. CASE d # c
    <3>1. req'[d] = req[d] /\ Settled(d)
      BY <1>1, <1>2, <2>2 DEF TypeOK, AInv
    <3> QED
      BY <1>2, <3>1 DEF Settled
  <2> QED
    BY <2>1, <2>2
<1> QED
  BY <1>5, <1>6, <1>7 DEF AInv

LEMMA AInvNext ==
    ASSUME NoInnerCommit
    PROVE  TInv /\ CInv /\ MInv /\ AInv /\ [Next]_vars => AInv'
<1> SUFFICES ASSUME TInv, CInv, MInv, AInv, [Next]_vars PROVE AInv'
  OBVIOUS
<1>1. CASE \E s \in Server, c \in Call : Receive(s, c)
  BY <1>1, AInvReceive
<1>2. CASE \E s \in Server : Step(s) \/ Crash(s) \/ Fault(s)
  BY <1>2, AInvServerStep
<1>3. CASE Outside /\ UNCHANGED handlers
  <2>1. UNCHANGED <<tx, work, saved>>
    BY <1>3 DEF Outside, ExtLock, ExtCommit, ExtRollback, locks
  <2> QED
    BY <1>3, <2>1 DEF AInv, Prog, Settled, R, Explaining, handlers
<1>4. CASE Quiet \/ UNCHANGED vars
  BY <1>4 DEF Quiet, AInv, Prog, Settled, R, Explaining, vars, engine, locks, handlers
<1> QED
  BY <1>1, <1>2, <1>3, <1>4 DEF Next

LEMMA AInvAlways ==
    ASSUME NoInnerCommit
    PROVE  Spec => [](TInv /\ CInv /\ MInv /\ AInv)
<1>1. TInv /\ CInv /\ MInv /\ AInv /\ [Next]_vars => AInv'
  BY AInvNext
<1> QED
  BY <1>1, TInvInit, TInvNext, CInvInit, CInvNext, MInvInit, MInvNext, AInvInit,
     PTL DEF Spec

\* As long as no script carries a COMMIT, the statements of every call are in
\* the database all or none at every moment.
THEOREM Atomicity ==
    ASSUME NoInnerCommit
    PROVE  Spec => []AllOrNothing
<1>1. AInv => AllOrNothing
  BY DEF AInv, Settled, AllOrNothing
<1> QED
  BY <1>1, AInvAlways, PTL

\* As long as no script carries a COMMIT, every answer tells what happened.
THEOREM Truthful ==
    ASSUME NoInnerCommit
    PROVE  Spec => []AnswersTrue
<1>1. AInv => AnswersTrue
  BY DEF AInv, Settled, Right, AnswersTrue
<1> QED
  BY <1>1, AInvAlways, PTL

-----------------------------------------------------------------------------
(* The handlers implement the atomic calls of AtomicCalls.                 *)

LEMMA SameRequests ==
    /\ Atomic!NoRequest = NoRequest
    /\ \A r : Atomic!Effect(r) = Effect(r)
  BY DEF Atomic!NoRequest, NoRequest, Atomic!Effect, Effect, Atomic!WriteSet,
         WriteSet, Atomic!Writes, Writes

LEMMA AtomicInit == Init => Atomic!Init
  BY SameRequests DEF Init, EngineInit, Atomic!Init

\* Every step is one of an atomic call, or changes nothing a client can see.
LEMMA AtomicStep ==
    ASSUME NoInnerCommit, TInv, CInv, MInv, AInv, [Next]_vars
    PROVE  [Atomic!Next]_(Atomic!vars)
<1>1. CASE \E s \in Server, c \in Call : Receive(s, c)
  <2>1. PICK s \in Server, c \in Call : Receive(s, c)
    BY <1>1
  <2>2. Atomic!Ask(c)
    BY <2>1, SameRequests DEF Receive, Atomic!Ask, engine
  <2> QED
    BY <2>2 DEF Atomic!Next
<1>2. ASSUME NEW s \in Server, Step(s) \/ Crash(s) \/ Fault(s)
      PROVE  [Atomic!Next]_(Atomic!vars)
  <2>1. /\ Serving(s) /\ Mode(s) /\ Clean(s) /\ Prog(s)
        /\ TypeOK /\ EngineTypeOK
    BY DEF TInv, MInv, CInv, AInv, TypeOK
  <2>2. CASE Return(s) \/ Crash(s)
    <3>1. \E o \in {out[s], "lost"} :
              /\ ans' = [ans EXCEPT ![cur[s]] = o]
              /\ pc[s] = "return" \/ o = "lost"
      BY <2>2 DEF Return, Crash
    <3>2. pc[s] # "idle" /\ req' = req /\ saved' = saved
      BY <2>2 DEF Return, Crash, TxRollback
    <3>3. cur[s] \in Call /\ req[cur[s]] # NoRequest /\ ans[cur[s]] = "none"
      BY <2>1, <3>2, NoRequestIsNone DEF Serving, Mode
    <3>4. pc[s] = "return" => out[s] \in Outcome /\ Right(out[s], saved[cur[s]], req[cur[s]])
      BY <2>1 DEF Serving, Prog, R
    <3>5. Atomic!Answer(cur[s])
      BY <3>1, <3>2, <3>3, <3>4, SameRequests
      DEF Atomic!Answer, Atomic!Truth, Right, Outcome
    <3> QED
      BY <3>3, <3>5 DEF Atomic!Next
  <2>3. CASE Commit(s) \/ CommitReplyLost(s)
    <3>1. pc[s] = "run" /\ ~ More(s) /\ Live(s) /\ TxCommit(s, cur[s])
          /\ req' = req /\ ans' = ans
      BY <2>3 DEF Commit, CommitReplyLost, Committing
    <3>2. /\ cur[s] \in Call /\ req[cur[s]] # NoRequest /\ ans[cur[s]] = "none"
          /\ saved[cur[s]] = {} /\ R(s).tool # "explain" /\ R(s) \in RequestSpace
      BY <2>1, <3>1, NoRequestIsNone, RequestAssumption DEF Serving, Mode, Prog, R
    <3>3. idx[s] = Len(R(s).stmts) /\ work[s] = Written(R(s), idx[s])
      <4>1. Len(R(s).stmts) \in Nat
        BY <3>2 DEF RequestSpace
      <4> QED
        BY <2>1, <3>1, <4>1 DEF More, Live, Prog, TypeOK
    <3>4. work[s] = Effect(R(s))
      BY <3>2, <3>3 DEF Written, WriteSet, Effect
    <3>5. saved' = [saved EXCEPT ![cur[s]] = Effect(req[cur[s]])]
      BY <3>1, <3>2, <3>4 DEF TxCommit, R
    <3>6. Atomic!Apply(cur[s])
      BY <3>1, <3>2, <3>5, SameRequests DEF Atomic!Apply
    <3> QED
      BY <3>2, <3>6 DEF Atomic!Next
  <2>4. CASE RunEnd(s)
    <3>1. pc[s] = "run" /\ More(s) /\ Stmt(s).kind = "end"
      BY <2>4 DEF RunEnd
    <3>2. R(s) \in RequestSpace /\ R(s) \in Request
      BY <2>1, <3>1, RequestAssumption DEF Serving, R
    <3>3. idx[s] + 1 \in 1 .. Len(R(s).stmts)
      BY <2>1, <3>1, <3>2 DEF More, TypeOK, RequestSpace
    <3>4. R(s).stmts[idx[s] + 1] \in Statement
      BY <3>2, <3>3 DEF RequestSpace
    <3>5. R(s).stmts[idx[s] + 1].kind = "end"
      BY <3>1, <3>4 DEF Stmt, Sent, Statement
    <3> QED
      BY <3>2, <3>3, <3>5 DEF NoInnerCommit
  <2>5. CASE AutoOk(s)
    <3>1. saved' = saved
      BY <2>5 DEF AutoOk, AutoRun, Accepts, metadata_transaction_conf
    <3> QED
      BY <2>5, <3>1 DEF AutoOk, Atomic!vars
  <2>6. CASE Begin(s) \/ ExplainBegin(s) \/ Run(s) \/ ExplainExec(s)
    BY <2>6 DEF Begin, ExplainBegin, Run, ExplainExec, TxBegin, TxRun, Atomic!vars
  <2>7. CASE RunErr(s) \/ UpdateConflict(s) \/ LockTimeout(s) \/ DeadlockVictim(s)
    BY <2>7 DEF RunErr, UpdateConflict, LockTimeout, DeadlockVictim, Fails,
                StmtFails, engine, Atomic!vars
  <2>8. CASE AutoErr(s) \/ ExplainExecFails(s) \/ Rollback(s) \/ Fault(s)
    BY <2>8 DEF AutoErr, ExplainExecFails, Rollback, Fault, StmtFails, TxRollback,
                engine, Atomic!vars
  <2>9. CASE \/ Open(s) \/ OpenFails(s) \/ AutoDone(s) \/ BeginFails(s)
             \/ CommitFails(s) \/ CommitRefused(s)
             \/ ExplainBeginFails(s) \/ ExplainRead(s)
    BY <2>9 DEF Open, OpenFails, AutoDone, BeginFails, CommitFails, CommitRefused,
                ExplainBeginFails, ExplainRead, engine, Atomic!vars
  <2> QED
    BY <1>2, <2>2, <2>3, <2>4, <2>5, <2>6, <2>7, <2>8, <2>9 DEF Step
<1>3. CASE Outside /\ UNCHANGED handlers
  BY <1>3 DEF Outside, ExtLock, ExtCommit, ExtRollback, handlers, Atomic!vars
<1>4. CASE Quiet \/ UNCHANGED vars
  BY <1>4 DEF Quiet, vars, engine, handlers, Atomic!vars
<1> QED
  BY <1>1, <1>2, <1>3, <1>4 DEF Next

\* As long as no script carries a COMMIT, the handlers with their connections,
\* transactions, locks, faults and crashes implement the atomic calls the tool
\* descriptions promise.
THEOREM Implementation ==
    ASSUME NoInnerCommit
    PROVE  Spec => ImplementsAtomicCalls
<1>1. TInv /\ CInv /\ MInv /\ AInv /\ [Next]_vars => [Atomic!Next]_(Atomic!vars)
  BY AtomicStep
<1> QED
  BY <1>1, AInvAlways, AtomicInit, PTL DEF Spec, ImplementsAtomicCalls, Atomic!Spec

-----------------------------------------------------------------------------
(* No tool call fails without a cause: whoever asks a tool for what its       *)
(* transaction can do is refused only when something outside the call got in  *)
(* its way.                                                                    *)

\* The two disagreements the runs show, set aside: no request creates a trigger
\* or a routine (SET TERM is sent to the server), and none asks to write from
\* the tools whose transactions cannot (execute_immediate, create_sequence,
\* explain_plan).
ToolsSuit ==
    \A r \in Request : Sound(r) =>
        /\ r.tool # "routine"
        /\ r.tool \in {"immediate", "sequence", "explain"} => WriteSet(r) = {}

\* The process serves a sound call that nothing has disturbed.
Spared(s) == pc[s] # "idle" /\ Sound(R(s)) /\ ~ hurt[cur[s]]

\* Such a call has its connection, the transaction its handler chose, and, once
\* its statements are over, a success to answer.
Unhindered(s) ==
    Spared(s) =>
        /\ pc[s] \in {"auto", "begin", "run"} \cup Explaining => linked[s]
        /\ pc[s] = "run" => tx[s] = BeginConf(R(s))
        /\ pc[s] \in {"explain_exec", "explain_read"} =>
              tx[s] = metadata_transaction_conf
        /\ pc[s] \in {"explain_read", "rollback", "return"} =>
              out[s] \in {"ok", "planned"}

KInv == NoCauselessError /\ \A s \in Server : Unhindered(s)

LEMMA KInvInit == Init => KInv
  BY DEF Init, KInv, NoCauselessError, Unhindered, Spared

-----------------------------------------------------------------------------
(* A sound call's statements are accepted.                                 *)

LEMMA SoundStmt ==
    ASSUME ToolsSuit, TInv, NEW s \in Server, pc[s] # "idle", Sound(R(s)),
           More(s) \/ pc[s] = "explain_exec"
    PROVE  /\ Stmt(s).kind \notin {"bad", "wrapped", "end"}
           /\ Writes(Stmt(s)) # {} =>
                /\ R(s).tool \notin {"select", "immediate", "sequence", "explain"}
                /\ R(s).tool = "script" => preset(R(s).isolation) # "ReadOnly"
<1>1. R(s) \in Request /\ R(s) \in RequestSpace /\ idx[s] \in Nat
  BY RequestAssumption DEF TInv, Serving, TypeOK, R
<1>2. Len(R(s).stmts) \in Nat
  BY <1>1 DEF RequestSpace
<1>3. idx[s] + 1 \in 1 .. Len(R(s).stmts)
  <2>1. CASE More(s)
    BY <1>1, <1>2, <2>1 DEF More
  <2>2. CASE pc[s] = "explain_exec"
    <3>1. idx[s] = 0 /\ R(s).tool \in {"execute", "explain"}
      BY <2>2 DEF TInv, Serving, Explaining
    <3>2. Len(R(s).stmts) = 1
      BY <1>1, <3>1 DEF RequestSpace
    <3> QED
      BY <3>1, <3>2
  <2> QED
    BY <2>1, <2>2
<1>4. R(s).tool # "routine"
  BY <1>1 DEF ToolsSuit
<1>5. Stmt(s) = R(s).stmts[idx[s] + 1]
  BY <1>4 DEF Stmt, Sent
<1>6. Writes(Stmt(s)) # {} =>
        R(s).tool \notin {"immediate", "sequence", "explain"}
  BY <1>1, <1>3, <1>5 DEF ToolsSuit, WriteSet
<1> QED
  BY <1>3, <1>5, <1>6 DEF Sound

\* A spared call's transaction is open while its statements run.
LEMMA SparedLive ==
    ASSUME TInv, NEW s \in Server, Spared(s), Unhindered(s),
           pc[s] \in {"run", "explain_exec", "explain_read"}
    PROVE  Live(s)
<1>1. R(s) \in RequestSpace
  BY RequestAssumption DEF Spared, TInv, Serving, R
<1>2. NoTx \notin Conf
  BY DEF NoTx, Conf
<1>3. BeginConf(R(s)) # NoTx /\ metadata_transaction_conf # NoTx
  BY <1>1, <1>2, BeginConfIsConf, MetadataConfIsConf
<1> QED
  BY <1>3 DEF Unhindered, Live, Explaining

\* So a spared call's next statement runs in whichever transaction it is in.
LEMMA SparedAccepted ==
    ASSUME ToolsSuit, TInv, MInv, NEW s \in Server, Spared(s), Unhindered(s),
           More(s) \/ pc[s] = "explain_exec"
    PROVE  /\ pc[s] = "run" => Live(s) /\ Accepts(tx[s].access, Stmt(s))
           /\ pc[s] = "auto" /\ R(s).tool # "execute" =>
                linked[s] /\ Accepts(metadata_transaction_conf.access, Stmt(s))
           /\ pc[s] = "explain_exec" /\ R(s).tool = "explain" =>
                Live(s) /\ Accepts(tx[s].access, Stmt(s))
<1>1. /\ Stmt(s).kind \notin {"bad", "wrapped", "end"}
      /\ Writes(Stmt(s)) # {} =>
           /\ R(s).tool \notin {"select", "immediate", "sequence", "explain"}
           /\ R(s).tool = "script" => preset(R(s).isolation) # "ReadOnly"
  BY SoundStmt DEF Spared
<1>2. BeginConf(R(s)).access = "ReadWrite" \/ Writes(Stmt(s)) = {}
  BY <1>1 DEF BeginConf, to_conf, rw_transaction_conf
<1>3. pc[s] \in {"run", "explain_exec"} => Live(s)
  BY SparedLive
<1>4. pc[s] = "auto" => R(s).tool \in {"select", "execute", "immediate", "sequence"}
  BY DEF MInv, Mode
<1> QED
  BY <1>1, <1>2, <1>3, <1>4
     DEF Spared, Unhindered, Accepts, Explaining, metadata_transaction_conf

-----------------------------------------------------------------------------
(* Every step of a process.                                                *)

\* What a step of s leaves alone: the other processes, the answers and the
\* history of the other calls; s serves its call until it answers it.
Local(s) ==
    /\ pc[s] # "idle" /\ req' = req
    /\ \A t \in Server \ {s} : /\ pc'[t] = pc[t] /\ cur'[t] = cur[t]
                               /\ out'[t] = out[t] /\ tx'[t] = tx[t]
                               /\ linked'[t] = linked[t]
    /\ \A c \in Call : c # cur[s] => ans'[c] = ans[c] /\ hurt'[c] = hurt[c]
    /\ hurt[cur[s]] => hurt'[cur[s]]
    /\ pc'[s] # "idle" => cur'[s] = cur[s] /\ ans'[cur[s]] = ans[cur[s]]

LEMMA KInvStep ==
    ASSUME TInv, MInv, KInv, NEW s \in Server, Local(s), Unhindered(s)',
           pc'[s] = "idle" => \/ ans'[cur[s]] = "lost"
                              \/ Spared(s) => ans'[cur[s]] \in {"ok", "planned"}
    PROVE  KInv'
<1>1. cur[s] \in Call
  BY DEF TInv, Serving, Local
<1>2. ASSUME NEW t \in Server \ {s} PROVE Unhindered(t)'
  <2>1. Unhindered(t)
    BY DEF KInv
  <2>2. pc[t] # "idle" => cur[t] \in Call /\ cur[t] # cur[s]
    BY DEF TInv, Serving, MInv, OneServer, Local
  <2>3. pc[t] # "idle" => hurt'[cur[t]] = hurt[cur[t]]
    BY <2>2 DEF Local
  <2>4. /\ pc'[t] = pc[t] /\ cur'[t] = cur[t] /\ out'[t] = out[t]
        /\ tx'[t] = tx[t] /\ linked'[t] = linked[t] /\ req' = req
    BY DEF Local
  <2> QED
    BY <2>1, <2>3, <2>4 DEF Unhindered, Spared, R, Explaining
<1>3. ASSUME NEW c \in Call, ans'[c] \in {"failed", "uncertain"}, Sound(req'[c])
      PROVE  hurt'[c]
  <2>1. CASE c # cur[s]
    BY <1>3, <2>1 DEF KInv, NoCauselessError, Local
  <2>2. CASE c = cur[s] /\ pc'[s] # "idle"
    <3>1. ans[c] = "none"
      BY <2>2 DEF MInv, Mode, Local
    <3> QED
      BY <1>3, <2>2, <3>1 DEF Local
  <2>3. CASE c = cur[s] /\ pc'[s] = "idle"
    <3>1. ~ Spared(s)
      BY <1>3, <2>3
    <3> QED
      BY <1>3, <2>3, <3>1 DEF Spared, R, Local
  <2> QED
    BY <2>1, <2>2, <2>3
<1>4. NoCauselessError'
  BY <1>3 DEF NoCauselessError
<1> QED
  BY <1>2, <1>4 DEF KInv

LEMMA StepIsLocal ==
    ASSUME TInv, CInv, NEW s \in Server, Step(s) \/ Crash(s) \/ Fault(s)
    PROVE  Local(s)
<1> USE DEF Goto, Result, Finish, Disturb, Local
<1>1. Serving(s) /\ TypeOK /\ EngineTypeOK /\ Clean(s)
  BY DEF TInv, TypeOK, CInv
<1>2. CASE Open(s)
  BY <1>1, <1>2 DEF Open, engine, locks, FirstStep, TypeOK, EngineTypeOK, Serving
<1>3. CASE OpenFails(s)
  BY <1>1, <1>3 DEF OpenFails, engine, locks, TypeOK, EngineTypeOK, Serving
<1>4. CASE AutoOk(s)
  BY <1>1, <1>4 DEF AutoOk, AutoRun, locks, TypeOK, EngineTypeOK, Serving
<1>5. CASE AutoDone(s)
  BY <1>1, <1>5 DEF AutoDone, engine, locks, TypeOK, EngineTypeOK, Serving
<1>6. CASE AutoErr(s)
  BY <1>1, <1>6 DEF AutoErr, StmtFails, engine, locks, TypeOK, EngineTypeOK, Serving
<1>7. CASE Begin(s)
  BY <1>1, <1>7 DEF Begin, TxBegin, locks, TypeOK, EngineTypeOK, Serving
<1>8. CASE BeginFails(s)
  BY <1>1, <1>8 DEF BeginFails, engine, locks, TypeOK, EngineTypeOK, Serving
<1>9. CASE Run(s)
  BY <1>1, <1>9 DEF Run, TxRun, locks, TypeOK, EngineTypeOK, Serving
<1>10. CASE RunErr(s)
  BY <1>1, <1>10 DEF RunErr, Fails, StmtFails, engine, locks, TypeOK, EngineTypeOK, Serving
<1>11. CASE UpdateConflict(s)
  BY <1>1, <1>11 DEF UpdateConflict, Fails, StmtFails, engine, locks, TypeOK, EngineTypeOK, Serving
<1>12. CASE LockTimeout(s)
  BY <1>1, <1>12 DEF LockTimeout, Fails, StmtFails, engine, locks, Waiting, TypeOK, EngineTypeOK, Serving
<1>13. CASE DeadlockVictim(s)
  BY <1>1, <1>13 DEF DeadlockVictim, Fails, StmtFails, engine, locks, Waiting, TypeOK, EngineTypeOK, Serving
<1>14. CASE RunEnd(s)
  BY <1>1, <1>14 DEF RunEnd, TxCommit, TxEnd, locks, TypeOK, EngineTypeOK, Serving
<1>15. CASE Commit(s)
  BY <1>1, <1>15 DEF Commit, TxCommit, TxEnd, locks, Committing, TypeOK, EngineTypeOK, Serving
<1>16. CASE CommitFails(s)
  BY <1>1, <1>16 DEF CommitFails, engine, locks, Committing, TypeOK, EngineTypeOK, Serving
<1>17. CASE CommitRefused(s)
  BY <1>1, <1>17 DEF CommitRefused, engine, locks, Committing, TypeOK, EngineTypeOK, Serving
<1>18. CASE CommitReplyLost(s)
  BY <1>1, <1>18 DEF CommitReplyLost, TxCommit, TxEnd, locks, Committing, TypeOK, EngineTypeOK, Serving
<1>19. CASE Rollback(s)
  BY <1>1, <1>19 DEF Rollback, TxRollback, TxEnd, engine, locks, TypeOK, EngineTypeOK, Serving
<1>20. CASE ExplainBegin(s)
  BY <1>1, <1>20 DEF ExplainBegin, TxBegin, locks, TypeOK, EngineTypeOK, Serving
<1>21. CASE ExplainBeginFails(s)
  BY <1>1, <1>21 DEF ExplainBeginFails, engine, locks, TypeOK, EngineTypeOK, Serving
<1>22. CASE ExplainExec(s)
  BY <1>1, <1>22 DEF ExplainExec, TxRun, locks, TypeOK, EngineTypeOK, Serving
<1>23. CASE ExplainExecFails(s)
  BY <1>1, <1>23 DEF ExplainExecFails, StmtFails, engine, locks, TypeOK, EngineTypeOK, Serving
<1>24. CASE ExplainRead(s)
  BY <1>1, <1>24 DEF ExplainRead, engine, locks, TypeOK, EngineTypeOK, Serving
<1>25. CASE Return(s)
  BY <1>1, <1>25 DEF Return, TxRollback, TxEnd, locks, TypeOK, EngineTypeOK, Serving
<1>26. CASE Crash(s)
  BY <1>1, <1>26 DEF Crash, TxRollback, TxEnd, locks, TypeOK, EngineTypeOK, Serving
<1>27. CASE Fault(s)
  BY <1>1, <1>27 DEF Fault, TxRollback, TxEnd, locks, TypeOK, EngineTypeOK, Serving, Clean
<1> QED
  BY <1>2, <1>3, <1>4, <1>5, <1>6, <1>7, <1>8, <1>9, <1>10, <1>11, <1>12, <1>13, <1>14, <1>15, <1>16, <1>17, <1>18, <1>19, <1>20, <1>21, <1>22, <1>23, <1>24, <1>25, <1>26, <1>27 DEF Step

LEMMA KInvServerStep ==
    ASSUME ToolsSuit, TInv, CInv, MInv, KInv, NEW s \in Server,
           Step(s) \/ Crash(s) \/ Fault(s)
    PROVE  KInv'
<1> USE DEF Goto, Result, Finish, Disturb
<1>1. Serving(s) /\ TypeOK /\ EngineTypeOK /\ Mode(s) /\ Unhindered(s) /\ Local(s)
  BY StepIsLocal DEF TInv, TypeOK, MInv, KInv
<1>2. cur[s] \in Call /\ R(s) \in RequestSpace
  BY <1>1, RequestAssumption DEF Serving, Local, R
<1>3. Spared(s) /\ (More(s) \/ pc[s] = "explain_exec") =>
        /\ pc[s] = "run" => Live(s) /\ Accepts(tx[s].access, Stmt(s))
        /\ pc[s] = "auto" /\ R(s).tool # "execute" =>
             linked[s] /\ Accepts(metadata_transaction_conf.access, Stmt(s))
        /\ pc[s] = "explain_exec" /\ R(s).tool = "explain" =>
             Live(s) /\ Accepts(tx[s].access, Stmt(s))
  BY <1>1, SparedAccepted
<1>4. Spared(s) /\ More(s) => Stmt(s).kind # "end"
  BY SoundStmt DEF Spared
<1>5. Spared(s) => /\ R(s).stmts # <<>>
                   /\ pc[s] \in {"run", "explain_exec", "explain_read"} => Live(s)
  BY <1>1, SparedLive DEF Spared, Sound
<1>6. pc'[s] # "idle" => R(s)' = R(s) /\ (Spared(s)' => Spared(s))
  BY <1>1 DEF Local, R, Spared
<1>7. CASE \/ OpenFails(s) \/ UpdateConflict(s) \/ LockTimeout(s) \/ DeadlockVictim(s)
           \/ CommitRefused(s) \/ CommitReplyLost(s) \/ Fault(s)
  <2>1. hurt'[cur[s]] /\ cur'[s] = cur[s]
    BY <1>1, <1>2, <1>7 DEF OpenFails, UpdateConflict, LockTimeout, DeadlockVictim,
       CommitRefused, CommitReplyLost, Fault, Fails, TypeOK
  <2>2. pc'[s] # "idle"
    BY <1>1, <1>7 DEF OpenFails, UpdateConflict, LockTimeout, DeadlockVictim,
       CommitRefused, CommitReplyLost, Fault, Fails, TypeOK, Local
  <2> QED
    BY <1>1, <2>1, <2>2, KInvStep DEF Unhindered, Spared
<1>8. CASE Open(s)
  <2>1. Unhindered(s)' /\ pc'[s] # "idle"
    BY <1>1, <1>2, <1>6, <1>8
    DEF Open, FirstStep, engine, locks, Unhindered, Explaining, TypeOK, EngineTypeOK
  <2> QED
    BY <1>1, <2>1, KInvStep
<1>9. CASE AutoOk(s)
  <2>1. Unhindered(s)' /\ pc'[s] # "idle"
    BY <1>1, <1>2, <1>6, <1>9
    DEF AutoOk, AutoRun, Unhindered, Explaining, TypeOK, EngineTypeOK
  <2> QED
    BY <1>1, <2>1, KInvStep
<1>10. CASE AutoDone(s)
  <2>1. Unhindered(s)' /\ pc'[s] # "idle"
    BY <1>1, <1>2, <1>6, <1>10
    DEF AutoDone, engine, locks, Unhindered, Explaining, TypeOK, EngineTypeOK
  <2> QED
    BY <1>1, <2>1, KInvStep
<1>11. CASE AutoErr(s)
  <2>1. Unhindered(s)' /\ pc'[s] # "idle"
    BY <1>1, <1>2, <1>3, <1>4, <1>6, <1>11
    DEF AutoErr, StmtFails, engine, locks, Unhindered, Explaining, TypeOK, EngineTypeOK
  <2> QED
    BY <1>1, <2>1, KInvStep
<1>12. CASE Begin(s)
  <2>1. Unhindered(s)' /\ pc'[s] # "idle"
    BY <1>1, <1>2, <1>6, <1>12
    DEF Begin, TxBegin, Unhindered, Explaining, TypeOK, EngineTypeOK
  <2> QED
    BY <1>1, <2>1, KInvStep
<1>13. CASE BeginFails(s)
  <2>1. Unhindered(s)' /\ pc'[s] # "idle"
    BY <1>1, <1>2, <1>5, <1>6, <1>13
    DEF BeginFails, Unhindered, Explaining, TypeOK, EngineTypeOK
  <2> QED
    BY <1>1, <2>1, KInvStep
<1>14. CASE Run(s)
  <2>1. Unhindered(s)' /\ pc'[s] # "idle"
    BY <1>1, <1>2, <1>6, <1>14
    DEF Run, TxRun, locks, Unhindered, Explaining, TypeOK, EngineTypeOK
  <2> QED
    BY <1>1, <2>1, KInvStep
<1>15. CASE RunErr(s)
  <2>1. Unhindered(s)' /\ pc'[s] # "idle"
    BY <1>1, <1>2, <1>3, <1>6, <1>15
    DEF RunErr, Fails, Unhindered, Explaining, TypeOK, EngineTypeOK
  <2> QED
    BY <1>1, <2>1, KInvStep
<1>16. CASE RunEnd(s)
  <2>1. Unhindered(s)' /\ pc'[s] # "idle"
    BY <1>1, <1>2, <1>4, <1>6, <1>16
    DEF RunEnd, Unhindered, Explaining, TypeOK, EngineTypeOK
  <2> QED
    BY <1>1, <2>1, KInvStep
<1>17. CASE Commit(s)
  <2>1. Unhindered(s)' /\ pc'[s] # "idle"
    BY <1>1, <1>2, <1>6, <1>17
    DEF Commit, Committing, Unhindered, Explaining, TypeOK, EngineTypeOK
  <2> QED
    BY <1>1, <2>1, KInvStep
<1>18. CASE CommitFails(s)
  <2>1. Unhindered(s)' /\ pc'[s] # "idle"
    BY <1>1, <1>2, <1>5, <1>6, <1>18
    DEF CommitFails, Committing, Unhindered, Explaining, TypeOK, EngineTypeOK
  <2> QED
    BY <1>1, <2>1, KInvStep
<1>19. CASE Rollback(s)
  <2>1. Unhindered(s)' /\ pc'[s] # "idle"
    BY <1>1, <1>2, <1>6, <1>19
    DEF Rollback, Serving, Unhindered, Explaining, TypeOK, EngineTypeOK
  <2> QED
    BY <1>1, <2>1, KInvStep
<1>20. CASE ExplainBegin(s)
  <2>1. Unhindered(s)' /\ pc'[s] # "idle"
    BY <1>1, <1>2, <1>6, <1>20
    DEF ExplainBegin, TxBegin, Unhindered, Explaining, TypeOK, EngineTypeOK
  <2> QED
    BY <1>1, <2>1, KInvStep
<1>21. CASE ExplainBeginFails(s)
  <2>1. Unhindered(s)' /\ pc'[s] # "idle"
    BY <1>1, <1>2, <1>6, <1>21
    DEF ExplainBeginFails, Unhindered, Explaining, TypeOK, EngineTypeOK
  <2> QED
    BY <1>1, <2>1, KInvStep
<1>22. CASE ExplainExec(s)
  <2>1. Unhindered(s)' /\ pc'[s] # "idle"
    BY <1>1, <1>2, <1>6, <1>22
    DEF ExplainExec, TxRun, locks, Unhindered, Explaining, TypeOK, EngineTypeOK
  <2> QED
    BY <1>1, <2>1, KInvStep
<1>23. CASE ExplainExecFails(s)
  <2>1. Unhindered(s)' /\ pc'[s] # "idle"
    BY <1>1, <1>2, <1>3, <1>6, <1>23
    DEF ExplainExecFails, StmtFails, engine, locks, NoPlan, Unhindered, Explaining, TypeOK, EngineTypeOK
  <2> QED
    BY <1>1, <2>1, KInvStep
<1>24. CASE ExplainRead(s)
  <2>1. Unhindered(s)' /\ pc'[s] # "idle"
    BY <1>1, <1>2, <1>5, <1>6, <1>24
    DEF ExplainRead, engine, locks, NoPlan, Serving, Unhindered, Explaining, TypeOK, EngineTypeOK
  <2> QED
    BY <1>1, <2>1, KInvStep
<1>25. CASE Return(s)
  <2>1. pc'[s] = "idle" /\ ans'[cur[s]] = out[s] /\ pc[s] = "return"
    BY <1>1, <1>2, <1>25 DEF Return, TypeOK
  <2>2. Unhindered(s)' /\ (Spared(s) => ans'[cur[s]] \in {"ok", "planned"})
    BY <1>1, <2>1 DEF Unhindered, Spared
  <2> QED
    BY <1>1, <2>1, <2>2, KInvStep
<1>26. CASE Crash(s)
  <2>1. pc'[s] = "idle" /\ ans'[cur[s]] = "lost"
    BY <1>1, <1>2, <1>26 DEF Crash, TypeOK
  <2>2. Unhindered(s)'
    BY <2>1 DEF Unhindered, Spared
  <2> QED
    BY <1>1, <2>1, <2>2, KInvStep
<1> QED
  BY <1>7, <1>8, <1>9, <1>10, <1>11, <1>12, <1>13, <1>14, <1>15, <1>16, <1>17, <1>18, <1>19, <1>20, <1>21, <1>22, <1>23, <1>24, <1>25, <1>26 DEF Step

-----------------------------------------------------------------------------
(* The other steps, and the theorem.                                       *)

LEMMA KInvReceive ==
    ASSUME TInv, CInv, MInv, KInv, NEW s \in Server, NEW c \in Call, Receive(s, c)
    PROVE  KInv'
<1>1. PICK r \in Request :
        /\ req' = [req EXCEPT ![c] = r]
        /\ Goto(s, IF Rejected(r) THEN "return" ELSE "open")
  BY DEF Receive
<1>2. TypeOK /\ pc[s] = "idle" /\ req[c] = NoRequest
      /\ UNCHANGED <<tx, ans, linked, hurt>>
  BY DEF Receive, TInv, engine
<1>3. ans[c] = "none"
  BY <1>2 DEF MInv, Unheard
<1>4. /\ cur'[s] = c /\ req'[c] = r
      /\ pc'[s] = IF Rejected(r) THEN "return" ELSE "open"
      /\ \A t \in Server \ {s} : pc'[t] = pc[t] /\ cur'[t] = cur[t] /\ out'[t] = out[t]
  BY <1>1, <1>2 DEF Receive, Goto, Result, TypeOK
<1>5. Unhindered(s)'
  BY <1>4 DEF Unhindered, Spared, R, Sound, Explaining
<1>6. ASSUME NEW t \in Server \ {s} PROVE Unhindered(t)'
  <2>1. Unhindered(t) /\ Serving(t)
    BY DEF KInv, TInv
  <2>2. pc[t] # "idle" => req'[cur[t]] = req[cur[t]]
    BY <1>1, <1>2, <2>1, NoRequestIsNone DEF Serving, TypeOK
  <2> QED
    BY <1>2, <1>4, <2>1, <2>2 DEF Unhindered, Spared, R, Explaining
<1>7. ASSUME NEW d \in Call, ans'[d] \in {"failed", "uncertain"}, Sound(req'[d])
      PROVE  hurt'[d]
  <2>1. d # c
    BY <1>2, <1>3, <1>7
  <2>2. req'[d] = req[d]
    BY <1>1, <1>2, <2>1 DEF TypeOK
  <2> QED
    BY <1>2, <1>7, <2>2 DEF KInv, NoCauselessError
<1>8. NoCauselessError'
  BY <1>7 DEF NoCauselessError
<1> QED
  BY <1>5, <1>6, <1>8 DEF KInv

LEMMA KInvNext ==
    ASSUME ToolsSuit
    PROVE  TInv /\ CInv /\ MInv /\ KInv /\ [Next]_vars => KInv'
<1> SUFFICES ASSUME TInv, CInv, MInv, KInv, [Next]_vars PROVE KInv'
  OBVIOUS
<1>1. CASE \E s \in Server, c \in Call : Receive(s, c)
  BY <1>1, KInvReceive
<1>2. CASE \E s \in Server : Step(s) \/ Crash(s) \/ Fault(s)
  BY <1>2, KInvServerStep
<1>3. CASE Outside /\ UNCHANGED handlers
  <2>1. UNCHANGED tx
    BY <1>3 DEF Outside, ExtLock, ExtCommit, ExtRollback
  <2> QED
    BY <1>3, <2>1
    DEF KInv, NoCauselessError, Unhindered, Spared, R, Explaining, handlers
<1>4. CASE Quiet \/ UNCHANGED vars
  BY <1>4 DEF Quiet, KInv, NoCauselessError, Unhindered, Spared, R, Explaining,
     vars, engine, handlers
<1> QED
  BY <1>1, <1>2, <1>3, <1>4 DEF Next

\* A sound call to any tool but those of the two disagreements fails only when
\* a conflict, a lock, the engine or the link got in its way: on no path does a
\* handler choose a transaction that its own statements cannot run in, or turn
\* a call that went well into an error.
THEOREM ErrorsHaveCauses ==
    ASSUME ToolsSuit
    PROVE  Spec => []NoCauselessError
<1>1. TInv /\ CInv /\ MInv /\ KInv /\ [Next]_vars => KInv'
  BY KInvNext
<1>2. KInv => NoCauselessError
  BY DEF KInv
<1> QED
  BY <1>1, <1>2, MInvAlways, KInvInit, PTL DEF Spec
=============================================================================
