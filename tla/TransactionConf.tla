--------------------------- MODULE TransactionConf ---------------------------
(***************************************************************************)
(* client.rs: the transaction configurations the program starts            *)
(* transactions with, and how the isolation and lock_wait arguments of     *)
(* firebird_run_script choose one. A lock-wait bound is "timed" whatever   *)
(* its number of seconds: model time is not counted.                       *)
(***************************************************************************)
EXTENDS ToolRequests

Conf == [access    : {"ReadOnly", "ReadWrite"},
         isolation : {"ReadCommited", "Concurrency", "Consistency"},
         wait      : {"forever", "timed"}]

\* No transaction is open on the connection.
NoTx == [access |-> "none", isolation |-> "none", wait |-> "none"]

\* The default of every connection: each statement outside an explicit
\* transaction runs in a transaction of its own with this configuration.
metadata_transaction_conf ==
    [access |-> "ReadOnly", isolation |-> "Concurrency", wait |-> "forever"]

MutantReadOnlyWrites ==
    [access |-> "ReadOnly", isolation |-> "ReadCommited", wait |-> "forever"]

rw_transaction_conf ==
    [access |-> "ReadWrite", isolation |-> "ReadCommited", wait |-> "forever"]

\* handle_run_script: the argument as IsolationPreset::parse reads it; an
\* absent one is the #[default] preset, an unknown one is None.
preset(arg) ==
    CASE arg \in {"absent", "read-committed"} -> "ReadCommited"
      [] arg = "snapshot"    -> "Snapshot"
      [] arg = "consistency" -> "Consistency"
      [] arg = "readonly"    -> "ReadOnly"
      [] OTHER               -> "None"

MutantWaitForever(arg) == "forever"
MutantRawWait(arg) == arg

\* handle_run_script parses lock_wait to Option<u32>: None when it is absent,
\* Some(n) for every number, 0 too. to_conf makes None wait for ever.
lock_wait(arg) == IF arg = "absent" THEN "forever" ELSE "timed"

MutantSnapshotAsReadCommitted(p, wait) ==
    [access    |-> IF p = "ReadOnly" THEN "ReadOnly" ELSE "ReadWrite",
     isolation |-> IF p = "Consistency" THEN "Consistency" ELSE "ReadCommited",
     wait      |-> wait]

MutantConsistencyAsSnapshot(p, wait) ==
    [access    |-> IF p = "ReadOnly" THEN "ReadOnly" ELSE "ReadWrite",
     isolation |-> IF p = "ReadCommited" THEN "ReadCommited" ELSE "Concurrency",
     wait      |-> wait]

MutantReadOnlyForgotten(p, wait) ==
    [access    |-> "ReadWrite",
     isolation |-> CASE p = "ReadCommited" -> "ReadCommited"
                     [] p = "Consistency" -> "Consistency"
                     [] OTHER -> "Concurrency",
     wait      |-> wait]

\* IsolationPreset::to_conf.
to_conf(p, wait) ==
    [access    |-> IF p = "ReadOnly" THEN "ReadOnly" ELSE "ReadWrite",
     isolation |-> CASE p = "ReadCommited" -> "ReadCommited"
                     [] p = "Consistency"  -> "Consistency"
                     [] OTHER              -> "Concurrency",
     wait      |-> wait]

\* The configuration of the explicit transaction a request's handler begins:
\* run_script chooses it, exec, exec_block and insert_batch use the fixed one.
BeginConf(r) == IF r.tool = "script"
                THEN to_conf(preset(r.isolation), lock_wait(r.lock_wait))
                ELSE rw_transaction_conf
=============================================================================
