------------------------------ MODULE Firebird ------------------------------
(***************************************************************************)
(* The Firebird engine as the program meets it through the rsfbclient      *)
(* driver. It is external: the program's code uses it as follows.          *)
(*   - a connection has at most one explicit transaction, begun with a     *)
(*     configuration; without one, a statement runs in a transaction of    *)
(*     its own that commits when it succeeds (client.rs:197-206);          *)
(*   - a transaction that wrote a row holds it until it ends, and a table- *)
(*     locking transaction also holds what it read (client.rs:66-70); a    *)
(*     read-committed reader without record versions waits for writers;    *)
(*   - a waiter waits for ever or for a time, and the engine fails one     *)
(*     waiter of a set that waits in a circle;                             *)
(*   - a snapshot transaction sees the state of its start, and cannot      *)
(*     overwrite a row that changed since;                                 *)
(*   - sequences are outside transactions: an advance is never undone;     *)
(*   - a connection that closes loses its open transaction.                *)
(* Other sessions (ext) lock and release rows as they like.                *)
(***************************************************************************)
EXTENDS TransactionConf

CONSTANTS Server,   \* the MCP server processes, one connection each at a time
          Call,     \* identities of tool calls
          ExtRow    \* the rows that sessions outside the program may lock

ASSUME ExtRowAssumption == ExtRow \subseteq Row

VARIABLES
    tx,      \* tx[s]: configuration of the open transaction of s, or NoTx
    work,    \* work[s]: statements of the current call it has run and written
    view,    \* view[s]: rows it has read
    fresh,   \* fresh[s]: rows it has read in a version newer than its start
    dirty,   \* dirty[s]: rows it has written and not committed
    old,     \* old[s]: rows others have committed since it started
    ext,     \* rows locked by sessions outside the program
    saved,   \* saved[c]: statements of call c whose effect is committed
    advanced \* advanced[c]: how often call c has advanced a sequence

locks  == <<view, fresh, dirty, old>>
engine == <<tx, work, view, fresh, dirty, old, ext, saved, advanced>>

EngineTypeOK ==
    /\ tx \in [Server -> Conf \cup {NoTx}]
    /\ work \in [Server -> SUBSET Nat]
    /\ view \in [Server -> SUBSET Row]
    /\ fresh \in [Server -> SUBSET Row]
    /\ dirty \in [Server -> SUBSET Row]
    /\ old \in [Server -> SUBSET Row]
    /\ ext \in SUBSET Row
    /\ saved \in [Call -> SUBSET Nat]
    /\ advanced \in [Call -> Nat]

EngineInit ==
    /\ tx = [s \in Server |-> NoTx]
    /\ work = [s \in Server |-> {}]
    /\ view = [s \in Server |-> {}]
    /\ fresh = [s \in Server |-> {}]
    /\ dirty = [s \in Server |-> {}]
    /\ old = [s \in Server |-> {}]
    /\ ext = {}
    /\ saved = [c \in Call |-> {}]
    /\ advanced = [c \in Call |-> 0]

\* The engine prepares st and lets a transaction with this access run it.
Accepts(access, st) ==
    /\ st.kind \notin {"bad", "wrapped"}
    /\ access = "ReadWrite" \/ Writes(st) = {}

\* Rows st must not find locked: what it writes, and what it reads unless the
\* transaction reads its snapshot.
Needs(s, st) == Writes(st) \cup
                (IF tx[s].isolation = "Concurrency" THEN {} ELSE Reads(st))

Blockers(s, st) ==
    {t \in Server \ {s} :
        \/ Needs(s, st) \cap dirty[t] # {}
        \/ tx[t].isolation = "Consistency" /\ Writes(st) \cap view[t] # {}}

Blocked(s, st) == Blockers(s, st) # {} \/ Needs(s, st) \cap ext # {}

\* A snapshot (or table-locking) transaction would overwrite a newer version.
Conflicts(s, st) == /\ tx[s].isolation # "ReadCommited"
                    /\ Writes(st) \cap old[s] # {}

Advance(c, st) ==
    advanced' = IF Advances(st) THEN [advanced EXCEPT ![c] = @ + 1] ELSE advanced

\* The transaction of s is gone, with its locks and what it had not committed.
TxEnd(s) ==
    /\ tx' = [tx EXCEPT ![s] = NoTx]
    /\ work' = [work EXCEPT ![s] = {}]
    /\ view' = [view EXCEPT ![s] = {}]
    /\ fresh' = [fresh EXCEPT ![s] = {}]
    /\ dirty' = [dirty EXCEPT ![s] = {}]

\* Rows committed by someone become old for the transactions then open.
Overtake(rows, others) ==
    [t \in Server |-> IF t \in others /\ tx[t] # NoTx THEN old[t] \cup rows
                                                      ELSE old[t]]

TxBegin(s, conf) ==
    /\ tx' = [tx EXCEPT ![s] = conf]
    /\ UNCHANGED <<work, locks, ext, saved, advanced>>

TxRollback(s) ==
    /\ TxEnd(s)
    /\ old' = [old EXCEPT ![s] = {}]
    /\ UNCHANGED <<ext, saved, advanced>>

TxCommit(s, c) ==
    /\ TxEnd(s)
    /\ old' = [Overtake(dirty[s], Server \ {s}) EXCEPT ![s] = {}]
    /\ saved' = [saved EXCEPT ![c] = @ \cup work[s]]
    /\ UNCHANGED <<ext, advanced>>

\* st, the i-th statement of call c, runs to its end in the transaction of s.
TxRun(s, c, i, st) ==
    /\ work' = [work EXCEPT ![s] = IF Writes(st) = {} THEN @ ELSE @ \cup {i}]
    /\ view' = [view EXCEPT ![s] = @ \cup Reads(st)]
    /\ fresh' = IF tx[s].isolation = "ReadCommited"
                THEN [fresh EXCEPT ![s] = @ \cup (Reads(st) \cap old[s])]
                ELSE fresh
    /\ dirty' = [dirty EXCEPT ![s] = @ \cup Writes(st)]
    /\ Advance(c, st)
    /\ UNCHANGED <<tx, old, ext, saved>>

\* st starts and fails: the engine undoes it, all but its sequence advance.
StmtFails(c, st) ==
    /\ Advance(c, st)
    /\ UNCHANGED <<tx, work, locks, ext, saved>>

\* st runs in a transaction of its own, which commits at once.
AutoRun(c, i, st) ==
    /\ saved' = IF Writes(st) = {} THEN saved
                ELSE [saved EXCEPT ![c] = @ \cup {i}]
    /\ old' = Overtake(Writes(st), Server)
    /\ Advance(c, st)
    /\ UNCHANGED <<tx, work, view, fresh, dirty, ext>>

\* A session outside the program writes r, then commits or rolls back.
ExtLock(r) ==
    /\ r \in ExtRow \ ext
    /\ \A t \in Server : /\ r \notin dirty[t]
                         /\ tx[t].isolation = "Consistency" => r \notin view[t]
    /\ ext' = ext \cup {r}
    /\ UNCHANGED <<tx, work, locks, saved, advanced>>

ExtCommit(r) ==
    /\ r \in ext
    /\ ext' = ext \ {r}
    /\ old' = Overtake({r}, Server)
    /\ UNCHANGED <<tx, work, view, fresh, dirty, saved, advanced>>

ExtRollback(r) ==
    /\ r \in ext
    /\ ext' = ext \ {r}
    /\ UNCHANGED <<tx, work, locks, saved, advanced>>

Outside == \E r \in Row : ExtLock(r) \/ ExtCommit(r) \/ ExtRollback(r)
=============================================================================
