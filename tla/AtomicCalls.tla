----------------------------- MODULE AtomicCalls -----------------------------
(***************************************************************************)
(* What the tools promise their clients: a call takes effect once and as a *)
(* whole, or not at all, and the answer says which. "Executes a SQL script *)
(* in a single transaction. If any statement fails, the entire transaction *)
(* is rolled back" (definitions.rs, firebird_run_script). An answer may be *)
(* uncertain (the commit itself failed) or never come (the server died).   *)
(***************************************************************************)
EXTENDS ToolRequests

CONSTANT Call

VARIABLES req,   \* req[c]: what c asks for
          saved, \* saved[c]: statements of c whose effect is in the database
          ans    \* ans[c]: what the client of c has heard

vars == <<req, saved, ans>>

Init == /\ req = [c \in Call |-> NoRequest]
        /\ saved = [c \in Call |-> {}]
        /\ ans = [c \in Call |-> "none"]

Ask(c) == /\ req[c] = NoRequest
          /\ \E r \in Request : req' = [req EXCEPT ![c] = r]
          /\ UNCHANGED <<saved, ans>>

Apply(c) == /\ req[c] # NoRequest
            /\ ans[c] = "none"
            /\ saved[c] = {}
            /\ saved' = [saved EXCEPT ![c] = Effect(req[c])]
            /\ UNCHANGED <<req, ans>>

\* The answers that are true of c now.
Truth(c) == {"uncertain", "lost"}
            \cup (IF saved[c] = Effect(req[c]) THEN {"ok", "planned"} ELSE {})
            \cup (IF saved[c] = {} THEN {"failed"} ELSE {})

Answer(c) == /\ req[c] # NoRequest
             /\ ans[c] = "none"
             /\ \E a \in Truth(c) : ans' = [ans EXCEPT ![c] = a]
             /\ UNCHANGED <<req, saved>>

Next == \E c \in Call : Ask(c) \/ Apply(c) \/ Answer(c)

Spec == Init /\ [][Next]_vars
=============================================================================
