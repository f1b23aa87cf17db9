------------------------------- MODULE McpServer -------------------------------
(***************************************************************************)
(* main.rs: the server's loop over the lines of its input, with config.rs  *)
(* (which database a call is for) and the handlers that may not return: a  *)
(* script is scanned (SqlSplit), a query is sliced where its copy in upper *)
(* case has its SELECT, some tools cut texts they find in the database,    *)
(* and a statement may wait for what another session holds. A panic ends   *)
(* the process (panic = "abort").                                          *)
(***************************************************************************)
EXTENDS SqlSplit

CONSTANT Setting  \* configuration files, each with what the client sends

\* A database name and its spelling; None is an argument that is absent.
None == <<"none", 0>>
Name == {"a", "b"} \X {1, 2}
NoId == 0

Method == {"initialize", "ping", "tools/list", "tools/call", "other"}

\* Tools that cut a text they read at a fixed byte: a statement of any session
\* at the 120th or the 100th (truncate), the name of a column after the first
\* (svelte.rs, format_title; a table that is not there has an empty one).
Cutting == {"firebird_database_stats", "firebird_query_history", "firebird_generate_dev"}
Readers == Cutting \cup {"firebird_list"}
Tool == Readers \cup {"firebird_run_script", "firebird_query",
                      "firebird_get_databases", "other"}
Config == [databases : Seq(Name), default : Name \cup {None}]

\* A script as sent, the statements its writer means by it, and whether it has
\* a character of two bytes where the scanner slices.
Script == [text : Seq(Symbol), meant : Seq(Seq(Symbol)), breaks : BOOLEAN]

\* A message; a call of firebird_query has a statement whose upper case is of
\* another length before its SELECT so that the slice cuts a character (shifts);
\* a call waits without limit for what another session holds (waits).
Line ==
    [kind : {"blank", "garbage", "binary"}]
        \cup [kind : {"message"}, id : Nat, method : Method, tool : Tool,
              database : Name \cup {None}, script : Script,
              shifts : BOOLEAN, waits : BOOLEAN]

ASSUME ServerAssumption == Setting \subseteq [config : Config, lines : Seq(Line)]

VARIABLES pc,      \* "load", "wait", "split", "run", "reply", "stopped", "aborted"
          config,  \* the configuration
          lines,   \* the input
          next,    \* the next line of it
          outcome, \* what the reply will say
          replies, \* the replies written, each with the number of its line
          held,    \* another session holds what calls wait for
          closed   \* the client has gone: no more input, nobody reads the output

serverVars == <<pc, config, lines, next, outcome, replies, held, closed>>
vars == <<serverVars, splitVars>>

Outcome == {"result", "tool_error", "no_database", "unknown_method"}
Reply == [line : Nat, id : Nat, kind : Outcome]

TypeOK ==
    /\ SplitTypeOK
    /\ pc \in {"load", "wait", "split", "run", "reply", "stopped", "aborted"}
    /\ config \in Config
    /\ next \in 1 .. Len(lines) + 1
    /\ outcome \in Outcome
    /\ replies \in Seq(Reply)
    /\ held \in BOOLEAN
    /\ closed \in BOOLEAN

-----------------------------------------------------------------------------
\* eq_ignore_ascii_case
SameName(a, b) == a[1] = b[1]
Databases == {config.databases[k] : k \in 1 .. Len(config.databases)}

\* Config::default_database
default_database ==
    IF config.default = None THEN config.databases[1] ELSE config.default

\* ServerConfig::find_database
MutantExactName(name) == name \in Databases
find_database(name) == \E d \in Databases : SameName(d, name)

\* Config::validate
validate == config.databases # <<>> /\ find_database(default_database)

\* open_client: the database a call without one is for.
Asked(m) == IF m.database = None THEN default_database ELSE m.database

Init ==
    /\ pc = "load"
    /\ \E s \in Setting : config = s.config /\ lines = s.lines
    /\ next = 1
    /\ outcome = "result"
    /\ replies = <<>>
    /\ held = FALSE
    /\ closed = FALSE
    /\ ScanFrom(<<>>)

\* Config::load, or exit(1).
Load ==
    /\ pc = "load"
    /\ pc' = IF validate THEN "wait" ELSE "stopped"
    /\ UNCHANGED <<config, lines, next, outcome, replies, held, closed, splitVars>>

\* A blank line, or one that is not JSON, is passed over without a word.
MutantKeptLine == next
MutantLostLine == IF next < Len(lines) THEN next + 2 ELSE next + 1
AfterLine == next + 1
Skip ==
    /\ pc = "wait" /\ next <= Len(lines)
    /\ lines[next].kind \in {"blank", "garbage"}
    /\ next' = AfterLine
    /\ UNCHANGED <<pc, config, lines, outcome, replies, held, closed, splitVars>>

\* A line that is not UTF-8, or the end of the input, ends the loop.
Stop ==
    /\ pc = "wait"
    /\ IF next <= Len(lines) THEN lines[next].kind = "binary" ELSE closed
    /\ pc' = "stopped"
    /\ UNCHANGED <<config, lines, next, outcome, replies, held, closed, splitVars>>

AtMessage(method) ==
    /\ pc = "wait" /\ next <= Len(lines)
    /\ lines[next].kind = "message" /\ lines[next].method = method

\* A reply is at hand: its kind is known.
Answer(kind) ==
    /\ outcome' = kind
    /\ pc' = "reply"
    /\ UNCHANGED <<config, lines, next, replies, held, closed, splitVars>>

\* initialize, ping and tools/list; every other method, notifications too.
Protocol ==
    \/ \E m \in {"initialize", "ping", "tools/list"} : AtMessage(m) /\ Answer("result")
    \/ AtMessage("other") /\ Answer("unknown_method")

AtTool(tools) == AtMessage("tools/call") /\ lines[next].tool \in tools

\* dispatch: a handler of a fixed answer, one that opens a client and reads.
Fixed ==
    \/ AtTool({"firebird_get_databases"}) /\ Answer("result")
    \/ AtTool({"other"}) /\ Answer("tool_error")

Opens ==
    /\ AtTool(Readers)
    /\ IF find_database(Asked(lines[next])) THEN Answer("result") \/ Answer("tool_error")
                                            ELSE Answer("no_database")

\* The handler aborts the process: nothing else changes.
Panic ==
    /\ pc' = "aborted"
    /\ UNCHANGED <<config, lines, next, outcome, replies, held, closed, splitVars>>

\* A byte where the text is cut lies inside a character of it, or there is none.
CutPanic ==
    /\ AtTool(Cutting) /\ find_database(Asked(lines[next]))
    /\ Panic

\* handle_query: the client, then inject_row_limit, then the engine.
QueryRefused ==
    /\ AtTool({"firebird_query"})
    /\ \/ Answer("tool_error")
       \/ ~ find_database(Asked(lines[next])) /\ Answer("no_database")

AtQuery == AtTool({"firebird_query"}) /\ find_database(Asked(lines[next]))
QueryPanic == AtQuery /\ lines[next].shifts /\ Panic
QueryBegin ==
    /\ AtQuery /\ ~ lines[next].shifts
    /\ pc' = "run"
    /\ UNCHANGED <<config, lines, next, outcome, replies, held, closed, splitVars>>

\* handle_run_script: the database has no default here; then the script.
ScriptRefused ==
    /\ AtTool({"firebird_run_script"})
    /\ LET m == lines[next]
       IN \/ m.database = None /\ Answer("tool_error")
          \/ m.database # None /\ ~ find_database(m.database) /\ Answer("no_database")
          \/ m.database # None /\ find_database(m.database) /\ Answer("tool_error")

ScriptBegin ==
    /\ AtTool({"firebird_run_script"})
    /\ lines[next].database # None /\ find_database(lines[next].database)
    /\ lines[next].script.text # <<>>
    /\ ScanNext(lines[next].script.text)
    /\ pc' = "split"
    /\ UNCHANGED <<config, lines, next, outcome, replies, held, closed>>

Split == pc = "split" /\ Scan /\ UNCHANGED serverVars

SplitPanic ==
    /\ pc = "split" /\ PanicsHere
    /\ Panic

SplitDone ==
    /\ pc = "split" /\ ~ Scanning
    /\ pc' = "run"
    /\ UNCHANGED <<config, lines, next, outcome, replies, held, closed, splitVars>>

\* The statements decide, once nothing holds them up; a script without any is
\* an error.
IsScript == lines[next].tool = "firebird_run_script"
RunEnd ==
    /\ pc = "run"
    /\ lines[next].waits => ~ held
    /\ \E kind \in {"result", "tool_error"} :
           /\ IsScript /\ Found = <<>> => kind = "tool_error"
           /\ Answer(kind)

\* The reply is written, with the id of the message; or nobody reads it.
Write ==
    /\ pc = "reply" /\ ~ closed
    /\ replies' = Append(replies, [line |-> next, id |-> lines[next].id, kind |-> outcome])
    /\ next' = next + 1
    /\ pc' = "wait"
    /\ UNCHANGED <<config, lines, outcome, held, closed, splitVars>>

WriteFails ==
    /\ pc = "reply" /\ closed
    /\ pc' = "stopped"
    /\ UNCHANGED <<config, lines, next, outcome, replies, held, closed, splitVars>>

\* The client goes; another session takes what calls wait for, or lets it go.
Leaves ==
    /\ ~ closed
    /\ closed' = TRUE
    /\ UNCHANGED <<pc, config, lines, next, outcome, replies, held, splitVars>>

OthersHold ==
    /\ held' = ~ held
    /\ UNCHANGED <<pc, config, lines, next, outcome, replies, closed, splitVars>>

Step == \/ Load \/ Skip \/ Stop \/ Protocol \/ Fixed \/ Opens \/ CutPanic
        \/ QueryRefused \/ QueryPanic \/ QueryBegin
        \/ ScriptRefused \/ ScriptBegin \/ Split \/ SplitPanic \/ SplitDone
        \/ RunEnd \/ Write \/ WriteFails

Next == Step \/ Leaves \/ OthersHold

Spec == Init /\ [][Next]_vars

\* The process runs alone in its loop; nobody makes another session let go.
FairSpec == Spec /\ WF_vars(Step)

-----------------------------------------------------------------------------
IsMessage(n) == lines[n].kind = "message"

\* The replies are the answers to the messages read so far: each message one,
\* in their order, with their ids, whatever lines stand between them (main.rs:
\* blank and broken lines are passed over, a message is never).
InOrder ==
    /\ \A k \in 1 .. Len(replies) :
        LET n == replies[k].line
        IN n \in 1 .. next - 1 /\ IsMessage(n) /\ replies[k].id = lines[n].id
    /\ \A k, l \in 1 .. Len(replies) : k < l => replies[k].line < replies[l].line
    /\ \A n \in 1 .. next - 1 :
        IsMessage(n) => \E k \in 1 .. Len(replies) : replies[k].line = n

\* The statements run_script runs are those the writer of the script means:
\* none is cut, joined, lost or added, and no SET TERM directive is among them
\* (split_statements: "Honours Firebird string and identifier quoting").
RoundTrip == pc = "run" /\ IsScript => Found = lines[next].script.meant

\* Configuration and lookup agree: a call that names no database, or a
\* configured one in any spelling, is never told there is none (validate,
\* open_client and find_database each compare names).
DatabaseFound ==
    \A k \in 1 .. Len(replies) : replies[k].kind = "no_database" =>
        LET name == lines[replies[k].line].database
        IN name # None /\ \A d \in Databases : d[1] # name[1]

\* What brings the process down is a script with a character of two bytes at a
\* place the scanner slices, always; a query whose upper case shifts its SELECT
\* into a character, always, once there is a client; and what one of the cutting
\* tools finds. Nothing else does (split.rs, row_limit.rs, stats_tools.rs,
\* svelte.rs).
Breaking(m) == m.tool = "firebird_run_script" /\ m.script.breaks
Shifting(m) == m.tool = "firebird_query" /\ m.shifts
AbortsOnlySo ==
    LET m == lines[next]
    IN /\ pc = "aborted" => Breaking(m) \/ Shifting(m) \/ m.tool \in Cutting
       /\ pc = "run" => ~ Breaking(m) /\ ~ Shifting(m)

\* A server with a valid configuration answers every message that stands before
\* a line that is not UTF-8, a call of those that may bring it down and a call
\* that waits without limit, as long as its client is there (main.rs).
Halts(n) ==
    \/ lines[n].kind = "binary"
    \/ IsMessage(n) /\ \/ Breaking(lines[n]) \/ Shifting(lines[n])
                       \/ lines[n].tool \in Cutting \/ lines[n].waits
Served ==
    \A n \in 1 .. 3 :
        (n <= Len(lines) /\ validate /\ \A k \in 1 .. n : ~ Halts(k)) ~> (next > n \/ closed)
=============================================================================
