# A verification project for jed-personal-mcp

`jed-personal-mcp` is an MCP server (JSON-RPC over stdin/stdout) that gives a
client tools on a Firebird database: run a query, a script, a batch of inserts
or a DDL statement, explain a plan, describe and extract the schema, generate
code from it. This directory holds TLA+ models of it, the TLC configurations
that check them on small instances, and theorems about them that TLAPS checks
for every instance.

## 1. The system

| component | source | state it keeps | operations |
|---|---|---|---|
| JSON-RPC loop | `mcp-bin/src/main.rs` | none between requests; it blocks in the handler | read a line, `initialize`, `ping`, `tools/list`, `tools/call` |
| dispatch, definitions | `tools/mod.rs`, `tools/definitions.rs` | none | choose a handler by name; describe the tools |
| tool handlers that run statements | `tools/query_tools.rs`, `tools/ddl_tools.rs`, `query/mod.rs`, `query/batch.rs`, `ddl.rs`, `explain.rs` | a client for one call; the open transaction of its connection; `executed`, the statements run | `query`, `query_with_limit`, `execute`, `exec`, `run_script`, `insert_batch`, `exec_block`, `create_sequence`, `execute_immediate`, `explain_plan` |
| client | `client.rs` | one connection, its default transaction configuration | `new`, `begin_rw_transaction`, `begin_transaction(preset, lock_wait)` |
| statement splitter | `query/split.rs` | state of a scanner: quoting, comments, terminator, nesting | `split_statements` |
| row limit, paging | `query/row_limit.rs`, `query_tools.rs` | none; the client carries `skip` from page to page | `accepts_row_limit`, `inject_row_limit` |
| metadata extraction | `metadata.rs` | none; many queries, a snapshot each | `extract_ddl_filtered`, `describe_objects` |
| schema tools | `schema/mod.rs`, `tools/schema_tools.rs` | none; several queries, a snapshot each | `list`, `describe_table`, `describe_database`, `domains`, `find_column`, `check_duplicates` |
| introspection, statistics | `tools/introspection_tools.rs`, `stats.rs` | none | catalog and `MON$` queries rendered as text |
| configuration | `config.rs` | read once at start | `load`, `find_database`, `is_path_allowed` |
| column types | `types.rs`, `codegen/fbtype.rs` | none | `format_column_type`, `from_column`, `from_type_str`, `sql_type_name` |
| code generation | `codegen/`, their tools | none | text from a table's columns, or from the first row of a view |
| Firebird, rsfbclient | external | rows, locks, snapshots, sequences | begin, execute, commit, rollback, disconnect |

**How they interact.** One process serves one client and one request at a time.
A handler opens a connection of its own (`open_client`), and drops it when it
returns. So there is no concurrency inside a process, and all of it between
processes: each MCP client starts a server of its own, and the servers, together
with any other program, share the database. What they share is the engine's rows and
locks.

**What is hard.** The handlers hold transactions across several calls of the
driver, each of which can fail, wait for a lock without a limit, or lose the
link; `commit()?` returns without a rollback; `exec` believes one particular
error to be a success; `firebird_query` retries a statement it has already run,
and runs it again for its plan; whether a statement is allowed depends on which of
two configurations the transaction was begun with; the process can die between any
two statements (`panic = "abort"`), and a character of two bytes at the wrong place
is enough for that. The tools that read the catalog put an answer together from
many queries, and each has a snapshot of its own; `query()` cuts every list at 100 rows
without a word; some errors are swallowed. The hazards are listed one by one, at
their lines, in `PROJECT.json`.

**What makes the components correct.**

- Tool calls: a call takes effect once and as a whole or not at all; the answer
  is true; nothing stays behind in the engine; every call is answered; each
  isolation preset keeps what its description says; a tool can do what it is
  described for.
- Splitter: no statement is lost, joined or cut; `SET TERM` is consumed.
- Paging: following the hint from page to page gives each row once, and ends.
- Metadata: the extracted script recreates the schema it was taken from; what is
  there from the first query to the last is told, and told right, whatever
  else comes and goes.
- Column types: the generators and the written types agree.
- Server loop: each request is answered once, in order, whatever the lines before it;
  only what must bring the process down does.
- Configuration: a loaded configuration always has the default database.

## 2. Modules

| module | models |
|---|---|
| `ToolRequests` | what a request asks for: tool, statements, `isolation` and `lock_wait` arguments |
| `TransactionConf` | `client.rs`: the two fixed configurations, the presets and `to_conf` |
| `Firebird` | external: transactions, locks, waits, snapshots, update conflicts, sequences, other sessions |
| `ToolCalls` | the handlers: one action per step of a call, composed with the engine |
| `AtomicCalls` | the abstract specification: calls that take effect atomically and are answered truthfully |
| `ToolCallsProperties` | the properties, and the refinement mapping to `AtomicCalls` |
| `ToolCallsProofs` | theorems about the tool calls and the refinement, and their proofs |
| `MCToolCalls` | the sets of requests for TLC |
| `RowLimit` | `row_limit.rs`: where the `FIRST ... SKIP` clause goes, and (external) what the engine returns then |
| `Paging` | `handle_query` as a client pages through a result |
| `PagingProofs` | the theorem about the pages, and its lemmas |
| `MCPaging` | the sets of statements and arguments for TLC |
| `SqlSplit` | `split.rs`: the scanner, one action per kind of turn of its loop |
| `McpServer` | `main.rs`, `config.rs`, and the handlers that may abort the process; its properties |
| `McpServerProofs` | theorems about types, replies, the configuration, what a script is cut into and what aborts the process: what reading a script means, and that the scanner follows it |
| `MCServer` | the inputs, scripts and configurations for TLC |
| `ColumnTypes` | `types.rs`, `fbtype.rs`, `sql_type_name`: a column's type from its codes, written, and read back |
| `Lists` | rows in the order of a key, and the rows a filter keeps, said by their places |
| `Catalog` | external: the system tables, and another session that creates and drops objects |
| `Handler` | a call that reads the catalog: a list of queries still to do, and its error path |
| `SchemaReads` | `schema/mod.rs`: `list_tables`, `describe_table`, `get_foreign_keys` |
| `Metadata` | `metadata.rs`: `extract_ddl_filtered`, `describe_objects` |
| `SchemaTools` | `schema_tools.rs`, `generator_tools.rs`, `view_dto.rs`: the handlers, composed with the other session |
| `Replay` | external: the engine running an extracted script in an empty database |
| `CatalogProperties` | what a caller may rely on |
| `Session` | one client's catalog calls, one after the other, and what the repository says of each answer |
| `Lemmas` | what the proofs need of numbers, finite sets and lists put together |
| `CatalogProofs` | theorems about the readers, for every database: types, the duplicate check, what an extraction writes |
| `ListingProofs` | theorems about the lists: what stays is listed, and the keys of a described database |
| `DescriptionProofs` | theorems about types (the readings from codes, from written types and from the driver's names agree), and about what is told of an object, its schema, and what the generators make of it |
| `ExtractionProofs` | theorems about an extracted script: what it says of an object makes the object again, which scripts the engine refuses, and what those that run recreate |
| `MCCatalog` | a small database and the calls for TLC |
| `MCSession` | the calls of one client for TLC, of the same database |

There are four families. `ToolRequests` to `ToolCallsProofs` extend each other in this
order, but for `AtomicCalls`, which `ToolCallsProperties` instantiates with the
refinement mapping; `Paging` extends `RowLimit`; `McpServer` extends
`SqlSplit`; and `ColumnTypes`, `Lists`, `Catalog`, `Handler`, `SchemaReads`, `Metadata`,
`SchemaTools`, `Replay`, `CatalogProperties`, `Session` extend each other in this order. `Lists`
says by places what the community modules define by recursion, which the provers cannot
expand. What a
family takes from another it takes as one step: to `ToolCalls` a script is the
statements it splits into, to `McpServer` a call that opens a client ends in a
result or an error.

**State and code.** `pc[s]` is the place of process `s` in its handler: `open`
(`open_client`), `auto` (a statement outside an explicit transaction), `begin`,
`run` (the statement loop; when the statements are used up, the commit),
`rollback` (the `Err` arm), `explain_begin`, `explain_exec`, `explain_read`
(`explain_plan`), `return`. `idx[s]` is `executed` / `inserted`. `tx[s]` is the
transaction of the connection; `work`, `view`, `fresh`, `dirty` and `old` say
what it has done and what others committed since it began. `saved[c]` holds the
statements of call `c` whose effect is in the database, `advanced[c]` counts
the sequence advances, which no rollback undoes. `ans[c]` is what the client
heard: `ok`, `planned` (a success with a plan), `failed` (an error that is not
the commit's), `uncertain` (the commit's own error, passed on by `commit()?`),
`lost` (the process died). `hurt[c]` is a history variable: something outside
the request (a lock conflict, the engine, the link) got in its way.

**Data that is abstracted.** A statement is a kind and a row (`ToolRequests`): read,
read with a sequence advance, write, write with an advance, COMMIT, one that does
not prepare, and one wrapped in `SET TERM`. A COMMIT handed to `explain_plan` is left out. A row stands for whatever a
statement can conflict on, a table or a catalog entry included. Seconds of
`lock_wait` are not counted: a wait either has a bound or has none. Result sets,
parameters and texts are left out.

**Pages.** In `RowLimit` a statement is the sequence of its words, each named by what the
scanner can tell apart: a keyword, a keyword glued to `*`, a nested select,
a name that begins or ends like a keyword, a literal with a parenthesis or a
SELECT in it, one with a letter that is longer or shorter in capitals (`GROWS`, `SHRINKS`). The
code looks for the place of the clause in a copy in capitals and uses it in the text itself;
`Slips` says that it lands in another place: there it limits nothing (`Fetch`), or breaks the statement (`Failure`), or the place is
inside a character and the process aborts (`Abort`). In `Paging`, `asked` and `start` are the arguments `max_rows` and
`skip`, `page` and `hint` the last answer, `got` the rows delivered; `Page` is
one `handle_query`, `Follow` the client that takes the hint, `Insert` another session.
Rows are numbered in the order of the result.

**Lines and scripts.** In `McpServer`, `pc` is the place in the loop: `load`
(the configuration), `wait` (the next line), `split` and `run` (a script's
handler), `reply`, and the two ends, `stopped` and `aborted` (a panic). `lines`
is the input, `next` the line at hand, `replies` what has been written. What makes a handler abort or wait
is said of its line: `breaks` of a script (a character of two bytes where the scanner slices),
`shifts` of a query (`inject_row_limit` slices inside a character), `waits` of a call that waits without limit for
what another session holds (`held`). The tools that cut a text they read at a fixed byte (`Cutting`: `database_stats` at
120 and `query_history` at 100, `generate_dev` after a title's first letter) may abort whenever they are called, for the text
is another session's or the catalog's.

In `SqlSplit` a script is a sequence of symbols, each word, blank,
quote and comment sign one symbol, and `wide` a character of two bytes. `$` is a
sign of its own that goes on with a word, as `_` and digits do: words and `$` signs that touch are one word to
`keyword_at`, and the scanner passes a word as a whole. `i`,
`mode`, `start`, `content`, `term`, `depth` and `stmts` are the scanner's variables
in `split_statements`. A slice inside a character is decided from the widths of the
symbols (`CutsChar`), so the model knows exactly which comments, quotes and blocks are safe.

**The catalog.** In `Catalog` an object is `<<kind, name, version>>`, with its data
in `World`; names are numbers in their alphabetical order, and `upper` gives a
name's spelling in capitals. `stable` holds the objects that have been there since the
call began, `seen` those that were there at some moment of it: they are history
variables, for the properties. In `Handler`, `work` is the list of queries left: a step does
its head and may put further items in its place, as a `for` over the rows of a
query does; `part` is the schema or parameter list under construction, `out` the
answer so far. A query and what is written of its rows are one action, for the
code does nothing in between that others can see. `ErrorEnds` is `?`;
`schema_fails`, `get_comments`, `count`, `health`, `duplicate_rows` and
`function_fails` are the errors that are passed over. A statement of the script is a record of
what it declares; `Replay` makes the object it declares and refuses what the engine would.
Source texts and comments are left out, and stand for themselves: what a body
names is `uses`. What an object has that no statement of the script speaks of (the column names of
a view, the place of a trigger, the rules of a foreign key, the start of a sequence) is `unsaid`, and a view of which a column
has no name but that of its list is not `named`. Three constants stand for what is external to a query's answer: `FullNames`, the
names as long as the CHAR column that holds them, which alone the driver hands back without blanks behind them;
`format_cell`, what the printed text of a value reads as between quotes; `MaxNames`, the 20 tables a generator takes.

In `Session` the same client makes one catalog call after another, as the loop of `main.rs`
does; `asked` and `right` are history: the calls answered, and those answered as the repository says.

**The engine's liberties.** A broken link rolls the transaction back at once
(the real engine does so when it notices). A COMMIT sent as a statement commits
and voids the driver's handle; the driver reports that at once or on its next use,
and `RunEnd` allows both. A refused commit leaves the transaction open. The
engine fails one of a set of transactions that wait in a circle.

## 3. Runs

`Atomic`, `Isolation`, `Described` and `LockWait` use `MCToolCalls`, `Paging` and `Pages` `MCPaging`, `Serve` and
`Glue` `MCServer`, `Extract`, `Recreated` and `Recreate` `MCCatalog`, `Told` `MCSession`.

| run | instance | checks | shows |
|---|---|---|---|
| `Atomic` | 2 processes, 2 calls, 2 rows, 13 requests of every kind of tool but two, no outside locks | `TypeOK`, `AnswersTrue`, `NoLeak`, `NoCauselessError`, `ImplementsAtomicCalls`, `Answered` | the handlers are atomic and truthful under conflicts, faults and crashes, and answer even though they wait without a limit |
| `Isolation` | 2 processes, 2 calls, 2 rows, scripts of every preset with `lock_wait` 10, an outside session that locks a row | `StableView`, `TablesLocked`, `ReadOnlyIsHarmless`, `Answered` | the presets keep their descriptions, also for a script with a COMMIT inside |
| `Paging` | statements that are plain (a select, two CTEs, nested selects), odd (those the limit misses or is put wrongly into) and limited by themselves, tables of 0 to 6 rows that grow, `max_rows` absent, 0, 1, 3 (the cap) and 9, `skip` from 0 to the largest number | `TypeOK`, `InOrder`, `Complete`, `PageBounded`, `HintIsExact`, `Ends` | following the hint gives every row of a plain statement once, in order, and ends if a page holds at least one row; of the others nothing is promised, and they take the paths that abort and that fail |
| `Serve` | every input of up to three lines out of 12 kinds and of two out of 20 (a request, a notification, a blank, broken or non-UTF-8 line, calls for four databases, scripts, queries, calls that wait, tools that cut), five configurations, and one script of every combination of leading comment, body and terminator form | `TypeOK`, `InOrder`, `RoundTrip`, `DatabaseFound`, `AbortsOnlySo`, `Served` | each message is answered once and in order; scripts are cut as their writer means; what aborts the server is a multi-byte character at the places named |
| `Extract` | 4 databases of 1 to 13 objects, 23 calls of ten tools, up to 3 changes by another session between the queries, lists cut at 2 | `TypeOK`, `StableIsExtracted`, `OnlyAsked`, `StableIsDescribed`, `StableIsListed`, `KeysShown`, `GeneratedRight`, `DuplicatesTold` | what stays is told, told right and told once, up to the cut of each list |
| `Recreated` | every database that can be made of 15 objects, which nobody changes, lists cut at 3 | `RecreatesShape`, `RefusedExactly` | the engine refuses a script exactly if the database is not orderly, and a script that runs recreates every shape |
| `Described` | 1 process, 5 calls, undisturbed | `SomeCallIsKept` | **violated**: none of five tools does what it is described for |
| `LockWait` | 1 process, 2 calls, an outside session | `WaitsAsTold` | **violated**: without `lock_wait` there is no 10-second default, and with `0` the wait is not without limit |
| `Pages` | two statements with a FIRST of their own in a part of them, other bounds as in `Paging` | `SomePagingHolds` | **violated**: a page over the cap, that repeats rows, with a hint that leads back to it |
| `Glue` | 1 script | `RoundTrip` | **violated**: a terminator `$$` glued to a word is not seen |
| `Recreate` | a database of 11 objects that nobody changes, lists cut at 2 | `Recreates` | **violated**: in eight ways the script does not recreate the structure |
| `Told` | 5 calls of one client, a database that nobody changes | `SomeAnswerIsRight` | **violated**: none of five answers is right as described |

**Runs that refute several sentences.** The property of `Described`, `LockWait`, `Pages`,
`Recreate` and `Told` is a disjunction: one of several sentences, each quoted from the repository, is kept.
A counterexample refutes every one of them at once, and each finding in `PROJECT.json` says where in it its sentence
fails.

**Bounds.** Each call is received at most once, so `Call` bounds the length of a
behaviour; two processes and two calls are enough for every pair of handlers to
meet at every pair of steps, and for one process to serve a second call after
its first. Two rows are the fewest on which two transactions can wait for each other.
The requests are scripts of up to three statements: first, middle and last
statement of a loop fail in different states. Processes, calls and rows are
not declared symmetric because the runs check liveness; `Described`, which checks an invariant, takes its
calls as symmetric, sends each request once and leaves out what goes wrong outside them (`OnceEach`), which only bounds the search for
its counterexample.

The cap of 1000 rows is 3 and the default of 100 is 2, so that a table of 6
rows has a page that is full, one that is not, and one that ends with the table
for each page size; numbers wrap at 16 instead of 2^32, and one client starts at 15.
Rows are added only at the end of the result (an order by a growing key), and as long as there are fewer than `MaxTable`: `Ends`
needs that the other session stops some time, as a client that reads slower than others write never comes to the end. `Ends` leaves out
`max_rows` 0, where every hint leads back to its page, and `Plain` statements with a FIRST of their own, which ignore `skip`, so that the page the hint leads to
is the first again: both are findings of the run `Pages`. `Plain` leaves out what the scanner misreads too; a name that ends with SELECT, or a literal
parenthesis in a CTE, makes it put the clause where the engine refuses a legal statement (`Refuses`). A row that is deleted or inserted before the
current place shifts the rest, as with any paging by offset; that is not modelled.

Two of the server's lines are enough for what stands before a message to matter to it, and
three for something to stand between two messages. The scripts are products:
5 leading comments, 17 bodies and 6 ways to write a terminator, so that each
quoting, nesting and directive meets each other, and pairs of statements under
changing terminators. `q'{...}'` literals, which Firebird knows and the scanner does
not, are left out: a quote or terminator inside one is misread. So is a new
terminator glued to the statement after it, which the scanner takes for part of the terminator
(`Token`). The terminator `$$` glued to a word is the run `Glue`; after anything but a word sign it is seen, as in `Serve`.

The cut of 100 rows is 2, so that each list of the crowded database is cut and
each of the good one is not; three changes are enough to drop a table with what
needs it, or to drop one and create it anew in another version between two
queries. The two databases with table 13 are for the duplicate check. In `Recreated` the cut is 3 and the fifteen objects are such that
there is each kind of reason for a script to be refused, and each of its absences: keys to a table written earlier, later and to
itself, a primary key NOT NULL by its domain and by its column, views in both orders, routines; a database of four tables or views is
cut and so is not `Whole`.

**What the catalog properties leave aside** is what the code is known to lose, and what a run shows it to lose.
`Recreate` refutes, with a whole script of one database, that the script keeps any of these: the NOT NULLs (inverted), a
foreign key or view that names what sorts behind it, a procedure or function (their sources lack the AS), all objects of a kind beyond the
cut, the indexes of a table with a CHECK or NOT NULL constraint (the `NOT IN` with a NULL hides them), parameters without a domain (they become
VARCHAR(100)), triggers of several events, and what no statement says. So `StableIsExtracted` and `RecreatesShape` speak of shapes (`Shape`), without
NOT NULL, defaults (those of domains are lost and `TRUE` becomes `FALSE`), the domains of columns, uniqueness and direction of indexes, CHECK
constraints and `unsaid`; `Modest` leaves out hidden indexes, and `Sayable` the parameters, triggers and functions named. What is left is the
question of these two properties: that nothing else is lost, doubled or mixed up while the catalog changes, and that the script runs.

`Whole` is an extraction of everything, in which no list was cut and nobody changed the catalog meanwhile. Of its script `RefusedExactly` says
when the engine refuses it, both ways: `Orderly` is the whole list of reasons. The database has no routine; no view has a column that
only its list names; what a view or trigger names is the user's own and written before it; the columns of a primary key are NOT NULL by their domain
(their own NOT NULLs are not written, and the engine refuses the key); and a foreign key refers to a primary key of as many columns
that stands before it. `RecreatesShape` is of every script that is not refused. Names are in capitals in both, since the script does not
quote them. Sizes of character types are divided by four, which is right for UTF8 only; `Replay` assumes it.

`Told` does the same for the other tools: the uses of a domain (a blank-padded name is looked up by the trimmed one), the type of a FLOAT column in an
entity, the DTO of an empty view, `check_duplicates` with `limit` 0, and the rows it shows of a value whose text reads otherwise (`format_cell`). `GeneratedRight` leaves
codes 10 and 13 and empty views aside for that, `DuplicatesTold` limit 0 and such values. `StableIsDescribed` leaves aside the NOT NULLs that
are shown, and the event of a trigger: `describe` and `list` read the types 2 to 6 as bits (`ShownEvent`). The primary
key marks of `describe_database`, which are found by the index name `RDB$PRIMARY...`, are left out. Lists are spoken of up to the
cut (`WithinCap`), whose silence is a finding of `Recreate`.

**Fairness.** In `ToolCalls`, `FairSpec` has weak fairness on `Step(s)` for each process: a
process whose handler can go on goes on, since it runs alone in its loop and a
driver call returns when the engine serves it. Nothing else is fair: no
client has to send a request, no process has to crash, no link has to break,
and an outside session may hold its lock for ever. `Answered` therefore rests
on the engine's deadlock detection (`Atomic`) or on a time limit (`Isolation`).
In `McpServer`, `FairSpec` has weak fairness on `Step`: the loop is a single thread, and a
handler goes on when it can. A call that waits without limit for what another session holds cannot (`waits`, `held`: the run `LockWait` shows
such a call), and nobody makes that session let go. The client may leave at any time; `Served` holds for the messages before a
line or call that ends the process, or that waits so (`Halts`). The readers of the catalog have no liveness
property: their lists of queries only get shorter.
In `Paging` each call returns and the client takes each hint; the other session
need not insert anything.

**Deadlock** is checked in every run: the only state without a successor would be one
where some process is stuck, because `Quiet` (`Over` in `SchemaTools`) lets the system
stutter once all calls are over, and other sessions of `McpServer` never end.

**Mutants.** For every property of the six passing runs `PROJECT.json` names
a change of one definition that the property catches: a forgotten rollback
(`MutantKeepPartial`), an ignored commit error, a connection kept after the call,
a preset mapped to the wrong isolation, a wait that lost its bound, a scanner
that ignores parentheses, a hint one row too far; a line lost or read
twice, a CASE that does not nest, an exact comparison of database names; an
answer kept after an error, the wrong order of kinds, a foreign key with its two
tables swapped, a list that is not filtered, a type code that is forgotten.

**Findings.** Each sentence that a run marked **violated** refutes is quoted in `PROJECT.json`, with the place in the code and in the counterexample.
Further differences met on the way, which no run
is spent on: a notification is answered, with an `id` of null, although
`main.rs:3` speaks of JSON-RPC 2.0; `query_tools.rs:11` speaks of 1000 rows by default where the code and `definitions.rs:19` have 100;
`fbtype.rs:231` calls `from_type_str` the inverse of `type_str`, which it is for the variant but neither for the sizes of character types nor
for the sign of a scale; and `row_limit.rs:71` slices a text at an offset found in its upper case (`AbortsOnlySo` counts that among the aborts).

## 4. Theorems

`ToolCallsProofs` proves, for all sets of processes, calls, rows and requests:

| theorem | statement | assumption |
|---|---|---|
| `TypeCorrect` | `Spec => []TypeOK` | |
| `NothingLeft` | `Spec => []NoLeak` | |
| `HarmlessReads` | `Spec => []ReadOnlyIsHarmless` | |
| `Stability` | `Spec => []StableView` | |
| `Locking` | `Spec => []TablesLocked` | |
| `Atomicity` | `Spec => []AllOrNothing` | `NoInnerCommit` |
| `Truthful` | `Spec => []AnswersTrue` | `NoInnerCommit` |
| `Implementation` | `Spec => ImplementsAtomicCalls` | `NoInnerCommit` |
| `ErrorsHaveCauses` | `Spec => []NoCauselessError` | `ToolsSuit` |

The named assumptions on the constants are `RequestAssumption` (requests have the
form the handlers accept), `ExtRowAssumption` and `CallAssumption`.
`NoInnerCommit` says that no request holds a COMMIT statement; the first finding of `Described`
shows that it cannot be dropped. `ToolsSuit` says that no sound request goes to a `SET TERM`
tool or asks to write from a tool whose transaction only reads (`execute_immediate`, `create_sequence`, `explain_plan`); the others of
`Described` show that no part of it can be dropped (`create_sequence` fails like `execute_immediate`), and the requests of `Atomic` satisfy it.

The argument is one of six invariants, each inductive beside those before it:

1. `TInv`: types, and that a process that is not idle serves a call that was received.
2. `CInv`: `Clean`, where in its handler a process can have a transaction (the
   statement loop, the rollback, the plan, and `return` after a commit that
   failed), and `Apart`, that rows are held under a transaction only. The error
   paths without a rollback leave the transaction to `Return`, so `NoLeak` needs
   to know which of them can get there with one.
3. `MInv`: a call is served by one process, its transaction has the configuration its handler chose,
   and a call that is not over has no answer.
4. `LInv`: who holds which row, by isolation; with `MInv` it gives `StableView`
   and `TablesLocked`.
5. `AInv`: what `work[s]` and `saved[c]` hold at each `pc`, under
   `NoInnerCommit`; it gives atomicity, truth of answers, and the step
   simulation of `AtomicCalls`.
6. `KInv`: a sound call that nothing has disturbed (`Unhindered`) has its connection and
   the transaction its handler chose, whose access accepts every statement it will
   send, and a success to answer once they are over. It is inductive beside `TInv`, `CInv`
   and `MInv`.

`PagingProofs` proves `PagesExact`: if every statement is `Plain` (one select of its
own, no limit of its own, nothing that looks like SQL to the scanner and is
not), `Spec => [](TypeOK /\ InOrder /\ Complete /\ PageBounded /\ HintIsExact)`, for
every table, page size (0 too), cap and skip (`RowAssumption`, `PagingAssumption`). That a client comes to an end is not claimed.
The lemmas `PlainInsertion` and `PlainFetch` say that the scanner finds the
statement's own select and that the engine then returns the window asked for;
`PInv` adds to the properties that the next skip is the place after the rows
delivered (`Aligned`).

`McpServerProofs` proves, for every set of configurations and inputs of any length
(`ServerAssumption`: they have the form of `Line` and `Config`):

| theorem | statement |
|---|---|
| `ServerTypes` | `Spec => []TypeOK` |
| `RepliesInOrder` | `Spec => []InOrder` |
| `NeverMissing` | `Spec => []DatabaseFound` |

Types and order rest on `TInv`: while a message is being served (`Busy`), `next` points at it
and nowhere else, so that `Write` adds the one reply that is missing. The third
rests on `DInv`: a loop that runs has a configuration that validates, and a reply that says "not found" is
about a name that is no database's; `validate`, `Asked` and `find_database` enter through
the lemma that they compare names alike. The scanner enters neither: a
script's steps leave all of that alone.

Two more are about scripts of any length:

| theorem | statement |
|---|---|
| `RunsWhatIsMeant` | `Spec => [](Readable(lines[next].script) => RoundTrip)` |
| `AbortsWhereSliced` | `Spec => [](Marked(lines[next].script) => AbortsOnlySo)` |

They rest on a reading of scripts, which says what a script without directives is, apart from any
scanner: a set `B` of places where its lexemes begin (a quote or a comment reaches to its
end, a word to the last of the word signs that follow it, all else is one symbol), the nesting at a place as the blocks opened less those
ended before it, and the statements between the cuts (`Reads`). The invariant of the scan
is that its variables are what the reading says of the place `i` (`Following`), and
that what it has collected are the statements that end before it (`Reading`); a turn of the
loop passes one lexeme. `Readable` asks for such a reading of what the script's writer means;
`Marked` that `breaks` says of the script whether the reading has a place that is sliced, or
that it has no character of two bytes. `SET TERM` directives and a stray END are left out of readings, and `RoundTrip` of
such scripts is left to TLC. `AbortsOnlySo` is the whole list of aborts: beside scripts, a query whose place for the clause has moved into a
character aborts always, and the three cutting tools may.

`DescriptionProofs` proves `SameReading`: for all sizes, precisions, scales and sub-types and every
type code known to both sides but those of FLOAT and TIME, `from_column` and
`from_type_str` of the written type give the same variant. It is a case analysis over the
three families (BLOB, NUMERIC and DECIMAL, sized texts) and the codes that are left.
`WireReading` says the same of the name that the driver gives the type of a result column, where
the sub-type is lost.

About the readers of the catalog, for every `World`, every call, every size of the cut and
any number of changes by other sessions:

| theorem | statement | in |
|---|---|---|
| `CatalogTypes` | `Spec => []TypeOK` | `CatalogProofs` |
| `DuplicatesAreTold` | `Spec => []DuplicatesTold` | `CatalogProofs` |
| `ExtractsOnlyAsked` | `Spec => []OnlyAsked` | `CatalogProofs` |
| `StableAreListed` | `Spec => []StableIsListed` | `ListingProofs` |
| `KeysAreShown` | `Spec => []KeysShown` | `ListingProofs` |
| `StableAreDescribed` | `Spec => []StableIsDescribed` | `DescriptionProofs` |
| `GeneratorsAreRight` | `Spec => []GeneratedRight` | `DescriptionProofs` |
| `StableAreExtracted` | `Spec => []StableIsExtracted` | `ExtractionProofs` |
| `RunsAreRecreated` | `Spec => []RecreatesShape` | `ExtractionProofs` |
| `RefusalsAreExact` | `Spec => []RefusedExactly` | `ExtractionProofs` |

The assumptions are what the engine and the code guarantee. `CatalogAssumption`: objects of
a kind have different names in a database, and so have indexes, whichever table they are on
(`RDB$INDEX_NAME` is unique); a procedure's parameter of a domain has the type of that domain,
while both are there (`ParamsSuit`); the cut is at least 2 (`DEFAULT_ROWS` is 100). `WorldAssumption`:
the constraints, indexes and columns of an object have the forms of the system tables (a constraint is of
one of the five types there are, `ConstraintType`, and only a foreign key refers to a table), the columns
of a key are distinct, and the index of a key does not take the name of another index.
`CallsAssumption`: a call has a known tool, a list of names and the kinds that
one `type` argument of `list` stands for (`ListType`), for `handle_list` takes one type.
`KeyAssumption`: the index of a key has segments, a table has columns, those of its primary key
are among them, and its constraints come in the order of their names, in which they are read. `NeedsAssumption`: what a catalog needs is in it, the domain of a column and the table of a
trigger among it (the engine refuses to drop a domain in use, and drops a trigger with its table); an object that is dropped and
made again is the system's or a user's as before; no name is empty. `TypeAssumption`: the types of
columns, domains, and a function's arguments and result are such as a declaration makes, in characters of four bytes.
`ToolsAssumption`: the text of a value reads as a value or ends its own quotes (`format_cell`).

1. `CatalogTypes` is inductive as it stands. Besides types it says that `stable` is in `db` and
   `db` in `seen`, that a call that is not running has nothing left to do, and that
   one that failed tells nothing of what it had put together. Every action of a handler
   is one of three (`GoesOn`, `Starts`, `Stops`), which the lemmas show query by query.
2. `Slots`: the names of each kind stay apart, and the sets stay finite.
   With it `DupInv` says what the duplicate check has put together after each query.
3. `ExtractInv` has three parts. `Pending`: the items of work left carry names that
   `should_extract` lets pass, and no two of them may write the same thing (`Writes`).
   `Written`: what is written was asked for and is written once. `Once`: what is left will not write
   again what is written. A step lets an item give way to parts of what it may
   write (`Refines`), and that keeps all three.
4. `ListInv` and `FindInv`: a list that has been told is in order, holds nothing that was
   never there, and holds what has stayed if fewer than `CAP` names come before it.
   A list is what was there at its own query, so `stable`, which shrinks, is in
   each of them and `seen`, which grows, holds them all (`SortedInList`, `ListStays`).
5. `DatabaseInv` follows `describe_database` through its phases (`AtHealth`, `AtTables`, `AtKeys`,
   `AtSections`): the edges of the diagram are taken in one query after the tables, and every
   query about a table is followed in `work` by the item that tells its schema
   (`Sections`), so that nothing is told twice. If there are at most `CAP` edges
   in all, the cut takes none of them (`DistinctBound`, `BlockIs`).
6. `ReadingNow` follows one schema through its six queries: the items in `work` are chained (`Linked`:
   each is followed by the next query about the same relation), `part` holds the sections of the
   relation at the head, each right of an object of that name that stays, and an object that was
   made after the first of them is not there throughout. So a schema that is told is right
   of whatever has stayed, although it was put together from six snapshots.
7. `Describing`, `TableInv` and `ShownInv` say what is owed: to an object that was asked for and stays,
   `work` holds an item that will find it (a name is looked for among one kind after the other,
   so only kinds of a higher rank can have been passed), or it has been told. `SchemasDue` is the same
   for `describe_table` and the generators.
8. `GenerateInv` and `ViewInv` are these for the generators; the types are `SameReading` and `WireReading`.
9. `TellInv` is for the extraction. `Script(o)` is what a script is to say of an object `o`: for a table
   its columns, then its keys, then its indexes. For every `o` that stays, is asked for and can
   be said (`ToTell`), the statements about `o` in `out`, followed by those that the items of `work`
   still owe (`Says`), are `Script(o)` (`Story`): so nothing is lost, doubled or out of its place
   while one query after the other is answered and other objects come and go. Beside it, `WorkRight` says that
   a key or a parameter at hand is the object's own, `PartRight` that the parameters read so far, with those that
   are still to be read, are the parameters of the routine, and `Order` that the parts of a routine
   stand together, since a function whose arguments cannot be read takes its last query away with it.
   `TellAll` puts it beside `TypeOK`, `Slots`, `NamesApart`, `Suits`, `Untouched` and `ExtractInv` and is inductive:
   one lemma for each action of `Metadata` (`TablesTell` to `FailsTell`) says that what the head of `work` owed
   is what the step writes with what it leaves to do. When the work is done, the statements are `Script(o)`, and
   `AllRecovered` shows, kind by kind, that `Put` makes of them one after the other an object of
   the shape of `o`: a written type declares the type it was written from, the keys and indexes are appended in order.
10. `RunsAreRecreated` and `RefusalsAreExact` need more than that each object is said whole: what the statements of different
   objects need is made before them or not. `TurnInv` is their order. Each item of
   `work` may still write about some objects (`MayTell`: one kind for the items not yet begun, one object for the parts of
   it), and whatever stands before comes no later, in the order of kinds and then of names, than what stands
   behind: within `work`, within `out`, and from `out` to `work`. It is inductive beside `TellAll`, because a
   step replaces an item by items or statements of what that item might write (`Gives`) and a list is told in the order
   of names. The replay is then followed statement by statement: `Cat(k)`, the union of what the
   first `k` statements make of each object (`Stage`), is the catalog after `k` statements, whether or not one of them was
   refused (`RunStep`). A script is refused when one of its statements is (`RefusedIs`). If the database is orderly (`WellTaken`), a CREATE
   is taken because all that the object names comes `Earlier`, so its statements are all behind and
   it is there (`NeededThere`, `CreateTaken`), and an ALTER TABLE or CREATE INDEX because its table has its
   columns and the key it refers to is there (`AddTaken`). If every statement is taken (`TakenWell`), then what each of them needs was there
   when it came, so it was written earlier; that is each part of `Orderly`. At the end each `Stage` has the shape of its
   object by `AllRecovered`.

`ListInv`, `FindInv`, `DatabaseInv` and `NamesApart` were also checked by TLC on the instance of
`Extract` before they were proved.

`Lemmas` holds what these proofs share. The provers do not instantiate the library's
induction theorems, whose parameter is an operator, so induction over the natural
numbers is stated for sets there (`SetInduction`, from the well-foundedness of inclusion), and the
recursive function behind `FlattenSeq` is unfolded with it (`FlattenIs`).

**Only model-checked.** `Answered`, `Ends` and `Served`, for liveness under fairness is beyond the
proof system. `RoundTrip` of scripts with `SET TERM` directives (`RunsWhatIsMeant` is for those
without). Every other property of the passing runs is stated by a theorem.

## 5. Not modelled, and the plan

Not modelled:

- The text of results: Markdown, tables of cells, tool descriptions, JSON beside the id. It is
  a function of rows, and no state depends on it.
- The targets of code generation (`codegen/targets/`, `codegen/ui/`) and `naming.rs`: each maps
  one string to another, in a single thread, without an error path. What reaches
  them, the schema and its types, is modelled, and so is the cut of a title that can abort the process (`ui/svelte.rs`).
- `introspection_tools.rs` and `stats.rs` beyond a select call that can fail or abort: single queries
  whose rows are printed.
- `create_database`, which makes a new file without a transaction, and `is_path_allowed`, which
  it asks.
- Comments and source texts in schemas and scripts, but for the AS before a routine's; standalone routines and packaged ones are
  told apart by the catalog only, and the extraction does not tell them apart.
- Checks of arguments beyond the empty ones and more than 20 names (`Refused`): identifiers and malformed arguments, which end
  a call with an error before its first query, as `ErrorEnds` does.
- `include_fks` of the generators, which lets a target write the referenced entity in place of a key column's type.
- Build scripts, examples and test drivers.

What a continuation would do first:

1. `RunsWhatIsMeant` for scripts with `SET TERM` directives: the terminator becomes part of a reading.
2. A bound on sequence advances as a theorem (at most three per statement).
3. Other character sets than UTF8 in `Replay`, to make the division of sizes by four a run of its own.
