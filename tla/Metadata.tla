-------------------------------- MODULE Metadata --------------------------------
(***************************************************************************)
(* metadata.rs: extract_ddl_filtered, a query for each kind of object and  *)
(* more for each table and routine, and describe_objects. Each action is a *)
(* query and what is written of its rows; a statement written is a record, *)
(* with the names and types in it.                                         *)
(***************************************************************************)
EXTENDS SchemaReads

\* should_extract: the list is cut at CAP rows first, and then filtered.
should_extract(n) ==
    call.names = <<>> \/ upper[n] \in {upper[m] : m \in ToSet(call.names)}
Asked(rows) == Where(rows, LAMBDA o : should_extract(name(o)))
MutantWholeList(kinds) == First(ByName(User(kinds)))
Listed(kinds) == Asked(First(ByName(User(kinds))))

MutantPlan == << Do("domains"), Do("views"), Do("tables"), Do("sequences"), Do("triggers"),
                 Do("procedures"), Do("functions") >>
extract_ddl_filtered ==
    << Do("domains"), Do("tables"), Do("views"), Do("sequences"), Do("triggers"),
       Do("procedures"), Do("functions") >>

\* NOT NULL is written where RDB$NULL_FLAG is absent.
WritesNotNull(null) == null = 0

\* decode_blr_default: of a column's default, as the engine prints its BLR: a text
\* or the current timestamp; TRUE and FALSE both become FALSE, for what is looked at
\* is the comma after blr_bool. A domain's default is given as its source, which is
\* not BLR.
decode_blr_default(d) == CASE d \in {"text", "timestamp"} -> d
                           [] d \in {"true", "false"}     -> "false"
                           [] OTHER                       -> "none"

-----------------------------------------------------------------------------
DomainStmt(o) ==
    [stmt |-> "domain", name |-> name(o), type |-> format_column_type(World[o].type),
     notnull |-> WritesNotNull(World[o].null), default |-> decode_blr_default("source")]
extract_domains ==
    At("domains") /\ KeepPart /\ Goes(<<>>, ForEach(Listed({"domain"}), DomainStmt))

extract_tables ==
    /\ At("tables") /\ KeepPart
    /\ Goes(FlattenSeq(ForEach(Listed({"table"}),
                LAMBDA o : <<Item("columns", name(o), <<>>), Item("constraints", name(o), <<>>),
                             Item("indexes", name(o), <<>>)>>)), <<>>)

ColumnDef(c) ==
    [name |-> c.name, type |-> format_column_type(c.type),
     notnull |-> WritesNotNull(c.null), default |-> decode_blr_default(c.default)]
table_columns ==
    /\ At("columns") /\ KeepPart
    /\ Goes(<<>>, <<[stmt |-> "table", name |-> Of, cols |-> ForEach(Columns(Of), ColumnDef)]>>)

\* The keys are put in an order of their names; a foreign key asks further.
KeyItem(c) == Item(IF c.type = "FOREIGN KEY" THEN "foreign_key" ELSE "key", Of, c)
MutantFirstKey == ForEach(First(Keyed(Constraints(Of))), KeyItem)
KeyItems == ForEach(Keyed(Constraints(Of)), KeyItem)
table_constraints == At("constraints") /\ KeepPart /\ Goes(KeyItems, <<>>)

KeyStmt(ref) == [stmt |-> "key", on |-> Of, name |-> Row.name, type |-> Row.type,
                 cols |-> Row.cols, ref |-> ref]
table_key == At("key") /\ KeepPart /\ Goes(<<>>, <<KeyStmt(0)>>)

\* The table a constraint of this name refers to; none, the empty name.
Referenced == IF ConstraintsCalled(Row.name) = {} THEN 0 ELSE The(ConstraintsCalled(Row.name)).ref
foreign_key == At("foreign_key") /\ KeepPart /\ Goes(<<>>, <<KeyStmt(Referenced)>>)

\* NOT IN over index names, one of them NULL, is true of no index.
HasNull(n) == \E c \in ToSet(Constraints(n)) : c.type \in {"CHECK", "NOT NULL"}
MutantWithKeys(n) == First(Segments(AllIndexes(n)))
IndexRows(n) == IF HasNull(n) THEN <<>> ELSE First(Segments(Indexes(n)))
IndexStmt(i) == [stmt |-> "index", on |-> Of, name |-> i.name, cols |-> i.cols]
table_indexes ==
    At("indexes") /\ KeepPart /\ Goes(<<>>, ForEach(Grouped(IndexRows(Of)), IndexStmt))

ViewStmt(o) == [stmt |-> "view", name |-> name(o), named |-> World[o].named, uses |-> Needs(o)]
extract_views == At("views") /\ KeepPart /\ Goes(<<>>, ForEach(Listed({"view"}), ViewStmt))

SequenceStmt(o) == [stmt |-> "sequence", name |-> name(o)]
extract_sequences ==
    At("sequences") /\ KeepPart /\ Goes(<<>>, ForEach(Listed({"sequence"}), SequenceStmt))

\* The types 1 to 6; any other is written BEFORE INSERT.
TriggerEvent(t) == IF t \in 1 .. 6 THEN t ELSE 1
TriggerStmt(o) == [stmt |-> "trigger", name |-> name(o), on |-> World[o].on,
                   event |-> TriggerEvent(World[o].event), uses |-> Needs(o)]
extract_triggers ==
    At("triggers") /\ KeepPart /\ Goes(<<>>, ForEach(Listed({"trigger"}), TriggerStmt))

\* A routine's source comes with its name, its parameters later.
Routines(k, op) == ForEach(Listed({k}), LAMBDA o : Item(op, name(o), Needs(o)))
extract_procedures ==
    At("procedures") /\ KeepPart /\ Goes(Routines("procedure", "params"), <<>>)

Params(n) == IF Called({"procedure"}, n) = {} THEN <<>>
             ELSE World[The(Called({"procedure"}, n))].params
procedure_params ==
    /\ At("params") /\ NoPart
    /\ Goes(ForEach(Params(Of), LAMBDA p : Item(IF p.source = 0 THEN "plain_param" ELSE "param", Of, p))
                \o <<Item("procedure", Of, Row)>>, <<>>)

\* A parameter of no domain is a VARCHAR(100); the domain of another may be the
\* system's, or may be gone.
ParamDef(w) == [name |-> Row.name, out |-> Row.out, type |-> w]
Domains(n) == {o \in Every({"domain"}) : name(o) = n}
DomainType(n) == IF Domains(n) = {} THEN <<"domain", <<n>>>>
                 ELSE format_column_type(World[The(Domains(n))].type)
resolve_domain_type ==
    /\ \/ At("plain_param") /\ Section(ParamDef(<<"VARCHAR", <<100>>>>))
       \/ At("param") /\ Section(ParamDef(DomainType(Row.source)))
    /\ Goes(<<>>, <<>>)

procedure_header ==
    /\ At("procedure") /\ NoPart
    /\ Goes(<<>>, <<[stmt |-> "procedure", name |-> Of, uses |-> Row,
                     ins |-> Where(part, LAMBDA p : ~ p.out),
                     outs |-> Where(part, LAMBDA p : p.out)]>>)

extract_functions ==
    /\ At("functions") /\ KeepPart
    /\ Goes(FlattenSeq(ForEach(Listed({"function"}),
                LAMBDA o : <<Item("arguments", name(o), <<>>), Item("returns", name(o), Needs(o))>>)),
            <<>>)

Function(n) == Called({"function"}, n)
function_arguments ==
    /\ At("arguments")
    /\ part' = IF Function(Of) = {} THEN <<>>
               ELSE ForEach(World[The(Function(Of))].args,
                        LAMBDA a : [name |-> a.name, type |-> format_column_type(a.type)])
    /\ Goes(<<>>, <<>>)

Integer == <<"INTEGER", <<>>>>
FunctionStmt(type) ==
    [stmt |-> "function", name |-> Of, ins |-> part, returns |-> type, uses |-> Row]
function_returns ==
    /\ At("returns") /\ NoPart
    /\ Goes(<<>>, <<FunctionStmt(IF Function(Of) = {} THEN Integer
                                 ELSE format_column_type(World[The(Function(Of))].returns))>>)

\* if let Ok(...): an error of either query leaves the function without
\* arguments, or with INTEGER for its type.
function_fails ==
    /\ \/ At("arguments") /\ part' = <<>> /\ out' = out
       \/ At("returns") /\ part' = <<>> /\ out' = Append(out, FunctionStmt(Integer))
    /\ work' = Rest
    /\ faulted' = TRUE
    /\ UNCHANGED <<catalogVars, call, status>>

Extract == \/ extract_domains \/ extract_tables \/ table_columns \/ table_constraints
           \/ table_key \/ foreign_key \/ table_indexes \/ extract_views
           \/ extract_sequences \/ extract_triggers \/ extract_procedures
           \/ procedure_params \/ resolve_domain_type \/ procedure_header
           \/ extract_functions \/ function_arguments \/ function_returns \/ function_fails
ExtractQuery == {"domains", "tables", "columns", "constraints", "foreign_key", "indexes",
                 "views", "sequences", "triggers", "procedures", "params", "param", "functions"}

-----------------------------------------------------------------------------
\* describe_objects: each name, in capitals, is looked for among one kind after
\* the other.
MutantAsWritten == ForEach(call.names, LAMBDA n : Item("relation", n, <<>>))
describe_objects == ForEach(call.names, LAMBDA n : Item("relation", upper[n], <<>>))

Told(what, row) == [told |-> what, name |-> Of, row |-> row]
Look(op, kinds, next, Items(_), Statement(_)) ==
    /\ At(op) /\ KeepPart
    /\ IF Called(kinds, Of) = {} THEN Goes(<<Item(next, Of, <<>>)>>, <<>>)
       ELSE LET o == The(Called(kinds, Of)) IN Goes(Items(o), Statement(o))

Nothing(o) == <<>>
describe_relation ==
    Look("relation", Relation, "of_procedure", LAMBDA o : describe_table(Of),
         LAMBDA o : <<Told(kind(o), <<>>)>>)
describe_procedure ==
    Look("of_procedure", {"procedure"}, "of_function",
         LAMBDA o : <<Item("params_of", Of, <<>>)>>, Nothing)
describe_params ==
    /\ At("params_of") /\ KeepPart
    /\ Goes(<<>>, <<Told("procedure", ForEach(First(Params(Of)), LAMBDA p : <<p.name, p.out, p.source>>))>>)
describe_function ==
    Look("of_function", {"function"}, "of_trigger", Nothing, LAMBDA o : <<Told("function", <<>>)>>)

\* The codes 1, 2, 4, 8, 16 and 32 stand for the six events here.
ShownEvent(t) ==
    CASE t = 2 -> 3 [] t = 4 -> 5 [] t = 8 -> 2 [] t = 16 -> 4 [] t = 32 -> 6 [] OTHER -> 1
describe_trigger ==
    Look("of_trigger", {"trigger"}, "of_sequence", Nothing,
         LAMBDA o : <<Told("trigger", <<World[o].on, ShownEvent(World[o].event)>>)>>)
describe_sequence ==
    Look("of_sequence", {"sequence"}, "of_domain", Nothing, LAMBDA o : <<Told("sequence", <<>>)>>)
describe_domain ==
    Look("of_domain", {"domain"}, "of_nothing", Nothing,
         LAMBDA o : <<Told("domain", <<format_column_type(World[o].type),
                                       WritesNotNull(World[o].null)>>)>>)
describe_nothing == At("of_nothing") /\ KeepPart /\ Goes(<<>>, <<Told("nothing", <<>>)>>)

Describe == \/ describe_relation \/ describe_procedure \/ describe_params
            \/ describe_function \/ describe_trigger \/ describe_sequence
            \/ describe_domain \/ describe_nothing
DescribeQuery == {"relation", "of_procedure", "params_of", "of_function", "of_trigger",
                  "of_sequence", "of_domain"}
=============================================================================
