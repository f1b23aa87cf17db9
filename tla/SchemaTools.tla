------------------------------ MODULE SchemaTools ------------------------------
(***************************************************************************)
(* schema_tools.rs, generator_tools.rs, view_dto.rs: the handlers that     *)
(* read the catalog, each the sequence of its queries, and the session of  *)
(* another program that changes the catalog in between.                    *)
(***************************************************************************)
EXTENDS Metadata

CONSTANTS FullNames,    \* names as long as the CHAR columns that hold them
          format_cell,  \* [values -> what the text of one reads as when it is quoted]
          MaxNames      \* how many tables or views a generator takes

Broken == -1  \* a text that ends its own quotes
ASSUME ToolsAssumption ==
    /\ MaxNames \in Nat
    /\ \A o \in Object : kind(o) \in Relation =>
          \A v \in ToSet(World[o].rows) \ {0} : format_cell[v] \in (Nat \ {0}) \cup {Broken}

\* handle_list: one query. TABLES are tables and views; procedures and functions
\* of the system are listed too; no kind at all stands for INDEXES, those of
\* constraints among them.
ListRow(o) ==
    [name |-> name(o), is |-> kind(o), shows |->
        CASE kind(o) = "domain"  -> <<format_column_type(World[o].type), World[o].null = 1>>
          [] kind(o) = "trigger" -> <<World[o].on, IF World[o].event \in {1, 2, 4, 8, 16, 32}
                                                  THEN ShownEvent(World[o].event) ELSE 0>>
          [] OTHER               -> <<>>]
MutantAllListed(kinds) == First(ByName(Every(kinds)))
ListRows(kinds) ==
    First(ByName(IF kinds \subseteq {"procedure", "function"} THEN Every(kinds) ELSE User(kinds)))
IndexList ==
    LET of(o) == {[name |-> i.name, is |-> "index", shows |-> <<name(o), i.unique>>] :
                     i \in ToSet(AllIndexes(name(o)))}
        rows == UNION {of(o) : o \in User({"table"})}
    IN First(Sorted(rows, [i \in rows |-> i.name]))
handle_list ==
    /\ At("list") /\ KeepPart
    /\ Goes(<<>>, <<[told |-> "list", rows |-> IF call.kinds = {} THEN IndexList
                                              ELSE ForEach(ListRows(call.kinds), ListRow)]>>)

\* handle_find_column: every column of a name asked for, of tables and views.
Matches(o) ==
    ForEach(Where(World[o].cols, LAMBDA c : c.name \in ToSet(call.names)),
            LAMBDA c : <<name(o), c.name, format_column_type(c.type), c.null = 1>>)
handle_find_column ==
    /\ At("find") /\ KeepPart
    /\ Goes(<<>>, <<[told |-> "columns",
                     rows |-> FlattenSeq(ForEach(ByName(User(Relation)), Matches))]>>)

\* handle_domains: the domains, then how many columns use each (CAP domains of
\* those that are used), then how many columns have each type. The count is kept
\* under RDB$FIELD_SOURCE with the blanks that fill the column, and is looked up by
\* the trimmed name of the domain.
ColumnsThat(P(_), kinds) ==
    UNION {{<<o, k>> : k \in {j \in DOMAIN World[o].cols : P(World[o].cols[j])}} : o \in User(kinds)}
UsesOf(n) == Cardinality(ColumnsThat(LAMBDA c : c.source = n, Relation))
UsedDomains == {n \in {name(o) : o \in User({"domain"})} : UsesOf(n) > 0}
domain_list ==
    /\ At("domain_list") /\ KeepPart
    /\ Goes(<<Item("domain_uses", 0, First(ByName(User({"domain"}))))>>, <<>>)
domain_uses ==
    /\ At("domain_uses") /\ KeepPart
    /\ \E counted \in SUBSET UsedDomains :
          /\ Cardinality(counted) = IF Cardinality(UsedDomains) < CAP
                                    THEN Cardinality(UsedDomains) ELSE CAP
          /\ Goes(<<Do("column_types")>>,
                  <<[told |-> "domains",
                     rows |-> ForEach(Row, LAMBDA o :
                        <<name(o), World[o].null = 1,
                          IF name(o) \in counted \cap FullNames THEN UsesOf(name(o)) ELSE 0>>)]>>)

\* The types most columns have; those that three columns or more have without a
\* domain are suggestions.
Plain(t) == ColumnsThat(LAMBDA c : c.source = 0 /\ c.type = t, Relation)
Having(t) == Cardinality(ColumnsThat(LAMBDA c : c.type = t, Relation))
TypesInUse == {c.type : c \in UNION {ToSet(World[o].cols) : o \in User(Relation)}}
column_types ==
    /\ At("column_types") /\ KeepPart
    /\ \E rows \in SUBSET TypesInUse :
          /\ Cardinality(rows) = IF Cardinality(TypesInUse) < CAP
                                 THEN Cardinality(TypesInUse) ELSE CAP
          /\ \A t \in rows, u \in TypesInUse \ rows : Having(t) >= Having(u)
          /\ Goes(<<>>, <<[told |-> "suggested", types |->
                      {format_column_type(t) : t \in {u \in rows : Cardinality(Plain(u)) >= 3}}]>>)

\* handle_describe_database: health, tables, keys; then for each table its rows
\* are counted (include_counts) and its schema is read (include_describes). A
\* health query or a count that fails is passed over; a schema that fails is
\* replaced by a remark.
health ==
    /\ At("health") /\ KeepPart
    /\ work' = Rest /\ faulted' \in {faulted, TRUE}
    /\ UNCHANGED <<catalogVars, call, status, out>>
database_tables ==
    At("database_tables") /\ KeepPart /\ Goes(<<Item("database_keys", 0, TableList)>>, <<>>)
database_keys ==
    /\ At("database_keys") /\ KeepPart
    /\ \E include_counts, include_describes \in BOOLEAN :
          Goes(FlattenSeq(ForEach(Where(Row, LAMBDA o : kind(o) = "table"), LAMBDA o :
                   (IF include_counts THEN <<Item("count", name(o), <<>>)>> ELSE <<>>)
                     \o (IF include_describes THEN describe_table(name(o)) ELSE <<>>))),
               <<[told |-> "database", tables |-> ForEach(Row, name), keys |-> ForeignKeys,
                  schemas |-> include_describes]>>)
count ==
    /\ At("count") /\ KeepPart
    /\ work' = Rest /\ faulted' \in {faulted, TRUE}
    /\ UNCHANGED <<catalogVars, call, status, out>>

\* What is left when the schema that is being read is given up.
AfterSchema == LET last == CHOOSE k \in 1 .. Len(work) :
                               work[k].op = "schema" /\ \A j \in 1 .. k - 1 : work[j].op # "schema"
               IN SubSeq(work, last + 1, Len(work))
schema_fails ==
    /\ call.tool \in {"describe", "describe_database"}
    /\ status = "run" /\ work # <<>> /\ Head(work).op \in TableQuery
    /\ work' = AfterSchema
    /\ out' = IF call.tool = "describe" THEN out ELSE Append(out, Told("no schema", <<>>))
    /\ part' = <<>>
    /\ faulted' = TRUE
    /\ UNCHANGED <<catalogVars, call, status>>

\* handle_generate_dev: the schemas of all tables, then all keys, then the code:
\* an entity of each schema, in which a target (java, go, rust, typescript, graphql,
\* openapi, protobuf) writes a field for each column by its FbType.
EntityField(c) == <<c.name, from_column(c.type)>>
Entity(s) == [told |-> "entity", name |-> s.name, fields |-> ForEach(s.sections[1], EntityField)]
generate_keys ==
    /\ At("generate_keys") /\ KeepPart
    /\ work' = Rest
    /\ out' = ForEach(out, Entity)
    /\ UNCHANGED <<catalogVars, call, status, faulted>>

\* get_view_metadata: the columns of SELECT FIRST 1 *, with the driver's names of
\* their types, or a guess from the value in the row where it has none; without a row
\* there are no columns, and a name that is not there is an error (ErrorEnds).
\* view_to_schema, and from_column once more.
DriverName(c) == sql_type_name(WireCode[c.type.base])
Guessed(o) == {k \in DOMAIN World[o].cols : DriverName(World[o].cols[k]) = "TYPE_n"}
DtoField(c, type) == <<c.name, from_column(raw(from_type_str(<<type, <<>>>>)))>>
ViewFields(o, values) ==
    [k \in 1 .. Len(World[o].cols) |->
        DtoField(World[o].cols[k], IF k \in Guessed(o) THEN infer_type_from_value[values[k]]
                                   ELSE DriverName(World[o].cols[k]))]
view_row ==
    /\ At("view_row") /\ KeepPart
    /\ Called(Relation, Of) # {}
    /\ LET o == The(Called(Relation, Of))
       IN \E values \in [Guessed(o) -> DOMAIN infer_type_from_value] :
             Goes(<<>>, <<[told |-> "dto", name |-> Of, fields |->
                             IF World[o].rows # <<>> THEN ViewFields(o, values) ELSE <<>>]>>)

\* handle_check_duplicates: the values that rows share, `limit` of them; then the
\* rows of one, asked for with the value as format_cell writes it, in quotes, or with
\* IS NULL. NULLs are grouped like any value. An error of the second query, of the
\* table gone or of a quote in the value too, is passed over.
limit == IF Len(call.names) > 1 THEN call.names[2] ELSE 10
Count(o, v) == Cardinality({k \in DOMAIN World[o].rows : World[o].rows[k] = v})
MutantTwice(o) == {v \in ToSet(World[o].rows) : Count(o, v) > 2}
GroupsOf(o) == {v \in ToSet(World[o].rows) : Count(o, v) > 1}
handle_check_duplicates ==
    /\ At("duplicates") /\ KeepPart
    /\ Called(Relation, Of) # {}
    /\ LET o == The(Called(Relation, Of))
       IN \E found \in SUBSET GroupsOf(o) :
             /\ Cardinality(found) = IF Cardinality(GroupsOf(o)) < limit
                                     THEN Cardinality(GroupsOf(o)) ELSE limit
             /\ IF found = {} THEN Goes(<<>>, <<Told("safe", <<>>)>>)
                ELSE \E first \in found :
                        Goes(<<Item("rows", Of, first)>>, <<Told("duplicates", found)>>)
Literal(v) == IF v = 0 THEN 0 ELSE format_cell[v]
duplicate_rows ==
    /\ At("rows") /\ KeepPart
    /\ \/ /\ Called(Relation, Of) # {} /\ Literal(Row) # Broken
          /\ LET n == Count(The(Called(Relation, Of)), Literal(Row))
             IN Goes(<<>>, IF n = 0 THEN <<>>
                           ELSE <<Told("rows", <<Row, Literal(Row), IF n < CAP THEN n ELSE CAP>>)>>)
       \/ work' = Rest /\ faulted' = TRUE /\ UNCHANGED <<catalogVars, call, status, out>>

-----------------------------------------------------------------------------
\* What each handler does first; the arguments it refuses.
ForNames(op) == ForEach(call.names, LAMBDA n : Item(op, upper[n], <<>>))
EachTable == FlattenSeq(ForEach(call.names, LAMBDA n : describe_table(upper[n])))
Plan ==
    CASE call.tool = "extract"           -> extract_ddl_filtered
      [] call.tool = "describe"          -> describe_objects
      [] call.tool = "describe_table"    -> describe_table(upper[call.names[1]])
      [] call.tool = "describe_database" -> <<Do("health"), Do("database_tables")>>
      [] call.tool = "list"              -> <<Do("list")>>
      [] call.tool = "domains"           -> <<Do("domain_list")>>
      [] call.tool = "find_column"       -> <<Do("find")>>
      [] call.tool = "generate"          -> EachTable \o <<Do("generate_keys")>>
      [] call.tool = "view_dto"          -> ForNames("view_row")
      [] call.tool = "duplicates"        -> <<Item("duplicates", upper[call.names[1]], <<>>)>>
Refused ==
    \/ /\ call.tool \in {"describe", "describe_table", "find_column", "generate", "view_dto",
                        "duplicates"}
       /\ call.names = <<>>
    \/ call.tool \in {"generate", "view_dto"} /\ Len(call.names) > MaxNames

Begin ==
    /\ status = "start"
    /\ IF Refused
       THEN Fails
       ELSE /\ status' = "run"
            /\ work' = Plan
            /\ UNCHANGED <<catalogVars, call, part, out, faulted>>

\* An argument that is not well formed (an invalid name, no such language), a client
\* that does not open, or a query whose error is passed on.
Query == ExtractQuery \cup DescribeQuery \cup
         {"list", "find", "domain_list", "domain_uses", "column_types",
          "database_tables", "database_keys", "generate_keys", "view_row", "duplicates"}
ErrorEnds ==
    /\ \/ status = "start"
       \/ /\ status = "run" /\ work # <<>>
          /\ \/ Head(work).op \in Query
             \/ Head(work).op \in TableQuery /\ call.tool \in {"describe_table", "generate"}
    /\ Fails

Init ==
    /\ CatalogInit
    /\ call \in Calls
    /\ status = "start"
    /\ work = <<>>
    /\ part = <<>>
    /\ out = <<>>
    /\ faulted = FALSE

Step == \/ Begin \/ ErrorEnds \/ Finish
        \/ Extract \/ Describe \/ SchemaRead \/ schema_fails
        \/ handle_list \/ handle_find_column \/ domain_list \/ domain_uses \/ column_types
        \/ health \/ database_tables \/ database_keys \/ count
        \/ generate_keys \/ view_row \/ handle_check_duplicates \/ duplicate_rows

\* The call is over.
Over == status \in {"done", "failed"} /\ UNCHANGED vars

Next == Step \/ (status \in {"start", "run"} /\ Others /\ UNCHANGED handlerVars) \/ Over

Spec == Init /\ [][Next]_vars
=============================================================================
