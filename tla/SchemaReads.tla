------------------------------ MODULE SchemaReads ------------------------------
(***************************************************************************)
(* schema/mod.rs: list_tables, describe_table and get_foreign_keys.        *)
(* describe_table runs a query for each section of a schema; part holds    *)
(* the sections read so far.                                               *)
(***************************************************************************)
EXTENDS Handler

NoPart == part' = <<>>
KeepPart == UNCHANGED part
Section(s) == part' = Append(part, s)

\* list_tables
TableList == First(ByName(User(Relation)))

\* The queries of describe_table, for a name.
describe_table(n) ==
    << Item("columns_of", n, <<>>), Item("comments_of", n, <<>>), Item("indexes_of", n, <<>>),
       Item("constraints_of", n, <<>>), Item("triggers_of", n, <<>>), Item("schema", n, <<>>) >>
TableQuery == {"columns_of", "indexes_of", "constraints_of", "triggers_of"}

columns_of == At("columns_of") /\ Goes(<<>>, <<>>) /\ part' = <<Columns(Of)>>

\* get_comments: RDB$OBJECT_COMMENTS is looked for first, and is not there; an
\* error of its queries is passed over.
get_comments ==
    /\ At("comments_of")
    /\ work' = Rest
    /\ faulted' \in {faulted, TRUE}
    /\ UNCHANGED <<catalogVars, call, status, part, out>>

\* Indexes of constraints as well, from a row for each column.
KeyIndex(c) == [name |-> c.name, cols |-> c.cols, unique |-> c.type # "FOREIGN KEY"]
AllIndexes(n) == ForEach(Keyed(Constraints(n)), KeyIndex) \o Indexes(n)
indexes_of ==
    At("indexes_of") /\ Goes(<<>>, <<>>) /\ Section(Grouped(Segments(AllIndexes(Of))))

constraints_of ==
    /\ At("constraints_of") /\ Goes(<<>>, <<>>)
    /\ Section(ForEach(Constraints(Of), LAMBDA c : <<c.name, c.type>>))

TriggersOn(n) == {o \in Every({"trigger"}) : World[o].on = n}
triggers_of ==
    /\ At("triggers_of") /\ Goes(<<>>, <<>>)
    /\ Section(ForEach(ByName(TriggersOn(Of)), LAMBDA o : <<name(o), World[o].event>>))

\* The schema is at hand and is formatted.
schema ==
    /\ At("schema")
    /\ Goes(<<>>, <<[told |-> "schema", name |-> Of, sections |-> part]>>)
    /\ NoPart

\* get_foreign_keys: a row for each column of each key, by table and name.
MutantSwapped(o) ==
    FlattenSeq(ForEach(Where(World[o].cons, LAMBDA c : c.type = "FOREIGN KEY"),
        LAMBDA c : [k \in 1 .. Len(c.cols) |-> <<c.name, c.ref, c.cols[k], name(o)>>]))
Edges(o) == FlattenSeq(ForEach(Where(World[o].cons, LAMBDA c : c.type = "FOREIGN KEY"),
                LAMBDA c : [k \in 1 .. Len(c.cols) |-> <<c.name, name(o), c.cols[k], c.ref>>]))
ForeignKeys == First(FlattenSeq(ForEach(ByName(User({"table"})), Edges)))

SchemaRead == columns_of \/ get_comments \/ indexes_of \/ constraints_of
                \/ triggers_of \/ schema
=============================================================================
