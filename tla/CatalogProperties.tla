--------------------------- MODULE CatalogProperties ---------------------------
(***************************************************************************)
(* What a caller may rely on when a tool has read a catalog that another   *)
(* session was changing meanwhile. Every query has a snapshot of its own,  *)
(* so the answer is of no single moment; an object is spoken for if it was *)
(* there from the first query to the last.                                 *)
(***************************************************************************)
EXTENDS Replay

Done(tool) == status = "done" /\ call.tool = tool
Numbers(S) == {name(o) : o \in S}

\* The place of an object in an ordered list: it is among the first CAP rows,
\* whichever of the others are there when the list is read.
WithinCap(o, all) == Cardinality({n \in Numbers(all) : n < name(o)}) < CAP

TypeOK ==
    /\ CatalogTypeOK
    /\ call \in Calls
    /\ status \in {"start", "run", "done", "failed"}
    /\ faulted \in BOOLEAN
    /\ status # "run" => work = <<>>
    /\ status = "failed" => out = <<>> /\ part = <<>>

-----------------------------------------------------------------------------
\* The shape of an object: what a script may be held to, leaving aside the
\* NOT NULLs, the defaults, the domains of columns, the uniqueness of indexes,
\* indexes on expressions, CHECK constraints and what no statement says, all of
\* which the code is known to lose.
Pair(c) == <<c[1], c[2]>>
Shape(r) ==
    CASE r.kind = "domain" -> <<"domain", r.name, r.type>>
      [] r.kind = "table" ->
            <<"table", r.name, ForEach(r.cols, Pair),
              Where(r.keys, LAMBDA k : k[2] # "CHECK"),
              ForEach(Where(r.idx, LAMBDA i : i[2] # <<>>), Pair)>>
      [] r.kind \in {"view", "sequence", "trigger"} -> <<[r EXCEPT !.unsaid = {}]>>
      [] OTHER -> <<r>>

\* Parameters that are declared without a domain come out as VARCHAR(100).
PlainParams(o) == \A k \in DOMAIN World[o].params :
    World[o].params[k].source = 0 => World[o].params[k].type = Declared(<<"VARCHAR", <<100>>>>)
ParamDomains(o) == {World[o].params[k].source : k \in DOMAIN World[o].params} \ {0}

\* What a script can say: parameters of a domain that stays, one event a trigger,
\* and a function whose queries did not fail.
Sayable(o) ==
    /\ kind(o) = "procedure" =>
          PlainParams(o) /\ \A n \in ParamDomains(o) :
                              \E d \in stable : kind(d) = "domain" /\ name(d) = n
    /\ kind(o) = "trigger" => World[o].event \in 1 .. 6
    /\ kind(o) = "function" => ~ faulted

\* The statements of an object, and what they make of an empty catalog.
About(o) ==
    Where(out, LAMBDA s : \/ s.stmt = kind(o) /\ s.name = name(o)
                          \/ kind(o) = "table" /\ s.stmt \in {"key", "index"} /\ s.on = name(o))
Remade(o) ==
    LET made[k \in 0 .. Len(About(o))] == IF k = 0 THEN {} ELSE Put(made[k - 1], About(o)[k])
    IN made[Len(About(o))]

\* The other rows of the list that an object is in.
Rivals(o) == {p \in seen : kind(p) = kind(o) /\ ~ World[p].system}
Extracted(o) == should_extract(name(o)) /\ ~ World[o].system /\ WithinCap(o, Rivals(o))

\* The indexes of a table are asked for without its keys' own: one CHECK or NOT
\* NULL among its constraints hides them all; the list is cut at CAP segments.
IndexesShown(o) == ~ HasNull(name(o)) /\ Len(Segments(World[o].idx)) <= CAP
Modest(o, r) == IF r.kind = "table" /\ ~ IndexesShown(o) THEN [r EXCEPT !.idx = <<>>] ELSE r

\* An object that is there throughout an extraction, that is asked for and is
\* among the first CAP of its kind, is written once, with the columns, types, keys,
\* references, indexes and parameters it has, whatever other objects are created
\* or dropped between the queries (metadata.rs, extract_ddl_filtered).
WrittenWhole(o) == \E r \in {Shape(Modest(o, [q EXCEPT !.name = name(o)])) : q \in Remade(o)} :
               r = Shape(Modest(o, Original(o)))
StableIsExtracted == Done("extract") => \A o \in stable : Extracted(o) /\ Sayable(o) => WrittenWhole(o)

\* A script holds statements about objects that were asked for and existed during
\* the call, none of them the system's, and creates none of them twice.
OnlyAsked ==
    call.tool = "extract" =>
        \A k \in DOMAIN out :
            LET s == out[k]
                n == IF s.stmt \in {"key", "index"} THEN s.on ELSE s.name
                what == IF s.stmt \in {"key", "index"} THEN "table" ELSE s.stmt
            IN /\ should_extract(n)
               /\ \E o \in seen : kind(o) = what /\ name(o) = n /\ ~ World[o].system
               /\ \A j \in DOMAIN out :
                    out[j].stmt = s.stmt /\ out[j].name = s.name
                        /\ (s.stmt \in {"key", "index"} => out[j].on = n) => j = k

-----------------------------------------------------------------------------
\* describe_objects looks for a name among one kind after the other.
Ranks == <<Relation, {"procedure"}, {"function"}, {"trigger"}, {"sequence"}, {"domain"}>>
Rank(o) == CHOOSE k \in DOMAIN Ranks : kind(o) \in Ranks[k]
Foremost(o) == \A p \in seen : name(p) = name(o) /\ ~ World[p].system => Rank(p) >= Rank(o)

\* A schema of an object: its columns, keys and indexes (but those on expressions,
\* which have no column to tell), constraints, and the triggers on it, those that
\* stayed at least.
AsIndex(c) == <<c.name, c.cols, c.type # "FOREIGN KEY">>
OfIndex(i) == <<i.name, i.cols, i.unique>>
IndexesRight(o, rows) ==
    {OfIndex(i) : i \in ToSet(rows)} =
        {AsIndex(c) : c \in ToSet(Keyed(World[o].cons))}
            \cup {OfIndex(i) : i \in {j \in ToSet(World[o].idx) : j.cols # <<>>}}
ConstraintsRight(o, rows) == rows = ForEach(World[o].cons, LAMBDA c : <<c.name, c.type>>)
TriggersOf(o, objects) == {t \in objects : kind(t) = "trigger" /\ World[t].on = name(o)}
TriggersRight(o, rows) ==
    /\ Numbers(TriggersOf(o, stable)) \subseteq {r[1] : r \in ToSet(rows)}
    /\ {r[1] : r \in ToSet(rows)} \subseteq Numbers(TriggersOf(o, seen))
SchemaRight(o, sections) ==
    /\ sections[1] = World[o].cols
    /\ kind(o) = "table" => IndexesRight(o, sections[2]) /\ ConstraintsRight(o, sections[3])
    /\ TriggersRight(o, sections[4])

\* What is told of an object by its kind; the event of a trigger and the NOT NULL
\* of a domain are told wrongly, and left aside.
ToldRight(o, row) ==
    /\ kind(o) = "procedure" =>
          row = ForEach(First(World[o].params), LAMBDA p : <<p.name, p.out, p.source>>)
    /\ kind(o) = "trigger" => row[1] = World[o].on
    /\ kind(o) = "domain" => Declared(row[1]) = World[o].type
ToldOf(o) == {t \in ToSet(out) : t.told = kind(o) /\ t.name = name(o)}
SchemasOf(o) == {t \in ToSet(out) : t.told = "schema" /\ t.name = name(o)}

\* describe, describe_table and describe_database: an object that is there
\* throughout the call is told of, under the first kind that has its name, and with
\* the whole of its schema unless a query for it failed; what a schema says is of
\* that table alone, and of that moment of it (metadata.rs, describe_objects;
\* schema/mod.rs, describe_table).
StableIsDescribed ==
    status = "done" /\ call.tool \in {"describe", "describe_table", "describe_database"} =>
        \A o \in stable :
            ~ World[o].system =>
                LET named == \E n \in ToSet(call.names) : upper[n] = name(o)
                    shown == CASE call.tool = "describe" -> named /\ kind(o) \in Relation /\ Foremost(o)
                               [] call.tool = "describe_table" ->
                                      kind(o) \in Relation /\ upper[call.names[1]] = name(o)
                               [] OTHER -> out[1].schemas /\ kind(o) = "table" /\ WithinCap(o, {p \in seen :
                                               kind(p) \in Relation /\ ~ World[p].system})
                IN /\ call.tool = "describe" /\ named /\ Foremost(o) =>
                          \E t \in ToldOf(o) : ToldRight(o, t.row)
                   /\ shown /\ ~ faulted => SchemasOf(o) # {}
                   /\ shown => \A t \in SchemasOf(o) : SchemaRight(o, t.sections)

\* A list holds, in order and once each, objects that existed during the call, and
\* among them those that were there throughout and are within its limit; a search
\* for a column has no limit, and finds it in every table and view that stayed
\* (schema_tools.rs, handle_list, handle_find_column, handle_describe_database).
InList(rows, must, may) ==
    /\ \A k \in 1 .. Len(rows) - 1 : rows[k] < rows[k + 1]
    /\ ToSet(rows) \subseteq may
    /\ \A n \in must : Cardinality({m \in may : m < n}) < CAP => n \in ToSet(rows)
OfKinds(objects, kinds) ==
    {o \in objects : kind(o) \in kinds /\
                        (World[o].system => kinds \subseteq {"procedure", "function"})}
IndexNames(objects) ==
    UNION {IndexNamesOf(o) : o \in OfKinds(objects, {"table"})}
Listable(objects) ==
    IF call.kinds = {} THEN IndexNames(objects) ELSE Numbers(OfKinds(objects, call.kinds))
StableIsListed ==
    /\ Done("list") =>
          InList(ForEach(out[1].rows, LAMBDA r : r.name), Listable(stable), Listable(seen))
    /\ Done("describe_database") =>
          InList(out[1].tables, Numbers(OfKinds(stable, Relation)), Numbers(OfKinds(seen, Relation)))
    /\ Done("find_column") =>
          \A o \in stable : kind(o) \in Relation /\ ~ World[o].system =>
              Where(out[1].rows, LAMBDA r : r[1] = name(o)) = Matches(o)

\* The keys that describe_database and generate_dev go by: each of a table that
\* stays, with the table it refers to, while there are CAP columns of keys at most
\* (schema/mod.rs, get_foreign_keys).
KeyRows(c, o) == {<<c.name, name(o), col, c.ref>> : col \in ToSet(c.cols)}
KeysOf(o) == {c \in ToSet(World[o].cons) : c.type = "FOREIGN KEY"}
AllEdges(objects) == UNION {UNION {KeyRows(c, o) : c \in KeysOf(o)} : o \in objects}
Tables(objects) == {o \in objects : kind(o) = "table" /\ ~ World[o].system}
KeysShown ==
    Done("describe_database") /\ Cardinality(AllEdges(Tables(seen))) <= CAP =>
        /\ AllEdges(Tables(stable)) \subseteq ToSet(out[1].keys)
        /\ ToSet(out[1].keys) \subseteq AllEdges(Tables(seen))

\* The fields a generator writes of a table or view that stays are its columns, each
\* with the type that the column's type reads as where it is written out: for an
\* entity, from the codes of the catalog, but for FLOAT and TIME; for the DTO of a
\* view that has a row, from the driver's name of the type, a NUMERIC being its
\* integer, but for the types the driver has no name of (generator_tools.rs,
\* view_dto.rs; fbtype.rs).
Kin(t) == from_type_str(format_column_type(t)).type
Bare(t) == [t EXCEPT !.sub = 0]
Fields(told, o) == {t.fields : t \in {u \in ToSet(out) : u.told = told /\ u.name = name(o)}}
Variants(fields) == ForEach(fields, LAMBDA f : <<f[1], f[2].type>>)
ToGenerate(o) == o \in stable /\ kind(o) \in Relation /\ ~ World[o].system
                  /\ name(o) \in {upper[n] : n \in ToSet(call.names)}
NamesOf(fields) == ForEach(fields, LAMBDA f : f[1])
GeneratedRight ==
    \A o \in stable : ToGenerate(o) =>
        /\ Done("generate") =>
              /\ Fields("entity", o) # {}
              /\ \A fields \in Fields("entity", o) :
                    /\ Len(fields) = Len(World[o].cols)
                    /\ \A k \in DOMAIN fields :
                          World[o].cols[k].type.base \notin {10, 13} =>
                              Variants(fields)[k] = <<World[o].cols[k].name, Kin(World[o].cols[k].type)>>
        /\ Done("view_dto") /\ World[o].rows # <<>> =>
              \E fields \in Fields("dto", o) :
                    /\ NamesOf(fields) = ForEach(World[o].cols, LAMBDA c : c.name)
                    /\ \A k \in DOMAIN fields \ Guessed(o) :
                          Variants(fields)[k] = <<World[o].cols[k].name, Kin(Bare(World[o].cols[k].type))>>

\* "Safe to create unique index/constraint" is said of a table that stays only when
\* the index can be created, when one value or more is asked for; NULLs never prevent
\* it. The values that are called duplicated are; and the rows shown of one of them, if
\* its text reads as it was, have that value, two at least and CAP at most
\* (schema_tools.rs, handle_check_duplicates).
TwoRows(o, v) == \E j, k \in DOMAIN World[o].rows : j < k /\ World[o].rows[j] = v
                                                      /\ World[o].rows[k] = v
DuplicatesTold ==
    Done("duplicates") =>
        \A o \in stable : kind(o) \in Relation /\ name(o) = upper[call.names[1]] =>
            /\ out[1].told = "safe" /\ limit > 0 =>
                  \A v \in ToSet(World[o].rows) \ {0} : ~ TwoRows(o, v)
            /\ out[1].told = "duplicates" => out[1].row # {} /\ \A v \in out[1].row : TwoRows(o, v)
            /\ Len(out) > 1 =>
                  LET shown == out[2].row
                  IN /\ shown[1] \in out[1].row
                     /\ Literal(shown[1]) = shown[1] => shown[2] = shown[1] /\ shown[3] \in 2 .. CAP

-----------------------------------------------------------------------------
\* A whole script, of a database that nobody changes and that the lists hold. The
\* script names objects without quotes, so names are in capitals.
Users == {o \in db : ~ World[o].system}
Whole ==
    /\ Done("extract") /\ call.names = <<>>
    /\ seen = stable
    /\ \A o \in Users : Extracted(o) /\ Sayable(o) /\ upper[name(o)] = name(o)
    /\ \A o \in Users : kind(o) = "table" => Len(Segments(World[o].idx)) <= CAP

\* A database whose script runs. It has no procedure and no function, and no view
\* with a column that its SELECT does not name. What a view or a trigger names is the
\* user's and is written before it. The columns of a primary key are NOT NULL by their
\* domain, for the columns' own NOT NULLs are not written; and a foreign key refers
\* to a primary key of as many columns that is written before it.
Place(k) == CHOOSE j \in 1 .. 7 : k = <<"domain", "table", "view", "sequence", "trigger",
                                        "procedure", "function">>[j]
Earlier(p, o) == \/ Place(kind(p)) < Place(kind(o))
                 \/ kind(p) = kind(o) /\ name(p) < name(o)
NullableIn(o, n) == \A k \in DOMAIN World[o].cols :
                        World[o].cols[k].name = n => World[o].cols[k].null # 0
KeyBefore(o, c) ==
    \E p \in Users : kind(p) = "table" /\ name(p) = c.ref
        /\ \E key \in ToSet(World[p].cons) :
              /\ key.type = "PRIMARY KEY" /\ Len(key.cols) = Len(c.cols)
              /\ Earlier(p, o) \/ (p = o /\ key.name < c.name)
Orderly ==
    \A o \in Users :
        /\ kind(o) \notin {"procedure", "function"}
        /\ kind(o) = "view" => World[o].named
        /\ kind(o) \in {"view", "trigger"} =>
              \A ref \in Needs(o) :
                  \E p \in Users : kind(p) \in Space(ref[1]) /\ name(p) = ref[2] /\ Earlier(p, o)
        /\ kind(o) = "table" => \A c \in ToSet(World[o].cons) :
              /\ c.type = "PRIMARY KEY" => \A n \in ToSet(c.cols) : ~ NullableIn(o, n)
              /\ c.type = "FOREIGN KEY" => KeyBefore(o, c)

\* The engine refuses a statement of a whole script exactly when the database is not
\* orderly (metadata.rs, extract_ddl: the order of kinds and names it writes in).
RefusedExactly == Whole => (Replayed.refused <=> ~ Orderly)

\* A whole script that runs without an error recreates every object with its shape,
\* and nothing else, but for the indexes of a table that has a CHECK or a NOT NULL
\* (metadata.rs, extract_ddl).
RecreatesShape ==
    Whole /\ ~ Replayed.refused =>
        {Shape(r) : r \in Replayed.catalog} = {Shape(Modest(o, Original(o))) : o \in Users}

\* "Generates a SQL script that recreates the database structure by querying the RDB$
\* system tables: domains, tables (columns, constraints, indexes), views, sequences,
\* triggers, procedures, and functions" (metadata.rs:3-5), taken apart: of every object
\* a statement is written; some domain or table comes back with its NOT NULLs, some
\* foreign key, and some routine; every index comes back; a statement has the parameters
\* of its procedure, and the events of its trigger; and something comes back of what a
\* plain CREATE does not say: the rules of foreign keys, a unique index, the columns of
\* views, the places of triggers, the starts of sequences.
Back(o) == {r \in Replayed.catalog : r.kind = kind(o) /\ r.name = name(o)}
AllWritten == \A o \in Users : About(o) # <<>>
Nulls(r) == IF r.kind = "domain" THEN r.null ELSE ForEach(r.cols, LAMBDA c : <<c[1], c[3]>>)
SomeNullsKept == \E o \in Users : kind(o) \in {"domain", "table"}
                                    /\ \E r \in Back(o) : Nulls(r) = Nulls(Original(o))
SomeForeignKeyMade ==
    \E o \in Tables(Users) : \E r \in Back(o), c \in KeysOf(o) : OriginalKey(c) \in ToSet(r.keys)
SomeRoutineMade == \E o \in Users : kind(o) \in {"procedure", "function"} /\ Back(o) # {}
IndexNamesIn(r) == {i[1] : i \in {j \in ToSet(r.idx) : j[2] # <<>>}}
IndexesKept == \A o \in Tables(Users) : \A r \in Back(o) : IndexNamesIn(r) = IndexNamesIn(Original(o))
ParamsSaid == \A o \in Users : kind(o) = "procedure" =>
                  \A s \in ToSet(About(o)) : Made(s).ins = Original(o).ins
EventsSaid == \A o \in Users : kind(o) = "trigger" =>
                  \A s \in ToSet(About(o)) : Made(s).event = World[o].event
UniqueIn(r) == {i[1] : i \in {j \in ToSet(r.idx) : j[3]}}
SomeRestKept ==
    \E o \in Users : \E r \in Back(o) :
        \/ kind(o) \in {"table", "view", "sequence", "trigger"} /\ r.unsaid \cap World[o].unsaid # {}
        \/ kind(o) = "table" /\ UniqueIn(r) \cap UniqueIn(Original(o)) # {}

\* Of a whole extraction of a database that nobody changes, one of these sentences at
\* least is true. (What refutes this, in the run Recreate, refutes all of them.)
Recreates ==
    Done("extract") /\ call.names = <<>> /\ seen = stable /\ ~ faulted =>
        \/ AllWritten \/ SomeNullsKept \/ SomeForeignKeyMade \/ SomeRoutineMade
        \/ IndexesKept \/ ParamsSaid \/ EventsSaid \/ SomeRestKept
=============================================================================
