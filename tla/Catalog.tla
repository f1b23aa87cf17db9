-------------------------------- MODULE Catalog --------------------------------
(***************************************************************************)
(* External: the system tables of a database (RDB$RELATIONS, RDB$FIELDS    *)
(* and so on) as the queries of metadata.rs and schema/mod.rs read them,   *)
(* and a session of another program that changes them. Every query reads   *)
(* the catalog as it is when it runs; query() hands back CAP rows at most, *)
(* query_with_param() all of them.                                         *)
(*                                                                         *)
(* An object is a name of World: <<kind, name, version>>. Names are        *)
(* numbers in their alphabetical order; upper maps a name to its spelling  *)
(* in capitals. World gives each object its data:                          *)
(*   domain     type, null (RDB$NULL_FLAG), default                        *)
(*   table      cols, cons (in the order of their names), idx, rows (what  *)
(*              each row has in the columns a call looks at; 0 is NULL)    *)
(*   view       cols, rows, named (every column of its SELECT has a name)   *)
(*   trigger    on, event                                                  *)
(*   procedure  params                                                     *)
(*   function   args, returns                                              *)
(* and every object uses (what its definition names) and system. unsaid is *)
(* what no statement of an extracted script says of a table, a view, a     *)
(* sequence or a trigger: the rules of its foreign keys, the names of its  *)
(* columns, its start, its POSITION; {} is what CREATE makes without them. *)
(***************************************************************************)
EXTENDS Integers, Sequences, FiniteSets, SequencesExt, Lists, ColumnTypes

CONSTANTS World,      \* [objects -> their data]
          Start,      \* the catalogs the call may find
          upper,      \* [names -> names]
          CAP,        \* DEFAULT_ROWS
          MaxChanges  \* bounds what the other session does

Object == DOMAIN World
Kind == {"domain", "table", "view", "sequence", "trigger", "procedure", "function"}
kind(o) == o[1]
name(o) == o[2]

\* Tables and views share their names; other kinds have names of their own.
Space(k) == IF k \in {"table", "view"} THEN {"table", "view"} ELSE {k}
SameSlot(o, p) == kind(p) \in Space(kind(o)) /\ name(o) = name(p)

\* Constraints with an index (CHECK and NOT NULL have none), which has their name.
Keyed(cons) == Where(cons, LAMBDA c : c.type \in {"PRIMARY KEY", "UNIQUE", "FOREIGN KEY"})
IndexNamesOf(o) == {i.name : i \in ToSet(Keyed(World[o].cons)) \cup ToSet(World[o].idx)}
IndexesApart(o, p) == kind(o) = "table" /\ kind(p) = "table" =>
                          IndexNamesOf(o) \cap IndexNamesOf(p) = {}

\* A parameter of a domain has the domain's type.
ParamsSuit(o, d) == kind(o) = "procedure" /\ kind(d) = "domain" =>
                        \A p \in ToSet(World[o].params) : p.source = name(d) => p.type = World[d].type

ASSUME CatalogAssumption ==
    /\ Object \subseteq Kind \X Nat \X Nat
    /\ \A objects \in Start :
          /\ objects \subseteq Object /\ IsFiniteSet(objects)
          /\ \A o, p \in objects : SameSlot(o, p) => o = p
          /\ \A o, p \in objects : (o # p => IndexesApart(o, p)) /\ ParamsSuit(o, p)
    /\ CAP \in Nat \ {0, 1}
    /\ MaxChanges \in Nat

ColumnData == [name : Nat, type : RawType, null : {0, 1}, default : STRING, source : Nat]
ConstraintType == {"PRIMARY KEY", "UNIQUE", "FOREIGN KEY", "CHECK", "NOT NULL"}
ConstraintData == [name : Nat, type : ConstraintType, cols : Seq(Nat), ref : Nat]
IndexData == [name : Nat, cols : Seq(Nat), unique : BOOLEAN]
ParamData == [name : Nat, out : BOOLEAN, source : Nat, type : RawType]
ArgumentData == [name : Nat, type : RawType]
NamesDiffer(rows) == \A j, k \in DOMAIN rows : rows[j].name = rows[k].name => j = k
Distinct(list) == \A j, k \in DOMAIN list : list[j] = list[k] => j = k

ASSUME WorldAssumption ==
    \A o \in Object :
        LET d == World[o]
        IN /\ d.system \in BOOLEAN
           /\ kind(o) \in {"table", "view"} => d.cols \in Seq(ColumnData) /\ d.rows \in Seq(Nat)
           /\ kind(o) = "table" =>
                 /\ d.cons \in Seq(ConstraintData) /\ NamesDiffer(d.cons)
                 /\ d.idx \in Seq(IndexData) /\ NamesDiffer(d.idx)
                 /\ \A c \in ToSet(d.cons) :
                       Distinct(c.cols) /\ (c.type # "FOREIGN KEY" => c.ref = 0)
                 /\ \A c \in ToSet(Keyed(d.cons)), i \in ToSet(d.idx) : c.name # i.name
           /\ kind(o) = "view" => d.named \in BOOLEAN
           /\ kind(o) = "procedure" => d.params \in Seq(ParamData)
           /\ kind(o) = "function" => d.args \in Seq(ArgumentData) /\ d.returns \in RawType

\* A key has columns, a primary key some of the table's; a table has columns, and its
\* constraints are in the order of their names.
ASSUME KeyAssumption ==
    \A o \in Object : kind(o) = "table" =>
        /\ World[o].cols # <<>>
        /\ \A j, k \in DOMAIN World[o].cons : j < k => World[o].cons[j].name < World[o].cons[k].name
        /\ \A c \in ToSet(Keyed(World[o].cons)) :
              /\ c.cols # <<>>
              /\ c.type = "PRIMARY KEY" =>
                     ToSet(c.cols) \subseteq {col.name : col \in ToSet(World[o].cols)}

VARIABLES db,      \* the objects there are
          stable,  \* those that have been there since the call began
          seen,    \* those that were there at some moment of it
          changes  \* how often the other session has changed them

catalogVars == <<db, stable, seen, changes>>

CatalogTypeOK ==
    /\ db \subseteq Object
    /\ stable \subseteq db
    /\ db \subseteq seen /\ seen \subseteq Object
    /\ changes \in 0 .. MaxChanges

CatalogInit ==
    /\ db \in Start
    /\ stable = db
    /\ seen = db
    /\ changes = 0

\* What an object needs is there, and what is needed stays.
Needs(o) == World[o].uses
Has(objects, ref) == \E p \in objects : kind(p) \in Space(ref[1]) /\ name(p) = ref[2]

\* The engine keeps a domain that a column has and the table of a trigger, and what a
\* catalog needs is in it; the system's names are its own; no name is 0.
ASSUME NeedsAssumption ==
    /\ \A o \in Object : kind(o) \in {"table", "view"} =>
          \A c \in ToSet(World[o].cols) : c.source # 0 => <<"domain", c.source>> \in Needs(o)
    /\ \A o \in Object : kind(o) = "trigger" => <<"table", World[o].on>> \in Needs(o)
    /\ \A objects \in Start : \A o \in objects : \A ref \in Needs(o) : Has(objects, ref)
    /\ \A o, p \in Object : SameSlot(o, p) => World[o].system = World[p].system
    /\ \A o \in Object : name(o) # 0

Create(o) ==
    /\ o \notin db
    /\ \A p \in db : ~ SameSlot(o, p) /\ IndexesApart(o, p) /\ ParamsSuit(o, p) /\ ParamsSuit(p, o)
    /\ \A ref \in Needs(o) : Has(db, ref)
    /\ db' = db \cup {o}
    /\ seen' = seen \cup {o}
    /\ UNCHANGED stable

Drop(o) ==
    /\ o \in db /\ ~ World[o].system
    /\ \A p \in db : \A ref \in Needs(p) : Has(db \ {o}, ref)
    /\ db' = db \ {o}
    /\ stable' = stable \ {o}
    /\ UNCHANGED seen

Others ==
    /\ changes < MaxChanges
    /\ changes' = changes + 1
    /\ \E o \in Object : Create(o) \/ Drop(o)

-----------------------------------------------------------------------------
\* ORDER BY the name; the first rows of it.
ByName(S) == Sorted(S, [o \in S |-> name(o)])
First(rows) == SubSeq(rows, 1, IF Len(rows) < CAP THEN Len(rows) ELSE CAP)

User(kinds) == {o \in db : kind(o) \in kinds /\ ~ World[o].system}
Every(kinds) == {o \in db : kind(o) \in kinds}

\* The user's object of some kind and name: one or none.
Called(kinds, n) == {o \in User(kinds) : name(o) = n}
The(S) == CHOOSE o \in S : TRUE

\* RDB$RELATION_FIELDS of a table or view, by its name; none, no rows.
Relation == {"table", "view"}
Columns(n) == IF Called(Relation, n) = {} THEN <<>> ELSE World[The(Called(Relation, n))].cols
Constraints(n) == IF Called({"table"}, n) = {} THEN <<>> ELSE World[The(Called({"table"}, n))].cons
Indexes(n) == IF Called({"table"}, n) = {} THEN <<>> ELSE World[The(Called({"table"}, n))].idx

\* The constraint of some name that has an index, of any table.
ConstraintsCalled(n) ==
    {c \in UNION {ToSet(Keyed(World[o].cons)) : o \in Every({"table"})} : c.name = n}

\* A row for each column of each index; indexes again, from the rows that came.
Segments(idx) == FlattenSeq([k \in 1 .. Len(idx) |->
                     [j \in 1 .. Len(idx[k].cols) |-> <<idx[k], idx[k].cols[j]>>]])
Grouped(rows) ==
    LET starts == Ascending({k \in DOMAIN rows : k = 1 \/ rows[k - 1][1] # rows[k][1]})
    IN [k \in 1 .. Len(starts) |->
           [rows[starts[k]][1] EXCEPT !.cols =
               LET mine == Where(rows, LAMBDA r : r[1] = rows[starts[k]][1])
               IN [j \in 1 .. Len(mine) |-> mine[j][2]]]]
=============================================================================
