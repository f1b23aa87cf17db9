-------------------------------- MODULE Session --------------------------------
(***************************************************************************)
(* One client of the server, and the calls it makes one after the other:   *)
(* the loop of main.rs hands a call to its handler, writes the answer, and *)
(* takes the next line. asked and right are history: the calls that have   *)
(* been answered, and those of them whose answer is what the repository's  *)
(* own words say of it.                                                    *)
(***************************************************************************)
EXTENDS CatalogProperties

VARIABLES asked, right

session == <<asked, right>>

\* What is said of one answer, about the objects that its call is for.

\* "lists each domain with its type, nullability, default, and usage count (how many
\* columns use it)" (definitions.rs:57).
UsesCounted ==
    call.tool = "domains" =>
        \A row \in ToSet(out[1].rows), o \in stable :
            kind(o) = "domain" /\ name(o) = row[1] => row[3] = UsesOf(name(o))

\* FLOAT is the type of code 10, "verified against RDB$FIELDS in Firebird 5"
\* (types.rs:10,15): an entity has every column with the type it is written with.
EveryEntityType ==
    call.tool = "generate" =>
        \A o \in stable : ToGenerate(o) =>
            \A fields \in Fields("entity", o) :
                Variants(fields) = ForEach(World[o].cols, LAMBDA c : <<c.name, Kin(c.type)>>)

\* "If the view returns zero rows (empty), the metadata is still available"
\* (view_dto.rs:38-40): a DTO has a field for every column, whatever the rows.
EveryViewHasFields ==
    call.tool = "view_dto" =>
        \A o \in stable : ToGenerate(o) =>
            \E fields \in Fields("dto", o) : Len(fields) = Len(World[o].cols)

\* "Use this BEFORE creating a unique index or constraint to verify data integrity"
\* (definitions.rs:67): nothing is called safe that has duplicates, whatever the limit.
SafeMeansUnique ==
    call.tool = "duplicates" /\ out[1].told = "safe" =>
        \A o \in stable : ToGenerate(o) => \A v \in ToSet(World[o].rows) \ {0} : ~ TwoRows(o, v)

\* "This shows the actual duplicate records so the dev can see what to fix"
\* (schema_tools.rs:662): rows are shown of the value that they are shown for.
DuplicatesShown ==
    call.tool = "duplicates" /\ out[1].told = "duplicates" =>
        \A o \in stable : ToGenerate(o) => Len(out) > 1 /\ out[2].row[2] = out[2].row[1]

AnswerIsRight ==
    status = "done" /\ ~ faulted =>
        /\ UsesCounted /\ EveryEntityType /\ EveryViewHasFields
        /\ SafeMeansUnique /\ DuplicatesShown

-----------------------------------------------------------------------------
SessionInit == Init /\ asked = {} /\ right = {}

\* The answer is written.
Answer ==
    /\ status \in {"done", "failed"} /\ call \notin asked
    /\ asked' = asked \cup {call}
    /\ right' = IF AnswerIsRight THEN right \cup {call} ELSE right
    /\ UNCHANGED vars

\* The next call is handed to its handler, which starts with nothing.
NextCall ==
    /\ call \in asked
    /\ \E c \in Calls \ asked : call' = c
    /\ status' = "start" /\ work' = <<>> /\ part' = <<>> /\ out' = <<>> /\ faulted' = FALSE
    /\ stable' = db /\ seen' = db
    /\ UNCHANGED <<db, changes, session>>

SessionNext ==
    \/ call \notin asked /\ Next /\ UNCHANGED session
    \/ Answer \/ NextCall
    \/ asked = Calls /\ UNCHANGED <<vars, session>>

SessionSpec == SessionInit /\ [][SessionNext]_<<vars, session>>

\* When every call has been answered, one of the answers at least is right. (What
\* refutes this, in the run Told, refutes what is said of each of the calls.)
SomeAnswerIsRight == asked = Calls => right # {}
=============================================================================
