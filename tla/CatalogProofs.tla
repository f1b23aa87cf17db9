------------------------------ MODULE CatalogProofs ------------------------------
(***************************************************************************)
(* Proofs about the readers of the catalog, for every database, every call *)
(* and any number of changes meanwhile.                                    *)
(***************************************************************************)
EXTENDS CatalogProperties, Lemmas

LEMMA InitTypeOK == Init => TypeOK
<1> SUFFICES ASSUME Init
             PROVE  TypeOK
  OBVIOUS
<1>1. db \in SUBSET Object
  BY CatalogAssumption DEF Init, CatalogInit
<1>2. changes \in 0 .. MaxChanges
  BY CatalogAssumption DEF Init, CatalogInit
<1>3. CatalogTypeOK
  BY <1>1, <1>2 DEF Init, CatalogInit, CatalogTypeOK
<1> QED
  BY <1>3 DEF Init, TypeOK

\* A handler's step is one of three: it goes on, it fails, or it ends.
GoesOn ==
    /\ status = "run" /\ status' = "run"
    /\ UNCHANGED <<catalogVars, call>>
    /\ faulted' \in BOOLEAN
Starts ==
    /\ status = "start" /\ status' = "run"
    /\ UNCHANGED <<catalogVars, call, faulted>>
Stops == Fails \/ Finish

LEMMA GoesGoesOn ==
    ASSUME TypeOK, status = "run", NEW items, NEW statements, Goes(items, statements)
    PROVE  GoesOn
  BY DEF TypeOK, Goes, GoesOn

LEMMA ExtractGoesOn ==
    ASSUME TypeOK, Extract
    PROVE  GoesOn
<1>1. CASE function_fails
  BY <1>1 DEF function_fails, GoesOn, At
<1>2. CASE resolve_domain_type
  BY <1>2, GoesGoesOn DEF resolve_domain_type, At
<1>3. CASE extract_domains \/ extract_tables \/ table_columns \/ table_constraints \/ table_key
  BY <1>3, GoesGoesOn
     DEF extract_domains, extract_tables, table_columns, table_constraints, table_key, At
<1>4. CASE foreign_key \/ table_indexes \/ extract_views \/ extract_sequences \/ extract_triggers
  BY <1>4, GoesGoesOn
     DEF foreign_key, table_indexes, extract_views, extract_sequences, extract_triggers, At
<1>5. CASE extract_procedures \/ procedure_params \/ procedure_header
  BY <1>5, GoesGoesOn DEF extract_procedures, procedure_params, procedure_header, At
<1>6. CASE extract_functions \/ function_arguments \/ function_returns
  BY <1>6, GoesGoesOn DEF extract_functions, function_arguments, function_returns, At
<1> QED
  BY <1>1, <1>2, <1>3, <1>4, <1>5, <1>6 DEF Extract

\* describe_objects looks a name up among one kind after the other.
LEMMA DescribeGoesOn ==
    ASSUME TypeOK, Describe
    PROVE  GoesOn
<1>1. CASE describe_relation
  BY <1>1, GoesGoesOn DEF describe_relation, Look, At
<1>2. CASE describe_procedure
  BY <1>2, GoesGoesOn DEF describe_procedure, Look, At
<1>3. CASE describe_function
  BY <1>3, GoesGoesOn DEF describe_function, Look, At
<1>4. CASE describe_trigger
  BY <1>4, GoesGoesOn DEF describe_trigger, Look, At
<1>5. CASE describe_sequence
  BY <1>5, GoesGoesOn DEF describe_sequence, Look, At
<1>6. CASE describe_domain
  BY <1>6, GoesGoesOn DEF describe_domain, Look, At
<1>7. CASE describe_params \/ describe_nothing
  BY <1>7, GoesGoesOn DEF describe_params, describe_nothing, At
<1> QED
  BY <1>1, <1>2, <1>3, <1>4, <1>5, <1>6, <1>7 DEF Describe

LEMMA SchemaGoesOn ==
    ASSUME TypeOK, SchemaRead \/ schema_fails
    PROVE  GoesOn
<1>1. CASE get_comments
  BY <1>1 DEF get_comments, GoesOn, At, TypeOK
<1>2. CASE schema_fails
  BY <1>2 DEF schema_fails, GoesOn
<1>3. CASE columns_of \/ indexes_of \/ constraints_of \/ triggers_of \/ schema
  BY <1>3, GoesGoesOn DEF columns_of, indexes_of, constraints_of, triggers_of, schema, At
<1> QED
  BY <1>1, <1>2, <1>3 DEF SchemaRead

LEMMA ToolGoesOn ==
    ASSUME TypeOK,
           \/ handle_list \/ handle_find_column \/ domain_list \/ domain_uses \/ column_types
           \/ health \/ database_tables \/ database_keys \/ count
           \/ generate_keys \/ view_row \/ handle_check_duplicates \/ duplicate_rows
    PROVE  GoesOn
<1>1. CASE health \/ count \/ generate_keys
  BY <1>1 DEF health, count, generate_keys, GoesOn, At, TypeOK
<1>2. CASE handle_list \/ handle_find_column \/ domain_list
  BY <1>2, GoesGoesOn DEF handle_list, handle_find_column, domain_list, At
<1>3. CASE domain_uses \/ column_types
  BY <1>3, GoesGoesOn DEF domain_uses, column_types, At
<1>4. CASE database_tables \/ database_keys \/ view_row
  BY <1>4, GoesGoesOn DEF database_tables, database_keys, view_row, At
<1>5. CASE handle_check_duplicates
  BY <1>5, GoesGoesOn DEF handle_check_duplicates, At
<1>6. CASE duplicate_rows
  BY <1>6, GoesGoesOn DEF duplicate_rows, At, GoesOn
<1> QED
  BY <1>1, <1>2, <1>3, <1>4, <1>5, <1>6

LEMMA StepIs ==
    ASSUME TypeOK, Step
    PROVE  GoesOn \/ Starts \/ Stops
<1>1. CASE Begin
  BY <1>1 DEF Begin, Starts, Stops
<1>2. CASE ErrorEnds \/ Finish
  BY <1>2 DEF ErrorEnds, Stops
<1> QED
  BY <1>1, <1>2, ExtractGoesOn, DescribeGoesOn, SchemaGoesOn, ToolGoesOn DEF Step

LEMMA StepTypeOK ==
    ASSUME TypeOK, Step
    PROVE  TypeOK'
<1>1. CASE GoesOn
  BY <1>1 DEF GoesOn, TypeOK, CatalogTypeOK, catalogVars
<1>2. CASE Starts
  BY <1>2 DEF Starts, TypeOK, CatalogTypeOK, catalogVars
<1>3. CASE Fails
  BY <1>3 DEF Fails, TypeOK, CatalogTypeOK, catalogVars
<1>4. CASE Finish
  BY <1>4 DEF Finish, TypeOK, CatalogTypeOK, catalogVars
<1> QED
  BY <1>1, <1>2, <1>3, <1>4, StepIs DEF Stops

\* Another session's change keeps the objects that stayed among those there are,
\* and those among the ones that were seen.
LEMMA OthersTypeOK ==
    ASSUME TypeOK, Others, UNCHANGED handlerVars
    PROVE  TypeOK'
<1>1. changes' \in 0 .. MaxChanges
  BY CatalogAssumption DEF Others, TypeOK, CatalogTypeOK
<1>2. PICK o \in Object : Create(o) \/ Drop(o)
  BY DEF Others
<1>3. db' \subseteq Object /\ stable' \subseteq db' /\ db' \subseteq seen' /\ seen' \subseteq Object
  <2>1. CASE Create(o)
    BY <2>1 DEF Create, TypeOK, CatalogTypeOK
  <2>2. CASE Drop(o)
    BY <2>2 DEF Drop, TypeOK, CatalogTypeOK
  <2> QED
    BY <1>2, <2>1, <2>2
<1> QED
  BY <1>1, <1>3 DEF TypeOK, CatalogTypeOK, handlerVars

LEMMA NextTypeOK ==
    ASSUME TypeOK, [Next]_vars
    PROVE  TypeOK'
<1>1. CASE Step
  BY <1>1, StepTypeOK
<1>2. CASE Others /\ UNCHANGED handlerVars
  BY <1>2, OthersTypeOK
<1>3. CASE UNCHANGED vars
  BY <1>3 DEF vars, catalogVars, handlerVars, TypeOK, CatalogTypeOK
<1> QED
  BY <1>1, <1>2, <1>3 DEF Next, Over

\* For every database and every call: what is taken to have stayed is there, what
\* there is has been seen, nothing is left to do when the call is over, and a call
\* that fails hands out nothing of what it had read (`?` in every handler).
THEOREM CatalogTypes == Spec => []TypeOK
<1>1. TypeOK /\ [Next]_vars => TypeOK'
  BY NextTypeOK
<1> QED
  BY <1>1, InitTypeOK, PTL DEF Spec

-----------------------------------------------------------------------------
\* The operations that each group of actions does.
ExtractOps == {"domains", "tables", "columns", "constraints", "key", "foreign_key", "indexes",
               "views", "sequences", "triggers", "procedures", "params", "plain_param", "param",
               "procedure", "functions", "arguments", "returns"}
DescribeOps == {"relation", "of_procedure", "params_of", "of_function", "of_trigger",
                "of_sequence", "of_domain", "of_nothing"}
SchemaOps == {"columns_of", "comments_of", "indexes_of", "constraints_of", "triggers_of", "schema"}

Heads(ops) == status = "run" /\ work # <<>> /\ Head(work).op \in ops

LEMMA ExtractHeads == Extract => Heads(ExtractOps)
<1> USE DEF Heads, At, ExtractOps
<1>1. extract_domains \/ extract_tables \/ table_columns \/ table_constraints \/ table_key
         => Heads(ExtractOps)
  BY DEF extract_domains, extract_tables, table_columns, table_constraints, table_key
<1>2. foreign_key \/ table_indexes \/ extract_views \/ extract_sequences \/ extract_triggers
         => Heads(ExtractOps)
  BY DEF foreign_key, table_indexes, extract_views, extract_sequences, extract_triggers
<1>3. extract_procedures \/ procedure_params \/ resolve_domain_type \/ procedure_header
         => Heads(ExtractOps)
  BY DEF extract_procedures, procedure_params, resolve_domain_type, procedure_header
<1>4. extract_functions \/ function_arguments \/ function_returns \/ function_fails
         => Heads(ExtractOps)
  BY DEF extract_functions, function_arguments, function_returns, function_fails
<1> QED
  BY <1>1, <1>2, <1>3, <1>4 DEF Extract

LEMMA DescribeHeads == Describe => Heads(DescribeOps)
<1> USE DEF Heads, At, DescribeOps, Look
<1>1. describe_relation \/ describe_procedure \/ describe_function \/ describe_trigger
         => Heads(DescribeOps)
  BY DEF describe_relation, describe_procedure, describe_function, describe_trigger
<1>2. describe_sequence \/ describe_domain \/ describe_params \/ describe_nothing
         => Heads(DescribeOps)
  BY DEF describe_sequence, describe_domain, describe_params, describe_nothing
<1> QED
  BY <1>1, <1>2 DEF Describe

LEMMA SchemaHeads == SchemaRead \/ schema_fails => Heads(SchemaOps)
  BY DEF Heads, At, SchemaOps, SchemaRead, columns_of, get_comments, indexes_of, constraints_of,
         triggers_of, schema, schema_fails, TableQuery

LEMMA ToolHeads ==
    /\ handle_list => Heads({"list"})
    /\ handle_find_column => Heads({"find"})
    /\ domain_list => Heads({"domain_list"})
    /\ domain_uses => Heads({"domain_uses"})
    /\ column_types => Heads({"column_types"})
    /\ health => Heads({"health"})
    /\ database_tables => Heads({"database_tables"})
    /\ database_keys => Heads({"database_keys"})
    /\ count => Heads({"count"})
    /\ generate_keys => Heads({"generate_keys"})
    /\ view_row => Heads({"view_row"})
    /\ handle_check_duplicates => Heads({"duplicates"})
    /\ duplicate_rows => Heads({"rows"})
  BY DEF Heads, At, handle_list, handle_find_column, domain_list, domain_uses, column_types,
         health, database_tables, database_keys, count, generate_keys, view_row,
         handle_check_duplicates, duplicate_rows

-----------------------------------------------------------------------------
\* The catalog holds one object to a slot; finitely many are ever seen.
Slots ==
    /\ IsFiniteSet(seen)
    /\ \A o, p \in db : SameSlot(o, p) => o = p

LEMMA SlotsInit == Init => Slots
<1> SUFFICES ASSUME Init
             PROVE  Slots
  OBVIOUS
<1>1. db \in Start /\ seen = db
  BY DEF Init, CatalogInit
<1> QED
  BY <1>1, CatalogAssumption DEF Slots

LEMMA CatalogStays ==
    ASSUME TypeOK, Step
    PROVE  UNCHANGED catalogVars /\ call' = call
  BY StepIs DEF GoesOn, Starts, Stops, Fails, Finish

LEMMA SlotsNext ==
    ASSUME TypeOK, Slots, [Next]_vars
    PROVE  Slots'
<1>1. CASE Step
  BY <1>1, CatalogStays DEF catalogVars, Slots
<1>2. CASE Others
  <2>1. PICK o \in Object : Create(o) \/ Drop(o)
    BY <1>2 DEF Others
  <2>2. CASE Create(o)
    <3>1. IsFiniteSet(seen')
      BY <2>2, FS_AddElement DEF Create, Slots
    <3>2. \A p, q \in db' : SameSlot(p, q) => p = q
      BY <2>2 DEF Create, Slots, SameSlot, Space
    <3> QED
      BY <3>1, <3>2 DEF Slots, SameSlot, kind, name
  <2>3. CASE Drop(o)
    BY <2>3 DEF Drop, Slots, SameSlot
  <2> QED
    BY <2>1, <2>2, <2>3
<1>3. CASE UNCHANGED vars
  BY <1>3 DEF vars, catalogVars, Slots
<1> QED
  BY <1>1, <1>2, <1>3 DEF Next, Over

\* Kinds that share their names.
Shares(kinds) == \A j, k \in kinds : j \in Space(k)

LEMMA TheIs ==
    ASSUME Slots, NEW kinds, Shares(kinds), NEW o \in db, kind(o) \in kinds,
           Called(kinds, name(o)) # {}
    PROVE  The(Called(kinds, name(o))) = o
<1>1. PICK p \in Called(kinds, name(o)) : p = The(Called(kinds, name(o)))
  BY DEF The
<1>2. p \in db /\ kind(p) \in kinds /\ name(p) = name(o)
  BY <1>1 DEF Called, User
<1>3. SameSlot(o, p)
  BY <1>2 DEF Shares, SameSlot
<1> QED
  BY <1>1, <1>2, <1>3 DEF Slots

LEMMA RelationShares == Shares(Relation) /\ \A k : Shares({k})
  BY DEF Shares, Relation, Space

-----------------------------------------------------------------------------
\* handle_check_duplicates: two queries, the second for one value of the first.
Subject(o) == o \in stable /\ kind(o) \in Relation /\ name(o) = upper[call.names[1]]
SafeTold ==
    /\ out[1].told = "safe"
    /\ limit > 0 => \A o \in Object : Subject(o) => \A v \in ToSet(World[o].rows) : ~ TwoRows(o, v)
DupsTold ==
    /\ out[1].told = "duplicates" /\ out[1].row # {}
    /\ \A o \in Object : Subject(o) => \A v \in out[1].row : TwoRows(o, v)
RowsTold ==
    \A o \in Object : Subject(o) =>
        /\ out[2].row[1] \in out[1].row
        /\ Literal(out[2].row[1]) = out[2].row[1] =>
              out[2].row[2] = out[2].row[1] /\ out[2].row[3] \in 2 .. CAP

Asking == out = <<>> /\ work = <<Item("duplicates", upper[call.names[1]], <<>>)>>
ToldSafe == work = <<>> /\ Len(out) = 1 /\ SafeTold
AskingRows ==
    /\ out = <<out[1]>> /\ DupsTold
    /\ \E first \in out[1].row : work = <<Item("rows", upper[call.names[1]], first)>>
ToldDups ==
    /\ work = <<>> /\ DupsTold
    /\ Len(out) = 1 \/ (Len(out) = 2 /\ RowsTold)

DupInv ==
    call.tool = "duplicates" =>
        /\ status = "start" => out = <<>>
        /\ status \in {"run", "done"} => Asking \/ ToldSafe \/ AskingRows \/ ToldDups

LEMMA GroupsAre ==
    ASSUME NEW o \in Object, kind(o) \in Relation
    PROVE  /\ IsFiniteSet(GroupsOf(o))
           /\ \A v : Count(o, v) \in Nat /\ (Count(o, v) > 1 <=> TwoRows(o, v))
           /\ \A v \in ToSet(World[o].rows) : v \in GroupsOf(o) <=> TwoRows(o, v)
<1> DEFINE rows == World[o].rows
           places(v) == {k \in DOMAIN rows : rows[k] = v}
<1>1. rows \in Seq(Nat) /\ DOMAIN rows = 1 .. Len(rows) /\ Len(rows) \in Nat
  <2>1. World[o].rows \in Seq(Nat)
    BY WorldAssumption DEF Relation
  <2> QED
    BY <2>1
<1>2. IsFiniteSet(DOMAIN rows)
  <2>1. PICK n \in Nat : n = Len(rows)
    BY <1>1
  <2>2. IsFiniteSet(1 .. n)
    BY FS_Interval
  <2> QED
    BY <1>1, <2>1, <2>2
<1>3. ASSUME NEW v
      PROVE  Count(o, v) \in Nat /\ (Count(o, v) > 1 <=> TwoRows(o, v))
  <2> DEFINE P == places(v)
  <2>1. IsFiniteSet(P)
    BY <1>2, FS_Subset
  <2>2. Count(o, v) = Cardinality(P)
    BY DEF Count
  <2>3. \A j, k \in P : j # k => TwoRows(o, v)
    <3> SUFFICES ASSUME NEW j \in P, NEW k \in P, j # k
                 PROVE  TwoRows(o, v)
      OBVIOUS
    <3>1. j < k \/ k < j
      BY <1>1
    <3> QED
      BY <3>1 DEF TwoRows
  <2>4. TwoRows(o, v) => \E j, k \in P : j # k
    BY <1>1 DEF TwoRows
  <2> HIDE DEF P
  <2>5. Cardinality(P) \in Nat
    BY <2>1, FS_CardinalityType
  <2>6. Cardinality(P) > 1 => \E j, k \in P : j # k
    <3> SUFFICES ASSUME Cardinality(P) > 1
                 PROVE  \E j, k \in P : j # k
      OBVIOUS
    <3>1. P # {}
      BY <2>1, FS_EmptySet
    <3>2. PICK j \in P : TRUE
      BY <3>1
    <3>3. P # {j}
      BY FS_Singleton
    <3> QED
      BY <3>2, <3>3
  <2>7. ASSUME NEW j \in P, NEW k \in P, j # k
        PROVE  Cardinality(P) > 1
    <3>1. Cardinality(P) # 0
      BY <2>1, FS_EmptySet
    <3>2. Cardinality(P) # 1
      <4>1. ~ \E x : P = {x}
        BY <2>7
      <4> QED
        BY <2>1, <4>1, FS_Singleton
    <3> QED
      BY <2>5, <3>1, <3>2
  <2> QED
    BY <2>2, <2>3, <2>4, <2>5, <2>6, <2>7
<1>4. IsFiniteSet(ToSet(rows))
  <2>1. ToSet(rows) = {rows[k] : k \in DOMAIN rows}
    BY DEF ToSet
  <2>2. IsFiniteSet(ToSet(rows))
    <3> DEFINE f == [k \in DOMAIN rows |-> rows[k]]
    <3>1. f \in Surjection(DOMAIN rows, ToSet(rows))
      BY <2>1 DEF Surjection
    <3> QED
      BY <1>2, <3>1, FS_Surjection
  <2> QED
    BY <2>2
<1>5. GroupsOf(o) = {v \in ToSet(rows) : Count(o, v) > 1}
  BY DEF GroupsOf
<1>6. IsFiniteSet(GroupsOf(o))
  BY <1>4, <1>5, FS_Subset
<1> QED
  BY <1>3, <1>5, <1>6

LEMMA DupInit == Init => DupInv
  BY DEF Init, DupInv

LEMMA DupHeads ==
    ASSUME DupInv, call.tool = "duplicates", NEW ops, Heads(ops)
    PROVE  \/ Asking /\ "duplicates" \in ops
           \/ AskingRows /\ "rows" \in ops
  BY DEF DupInv, Heads, Asking, ToldSafe, AskingRows, ToldDups, Item

\* The first query and what it is followed by.
LEMMA DupFirst ==
    ASSUME TypeOK, Slots, Asking, handle_check_duplicates
    PROVE  ToldSafe' \/ AskingRows'
<1> DEFINE name1 == upper[call.names[1]]
<1>1. /\ work = <<Item("duplicates", name1, <<>>)>> /\ out = <<>> /\ Of = name1
      /\ Called(Relation, name1) # {}
  BY DEF Asking, handle_check_duplicates, Of, Item
<1>2. PICK o : o = The(Called(Relation, name1))
  OBVIOUS
<1>3. o \in Object /\ kind(o) \in Relation
  BY <1>1, <1>2 DEF The, Called, User, TypeOK, CatalogTypeOK
<1>4. ASSUME NEW p \in Object, Subject(p)
      PROVE  p = o
  BY <1>1, <1>2, <1>4, TheIs, RelationShares DEF Subject, TypeOK, CatalogTypeOK
<1>5. PICK found \in SUBSET GroupsOf(o) :
         /\ Cardinality(found) = IF Cardinality(GroupsOf(o)) < limit
                                 THEN Cardinality(GroupsOf(o)) ELSE limit
         /\ IF found = {} THEN Goes(<<>>, <<Told("safe", <<>>)>>)
            ELSE \E first \in found :
                    Goes(<<Item("rows", Of, first)>>, <<Told("duplicates", found)>>)
  BY <1>1, <1>2 DEF handle_check_duplicates
<1>6. call' = call /\ stable' = stable /\ limit' = limit
  <2>1. call' = call /\ stable' = stable
    BY <1>5 DEF Goes, catalogVars
  <2> QED
    BY <2>1 DEF limit
<1>7. \A p \in Object : Subject(p)' <=> Subject(p)
  BY <1>6 DEF Subject, kind, name
<1>8. Rest = <<>>
  BY <1>1 DEF Rest
<1>9. CASE found = {}
  <2>1. work' = <<>> /\ out' = <<Told("safe", <<>>)>>
    <3>1. Goes(<<>>, <<Told("safe", <<>>)>>)
      BY <1>5, <1>9
    <3>2. work' = <<>> \o <<>> /\ out' = <<>> \o <<Told("safe", <<>>)>>
      BY <3>1, <1>1, <1>8 DEF Goes
    <3> QED
      BY <3>2
  <2>2. Len(out') = 1 /\ out'[1].told = "safe"
    BY <2>1 DEF Told
  <2>3. limit > 0 => GroupsOf(o) = {}
    <3>1. Cardinality(found) = 0
      BY <1>9, FS_EmptySet
    <3>2. limit > 0 => Cardinality(GroupsOf(o)) = 0
      BY <3>1, <1>5
    <3> QED
      BY <1>3, <3>2, GroupsAre, FS_EmptySet
  <2>4. ASSUME limit > 0, NEW p \in Object, Subject(p), NEW v \in ToSet(World[p].rows)
        PROVE  ~ TwoRows(p, v)
    BY <1>3, <1>4, <2>3, <2>4, GroupsAre
  <2>5. SafeTold'
    BY <1>6, <1>7, <2>2, <2>4 DEF SafeTold
  <2> QED
    BY <2>1, <2>2, <2>5 DEF ToldSafe
<1>10. CASE found # {}
  <2>1. PICK first \in found :
           Goes(<<Item("rows", Of, first)>>, <<Told("duplicates", found)>>)
    BY <1>5, <1>10
  <2>2. /\ work' = <<Item("rows", name1, first)>> \o <<>>
        /\ out' = <<>> \o <<Told("duplicates", found)>>
    BY <2>1, <1>1, <1>8 DEF Goes
  <2>3. work' = <<Item("rows", name1, first)>> /\ out' = <<Told("duplicates", found)>>
    BY <2>2
  <2>4. Len(out') = 1 /\ out'[1].told = "duplicates" /\ out'[1].row = found
    BY <2>3 DEF Told
  <2>5. ASSUME NEW p \in Object, Subject(p), NEW v \in found
        PROVE  TwoRows(p, v)
    <3>1. v \in GroupsOf(o) /\ v \in ToSet(World[o].rows)
      BY DEF GroupsOf
    <3> QED
      BY <1>3, <1>4, <2>5, <3>1, GroupsAre
  <2>6. DupsTold'
    BY <1>7, <1>10, <2>4, <2>5 DEF DupsTold
  <2>7. first \in out'[1].row
    BY <2>4
  <2> QED
    BY <1>6, <2>3, <2>4, <2>6, <2>7 DEF AskingRows
<1> QED
  BY <1>9, <1>10

LEMMA TwoRowsJoined ==
    ASSUME NEW a, NEW b
    PROVE  <<a>> \o <<b>> = <<a, b>>
<1> DEFINE s == <<a>> \o <<b>>
           t == <<a, b>>
<1>1. s \in Seq({a, b}) /\ t \in Seq({a, b}) /\ Len(s) = 2 /\ Len(t) = 2
  OBVIOUS
<1>2. s[1] = a /\ s[2] = b /\ t[1] = a /\ t[2] = b
  OBVIOUS
<1> HIDE DEF s, t
<1>3. \A k \in 1 .. Len(s) : s[k] = t[k]
  BY <1>1, <1>2
<1>4. s = t
  BY <1>1, <1>3, SeqEqual
<1> QED
  BY <1>4 DEF s, t

\* The rows of one value: as many as there are, or CAP.
LEMMA DupSecond ==
    ASSUME TypeOK, Slots, AskingRows, duplicate_rows
    PROVE  ToldDups'
<1> DEFINE name1 == upper[call.names[1]]
<1>1. PICK first \in out[1].row : work = <<Item("rows", name1, first)>>
  BY DEF AskingRows
<1>2. Of = name1 /\ Row = first /\ Rest = <<>> /\ out = <<out[1]>> /\ DupsTold
  BY <1>1 DEF Of, Row, Rest, Item, AskingRows
<1>3. call' = call /\ stable' = stable /\ work' = <<>>
  <2>1. CASE work' = Rest /\ UNCHANGED <<catalogVars, call, status, out>>
    BY <1>2, <2>1 DEF catalogVars
  <2>2. CASE \E statements : Goes(<<>>, statements)
    <3>1. work' = <<>> \o <<>>
      BY <1>2, <2>2 DEF Goes
    <3> QED
      BY <2>2, <3>1 DEF Goes, catalogVars
  <2> QED
    BY <2>1, <2>2 DEF duplicate_rows
<1>4. \A p \in Object : Subject(p)' <=> Subject(p)
  BY <1>3 DEF Subject, kind, name
<1>5. CASE out' = out
  BY <1>2, <1>3, <1>4, <1>5 DEF ToldDups, DupsTold
<1>6. CASE out' # out
  <2> DEFINE o == The(Called(Relation, name1))
             w == Literal(first)
             n == Count(o, w)
             rows == Told("rows", <<first, w, IF n < CAP THEN n ELSE CAP>>)
  <2>1. Called(Relation, name1) # {} /\ Goes(<<>>, IF n = 0 THEN <<>> ELSE <<rows>>)
    BY <1>2, <1>6 DEF duplicate_rows
  <2>2. out' = out \o IF n = 0 THEN <<>> ELSE <<rows>>
    BY <2>1 DEF Goes
  <2> HIDE DEF rows
  <2> DEFINE t == out[1]
  <2> HIDE DEF t
  <2>5. out = <<t>>
    BY <1>2 DEF t
  <2>3. CASE n = 0
    <3>1. out' = <<t>> \o <<>> /\ <<t>> \o <<>> = <<t>>
      BY <2>2, <2>3, <2>5
    <3> QED
      BY <1>6, <2>5, <3>1
  <2>4. CASE n # 0
    <3>0. <<t>> \o <<rows>> = <<t, rows>>
      BY TwoRowsJoined
    <3>1. out' = <<t>> \o <<rows>>
      BY <2>2, <2>4, <2>5, Zenon
    <3>2. Len(out') = 2 /\ out'[1] = out[1] /\ out'[2] = rows
      BY <3>0, <3>1 DEF t
    <3>3. DupsTold'
      BY <1>2, <1>4, <3>2 DEF DupsTold
    <3>4. ASSUME NEW p \in Object, Subject(p)
          PROVE  /\ rows.row[1] \in out[1].row
                 /\ Literal(rows.row[1]) = rows.row[1] =>
                       rows.row[2] = rows.row[1] /\ rows.row[3] \in 2 .. CAP
      <4>1. p \in db /\ kind(p) \in Relation /\ name(p) = name1
        BY <3>4 DEF Subject, TypeOK, CatalogTypeOK
      <4>2. p = o
        BY <2>1, <4>1, TheIs, RelationShares
      <4>3. w = first => n \in Nat /\ n > 1
        <5>1. TwoRows(p, first)
          BY <1>2, <3>4 DEF DupsTold
        <5> QED
          BY <4>1, <4>2, <5>1, GroupsAre
      <4>4. rows.row[1] = first /\ rows.row[2] = w /\ rows.row[3] = IF n < CAP THEN n ELSE CAP
        BY DEF rows, Told
      <4>5. CAP \in Nat /\ CAP > 1
        BY CatalogAssumption
      <4> QED
        BY <4>3, <4>4, <4>5
    <3>5. RowsTold'
      BY <1>4, <3>2, <3>4 DEF RowsTold
    <3> QED
      BY <1>3, <3>2, <3>3, <3>5 DEF ToldDups
  <2> QED
    BY <2>3, <2>4
<1> QED
  BY <1>5, <1>6

LEMMA DupPlan ==
    ASSUME call.tool = "duplicates"
    PROVE  Plan = <<Item("duplicates", upper[call.names[1]], <<>>)>>
  BY DEF Plan

LEMMA DupStep ==
    ASSUME TypeOK, Slots, DupInv, call.tool = "duplicates", Step
    PROVE  DupInv'
<1>0. call' = call
  BY CatalogStays
<1>9. status' # "start"
  BY StepIs DEF GoesOn, Starts, Stops, Fails, Finish
<1> SUFFICES ASSUME status' \in {"run", "done"}
             PROVE  Asking' \/ ToldSafe' \/ AskingRows' \/ ToldDups'
  BY <1>9 DEF DupInv
<1>1. CASE Begin
  <2>1. status = "start" /\ out = <<>> /\ work' = Plan /\ out' = out
    BY <1>1 DEF Begin, Fails, DupInv
  <2> QED
    BY <1>0, <2>1, DupPlan DEF Asking
<1>2. CASE ErrorEnds
  BY <1>2 DEF ErrorEnds, Fails
<1>3. CASE Finish
  <2>1. status = "run" /\ work = <<>> /\ UNCHANGED <<catalogVars, call, work, out>>
    BY <1>3 DEF Finish
  <2>2. ToldSafe \/ ToldDups
    BY <2>1 DEF DupInv, Asking, AskingRows
  <2>3. \A p \in Object : Subject(p)' <=> Subject(p)
    BY <2>1 DEF Subject, catalogVars, kind, name
  <2> QED
    BY <2>1, <2>2, <2>3 DEF ToldSafe, ToldDups, SafeTold, DupsTold, RowsTold, limit
<1>4. CASE handle_check_duplicates
  BY <1>4, ToolHeads, DupHeads, DupFirst
<1>5. CASE duplicate_rows
  BY <1>5, ToolHeads, DupHeads, DupSecond
<1>6. CASE Extract \/ Describe \/ SchemaRead \/ schema_fails
  BY <1>6, ExtractHeads, DescribeHeads, SchemaHeads, DupHeads DEF ExtractOps, DescribeOps, SchemaOps
<1>7. CASE handle_list \/ handle_find_column \/ domain_list \/ domain_uses \/ column_types
  BY <1>7, ToolHeads, DupHeads
<1>8. CASE health \/ database_tables \/ database_keys \/ count \/ generate_keys \/ view_row
  BY <1>8, ToolHeads, DupHeads
<1> QED
  BY <1>1, <1>2, <1>3, <1>4, <1>5, <1>6, <1>7, <1>8 DEF Step

LEMMA OthersKeep ==
    ASSUME TypeOK, Others
    PROVE  stable' \subseteq stable /\ seen \subseteq seen'
  BY DEF Others, Create, Drop

\* "Safe to create unique index" is true of a table that stays when the limit is not 0;
\* the values told of it are duplicated, and so are the rows that are shown of one whose
\* text reads as it was, for every database and every limit (handle_check_duplicates).
THEOREM DuplicatesAreTold == Spec => []DuplicatesTold
<1> DEFINE Inv == TypeOK /\ Slots /\ DupInv
<1>1. Init => Inv
  BY InitTypeOK, SlotsInit, DupInit
<1>2. TypeOK /\ [Next]_vars => TypeOK'
  BY NextTypeOK
<1>3. Inv /\ [Next]_vars => Inv'
  <2> SUFFICES ASSUME TypeOK, Slots, DupInv, [Next]_vars
               PROVE  DupInv'
    BY <1>2, SlotsNext
  <2>1. CASE Step
    <3>1. CASE call.tool = "duplicates"
      BY <2>1, <3>1, DupStep
    <3>2. CASE call.tool # "duplicates"
      BY <2>1, <3>2, CatalogStays DEF DupInv
    <3> QED
      BY <3>1, <3>2
  <2>2. CASE Others /\ UNCHANGED handlerVars
    <3>1. UNCHANGED <<call, status, work, out>> /\ stable' \subseteq stable
      BY <2>2, OthersKeep DEF handlerVars
    <3>2. \A p \in Object : Subject(p)' => Subject(p)
      BY <3>1 DEF Subject, kind, name
    <3> QED
      BY <3>1, <3>2
      DEF DupInv, Asking, AskingRows, ToldSafe, ToldDups, SafeTold, DupsTold, RowsTold, limit
  <2>3. CASE UNCHANGED vars
    BY <2>3
    DEF vars, catalogVars, handlerVars, DupInv, Asking, AskingRows, ToldSafe, ToldDups,
        SafeTold, DupsTold, RowsTold, limit, Subject, kind, name
  <2> QED
    BY <2>1, <2>2, <2>3 DEF Next, Over
<1>4. Inv => DuplicatesTold
  <2> SUFFICES ASSUME Inv, Done("duplicates"), NEW o \in stable, kind(o) \in Relation,
                      name(o) = upper[call.names[1]]
               PROVE  /\ out[1].told = "safe" /\ limit > 0 =>
                            \A v \in ToSet(World[o].rows) \ {0} : ~ TwoRows(o, v)
                      /\ out[1].told = "duplicates" =>
                            out[1].row # {} /\ \A v \in out[1].row : TwoRows(o, v)
                      /\ Len(out) > 1 =>
                            /\ out[2].row[1] \in out[1].row
                            /\ Literal(out[2].row[1]) = out[2].row[1] =>
                                  out[2].row[2] = out[2].row[1] /\ out[2].row[3] \in 2 .. CAP
    BY DEF DuplicatesTold
  <2>1. o \in Object /\ Subject(o)
    BY DEF Subject, TypeOK, CatalogTypeOK
  <2>2. ToldSafe \/ ToldDups
    BY DEF Done, TypeOK, DupInv, Asking, AskingRows
  <2>3. CASE ToldSafe
    BY <2>1, <2>3 DEF ToldSafe, SafeTold
  <2>4. CASE ToldDups
    BY <2>1, <2>4 DEF ToldDups, DupsTold, RowsTold
  <2> QED
    BY <2>2, <2>3, <2>4
<1> QED
  BY <1>1, <1>3, <1>4, PTL DEF Spec

-----------------------------------------------------------------------------
\* extract_ddl_filtered: what each statement is about, and what an item of the
\* work may still write.
What(s) == IF s.stmt \in {"key", "index"} THEN "table" ELSE s.stmt
Whose(s) == IF s.stmt \in {"key", "index"} THEN s.on ELSE s.name
Id(s) == <<s.stmt, Whose(s), s.name>>

KindWritten == [domains |-> "domain", views |-> "view", sequences |-> "sequence",
                triggers |-> "trigger", procedures |-> "procedure", functions |-> "function"]
PartWritten == [columns |-> "table", constraints |-> "key", indexes |-> "index",
                params |-> "procedure", procedure |-> "procedure", returns |-> "function"]

\* The kind of object that an item is one of, if it is one's.
Owner(i) == CASE i.op \in {"columns", "constraints", "indexes", "key", "foreign_key"} -> "table"
              [] i.op \in {"params", "plain_param", "param", "procedure"} -> "procedure"
              [] i.op \in {"arguments", "returns"} -> "function"
              [] OTHER -> "none"

Writes(i, id) ==
    CASE i.op \in DOMAIN KindWritten -> id[1] = KindWritten[i.op]
      [] i.op = "tables" -> id[1] \in {"table", "key", "index"}
      [] i.op \in DOMAIN PartWritten -> id[1] = PartWritten[i.op] /\ id[2] = i.of
      [] i.op \in {"key", "foreign_key"} -> id[1] = "key" /\ id[2] = i.of /\ id[3] = i.row.name
      [] OTHER -> FALSE

Wanted(k, n) == should_extract(n) /\ \E o \in seen : kind(o) = k /\ name(o) = n /\ ~ World[o].system

Apart(i, j) == \A id : ~ (Writes(i, id) /\ Writes(j, id))

Pending(s) ==
    /\ \E A : s \in Seq(A)
    /\ \A k \in DOMAIN s : s[k].op \in ExtractOps
    /\ \A k \in DOMAIN s : Owner(s[k]) # "none" => Wanted(Owner(s[k]), s[k].of)
    /\ \A j, k \in DOMAIN s : j # k => Apart(s[j], s[k])
Written(s) ==
    /\ \E B : s \in Seq(B)
    /\ \A k \in DOMAIN s : Wanted(What(s[k]), Whose(s[k]))
    /\ \A j, k \in DOMAIN s : j # k => Id(s[j]) # Id(s[k])
Once(items, statements) ==
    \A j \in DOMAIN items : \A k \in DOMAIN statements : ~ Writes(items[j], Id(statements[k]))

ExtractInv ==
    call.tool = "extract" => Pending(work) /\ Written(out) /\ Once(work, out)

\* What was there and asked for stays so, whatever the other session does.
LEMMA WantedStays ==
    ASSUME call' = call, seen \subseteq seen', NEW k, NEW n, Wanted(k, n)
    PROVE  Wanted(k, n)'
  BY DEF Wanted, should_extract, kind, name

LEMMA PendingStays ==
    ASSUME call' = call, seen \subseteq seen', NEW s, Pending(s)
    PROVE  Pending(s)'
<1>1. \A k, n : Wanted(k, n) => Wanted(k, n)'
  BY WantedStays
<1> QED
  BY <1>1 DEF Pending, Owner, Apart, Writes

LEMMA WrittenStays ==
    ASSUME call' = call, seen \subseteq seen', NEW s, Written(s)
    PROVE  Written(s)'
<1>1. \A k, n : Wanted(k, n) => Wanted(k, n)'
  BY WantedStays
<1> QED
  BY <1>1 DEF Written, What, Whose, Id

\* The head of the work is replaced by parts of it.
Refines(h, items, statements) ==
    /\ \A k \in DOMAIN items : items[k].op \in ExtractOps
    /\ \A k \in DOMAIN items : Owner(items[k]) # "none" => Wanted(Owner(items[k]), items[k].of)
    /\ \A k \in DOMAIN items : \A id : Writes(items[k], id) => Writes(h, id)
    /\ \A j, k \in DOMAIN items : j # k => Apart(items[j], items[k])
    /\ \A k \in DOMAIN statements : Wanted(What(statements[k]), Whose(statements[k]))
    /\ \A k \in DOMAIN statements : Writes(h, Id(statements[k]))
    /\ \A j, k \in DOMAIN statements : j # k => Id(statements[j]) # Id(statements[k])
    /\ Once(items, statements)

LEMMA RefinedPending ==
    ASSUME NEW w, w # <<>>, Pending(w), NEW A, NEW items \in Seq(A), NEW statements,
           Refines(Head(w), items, statements), NEW u, u = items \o Tail(w)
    PROVE  Pending(u)
<1>1. PICK B : w \in Seq(B)
  BY DEF Pending
<1>2. /\ u \in Seq(B \cup A) /\ Len(w) \in Nat /\ Len(items) \in Nat
      /\ 1 \in DOMAIN w /\ Head(w) = w[1]
      /\ \A k \in DOMAIN u :
            \/ k \in DOMAIN items /\ u[k] = items[k]
            \/ /\ k - Len(items) + 1 \in DOMAIN w /\ k - Len(items) + 1 > 1
               /\ u[k] = w[k - Len(items) + 1]
  BY <1>1, SplicedIs
<1> DEFINE old(k) == k - Len(items) + 1
           New(k) == k \in DOMAIN items /\ u[k] = items[k]
           Old(k) == old(k) \in DOMAIN w /\ old(k) > 1 /\ u[k] = w[old(k)]
<1>3. \A k \in DOMAIN u : New(k) \/ Old(k)
  BY <1>2
<1>4. DOMAIN u \subseteq Nat
  BY <1>2
<1>5. ASSUME NEW k \in DOMAIN u
      PROVE  /\ u[k].op \in ExtractOps
             /\ Owner(u[k]) # "none" => Wanted(Owner(u[k]), u[k].of)
  <2>1. CASE New(k)
    BY <2>1 DEF Refines
  <2>2. CASE Old(k)
    BY <2>2 DEF Pending
  <2> QED
    BY <1>3, <2>1, <2>2
<1>6. ASSUME NEW j \in DOMAIN u, NEW k \in DOMAIN u, New(j), Old(k)
      PROVE  Apart(u[j], u[k]) /\ Apart(u[k], u[j])
  <2>1. \A id : Writes(u[j], id) => Writes(w[1], id)
    BY <1>2, <1>6 DEF Refines
  <2>2. Apart(w[1], u[k])
    BY <1>2, <1>6 DEF Pending
  <2> QED
    BY <2>1, <2>2 DEF Apart
<1>7. ASSUME NEW j \in DOMAIN u, NEW k \in DOMAIN u, j # k
      PROVE  Apart(u[j], u[k])
  <2>1. CASE New(j) /\ New(k)
    BY <1>7, <2>1 DEF Refines
  <2>2. CASE Old(j) /\ Old(k)
    <3>1. old(j) # old(k)
      BY <1>2, <1>4, <1>7
    <3> QED
      BY <2>2, <3>1 DEF Pending
  <2> QED
    BY <1>3, <1>6, <2>1, <2>2
<1> QED
  BY <1>2, <1>5, <1>7 DEF Pending

LEMMA RefinedWritten ==
    ASSUME NEW w, w # <<>>, Pending(w), NEW o, Written(o), Once(w, o),
           NEW items, NEW B, NEW statements \in Seq(B),
           Refines(Head(w), items, statements), NEW v, v = o \o statements
    PROVE  Written(v)
<1>1. PICK A : o \in Seq(A)
  BY DEF Written
<1>2. PICK C : w \in Seq(C)
  BY DEF Pending
<1>3. 1 \in DOMAIN w /\ Head(w) = w[1]
  BY <1>2, SplicedIs
<1>4. /\ v \in Seq(A \cup B) /\ Len(o) \in Nat
      /\ \A k \in DOMAIN v :
            \/ k \in DOMAIN o /\ v[k] = o[k]
            \/ (k - Len(o) \in DOMAIN statements /\ v[k] = statements[k - Len(o)])
  BY <1>1, AppendedIs
<1> DEFINE Old(k) == k \in DOMAIN o /\ v[k] = o[k]
           New(k) == k - Len(o) \in DOMAIN statements /\ v[k] = statements[k - Len(o)]
<1>5. \A k \in DOMAIN v : Old(k) \/ New(k)
  BY <1>4
<1>6. DOMAIN v \subseteq Nat
  BY <1>4
<1>7. ASSUME NEW k \in DOMAIN v
      PROVE  Wanted(What(v[k]), Whose(v[k]))
  <2>1. CASE Old(k)
    BY <2>1 DEF Written
  <2>2. CASE New(k)
    BY <2>2 DEF Refines
  <2> QED
    BY <1>5, <2>1, <2>2
<1>8. ASSUME NEW j \in DOMAIN v, NEW k \in DOMAIN v, Old(j), New(k)
      PROVE  Id(v[j]) # Id(v[k])
  <2>1. Writes(w[1], Id(v[k]))
    BY <1>3, <1>8 DEF Refines
  <2>2. ~ Writes(w[1], Id(v[j]))
    BY <1>3, <1>8 DEF Once
  <2> QED
    BY <2>1, <2>2
<1>9. ASSUME NEW j \in DOMAIN v, NEW k \in DOMAIN v, j # k
      PROVE  Id(v[j]) # Id(v[k])
  <2>1. CASE Old(j) /\ Old(k)
    BY <1>9, <2>1 DEF Written
  <2>2. CASE New(j) /\ New(k)
    <3>1. j - Len(o) # k - Len(o)
      BY <1>4, <1>6, <1>9
    <3> QED
      BY <2>2, <3>1 DEF Refines
  <2> QED
    BY <1>5, <1>8, <2>1, <2>2
<1> QED
  BY <1>4, <1>7, <1>9 DEF Written

LEMMA RefinedOnce ==
    ASSUME NEW w, w # <<>>, Pending(w), NEW o, Written(o), Once(w, o),
           NEW A, NEW items \in Seq(A), NEW B, NEW statements \in Seq(B),
           Refines(Head(w), items, statements),
           NEW u, u = items \o Tail(w), NEW v, v = o \o statements
    PROVE  Once(u, v)
<1>1. PICK C, D : w \in Seq(C) /\ o \in Seq(D)
  BY DEF Pending, Written
<1>2. /\ 1 \in DOMAIN w /\ Head(w) = w[1] /\ Len(items) \in Nat
      /\ \A k \in DOMAIN u :
            \/ k \in DOMAIN items /\ u[k] = items[k]
            \/ /\ k - Len(items) + 1 \in DOMAIN w /\ k - Len(items) + 1 > 1
               /\ u[k] = w[k - Len(items) + 1]
  BY <1>1, SplicedIs
<1>3. \A k \in DOMAIN v :
         \/ k \in DOMAIN o /\ v[k] = o[k]
         \/ (k - Len(o) \in DOMAIN statements /\ v[k] = statements[k - Len(o)])
  BY <1>1, AppendedIs
<1>4. \A j \in DOMAIN u :
         \/ \E i \in DOMAIN items : u[j] = items[i]
         \/ \E i \in DOMAIN w : i # 1 /\ u[j] = w[i]
  <2> SUFFICES ASSUME NEW j \in DOMAIN u
               PROVE  \/ \E i \in DOMAIN items : u[j] = items[i]
                      \/ \E i \in DOMAIN w : i # 1 /\ u[j] = w[i]
    OBVIOUS
  <2>1. CASE j \in DOMAIN items /\ u[j] = items[j]
    BY <2>1
  <2>2. CASE /\ j - Len(items) + 1 \in DOMAIN w /\ j - Len(items) + 1 > 1
             /\ u[j] = w[j - Len(items) + 1]
    <3>1. DOMAIN w \subseteq Nat
      BY <1>1
    <3>2. PICK i \in DOMAIN w : i = j - Len(items) + 1
      BY <2>2
    <3>3. i # 1 /\ u[j] = w[i]
      BY <2>2, <3>1, <3>2
    <3> QED
      BY <3>3
  <2> QED
    BY <1>2, <2>1, <2>2
<1>5. \A k \in DOMAIN v :
         \/ \E i \in DOMAIN o : v[k] = o[i]
         \/ \E i \in DOMAIN statements : v[k] = statements[i]
  BY <1>3
<1>6. ASSUME NEW i \in DOMAIN items, NEW j \in DOMAIN o
      PROVE  ~ Writes(items[i], Id(o[j]))
  BY <1>2 DEF Refines, Once
<1>7. ASSUME NEW i \in DOMAIN items, NEW j \in DOMAIN statements
      PROVE  ~ Writes(items[i], Id(statements[j]))
  BY DEF Refines, Once
<1>8. ASSUME NEW i \in DOMAIN w, NEW j \in DOMAIN o
      PROVE  ~ Writes(w[i], Id(o[j]))
  BY DEF Once
<1>9. ASSUME NEW i \in DOMAIN w, i # 1, NEW j \in DOMAIN statements
      PROVE  ~ Writes(w[i], Id(statements[j]))
  <2>1. Apart(w[1], w[i])
    BY <1>2, <1>9 DEF Pending
  <2>2. Writes(w[1], Id(statements[j]))
    BY <1>2 DEF Refines
  <2> QED
    BY <2>1, <2>2 DEF Apart
<1>10. ASSUME NEW j \in DOMAIN u, NEW k \in DOMAIN v
       PROVE  ~ Writes(u[j], Id(v[k]))
  <2>1. CASE \E i \in DOMAIN items : u[j] = items[i]
    BY <1>5, <1>6, <1>7, <2>1
  <2>2. CASE \E i \in DOMAIN w : i # 1 /\ u[j] = w[i]
    BY <1>5, <1>8, <1>9, <2>2
  <2> QED
    BY <1>4, <2>1, <2>2
<1> QED
  BY <1>10 DEF Once

LEMMA RefinedKeeps ==
    ASSUME ExtractInv, call.tool = "extract", work # <<>>, UNCHANGED <<catalogVars, call>>,
           NEW A, NEW items \in Seq(A), NEW B, NEW statements \in Seq(B),
           Refines(Head(work), items, statements),
           work' = items \o Rest, out' = out \o statements
    PROVE  ExtractInv'
<1>1. Pending(work) /\ Written(out) /\ Once(work, out)
  BY DEF ExtractInv
<1>2. PICK u : u = work'
  OBVIOUS
<1>3. PICK v : v = out'
  OBVIOUS
<1>4. u = items \o Tail(work) /\ v = out \o statements
  BY <1>2, <1>3 DEF Rest
<1>5. Pending(u)
  BY <1>1, <1>4, RefinedPending
<1>6. Written(v)
  BY <1>1, <1>4, RefinedWritten
<1>7. Once(u, v)
  BY <1>1, <1>4, RefinedOnce
<1>8. call' = call /\ seen \subseteq seen'
  BY DEF catalogVars
<1>9. Pending(u)' /\ Written(v)'
  BY <1>5, <1>6, <1>8, PendingStays, WrittenStays
<1>10. Pending(work)' /\ Written(out)'
  BY <1>2, <1>3, <1>9 DEF Pending, Written
<1>11. Once(work, out)'
  BY <1>2, <1>3, <1>7 DEF Once
<1> QED
  BY <1>10, <1>11 DEF ExtractInv

-----------------------------------------------------------------------------
\* The rows of a list of the catalog.
LEMMA ByNameIs ==
    ASSUME TypeOK, Slots, NEW kinds, Shares(kinds), NEW S \in SUBSET db,
           \A o \in S : kind(o) \in kinds
    PROVE  /\ IsFiniteSet(S) /\ Cardinality(S) \in Nat /\ Tells(S, [o \in S |-> name(o)])
           /\ ByName(S) \in Seq(S) /\ Len(ByName(S)) = Cardinality(S)
           /\ DOMAIN ByName(S) = 1 .. Cardinality(S)
           /\ \A j, k \in DOMAIN ByName(S) : j < k <=> name(ByName(S)[j]) < name(ByName(S)[k])
           /\ \A o \in S : \E k \in DOMAIN ByName(S) : ByName(S)[k] = o
<1> DEFINE key == [o \in S |-> name(o)]
<1>1. IsFiniteSet(S)
  BY FS_Subset DEF Slots, TypeOK, CatalogTypeOK
<1>2. \A o \in S : name(o) \in Nat /\ key[o] = name(o)
  BY CatalogAssumption DEF TypeOK, CatalogTypeOK, name
<1>3. ASSUME NEW o \in S, NEW p \in S, name(o) = name(p)
      PROVE  o = p
  BY <1>3 DEF Slots, SameSlot, Shares
<1>4. Tells(S, key)
  BY <1>2, <1>3 DEF Tells
<1>5. Sorted(S, key) = ByName(S)
  BY DEF ByName
<1> HIDE DEF key
<1>6. /\ Sorted(S, key) \in Seq(S) /\ Len(Sorted(S, key)) = Cardinality(S)
      /\ DOMAIN Sorted(S, key) = 1 .. Cardinality(S) /\ Cardinality(S) \in Nat
      /\ \A j, k \in 1 .. Cardinality(S) :
            j < k <=> key[Sorted(S, key)[j]] < key[Sorted(S, key)[k]]
      /\ \A x \in S : \E k \in 1 .. Cardinality(S) : Sorted(S, key)[k] = x
  <2>1. /\ Sorted(S, key) \in Seq(S) /\ Len(Sorted(S, key)) = Cardinality(S)
        /\ DOMAIN Sorted(S, key) = 1 .. Cardinality(S) /\ Cardinality(S) \in Nat
    BY <1>1, <1>4, SortedIs
  <2>2. \A j, k \in 1 .. Cardinality(S) :
          j < k <=> key[Sorted(S, key)[j]] < key[Sorted(S, key)[k]]
    BY <1>1, <1>4, SortedIs
  <2>3. \A x \in S : \E k \in 1 .. Cardinality(S) : Sorted(S, key)[k] = x
    BY <1>1, <1>4, SortedIs
  <2> QED
    BY <2>1, <2>2, <2>3
<1>7. PICK s : s = Sorted(S, key)
  OBVIOUS
<1>8. /\ s \in Seq(S) /\ Len(s) = Cardinality(S) /\ DOMAIN s = 1 .. Cardinality(S)
      /\ \A j, k \in 1 .. Cardinality(S) : j < k <=> key[s[j]] < key[s[k]]
      /\ \A x \in S : \E k \in 1 .. Cardinality(S) : s[k] = x
  BY <1>6, <1>7
<1>9. \A k \in DOMAIN s : s[k] \in S
  BY <1>8
<1>10. \A j, k \in DOMAIN s : j < k <=> name(s[j]) < name(s[k])
  BY <1>2, <1>8, <1>9
<1>11. s = ByName(S)
  BY <1>5, <1>7
<1>12. Tells(S, [o \in S |-> name(o)])
  BY <1>4 DEF key
<1> QED
  BY <1>1, <1>6, <1>8, <1>10, <1>11, <1>12

LEMMA FirstIs ==
    ASSUME NEW A, NEW s \in Seq(A)
    PROVE  /\ First(s) \in Seq(A) /\ Len(First(s)) \in Nat /\ DOMAIN First(s) = 1 .. Len(First(s))
           /\ Len(First(s)) <= CAP /\ Len(First(s)) <= Len(s)
           /\ \A k \in DOMAIN First(s) : k \in DOMAIN s /\ First(s)[k] = s[k]
           /\ \A k \in DOMAIN s : k <= CAP => k \in DOMAIN First(s)
<1> DEFINE m == IF Len(s) < CAP THEN Len(s) ELSE CAP
           f == SubSeq(s, 1, m)
<1>1. /\ Len(s) \in Nat /\ DOMAIN s = 1 .. Len(s) /\ CAP \in Nat
      /\ m \in Nat /\ m <= Len(s) /\ m <= CAP
  BY CatalogAssumption
<1>2. \A k \in DOMAIN s : k <= CAP => k <= m
  BY <1>1
<1>3. f = First(s)
  BY DEF First
<1> HIDE DEF m, f
<1>4. f \in Seq(A) /\ Len(f) = m
  <2>1. \A k \in 1 .. m : s[k] \in A
    BY <1>1
  <2> QED
    BY <1>1, <2>1, SubSeqProperties DEF f
<1>5. \A k \in 1 .. m : f[k] = s[k]
  BY <1>1 DEF f
<1>6. DOMAIN f = 1 .. m
  BY <1>4
<1> QED
  BY <1>1, <1>2, <1>3, <1>4, <1>5, <1>6

\* Listed: objects of the kind, asked for, of different names.
LEMMA ListedIs ==
    ASSUME TypeOK, Slots, NEW k
    PROVE  /\ Listed({k}) \in Seq(User({k})) /\ Len(Listed({k})) \in Nat
           /\ DOMAIN Listed({k}) = 1 .. Len(Listed({k}))
           /\ \A i \in DOMAIN Listed({k}) :
                 /\ Listed({k})[i] \in User({k}) /\ kind(Listed({k})[i]) = k
                 /\ Wanted(k, name(Listed({k})[i]))
           /\ \A i, j \in DOMAIN Listed({k}) :
                 name(Listed({k})[i]) = name(Listed({k})[j]) => i = j
<1> DEFINE S == User({k})
           all == ByName(S)
           first == First(all)
           places == {i \in DOMAIN first : should_extract(name(first[i]))}
           list == Chosen(first, places)
<1>1. S \in SUBSET db /\ \A o \in S : kind(o) \in {k} /\ o \in seen /\ ~ World[o].system
  BY DEF User, TypeOK, CatalogTypeOK
<1>2. list = Listed({k})
  BY DEF Listed, Asked, Where
<1> HIDE DEF S
<1>3. /\ all \in Seq(S) /\ DOMAIN all = 1 .. Cardinality(S) /\ Cardinality(S) \in Nat
      /\ \A i, j \in DOMAIN all : i < j <=> name(all[i]) < name(all[j])
  BY <1>1, RelationShares, ByNameIs
<1> HIDE DEF all
<1>4. /\ first \in Seq(S) /\ Len(first) \in Nat /\ DOMAIN first = 1 .. Len(first)
      /\ \A i \in DOMAIN first : i \in DOMAIN all /\ first[i] = all[i]
  BY <1>3, FirstIs
<1> HIDE DEF first
<1>5. places \in SUBSET DOMAIN first
  OBVIOUS
<1>6. \A i \in places : should_extract(name(first[i]))
  OBVIOUS
<1> HIDE DEF places
<1>7. list \in Seq(S) /\ Len(list) = Cardinality(places)
  BY <1>4, <1>5, ChosenIs
<1>8. PICK at : Picks(list, first, places, at)
  BY <1>4, <1>5, ChosenIs
<1> HIDE DEF list
<1>9. Len(list) \in Nat /\ DOMAIN list = 1 .. Len(list) /\ \A i \in DOMAIN list : list[i] \in S
  BY <1>7
<1>10. \A i \in DOMAIN list : should_extract(name(list[i]))
  BY <1>6, <1>8 DEF Picks
<1>11. ASSUME NEW i \in DOMAIN list, NEW j \in DOMAIN list, name(list[i]) = name(list[j])
       PROVE  i = j
  <2>1. at[i] \in DOMAIN all /\ at[j] \in DOMAIN all /\ list[i] = all[at[i]] /\ list[j] = all[at[j]]
    BY <1>4, <1>5, <1>8 DEF Picks
  <2>2. ~ (name(list[i]) < name(list[j])) /\ ~ (name(list[j]) < name(list[i]))
    <3>1. name(list[i]) \in Nat
      BY <1>1, <1>9, CatalogAssumption DEF TypeOK, CatalogTypeOK, name
    <3> QED
      BY <1>11, <3>1
  <2>3. ~ (at[i] < at[j]) /\ ~ (at[j] < at[i])
    BY <1>3, <2>1, <2>2
  <2>4. ~ (i < j) /\ ~ (j < i)
    BY <1>8, <2>3 DEF Picks
  <2> QED
    BY <1>9, <2>4
<1>12. \A i \in DOMAIN list : kind(list[i]) = k /\ Wanted(k, name(list[i]))
  BY <1>1, <1>9, <1>10 DEF Wanted
<1> QED
  BY <1>2, <1>7, <1>9, <1>11, <1>12 DEF S

LEMMA RowsAreSeq ==
    ASSUME NEW n \in Nat, NEW f, f = [i \in 1 .. n |-> f[i]]
    PROVE  (\E B : f \in Seq(B)) /\ DOMAIN f = 1 .. n /\ Len(f) = n
<1> DEFINE B == {f[i] : i \in 1 .. n}
<1>1. f \in [1 .. n -> B]
  OBVIOUS
<1> HIDE DEF B
<1>2. f \in Seq(B) /\ DOMAIN f = 1 .. n /\ Len(f) = n
  BY <1>1
<1> QED
  BY <1>2

LEMMA GoesIs ==
    ASSUME NEW items, NEW statements, Goes(items, statements)
    PROVE  UNCHANGED <<catalogVars, call>> /\ work' = items \o Rest /\ out' = out \o statements
  BY DEF Goes

\* An item that writes a statement for each object of a kind.
LEMMA KindRefines ==
    ASSUME TypeOK, Slots, NEW k \in Kind, NEW h, \A id : id[1] = k => Writes(h, id),
           NEW s, s = [i \in 1 .. Len(Listed({k})) |-> s[i]],
           \A i \in 1 .. Len(Listed({k})) : s[i].stmt = k /\ s[i].name = name(Listed({k})[i])
    PROVE  (\E B : s \in Seq(B)) /\ Refines(h, <<>>, s)
<1> DEFINE L == Listed({k})
<1>1. /\ Len(L) \in Nat /\ DOMAIN L = 1 .. Len(L)
      /\ \A i \in DOMAIN L : Wanted(k, name(L[i]))
      /\ \A i, j \in DOMAIN L : name(L[i]) = name(L[j]) => i = j
  BY ListedIs
<1>2. /\ s = [i \in 1 .. Len(L) |-> s[i]]
      /\ \A i \in 1 .. Len(L) : s[i].stmt = k /\ s[i].name = name(L[i])
  OBVIOUS
<1> HIDE DEF L
<1>3. (\E B : s \in Seq(B)) /\ DOMAIN s = 1 .. Len(L)
  BY <1>1, <1>2, RowsAreSeq
<1>4. k \notin {"key", "index"}
  BY DEF Kind
<1>5. ASSUME NEW i \in DOMAIN s
      PROVE  /\ What(s[i]) = k /\ Whose(s[i]) = name(L[i])
             /\ Id(s[i])[1] = k /\ Id(s[i])[3] = name(L[i])
  BY <1>2, <1>3, <1>4 DEF What, Whose, Id
<1>6. \A i \in DOMAIN s : Wanted(What(s[i]), Whose(s[i]))
  <2> SUFFICES ASSUME NEW i \in DOMAIN s
               PROVE  Wanted(What(s[i]), Whose(s[i]))
    OBVIOUS
  <2>1. Wanted(k, name(L[i]))
    BY <1>1, <1>3
  <2> QED
    BY <1>5, <2>1
<1>7. ASSUME NEW i \in DOMAIN s, NEW j \in DOMAIN s, i # j
      PROVE  Id(s[i]) # Id(s[j])
  <2>1. name(L[i]) # name(L[j])
    BY <1>1, <1>3, <1>7
  <2>2. Id(s[i])[3] = name(L[i]) /\ Id(s[j])[3] = name(L[j])
    BY <1>5
  <2> QED
    BY <2>1, <2>2
<1>8. \A i \in DOMAIN s : Writes(h, Id(s[i]))
  <2> SUFFICES ASSUME NEW i \in DOMAIN s
               PROVE  Writes(h, Id(s[i]))
    OBVIOUS
  <2>1. Id(s[i])[1] = k
    BY <1>5
  <2> QED
    BY <2>1
<1>9. DOMAIN <<>> = {}
  OBVIOUS
<1> QED
  BY <1>3, <1>6, <1>7, <1>8, <1>9 DEF Refines, Once

LEMMA OneRefines ==
    ASSUME NEW h, NEW s, Wanted(What(s), Whose(s)), Writes(h, Id(s))
    PROVE  <<s>> \in Seq({s}) /\ Refines(h, <<>>, <<s>>)
<1>1. DOMAIN <<>> = {} /\ DOMAIN <<s>> = {1} /\ <<s>>[1] = s /\ <<s>> \in Seq({s})
  OBVIOUS
<1> QED
  BY <1>1 DEF Refines, Once

LEMMA NoneRefines ==
    ASSUME NEW h
    PROVE  <<>> \in Seq({}) /\ Refines(h, <<>>, <<>>)
<1>1. DOMAIN <<>> = {} /\ <<>> \in Seq({})
  OBVIOUS
<1> QED
  BY <1>1 DEF Refines, Once

\* An item that gives way to items.
LEMMA ItemsRefine ==
    ASSUME NEW h, NEW items, NEW n \in Nat, DOMAIN items = 1 .. n,
           \A i \in 1 .. n : /\ items[i].op \in ExtractOps
                             /\ Owner(items[i]) # "none" => Wanted(Owner(items[i]), items[i].of)
                             /\ \A id : Writes(items[i], id) => Writes(h, id),
           \A i, j \in 1 .. n : i # j => Apart(items[i], items[j])
    PROVE  Refines(h, items, <<>>)
<1>1. DOMAIN <<>> = {}
  OBVIOUS
<1> QED
  BY <1>1 DEF Refines, Once

-----------------------------------------------------------------------------
\* The actions of an extraction, one by one.
Extracting == TypeOK /\ Slots /\ ExtractInv /\ call.tool = "extract"

LEMMA KindKeeps ==
    ASSUME Extracting, work # <<>>, NEW k \in Kind,
           \A id : id[1] = k => Writes(Head(work), id),
           NEW s, Goes(<<>>, s), s = [i \in 1 .. Len(Listed({k})) |-> s[i]],
           \A i \in 1 .. Len(Listed({k})) : s[i].stmt = k /\ s[i].name = name(Listed({k})[i])
    PROVE  ExtractInv'
<1>1. PICK h : h = Head(work)
  OBVIOUS
<1>2. PICK B : s \in Seq(B)
  BY <1>1, KindRefines DEF Extracting
<1>3. Refines(Head(work), <<>>, s)
  BY KindRefines DEF Extracting
<1>4. <<>> \in Seq({})
  OBVIOUS
<1> QED
  BY <1>2, <1>3, <1>4, GoesIs, RefinedKeeps DEF Extracting

LEMMA WholeIs ==
    /\ DOMAIN KindWritten = {"domains", "views", "sequences", "triggers", "procedures", "functions"}
    /\ KindWritten["domains"] = "domain" /\ KindWritten["views"] = "view"
    /\ KindWritten["sequences"] = "sequence" /\ KindWritten["triggers"] = "trigger"
    /\ KindWritten["procedures"] = "procedure" /\ KindWritten["functions"] = "function"
    /\ DOMAIN PartWritten = {"columns", "constraints", "indexes", "params", "procedure", "returns"}
    /\ PartWritten["columns"] = "table" /\ PartWritten["constraints"] = "key"
    /\ PartWritten["indexes"] = "index"
    /\ PartWritten["params"] = "procedure" /\ PartWritten["procedure"] = "procedure"
    /\ PartWritten["returns"] = "function"
  BY DEF KindWritten, PartWritten

LEMMA KindsKeep ==
    ASSUME Extracting,
           extract_domains \/ extract_views \/ extract_sequences \/ extract_triggers
    PROVE  ExtractInv'
<1>1. CASE extract_domains
  <2>1. work # <<>> /\ \A id : id[1] = "domain" => Writes(Head(work), id)
    BY <1>1, WholeIs DEF extract_domains, At, Writes
  <2> DEFINE s == ForEach(Listed({"domain"}), DomainStmt)
  <2>2. Goes(<<>>, s)
    BY <1>1 DEF extract_domains
  <2>3. /\ s = [i \in 1 .. Len(Listed({"domain"})) |-> s[i]]
        /\ \A i \in 1 .. Len(Listed({"domain"})) :
              s[i].stmt = "domain" /\ s[i].name = name(Listed({"domain"})[i])
    BY DEF ForEach, DomainStmt
  <2> HIDE DEF s
  <2> QED
    BY <2>1, <2>2, <2>3, KindKeeps DEF Kind
<1>2. CASE extract_views
  <2>1. work # <<>> /\ \A id : id[1] = "view" => Writes(Head(work), id)
    BY <1>2, WholeIs DEF extract_views, At, Writes
  <2> DEFINE s == ForEach(Listed({"view"}), ViewStmt)
  <2>2. Goes(<<>>, s)
    BY <1>2 DEF extract_views
  <2>3. /\ s = [i \in 1 .. Len(Listed({"view"})) |-> s[i]]
        /\ \A i \in 1 .. Len(Listed({"view"})) :
              s[i].stmt = "view" /\ s[i].name = name(Listed({"view"})[i])
    BY DEF ForEach, ViewStmt
  <2> HIDE DEF s
  <2> QED
    BY <2>1, <2>2, <2>3, KindKeeps DEF Kind
<1>3. CASE extract_sequences
  <2>1. work # <<>> /\ \A id : id[1] = "sequence" => Writes(Head(work), id)
    BY <1>3, WholeIs DEF extract_sequences, At, Writes
  <2> DEFINE s == ForEach(Listed({"sequence"}), SequenceStmt)
  <2>2. Goes(<<>>, s)
    BY <1>3 DEF extract_sequences
  <2>3. /\ s = [i \in 1 .. Len(Listed({"sequence"})) |-> s[i]]
        /\ \A i \in 1 .. Len(Listed({"sequence"})) :
              s[i].stmt = "sequence" /\ s[i].name = name(Listed({"sequence"})[i])
    BY DEF ForEach, SequenceStmt
  <2> HIDE DEF s
  <2> QED
    BY <2>1, <2>2, <2>3, KindKeeps DEF Kind
<1>4. CASE extract_triggers
  <2>1. work # <<>> /\ \A id : id[1] = "trigger" => Writes(Head(work), id)
    BY <1>4, WholeIs DEF extract_triggers, At, Writes
  <2> DEFINE s == ForEach(Listed({"trigger"}), TriggerStmt)
  <2>2. Goes(<<>>, s)
    BY <1>4 DEF extract_triggers
  <2>3. /\ s = [i \in 1 .. Len(Listed({"trigger"})) |-> s[i]]
        /\ \A i \in 1 .. Len(Listed({"trigger"})) :
              s[i].stmt = "trigger" /\ s[i].name = name(Listed({"trigger"})[i])
    BY DEF ForEach, TriggerStmt
  <2> HIDE DEF s
  <2> QED
    BY <2>1, <2>2, <2>3, KindKeeps DEF Kind
<1> QED
  BY <1>1, <1>2, <1>3, <1>4

LEMMA OneKeeps ==
    ASSUME Extracting, work # <<>>, NEW s, Goes(<<>>, <<s>>),
           Wanted(What(s), Whose(s)), Writes(Head(work), Id(s))
    PROVE  ExtractInv'
<1>1. <<s>> \in Seq({s}) /\ Refines(Head(work), <<>>, <<s>>)
  BY OneRefines
<1>2. <<>> \in Seq({})
  OBVIOUS
<1> QED
  BY <1>1, <1>2, GoesIs, RefinedKeeps DEF Extracting

\* The head of the work is of an object that was asked for.
LEMMA HeadWanted ==
    ASSUME Extracting, work # <<>>, NEW k, Owner(Head(work)) = k, k # "none"
    PROVE  Wanted(k, Of)
<1>1. PICK A : work \in Seq(A)
  BY DEF Extracting, ExtractInv, Pending
<1>2. 1 \in DOMAIN work /\ Head(work) = work[1]
  BY <1>1
<1> QED
  BY <1>2 DEF Extracting, ExtractInv, Pending, Of

LEMMA OnesKeep ==
    ASSUME Extracting,
           table_columns \/ table_key \/ foreign_key \/ procedure_header \/ function_returns
    PROVE  ExtractInv'
<1>1. CASE table_columns
  <2> DEFINE s == [stmt |-> "table", name |-> Of, cols |-> ForEach(Columns(Of), ColumnDef)]
  <2>1. work # <<>> /\ Head(work).op = "columns" /\ Goes(<<>>, <<s>>)
    BY <1>1 DEF table_columns, At
  <2>2. What(s) = "table" /\ Whose(s) = Of /\ Id(s)[1] = "table" /\ Id(s)[2] = Of
    BY DEF What, Whose, Id
  <2>3. Writes(Head(work), Id(s)) /\ Owner(Head(work)) = "table"
    BY <2>1, <2>2, WholeIs DEF Writes, Owner, Of
  <2> HIDE DEF s
  <2> QED
    BY <2>1, <2>2, <2>3, HeadWanted, OneKeeps
<1>2. CASE table_key \/ foreign_key
  <2>1. PICK r : Goes(<<>>, <<KeyStmt(r)>>)
    BY <1>2 DEF table_key, foreign_key
  <2> DEFINE s == KeyStmt(r)
  <2>2. work # <<>> /\ Head(work).op \in {"key", "foreign_key"} /\ Goes(<<>>, <<s>>)
    BY <1>2, <2>1 DEF table_key, foreign_key, At
  <2>3. What(s) = "table" /\ Whose(s) = Of
        /\ Id(s)[1] = "key" /\ Id(s)[2] = Of /\ Id(s)[3] = Row.name
    BY DEF What, Whose, Id, KeyStmt
  <2>4. Writes(Head(work), Id(s)) /\ Owner(Head(work)) = "table"
    BY <2>2, <2>3, WholeIs DEF Writes, Owner, Of, Row
  <2> HIDE DEF s
  <2> QED
    BY <2>2, <2>3, <2>4, HeadWanted, OneKeeps
<1>3. CASE procedure_header
  <2> DEFINE s == [stmt |-> "procedure", name |-> Of, uses |-> Row,
                   ins |-> Where(part, LAMBDA p : ~ p.out),
                   outs |-> Where(part, LAMBDA p : p.out)]
  <2>1. work # <<>> /\ Head(work).op = "procedure" /\ Goes(<<>>, <<s>>)
    BY <1>3 DEF procedure_header, At
  <2>2. What(s) = "procedure" /\ Whose(s) = Of /\ Id(s)[1] = "procedure" /\ Id(s)[2] = Of
    BY DEF What, Whose, Id
  <2>3. Writes(Head(work), Id(s)) /\ Owner(Head(work)) = "procedure"
    BY <2>1, <2>2, WholeIs DEF Writes, Owner, Of
  <2> HIDE DEF s
  <2> QED
    BY <2>1, <2>2, <2>3, HeadWanted, OneKeeps
<1>4. CASE function_returns
  <2>1. PICK t : Goes(<<>>, <<FunctionStmt(t)>>)
    BY <1>4 DEF function_returns
  <2> DEFINE s == FunctionStmt(t)
  <2>2. work # <<>> /\ Head(work).op = "returns" /\ Goes(<<>>, <<s>>)
    BY <1>4, <2>1 DEF function_returns, At
  <2>3. What(s) = "function" /\ Whose(s) = Of /\ Id(s)[1] = "function" /\ Id(s)[2] = Of
    BY DEF What, Whose, Id, FunctionStmt
  <2>4. Writes(Head(work), Id(s)) /\ Owner(Head(work)) = "function"
    BY <2>2, <2>3, WholeIs DEF Writes, Owner, Of
  <2> HIDE DEF s
  <2> QED
    BY <2>2, <2>3, <2>4, HeadWanted, OneKeeps
<1> QED
  BY <1>1, <1>2, <1>3, <1>4

LEMMA ItemsKeep ==
    ASSUME Extracting, work # <<>>, NEW A, NEW items \in Seq(A), Goes(items, <<>>),
           Refines(Head(work), items, <<>>)
    PROVE  ExtractInv'
<1>1. <<>> \in Seq({})
  OBVIOUS
<1> QED
  BY <1>1, GoesIs, RefinedKeeps DEF Extracting

LEMMA NonesKeep ==
    ASSUME Extracting, resolve_domain_type \/ function_arguments
    PROVE  ExtractInv'
<1>1. work # <<>> /\ Goes(<<>>, <<>>)
  BY DEF resolve_domain_type, function_arguments, At
<1>2. <<>> \in Seq({}) /\ Refines(Head(work), <<>>, <<>>)
  BY NoneRefines
<1> QED
  BY <1>1, <1>2, ItemsKeep

LEMMA FailureKeeps ==
    ASSUME Extracting, function_fails
    PROVE  ExtractInv'
<1>1. work # <<>> /\ work' = Rest /\ UNCHANGED <<catalogVars, call>>
  BY DEF function_fails, At
<1>2. PICK A, B : work \in Seq(A) /\ out \in Seq(B)
  BY DEF Extracting, ExtractInv, Pending, Written
<1>3. Rest = <<>> \o Rest /\ <<>> \in Seq({})
  BY <1>1, <1>2 DEF Rest
<1>4. CASE out' = out
  <2>1. out = out \o <<>>
    BY <1>2
  <2> QED
    BY <1>1, <1>3, <1>4, <2>1, NoneRefines, RefinedKeeps DEF Extracting
<1>5. CASE At("returns") /\ out' = Append(out, FunctionStmt(Integer))
  <2> DEFINE s == FunctionStmt(Integer)
  <2>1. Head(work).op = "returns" /\ out' = out \o <<s>>
    BY <1>2, <1>5 DEF At
  <2>2. What(s) = "function" /\ Whose(s) = Of /\ Id(s)[1] = "function" /\ Id(s)[2] = Of
    BY DEF What, Whose, Id, FunctionStmt
  <2>3. Writes(Head(work), Id(s)) /\ Owner(Head(work)) = "function"
    BY <2>1, <2>2, WholeIs DEF Writes, Owner, Of
  <2> HIDE DEF s
  <2>4. Wanted("function", Of)
    BY <1>1, <2>3, HeadWanted
  <2>5. <<s>> \in Seq({s}) /\ Refines(Head(work), <<>>, <<s>>)
    BY <2>2, <2>3, <2>4, OneRefines
  <2> QED
    BY <1>1, <1>3, <2>1, <2>5, RefinedKeeps DEF Extracting
<1> QED
  BY <1>4, <1>5 DEF function_fails

\* One list of items for each listed object.
LEMMA EachIs ==
    ASSUME TypeOK, Slots, NEW k, NEW h,
           NEW ss, ss = [i \in 1 .. Len(Listed({k})) |-> ss[i]],
           NEW X, \A i \in 1 .. Len(Listed({k})) : ss[i] \in Seq(X),
           \A i \in 1 .. Len(Listed({k})) : \A j \in DOMAIN ss[i] :
              /\ ss[i][j].op \in ExtractOps /\ ss[i][j].of = name(Listed({k})[i])
              /\ Owner(ss[i][j]) \in {k, "none"}
              /\ \A id : Writes(ss[i][j], id) => Writes(h, id) /\ id[2] = ss[i][j].of,
           \A i \in 1 .. Len(Listed({k})) : \A j, l \in DOMAIN ss[i] :
              j # l => Apart(ss[i][j], ss[i][l])
    PROVE  FlattenSeq(ss) \in Seq(X) /\ Refines(h, FlattenSeq(ss), <<>>)
<1> DEFINE L == Listed({k})
           n == Len(L)
           items == FlattenSeq(ss)
<1>1. /\ n \in Nat /\ DOMAIN L = 1 .. n
      /\ \A i \in DOMAIN L : Wanted(k, name(L[i]))
      /\ \A i, j \in DOMAIN L : name(L[i]) = name(L[j]) => i = j
  BY ListedIs
<1>2. /\ ss = [i \in 1 .. n |-> ss[i]]
      /\ \A i \in 1 .. n : ss[i] \in Seq(X)
      /\ \A i \in 1 .. n : \A j \in DOMAIN ss[i] :
            /\ ss[i][j].op \in ExtractOps /\ ss[i][j].of = name(L[i])
            /\ Owner(ss[i][j]) \in {k, "none"}
            /\ \A id : Writes(ss[i][j], id) => Writes(h, id) /\ id[2] = ss[i][j].of
      /\ \A i \in 1 .. n : \A j, l \in DOMAIN ss[i] : j # l => Apart(ss[i][j], ss[i][l])
  OBVIOUS
<1> HIDE DEF n, L
<1>3. DOMAIN ss = 1 .. n /\ Len(ss) = n
  BY <1>1, <1>2, RowsAreSeq
<1>4. items \in Seq(X)
  BY <1>1, <1>2, <1>3, FlattenIs
<1>5. PICK at : Joins(items, ss, n, at)
  BY <1>1, <1>2, <1>3, FlattenIs
<1> HIDE DEF items
<1>6. ASSUME NEW p \in DOMAIN items
      PROVE  /\ at[p][1] \in 1 .. n /\ at[p][2] \in DOMAIN ss[at[p][1]]
             /\ items[p] = ss[at[p][1]][at[p][2]]
  BY <1>5 DEF Joins
<1>7. ASSUME NEW p \in DOMAIN items
      PROVE  /\ items[p].op \in ExtractOps
             /\ Owner(items[p]) # "none" => Wanted(Owner(items[p]), items[p].of)
             /\ \A id : Writes(items[p], id) => Writes(h, id)
  <2>1. PICK i \in 1 .. n : \E j \in DOMAIN ss[i] : items[p] = ss[i][j]
    BY <1>6
  <2>2. PICK j \in DOMAIN ss[i] : items[p] = ss[i][j]
    BY <2>1
  <2>3. Wanted(k, name(L[i]))
    BY <1>1
  <2>4. PICK e : e = ss[i][j]
    OBVIOUS
  <2>5. /\ e.op \in ExtractOps /\ e.of = name(L[i]) /\ Owner(e) \in {k, "none"}
        /\ \A id : Writes(e, id) => Writes(h, id)
    BY <1>2, <2>4
  <2>6. items[p] = e
    BY <2>2, <2>4
  <2> HIDE DEF Owner
  <2> QED
    BY <2>3, <2>5, <2>6
<1>8. ASSUME NEW p \in DOMAIN items, NEW q \in DOMAIN items, p # q
      PROVE  Apart(items[p], items[q])
  <2>1. DOMAIN items \subseteq Nat /\ at \in [DOMAIN items -> (1 .. n) \X Nat]
    BY <1>4, <1>5 DEF Joins
  <2>2. p < q \/ q < p
    BY <1>8, <2>1
  <2>3. PICK i \in 1 .. n, j \in Nat : at[p] = <<i, j>>
    BY <2>1
  <2>4. PICK u \in 1 .. n, v \in Nat : at[q] = <<u, v>>
    BY <2>1
  <2>5. i # u \/ j # v
    BY <1>5, <2>2, <2>3, <2>4, <1>1 DEF Joins
  <2>6. j \in DOMAIN ss[i] /\ items[p] = ss[i][j] /\ v \in DOMAIN ss[u] /\ items[q] = ss[u][v]
    <3>1. at[p][1] = i /\ at[p][2] = j /\ at[q][1] = u /\ at[q][2] = v
      BY <2>3, <2>4
    <3> QED
      BY <1>6, <3>1
  <2>7. CASE i = u
    BY <1>2, <2>5, <2>6, <2>7
  <2>8. CASE i # u
    <3>1. name(L[i]) # name(L[u])
      BY <1>1, <2>8
    <3>2. PICK e, f : e = ss[i][j] /\ f = ss[u][v]
      OBVIOUS
    <3>3. e.of = name(L[i]) /\ f.of = name(L[u])
      BY <1>2, <2>6, <3>2
    <3>4. (\A id : Writes(e, id) => id[2] = e.of) /\ (\A id : Writes(f, id) => id[2] = f.of)
      BY <1>2, <2>6, <3>2
    <3>5. Apart(e, f)
      BY <3>1, <3>3, <3>4 DEF Apart
    <3> QED
      BY <2>6, <3>2, <3>5
  <2> QED
    BY <2>7, <2>8
<1>9. DOMAIN items = 1 .. Len(items) /\ Len(items) \in Nat
  BY <1>4
<1>10. Refines(h, items, <<>>)
  BY <1>7, <1>8, <1>9, ItemsRefine
<1> QED
  BY <1>4, <1>10 DEF items

LEMMA ThreeIs ==
    ASSUME NEW a, NEW b, NEW c
    PROVE  /\ <<a, b, c>> \in Seq({a, b, c}) /\ DOMAIN <<a, b, c>> = {1, 2, 3}
           /\ <<a, b, c>>[1] = a /\ <<a, b, c>>[2] = b /\ <<a, b, c>>[3] = c
  OBVIOUS

LEMMA ItemIs ==
    ASSUME NEW op, NEW n, NEW r
    PROVE  Item(op, n, r).op = op /\ Item(op, n, r).of = n /\ Item(op, n, r).row = r
  BY DEF Item

LEMMA TablesKeep ==
    ASSUME Extracting, extract_tables
    PROVE  ExtractInv'
<1> DEFINE L == Listed({"table"})
           three(o) == <<Item("columns", name(o), <<>>), Item("constraints", name(o), <<>>),
                         Item("indexes", name(o), <<>>)>>
           ss == ForEach(L, three)
           X == UNION {{three(L[i])[j] : j \in {1, 2, 3}} : i \in 1 .. Len(L)}
           h == Head(work)
<1>1. work # <<>> /\ h.op = "tables" /\ Goes(FlattenSeq(ss), <<>>)
  BY DEF extract_tables, At
<1>2. ss = [i \in 1 .. Len(L) |-> ss[i]] /\ \A i \in 1 .. Len(L) : ss[i] = three(L[i])
  BY DEF ForEach
<1>3. ASSUME NEW i \in 1 .. Len(L)
      PROVE  /\ three(L[i]) \in Seq(X)
             /\ \A j \in DOMAIN three(L[i]) :
                   /\ three(L[i])[j].op \in ExtractOps /\ three(L[i])[j].of = name(L[i])
                   /\ Owner(three(L[i])[j]) \in {"table", "none"}
                   /\ \A id : Writes(three(L[i])[j], id) =>
                               Writes(h, id) /\ id[2] = three(L[i])[j].of
             /\ \A j, l \in DOMAIN three(L[i]) : j # l => Apart(three(L[i])[j], three(L[i])[l])
  <2> DEFINE t == three(L[i])
             n == name(L[i])
             a == Item("columns", n, <<>>)
             b == Item("constraints", n, <<>>)
             c == Item("indexes", n, <<>>)
  <2>1. t = <<a, b, c>>
    OBVIOUS
  <2>2. DOMAIN t = {1, 2, 3} /\ t[1] = a /\ t[2] = b /\ t[3] = c
    BY <2>1, ThreeIs
  <2>3. /\ a.op = "columns" /\ b.op = "constraints" /\ c.op = "indexes"
        /\ a.of = n /\ b.of = n /\ c.of = n
    BY ItemIs
  <2>4. a \in X /\ b \in X /\ c \in X
    BY <2>2
  <2> HIDE DEF X, a, b, c, t, n
  <2>5. t \in Seq(X)
    BY <2>1, <2>4
  <2>6. /\ \A id : Writes(a, id) <=> id[1] = "table" /\ id[2] = n
        /\ \A id : Writes(b, id) <=> id[1] = "key" /\ id[2] = n
        /\ \A id : Writes(c, id) <=> id[1] = "index" /\ id[2] = n
        /\ \A id : Writes(h, id) <=> id[1] \in {"table", "key", "index"}
    <3>1. \A id : Writes(a, id) <=> id[1] = "table" /\ id[2] = n
      BY <2>3, WholeIs DEF Writes
    <3>2. \A id : Writes(b, id) <=> id[1] = "key" /\ id[2] = n
      BY <2>3, WholeIs DEF Writes
    <3>3. \A id : Writes(c, id) <=> id[1] = "index" /\ id[2] = n
      BY <2>3, WholeIs DEF Writes
    <3>4. \A id : Writes(h, id) <=> id[1] \in {"table", "key", "index"}
      BY <1>1, WholeIs DEF Writes
    <3> QED
      BY <3>1, <3>2, <3>3, <3>4
  <2>7. Owner(a) = "table" /\ Owner(b) = "table" /\ Owner(c) = "table"
    BY <2>3 DEF Owner
  <2>8. Apart(a, b) /\ Apart(b, c) /\ Apart(a, c) /\ Apart(b, a) /\ Apart(c, b) /\ Apart(c, a)
    BY <2>6 DEF Apart
  <2>9. \A j \in DOMAIN t :
           /\ t[j].op \in ExtractOps /\ t[j].of = n
           /\ Owner(t[j]) \in {"table", "none"}
           /\ \A id : Writes(t[j], id) => Writes(h, id) /\ id[2] = t[j].of
    <3> SUFFICES ASSUME NEW j \in DOMAIN t
                 PROVE  /\ t[j].op \in ExtractOps /\ t[j].of = n
                        /\ Owner(t[j]) \in {"table", "none"}
                        /\ \A id : Writes(t[j], id) => Writes(h, id) /\ id[2] = t[j].of
      OBVIOUS
    <3>1. PICK e \in {a, b, c} : t[j] = e
      BY <2>2
    <3>2. e.op \in ExtractOps /\ e.of = n /\ Owner(e) \in {"table", "none"}
      BY <2>3, <2>7 DEF ExtractOps
    <3>3. \A id : Writes(e, id) => Writes(h, id) /\ id[2] = e.of
      BY <2>3, <2>6
    <3> QED
      BY <3>1, <3>2, <3>3
  <2>10. \A j, l \in DOMAIN t : j # l => Apart(t[j], t[l])
    BY <2>2, <2>8
  <2> QED
    BY <2>5, <2>9, <2>10 DEF t, n
<1> HIDE DEF three, X, ss
<1>4. /\ \A i \in 1 .. Len(L) : ss[i] \in Seq(X)
      /\ \A i \in 1 .. Len(L) : \A j \in DOMAIN ss[i] :
            /\ ss[i][j].op \in ExtractOps /\ ss[i][j].of = name(L[i])
            /\ Owner(ss[i][j]) \in {"table", "none"}
            /\ \A id : Writes(ss[i][j], id) => Writes(h, id) /\ id[2] = ss[i][j].of
      /\ \A i \in 1 .. Len(L) : \A j, l \in DOMAIN ss[i] : j # l => Apart(ss[i][j], ss[i][l])
  BY <1>2, <1>3
<1>5. FlattenSeq(ss) \in Seq(X) /\ Refines(h, FlattenSeq(ss), <<>>)
  BY <1>2, <1>4, EachIs DEF Extracting
<1> QED
  BY <1>1, <1>5, ItemsKeep

LEMMA TwoIs ==
    ASSUME NEW a, NEW b
    PROVE  /\ <<a, b>> \in Seq({a, b}) /\ DOMAIN <<a, b>> = {1, 2}
           /\ <<a, b>>[1] = a /\ <<a, b>>[2] = b
  OBVIOUS

LEMMA FunctionsKeep ==
    ASSUME Extracting, extract_functions
    PROVE  ExtractInv'
<1> DEFINE L == Listed({"function"})
           two(o) == <<Item("arguments", name(o), <<>>), Item("returns", name(o), Needs(o))>>
           ss == ForEach(L, two)
           X == UNION {{two(L[i])[j] : j \in {1, 2}} : i \in 1 .. Len(L)}
           h == Head(work)
<1>1. work # <<>> /\ h.op = "functions" /\ Goes(FlattenSeq(ss), <<>>)
  BY DEF extract_functions, At
<1>2. ss = [i \in 1 .. Len(L) |-> ss[i]] /\ \A i \in 1 .. Len(L) : ss[i] = two(L[i])
  BY DEF ForEach
<1>3. ASSUME NEW i \in 1 .. Len(L)
      PROVE  /\ two(L[i]) \in Seq(X)
             /\ \A j \in DOMAIN two(L[i]) :
                   /\ two(L[i])[j].op \in ExtractOps /\ two(L[i])[j].of = name(L[i])
                   /\ Owner(two(L[i])[j]) \in {"function", "none"}
                   /\ \A id : Writes(two(L[i])[j], id) => Writes(h, id) /\ id[2] = two(L[i])[j].of
             /\ \A j, l \in DOMAIN two(L[i]) : j # l => Apart(two(L[i])[j], two(L[i])[l])
  <2> DEFINE t == two(L[i])
             n == name(L[i])
             a == Item("arguments", n, <<>>)
             b == Item("returns", n, Needs(L[i]))
  <2>1. t = <<a, b>>
    OBVIOUS
  <2>2. DOMAIN t = {1, 2} /\ t[1] = a /\ t[2] = b
    BY <2>1, TwoIs
  <2>3. a.op = "arguments" /\ b.op = "returns" /\ a.of = n /\ b.of = n
    BY ItemIs
  <2>4. a \in X /\ b \in X
    BY <2>2
  <2> HIDE DEF X, a, b, t, n
  <2>5. t \in Seq(X)
    BY <2>1, <2>4
  <2>6. /\ \A id : ~ Writes(a, id)
        /\ \A id : Writes(b, id) <=> id[1] = "function" /\ id[2] = n
        /\ \A id : Writes(h, id) <=> id[1] = "function"
    BY <1>1, <2>3, WholeIs DEF Writes
  <2>7. Owner(a) = "function" /\ Owner(b) = "function"
    BY <2>3 DEF Owner
  <2>8. Apart(a, b) /\ Apart(b, a)
    BY <2>6 DEF Apart
  <2>9. \A j \in DOMAIN t :
           /\ t[j].op \in ExtractOps /\ t[j].of = n
           /\ Owner(t[j]) \in {"function", "none"}
           /\ \A id : Writes(t[j], id) => Writes(h, id) /\ id[2] = t[j].of
    <3> SUFFICES ASSUME NEW j \in DOMAIN t
                 PROVE  /\ t[j].op \in ExtractOps /\ t[j].of = n
                        /\ Owner(t[j]) \in {"function", "none"}
                        /\ \A id : Writes(t[j], id) => Writes(h, id) /\ id[2] = t[j].of
      OBVIOUS
    <3>1. PICK e \in {a, b} : t[j] = e
      BY <2>2
    <3>2. e.op \in ExtractOps /\ e.of = n /\ Owner(e) \in {"function", "none"}
      BY <2>3, <2>7 DEF ExtractOps
    <3>3. \A id : Writes(e, id) => Writes(h, id) /\ id[2] = e.of
      BY <2>3, <2>6
    <3> QED
      BY <3>1, <3>2, <3>3
  <2>10. \A j, l \in DOMAIN t : j # l => Apart(t[j], t[l])
    BY <2>2, <2>8
  <2> QED
    BY <2>5, <2>9, <2>10 DEF t, n
<1> HIDE DEF two, X, ss
<1>4. /\ \A i \in 1 .. Len(L) : ss[i] \in Seq(X)
      /\ \A i \in 1 .. Len(L) : \A j \in DOMAIN ss[i] :
            /\ ss[i][j].op \in ExtractOps /\ ss[i][j].of = name(L[i])
            /\ Owner(ss[i][j]) \in {"function", "none"}
            /\ \A id : Writes(ss[i][j], id) => Writes(h, id) /\ id[2] = ss[i][j].of
      /\ \A i \in 1 .. Len(L) : \A j, l \in DOMAIN ss[i] : j # l => Apart(ss[i][j], ss[i][l])
  BY <1>2, <1>3
<1>5. FlattenSeq(ss) \in Seq(X) /\ Refines(h, FlattenSeq(ss), <<>>)
  BY <1>2, <1>4, EachIs DEF Extracting
<1> QED
  BY <1>1, <1>5, ItemsKeep

LEMMA ProceduresKeep ==
    ASSUME Extracting, extract_procedures
    PROVE  ExtractInv'
<1> DEFINE L == Listed({"procedure"})
           items == Routines("procedure", "params")
           h == Head(work)
<1>1. work # <<>> /\ h.op = "procedures" /\ Goes(items, <<>>)
  BY DEF extract_procedures, At
<1>2. /\ Len(L) \in Nat /\ DOMAIN L = 1 .. Len(L)
      /\ \A i \in DOMAIN L : Wanted("procedure", name(L[i]))
      /\ \A i, j \in DOMAIN L : name(L[i]) = name(L[j]) => i = j
  BY ListedIs DEF Extracting
<1>3. /\ items = [i \in 1 .. Len(L) |-> items[i]]
      /\ \A i \in 1 .. Len(L) : items[i] = Item("params", name(L[i]), Needs(L[i]))
  BY DEF Routines, ForEach
<1> HIDE DEF items, L
<1>4. PICK A : items \in Seq(A)
  BY <1>2, <1>3, RowsAreSeq
<1>5. DOMAIN items = 1 .. Len(L)
  BY <1>3
<1>6. \A i \in 1 .. Len(L) : items[i].op = "params" /\ items[i].of = name(L[i])
  BY <1>3, ItemIs
<1>7. \A i \in 1 .. Len(L) : Owner(items[i]) = "procedure"
  BY <1>6 DEF Owner
<1>8. /\ \A id : Writes(h, id) <=> id[1] = "procedure"
      /\ \A i \in 1 .. Len(L) : \A id :
            Writes(items[i], id) <=> id[1] = "procedure" /\ id[2] = name(L[i])
  BY <1>1, <1>6, WholeIs DEF Writes
<1>9. \A i \in 1 .. Len(L) : Wanted("procedure", name(L[i]))
  BY <1>2
<1>10. \A i, j \in 1 .. Len(L) : i # j => name(L[i]) # name(L[j])
  BY <1>2
<1>11. \A i, j \in 1 .. Len(L) : i # j => Apart(items[i], items[j])
  BY <1>8, <1>10 DEF Apart
<1>12. \A i \in 1 .. Len(L) :
          /\ items[i].op \in ExtractOps
          /\ Owner(items[i]) # "none" => Wanted(Owner(items[i]), items[i].of)
          /\ \A id : Writes(items[i], id) => Writes(h, id)
  BY <1>6, <1>7, <1>8, <1>9 DEF ExtractOps
<1> HIDE DEF h
<1>13. Refines(h, items, <<>>)
  BY <1>2, <1>5, <1>11, <1>12, ItemsRefine
<1> QED
  BY <1>1, <1>4, <1>13, ItemsKeep DEF h

\* The parameters that a procedure has.
LEMMA ParamsAre ==
    ASSUME TypeOK, NEW n
    PROVE  Params(n) \in Seq(ParamData)
<1>1. CASE Called({"procedure"}, n) = {}
  BY <1>1 DEF Params
<1>2. CASE Called({"procedure"}, n) # {}
  <2>1. The(Called({"procedure"}, n)) \in Called({"procedure"}, n)
    BY <1>2 DEF The
  <2> QED
    BY <1>2, <2>1, WorldAssumption DEF Params, Called, User, TypeOK, CatalogTypeOK
<1> QED
  BY <1>1, <1>2

LEMMA ParamsKeep ==
    ASSUME Extracting, procedure_params
    PROVE  ExtractInv'
<1> DEFINE ps == Params(Of)
           ItemOf(p) == Item(IF p.source = 0 THEN "plain_param" ELSE "param", Of, p)
           a == ForEach(ps, ItemOf)
           last == Item("procedure", Of, Row)
           items == a \o <<last>>
           h == Head(work)
<1>1. work # <<>> /\ h.op = "params" /\ h.of = Of /\ Goes(items, <<>>)
  BY DEF procedure_params, At, Of
<1>2. Wanted("procedure", Of)
  BY <1>1, HeadWanted DEF Owner
<1>3. /\ Len(ps) \in Nat /\ a = [i \in 1 .. Len(ps) |-> a[i]]
      /\ \A i \in 1 .. Len(ps) : a[i] = ItemOf(ps[i])
  BY ParamsAre DEF ForEach, Extracting
<1>4. \A i \in 1 .. Len(ps) : a[i].op \in {"plain_param", "param"} /\ a[i].of = Of
  <2>1. \A p : ItemOf(p).op \in {"plain_param", "param"} /\ ItemOf(p).of = Of
    BY DEF Item
  <2> HIDE DEF a, ItemOf
  <2> QED
    BY <1>3, <2>1
<1>5. last.op = "procedure" /\ last.of = Of
  BY ItemIs
<1> HIDE DEF a, ItemOf, last, ps
<1>6. PICK A : a \in Seq(A)
  BY <1>3, RowsAreSeq
<1>7. Len(a) = Len(ps) /\ <<last>> \in Seq({last}) /\ DOMAIN <<last>> = {1} /\ <<last>>[1] = last
  BY <1>3
<1>8. PICK i : i = items
  OBVIOUS
<1>9. /\ i \in Seq(A \cup {last}) /\ Len(i) = Len(a) + 1
      /\ \A k \in DOMAIN i : \/ k \in DOMAIN a /\ i[k] = a[k]
                             \/ k - Len(a) = 1 /\ i[k] = last
  <2>1. Len(<<last>>) = 1
    OBVIOUS
  <2> QED
    BY <1>6, <1>7, <1>8, <2>1, AppendedIs
<1>10. DOMAIN a = 1 .. Len(ps)
  BY <1>3
<1>11. /\ \A id : Writes(h, id) <=> id[1] = "procedure" /\ id[2] = Of
       /\ \A id : Writes(last, id) <=> id[1] = "procedure" /\ id[2] = Of
       /\ \A k \in DOMAIN a : \A id : ~ Writes(a[k], id)
  BY <1>1, <1>4, <1>5, <1>10, WholeIs DEF Writes
<1>12. Owner(last) = "procedure" /\ \A k \in DOMAIN a : Owner(a[k]) = "procedure"
  BY <1>4, <1>5, <1>10 DEF Owner
<1>13. \A k \in DOMAIN i :
          /\ i[k].op \in ExtractOps
          /\ Owner(i[k]) # "none" => Wanted(Owner(i[k]), i[k].of)
          /\ \A id : Writes(i[k], id) => Writes(h, id)
  BY <1>2, <1>4, <1>5, <1>9, <1>10, <1>11, <1>12 DEF ExtractOps
<1>14. \A j, k \in DOMAIN i : j # k => Apart(i[j], i[k])
  <2> SUFFICES ASSUME NEW j \in DOMAIN i, NEW k \in DOMAIN i, j # k
               PROVE  Apart(i[j], i[k])
    OBVIOUS
  <2>1. DOMAIN i \subseteq Nat /\ Len(a) \in Nat
    BY <1>6, <1>9
  <2>2. (j \in DOMAIN a /\ i[j] = a[j]) \/ (k \in DOMAIN a /\ i[k] = a[k])
    BY <1>9, <2>1
  <2> QED
    BY <1>11, <2>2 DEF Apart
<1>15. DOMAIN i = 1 .. Len(i) /\ Len(i) \in Nat
  BY <1>9
<1> HIDE DEF h
<1>16. Refines(h, i, <<>>)
  BY <1>13, <1>14, <1>15, ItemsRefine
<1> HIDE DEF items
<1> QED
  BY <1>1, <1>8, <1>9, <1>16, ItemsKeep DEF h

\* The constraints and the indexes that a table has.
LEMMA TableDataIs ==
    ASSUME TypeOK, NEW n
    PROVE  /\ Constraints(n) \in Seq(ConstraintData) /\ NamesDiffer(Constraints(n))
           /\ Indexes(n) \in Seq(IndexData) /\ NamesDiffer(Indexes(n))
<1>1. CASE Called({"table"}, n) = {}
  BY <1>1 DEF Constraints, Indexes, NamesDiffer
<1>2. CASE Called({"table"}, n) # {}
  <2> DEFINE o == The(Called({"table"}, n))
  <2>1. o \in Called({"table"}, n)
    BY <1>2 DEF The
  <2>2. o \in Object /\ kind(o) = "table"
    BY <2>1 DEF Called, User, TypeOK, CatalogTypeOK
  <2>3. /\ World[o].cons \in Seq(ConstraintData) /\ NamesDiffer(World[o].cons)
        /\ World[o].idx \in Seq(IndexData) /\ NamesDiffer(World[o].idx)
    BY <2>2, WorldAssumption
  <2>4. Constraints(n) = World[o].cons /\ Indexes(n) = World[o].idx
    BY <1>2 DEF Constraints, Indexes
  <2> QED
    BY <2>3, <2>4
<1> QED
  BY <1>1, <1>2

\* What is chosen of rows of different names has different names.
LEMMA ChosenDiffer ==
    ASSUME NEW X, NEW s \in Seq(X), NamesDiffer(s), NEW places \in SUBSET DOMAIN s
    PROVE  /\ Chosen(s, places) \in Seq(X) /\ NamesDiffer(Chosen(s, places))
<1> DEFINE c == Chosen(s, places)
<1>1. c \in Seq(X)
  BY ChosenIs
<1>2. PICK at : Picks(c, s, places, at)
  BY ChosenIs
<1> HIDE DEF c
<1>3. ASSUME NEW j \in DOMAIN c, NEW k \in DOMAIN c, c[j].name = c[k].name
      PROVE  j = k
  <2>1. at[j] \in DOMAIN s /\ at[k] \in DOMAIN s /\ c[j] = s[at[j]] /\ c[k] = s[at[k]]
    BY <1>2 DEF Picks
  <2>2. at[j] = at[k]
    BY <1>3, <2>1 DEF NamesDiffer
  <2>3. DOMAIN c \subseteq Nat /\ at[j] \in Nat
    BY <1>1, <2>1
  <2>4. ~ (j < k) /\ ~ (k < j)
    BY <1>2, <2>2, <2>3 DEF Picks
  <2> QED
    BY <2>3, <2>4
<1> QED
  BY <1>1, <1>3 DEF c, NamesDiffer

LEMMA ConstraintsKeep ==
    ASSUME Extracting, table_constraints
    PROVE  ExtractInv'
<1> DEFINE s == Constraints(Of)
           places == {k \in DOMAIN s : s[k].type \in {"PRIMARY KEY", "UNIQUE", "FOREIGN KEY"}}
           c == Chosen(s, places)
           h == Head(work)
<1>1. work # <<>> /\ h.op = "constraints" /\ h.of = Of /\ Goes(KeyItems, <<>>)
  BY DEF table_constraints, At, Of
<1>2. Wanted("table", Of)
  BY <1>1, HeadWanted DEF Owner
<1>3. KeyItems = ForEach(c, KeyItem)
  BY DEF KeyItems, Keyed, Where
<1>4. s \in Seq(ConstraintData) /\ NamesDiffer(s)
  BY TableDataIs DEF Extracting
<1>5. places \in SUBSET DOMAIN s
  OBVIOUS
<1> HIDE DEF s, places
<1>6. c \in Seq(ConstraintData) /\ NamesDiffer(c)
  BY <1>4, <1>5, ChosenDiffer
<1> HIDE DEF c
<1>7. PICK items : items = KeyItems
  OBVIOUS
<1>8. /\ Len(c) \in Nat /\ DOMAIN c = 1 .. Len(c) /\ items = [i \in 1 .. Len(c) |-> items[i]]
      /\ \A i \in 1 .. Len(c) : items[i] = KeyItem(c[i])
  BY <1>3, <1>6, <1>7 DEF ForEach
<1>9. PICK A : items \in Seq(A)
  BY <1>8, RowsAreSeq
<1>10. DOMAIN items = 1 .. Len(c)
  BY <1>8
<1>11. \A d : KeyItem(d).op \in {"key", "foreign_key"} /\ KeyItem(d).of = Of /\ KeyItem(d).row = d
  BY DEF KeyItem, Item
<1>12. \A i \in 1 .. Len(c) :
          items[i].op \in {"key", "foreign_key"} /\ items[i].of = Of /\ items[i].row = c[i]
  BY <1>8, <1>11
<1>13. \A i \in 1 .. Len(c) : Owner(items[i]) = "table" /\ items[i].op \in ExtractOps
  BY <1>12 DEF Owner, ExtractOps
<1>14. /\ \A id : Writes(h, id) <=> id[1] = "key" /\ id[2] = Of
       /\ \A i \in 1 .. Len(c) : \A id :
             Writes(items[i], id) <=> id[1] = "key" /\ id[2] = Of /\ id[3] = c[i].name
  BY <1>1, <1>12, WholeIs DEF Writes
<1>15. \A i, j \in 1 .. Len(c) : i # j => c[i].name # c[j].name
  BY <1>6, <1>8 DEF NamesDiffer
<1>16. \A i, j \in 1 .. Len(c) : i # j => Apart(items[i], items[j])
  BY <1>14, <1>15 DEF Apart
<1>17. \A i \in 1 .. Len(c) :
          /\ items[i].op \in ExtractOps
          /\ Owner(items[i]) # "none" => Wanted(Owner(items[i]), items[i].of)
          /\ \A id : Writes(items[i], id) => Writes(h, id)
  BY <1>2, <1>12, <1>13, <1>14
<1> HIDE DEF h
<1>18. Refines(h, items, <<>>)
  BY <1>8, <1>10, <1>16, <1>17, ItemsRefine
<1> QED
  BY <1>1, <1>7, <1>9, <1>18, ItemsKeep DEF h

-----------------------------------------------------------------------------
\* The rows of the indexes of a table, and the indexes put together from them.
LEMMA RowsInRow ==
    ASSUME NEW X, NEW s \in Seq(X), NEW n \in Nat, NEW Y,
           NEW at, at \in [DOMAIN s -> (1 .. n) \X Y],
           \A p, q \in DOMAIN s : p < q => at[p][1] <= at[q][1],
           NEW p \in DOMAIN s, NEW q \in DOMAIN s, p < q, at[q - 1][1] # at[q][1]
    PROVE  at[p][1] < at[q][1]
<1>1. q - 1 \in DOMAIN s /\ p <= q - 1 /\ p \in Nat /\ q \in Nat
  <2>1. DOMAIN s = 1 .. Len(s) /\ Len(s) \in Nat
    OBVIOUS
  <2> QED
    BY <2>1
<1>2. at[p][1] \in Nat /\ at[q - 1][1] \in Nat /\ at[q][1] \in Nat
  BY <1>1
<1>3. at[q - 1][1] <= at[q][1]
  BY <1>1
<1>4. at[p][1] <= at[q - 1][1]
  <2>1. CASE p = q - 1
    BY <1>2, <2>1
  <2>2. CASE p < q - 1
    BY <1>1, <2>2
  <2> QED
    BY <1>1, <2>1, <2>2
<1> QED
  BY <1>2, <1>3, <1>4

\* The names of Grouped(rows) differ, when the rows are of indexes one after the other.
LEMMA GroupedDiffer ==
    ASSUME NEW idx \in Seq(IndexData), NamesDiffer(idx),
           NEW rows \in Seq(IndexData \X Nat),
           NEW at, at \in [DOMAIN rows -> (1 .. Len(idx)) \X Nat],
           \A p \in DOMAIN rows : rows[p][1] = idx[at[p][1]],
           \A p, q \in DOMAIN rows : p < q => at[p][1] <= at[q][1]
    PROVE  /\ Len(Grouped(rows)) \in Nat /\ DOMAIN Grouped(rows) = 1 .. Len(Grouped(rows))
           /\ \A j, k \in DOMAIN Grouped(rows) :
                 Grouped(rows)[j].name = Grouped(rows)[k].name => j = k
<1> DEFINE places == {k \in DOMAIN rows : k = 1 \/ rows[k - 1][1] # rows[k][1]}
           starts == Ascending(places)
           n == Cardinality(places)
           cols(k) == LET mine == Where(rows, LAMBDA r : r[1] = rows[starts[k]][1])
                      IN [j \in 1 .. Len(mine) |-> mine[j][2]]
           g == Grouped(rows)
<1>1. places \in SUBSET DOMAIN rows /\ IsFiniteSet(places) /\ \A k \in places : k \in Int
  <2>1. DOMAIN rows = 1 .. Len(rows) /\ Len(rows) \in Nat
    OBVIOUS
  <2>2. IsFiniteSet(1 .. Len(rows))
    BY <2>1, FS_Interval
  <2>3. places \subseteq 1 .. Len(rows)
    BY <2>1
  <2> QED
    BY <2>1, <2>2, <2>3, FS_Subset
<1>2. /\ n \in Nat /\ starts \in [1 .. n -> places]
      /\ \A j, k \in 1 .. n : j < k <=> starts[j] < starts[k]
  <2> HIDE DEF places
  <2> QED
    BY <1>1, AscendingIs
<1>3. g = [k \in 1 .. Len(starts) |-> [rows[starts[k]][1] EXCEPT !.cols = cols(k)]]
  BY DEF Grouped
<1>4. \A k \in places : k = 1 \/ rows[k - 1][1] # rows[k][1]
  OBVIOUS
<1> HIDE DEF places, cols, g, starts
<1>5. Len(starts) = n
  BY <1>2
<1> HIDE DEF n
<1>6. \A k \in 1 .. n : starts[k] \in DOMAIN rows /\ starts[k] \in Nat
  <2>1. DOMAIN rows = 1 .. Len(rows) /\ Len(rows) \in Nat
    OBVIOUS
  <2> QED
    BY <1>1, <1>2, <2>1
<1>7. \A p \in DOMAIN rows : rows[p][1] \in IndexData /\ rows[p][1] = idx[at[p][1]]
                             /\ at[p][1] \in DOMAIN idx /\ at[p][1] \in Nat
  <2>1. \A p \in DOMAIN rows : rows[p] \in IndexData \X Nat
    OBVIOUS
  <2> QED
    BY <2>1
<1>8. Len(g) = n /\ DOMAIN g = 1 .. n
  BY <1>2, <1>3, <1>5
<1>9. \A k \in 1 .. n : g[k].name = rows[starts[k]][1].name
  <2> SUFFICES ASSUME NEW k \in 1 .. n
               PROVE  g[k].name = rows[starts[k]][1].name
    OBVIOUS
  <2>1. PICK r \in IndexData : r = rows[starts[k]][1]
    BY <1>6, <1>7
  <2>2. g[k] = [r EXCEPT !.cols = cols(k)]
    BY <1>3, <1>5, <2>1
  <2>3. [r EXCEPT !.cols = cols(k)].name = r.name
    BY DEF IndexData
  <2> QED
    BY <2>1, <2>2, <2>3
<1>10. ASSUME NEW j \in 1 .. n, NEW k \in 1 .. n, j < k
       PROVE  g[j].name # g[k].name
  <2> DEFINE p == starts[j]
             q == starts[k]
  <2>1. p \in DOMAIN rows /\ q \in DOMAIN rows /\ p < q /\ q \in places /\ p \in Nat /\ q \in Nat
    BY <1>2, <1>6, <1>10
  <2>2. q # 1
    <3>1. DOMAIN rows = 1 .. Len(rows)
      OBVIOUS
    <3> QED
      BY <2>1, <3>1
  <2>3. rows[q - 1][1] # rows[q][1]
    BY <1>4, <2>1, <2>2
  <2> HIDE DEF p, q
  <2>4. q - 1 \in DOMAIN rows
    <3>1. DOMAIN rows = 1 .. Len(rows) /\ Len(rows) \in Nat
      OBVIOUS
    <3> QED
      BY <2>1, <2>2, <3>1
  <2>5. at[q - 1][1] # at[q][1]
    BY <1>7, <2>1, <2>3, <2>4
  <2>6. Len(idx) \in Nat
    OBVIOUS
  <2>7. at[p][1] < at[q][1]
    BY <2>1, <2>5, <2>6, RowsInRow
  <2>8. idx[at[p][1]].name # idx[at[q][1]].name
    <3>1. at[p][1] # at[q][1] /\ at[p][1] \in DOMAIN idx /\ at[q][1] \in DOMAIN idx
      BY <1>7, <2>1, <2>7
    <3> QED
      BY <3>1 DEF NamesDiffer
  <2>9. rows[p][1].name # rows[q][1].name
    BY <1>7, <2>1, <2>8
  <2> QED
    BY <1>9, <2>9 DEF p, q
<1>11. \A j, k \in 1 .. n : g[j].name = g[k].name => j = k
  <2> SUFFICES ASSUME NEW j \in 1 .. n, NEW k \in 1 .. n, g[j].name = g[k].name
               PROVE  j = k
    OBVIOUS
  <2>1. ~ (j < k) /\ ~ (k < j)
    BY <1>10
  <2> QED
    BY <1>2, <2>1
<1> QED
  BY <1>2, <1>8, <1>11 DEF g

\* The row p of a table's index rows is of the index at[p][1], and at grows.
IndexRowsOf(rows, idx, at) ==
    /\ rows \in Seq(IndexData \X Nat) /\ at \in [DOMAIN rows -> (1 .. Len(idx)) \X Nat]
    /\ \A p \in DOMAIN rows : rows[p][1] = idx[at[p][1]]
    /\ \A p, q \in DOMAIN rows : p < q => at[p][1] <= at[q][1]

LEMMA SegmentsAre ==
    ASSUME NEW idx \in Seq(IndexData)
    PROVE  \E at : IndexRowsOf(Segments(idx), idx, at)
<1> DEFINE n == Len(idx)
           ss == [k \in 1 .. Len(idx) |->
                     [j \in 1 .. Len(idx[k].cols) |-> <<idx[k], idx[k].cols[j]>>]]
           X == IndexData \X Nat
           s == FlattenSeq(ss)
<1>1. n \in Nat /\ DOMAIN idx = 1 .. n /\ \A k \in 1 .. n : idx[k] \in IndexData
  OBVIOUS
<1>2. s = Segments(idx)
  BY DEF Segments
<1>3. \A k \in 1 .. n : ss[k] = [j \in 1 .. Len(idx[k].cols) |-> <<idx[k], idx[k].cols[j]>>]
  OBVIOUS
<1>4. DOMAIN ss = 1 .. n /\ Len(ss) = n
  BY <1>1
<1> HIDE DEF ss, n
<1>5. ASSUME NEW k \in 1 .. n
      PROVE  ss[k] \in Seq(X) /\ \A j \in DOMAIN ss[k] : ss[k][j][1] = idx[k]
  <2>1. PICK i \in IndexData : i = idx[k]
    BY <1>1
  <2>2. i.cols \in Seq(Nat)
    BY DEF IndexData
  <2>3. ss[k] = [j \in 1 .. Len(i.cols) |-> <<i, i.cols[j]>>]
    BY <1>3, <2>1
  <2>4. Len(i.cols) \in Nat /\ \A j \in 1 .. Len(i.cols) : <<i, i.cols[j]>> \in X
    BY <2>2
  <2> HIDE DEF X
  <2>5. ss[k] \in Seq(X) /\ DOMAIN ss[k] = 1 .. Len(i.cols)
    BY <2>3, <2>4
  <2> QED
    BY <2>1, <2>3, <2>5
<1>6. s \in Seq(X)
  BY <1>1, <1>4, <1>5, FlattenIs
<1>7. PICK at : Joins(s, ss, n, at)
  BY <1>1, <1>4, <1>5, FlattenIs
<1> HIDE DEF s
<1>8. at \in [DOMAIN s -> (1 .. n) \X Nat]
  BY <1>7 DEF Joins
<1>9. ASSUME NEW p \in DOMAIN s
      PROVE  s[p][1] = idx[at[p][1]]
  <2>1. at[p][1] \in 1 .. n
    BY <1>8
  <2>2. at[p][2] \in DOMAIN ss[at[p][1]] /\ s[p] = ss[at[p][1]][at[p][2]]
    BY <1>7 DEF Joins
  <2> QED
    BY <1>5, <2>1, <2>2
<1>10. ASSUME NEW p \in DOMAIN s, NEW q \in DOMAIN s, p < q
       PROVE  at[p][1] <= at[q][1]
  <2>1. at[p][1] \in Nat /\ at[q][1] \in Nat
    BY <1>1, <1>8
  <2>2. at[p][1] < at[q][1] \/ at[p][1] = at[q][1]
    BY <1>7, <1>10 DEF Joins
  <2> QED
    BY <2>1, <2>2
<1> QED
  BY <1>2, <1>6, <1>8, <1>9, <1>10 DEF IndexRowsOf, n, X

LEMMA IndexRowsAre ==
    ASSUME TypeOK, NEW n
    PROVE  \E at : IndexRowsOf(IndexRows(n), Indexes(n), at)
<1> DEFINE idx == Indexes(n)
<1>1. idx \in Seq(IndexData)
  BY TableDataIs
<1> HIDE DEF idx
<1>2. CASE IndexRows(n) = <<>>
  <2> DEFINE r == <<>>
             e == [p \in DOMAIN r |-> <<1, 1>>]
  <2>1. r \in Seq(IndexData \X Nat) /\ DOMAIN r = {}
    OBVIOUS
  <2>2. e \in [DOMAIN r -> (1 .. Len(idx)) \X Nat]
    BY <2>1
  <2> HIDE DEF r, e
  <2>3. IndexRowsOf(r, idx, e)
    BY <2>1, <2>2 DEF IndexRowsOf
  <2> QED
    BY <1>2, <2>3 DEF r, idx
<1>3. CASE IndexRows(n) = First(Segments(idx))
  <2>1. PICK at : IndexRowsOf(Segments(idx), idx, at)
    BY <1>1, SegmentsAre
  <2> DEFINE all == Segments(idx)
             f == First(all)
             b == [p \in DOMAIN f |-> at[p]]
  <2>2. all \in Seq(IndexData \X Nat)
    BY <2>1 DEF IndexRowsOf
  <2> HIDE DEF all
  <2>3. f \in Seq(IndexData \X Nat) /\ \A k \in DOMAIN f : k \in DOMAIN all /\ f[k] = all[k]
    BY <2>2, FirstIs
  <2> HIDE DEF f
  <2>4. /\ at \in [DOMAIN all -> (1 .. Len(idx)) \X Nat]
        /\ \A p \in DOMAIN all : all[p][1] = idx[at[p][1]]
        /\ \A p, q \in DOMAIN all : p < q => at[p][1] <= at[q][1]
    BY <2>1 DEF IndexRowsOf, all
  <2>5. \A p \in DOMAIN f : b[p] = at[p] /\ b[p] \in (1 .. Len(idx)) \X Nat
    BY <2>3, <2>4
  <2>6. b \in [DOMAIN f -> (1 .. Len(idx)) \X Nat]
    BY <2>5
  <2> HIDE DEF b
  <2>7. IndexRowsOf(f, idx, b)
    BY <2>3, <2>4, <2>5, <2>6 DEF IndexRowsOf
  <2> QED
    BY <1>3, <2>7 DEF f, all, idx
<1> QED
  BY <1>2, <1>3 DEF IndexRows, idx

LEMMA IndexesKeep ==
    ASSUME Extracting, table_indexes
    PROVE  ExtractInv'
<1> DEFINE idx == Indexes(Of)
           rows == IndexRows(Of)
           g == Grouped(rows)
           s == ForEach(g, IndexStmt)
           h == Head(work)
<1>1. work # <<>> /\ h.op = "indexes" /\ h.of = Of /\ Goes(<<>>, s)
  BY DEF table_indexes, At, Of
<1>2. Wanted("table", Of)
  BY <1>1, HeadWanted DEF Owner
<1>3. idx \in Seq(IndexData) /\ NamesDiffer(idx)
  BY TableDataIs DEF Extracting
<1>4. PICK at : IndexRowsOf(rows, idx, at)
  BY IndexRowsAre DEF Extracting
<1>5. s = [k \in 1 .. Len(g) |-> s[k]] /\ \A k \in 1 .. Len(g) : s[k] = IndexStmt(g[k])
  BY DEF ForEach
<1> HIDE DEF idx, rows, s
<1>6. /\ Len(g) \in Nat /\ DOMAIN g = 1 .. Len(g)
      /\ \A j, k \in DOMAIN g : g[j].name = g[k].name => j = k
  BY <1>3, <1>4, GroupedDiffer DEF IndexRowsOf
<1> HIDE DEF g
<1>7. PICK B : s \in Seq(B)
  BY <1>5, <1>6, RowsAreSeq
<1>8. DOMAIN s = 1 .. Len(g)
  BY <1>5
<1>9. \A i : LET t == IndexStmt(i)
             IN /\ What(t) = "table" /\ Whose(t) = Of
                /\ Id(t)[1] = "index" /\ Id(t)[2] = Of /\ Id(t)[3] = i.name
  BY DEF IndexStmt, What, Whose, Id
<1>10. \A k \in DOMAIN s : What(s[k]) = "table" /\ Whose(s[k]) = Of
  BY <1>5, <1>8, <1>9
<1>11. \A k \in DOMAIN s : Id(s[k])[1] = "index" /\ Id(s[k])[2] = Of /\ Id(s[k])[3] = g[k].name
  BY <1>5, <1>8, <1>9
<1>12. \A id : Writes(h, id) <=> id[1] = "index" /\ id[2] = Of
  BY <1>1, WholeIs DEF Writes
<1>13. \A k \in DOMAIN s : Wanted(What(s[k]), Whose(s[k])) /\ Writes(h, Id(s[k]))
  BY <1>2, <1>10, <1>11, <1>12
<1>14. \A j, k \in DOMAIN s : j # k => Id(s[j]) # Id(s[k])
  <2> SUFFICES ASSUME NEW j \in DOMAIN s, NEW k \in DOMAIN s, j # k
               PROVE  Id(s[j]) # Id(s[k])
    OBVIOUS
  <2>1. g[j].name # g[k].name
    BY <1>6, <1>8
  <2> QED
    BY <1>11, <2>1
<1>15. DOMAIN <<>> = {} /\ <<>> \in Seq({})
  OBVIOUS
<1> HIDE DEF h
<1>16. Refines(h, <<>>, s)
  BY <1>13, <1>14, <1>15 DEF Refines, Once
<1> QED
  BY <1>1, <1>7, <1>15, <1>16, GoesIs, RefinedKeeps DEF h, Extracting

-----------------------------------------------------------------------------
\* The whole of an extraction.
LEMMA ExtractKeeps ==
    ASSUME TypeOK, Slots, ExtractInv, call.tool = "extract", Extract
    PROVE  ExtractInv'
<1>1. Extracting
  BY DEF Extracting
<1> QED
  BY <1>1, KindsKeep, OnesKeep, NonesKeep, FailureKeeps, TablesKeep, FunctionsKeep,
     ProceduresKeep, ParamsKeep, ConstraintsKeep, IndexesKeep
  DEF Extract

Untouched == status = "start" => out = <<>>

\* The plan: each item writes what no other does.
LEMMA PlanIs ==
    ASSUME call.tool = "extract", NEW plan, plan = Plan
    PROVE  Pending(plan) /\ Once(plan, <<>>)
<1> DEFINE a == Do("domains")
           b == Do("tables")
           c == Do("views")
           d == Do("sequences")
           e == Do("triggers")
           f == Do("procedures")
           g == Do("functions")
           all == {a, b, c, d, e, f, g}
<1>1. plan = <<a, b, c, d, e, f, g>>
  BY DEF Plan, extract_ddl_filtered
<1>2. /\ a.op = "domains" /\ b.op = "tables" /\ c.op = "views" /\ d.op = "sequences"
      /\ e.op = "triggers" /\ f.op = "procedures" /\ g.op = "functions"
  BY DEF Do, Item
<1> HIDE DEF a, b, c, d, e, f, g
<1>3. /\ DOMAIN plan = 1 .. 7 /\ plan[1] = a /\ plan[2] = b /\ plan[3] = c /\ plan[4] = d
      /\ plan[5] = e /\ plan[6] = f /\ plan[7] = g
  BY <1>1
<1>4. plan \in Seq(all)
  BY <1>1
<1>5. \A k \in 1 .. 7 : plan[k].op \in ExtractOps /\ Owner(plan[k]) = "none"
  BY <1>2, <1>3 DEF ExtractOps, Owner
<1> DEFINE kinds == <<{"domain"}, {"table", "key", "index"}, {"view"}, {"sequence"}, {"trigger"},
                      {"procedure"}, {"function"}>>
<1>6. \A k \in 1 .. 7 : \A id : Writes(plan[k], id) => id[1] \in kinds[k]
  <2>1. /\ \A id : Writes(a, id) => id[1] \in kinds[1]
        /\ \A id : Writes(b, id) => id[1] \in kinds[2]
        /\ \A id : Writes(c, id) => id[1] \in kinds[3]
        /\ \A id : Writes(d, id) => id[1] \in kinds[4]
    BY <1>2, WholeIs DEF Writes
  <2>2. /\ \A id : Writes(e, id) => id[1] \in kinds[5]
        /\ \A id : Writes(f, id) => id[1] \in kinds[6]
        /\ \A id : Writes(g, id) => id[1] \in kinds[7]
    BY <1>2, WholeIs DEF Writes
  <2> HIDE DEF kinds
  <2> QED
    BY <1>3, <2>1, <2>2
<1>7. \A j, k \in 1 .. 7 : j # k => kinds[j] \cap kinds[k] = {}
  OBVIOUS
<1> HIDE DEF kinds
<1>8. \A j, k \in 1 .. 7 : j # k => Apart(plan[j], plan[k])
  BY <1>6, <1>7 DEF Apart
<1>9. DOMAIN <<>> = {}
  OBVIOUS
<1> HIDE DEF all
<1> QED
  BY <1>3, <1>4, <1>5, <1>8, <1>9 DEF Pending, Once

LEMMA EmptyIs == Pending(<<>>) /\ Written(<<>>) /\ \A s : Once(<<>>, s) /\ Once(s, <<>>)
<1>1. DOMAIN <<>> = {} /\ <<>> \in Seq({})
  OBVIOUS
<1> QED
  BY <1>1 DEF Pending, Written, Once

LEMMA ExtractInit == Init => ExtractInv /\ Untouched
  BY EmptyIs DEF Init, ExtractInv, Untouched

\* What holds of the same work and statements in the next state.
LEMMA SameKeeps ==
    ASSUME ExtractInv, call' = call, seen \subseteq seen', UNCHANGED <<work, out>>
    PROVE  ExtractInv'
<1> SUFFICES ASSUME call.tool = "extract"
             PROVE  Pending(work)' /\ Written(out)' /\ Once(work, out)'
  BY DEF ExtractInv
<1>1. PICK w : w = work
  OBVIOUS
<1>2. PICK o : o = out
  OBVIOUS
<1>3. Pending(w) /\ Written(o) /\ Once(w, o)
  BY <1>1, <1>2 DEF ExtractInv
<1>4. Pending(w)' /\ Written(o)'
  BY <1>3, PendingStays, WrittenStays
<1>5. work' = w /\ out' = o
  BY <1>1, <1>2
<1>6. Pending(work)' /\ Written(out)'
  BY <1>4, <1>5 DEF Pending, Written
<1>7. Once(work, out)'
  BY <1>3, <1>5 DEF Once
<1> QED
  BY <1>6, <1>7

\* Steps that leave nothing to do and nothing written.
LEMMA NothingKeeps ==
    ASSUME call' = call, seen' = seen, work' = <<>>, out' = <<>>
    PROVE  ExtractInv'
<1>1. DOMAIN <<>> = {} /\ <<>> \in Seq({})
  OBVIOUS
<1> QED
  BY <1>1 DEF ExtractInv, Pending, Written, Once

LEMMA BeginKeeps ==
    ASSUME TypeOK, Untouched, call.tool = "extract", Begin
    PROVE  ExtractInv'
<1>1. /\ status = "start" /\ ~ Refused /\ work' = Plan
      /\ UNCHANGED <<catalogVars, call, out>>
  BY DEF Begin, Refused
<1>2. work = <<>> /\ out = <<>>
  BY <1>1 DEF TypeOK, Untouched
<1>3. PICK plan : plan = Plan
  OBVIOUS
<1>4. Pending(plan) /\ Once(plan, <<>>)
  BY <1>3, PlanIs
<1>5. call' = call /\ seen \subseteq seen' /\ work' = plan /\ out' = <<>>
  BY <1>1, <1>2, <1>3 DEF catalogVars
<1>6. Pending(plan)'
  BY <1>4, <1>5, PendingStays
<1>7. DOMAIN <<>> = {} /\ <<>> \in Seq({})
  OBVIOUS
<1>8. Pending(work)'
  BY <1>5, <1>6 DEF Pending
<1>9. Once(work, out)'
  BY <1>4, <1>5 DEF Once
<1>10. Written(out)'
  BY <1>5, <1>7 DEF Written
<1> QED
  BY <1>8, <1>9, <1>10 DEF ExtractInv

\* In an extraction the head of the work is an extraction's.
LEMMA ExtractHead ==
    ASSUME ExtractInv, call.tool = "extract", NEW ops, Heads(ops)
    PROVE  Head(work).op \in ExtractOps \cap ops
<1>1. PICK A : work \in Seq(A)
  BY DEF ExtractInv, Pending
<1>2. 1 \in DOMAIN work /\ Head(work) = work[1]
  BY <1>1 DEF Heads
<1> QED
  BY <1>2 DEF ExtractInv, Pending, Heads

LEMMA ExtractStep ==
    ASSUME TypeOK, Slots, Untouched, ExtractInv, call.tool = "extract", Step
    PROVE  ExtractInv'
<1>1. CASE Begin
  BY <1>1, BeginKeeps
<1>2. CASE ErrorEnds
  BY <1>2, NothingKeeps DEF ErrorEnds, Fails, catalogVars
<1>3. CASE Finish
  BY <1>3, SameKeeps DEF Finish, catalogVars
<1>4. CASE Extract
  BY <1>4, ExtractKeeps
<1>5. CASE Describe \/ SchemaRead \/ schema_fails
  BY <1>5, DescribeHeads, SchemaHeads, ExtractHead DEF ExtractOps, DescribeOps, SchemaOps
<1>6. CASE handle_list \/ handle_find_column \/ domain_list \/ domain_uses \/ column_types
  BY <1>6, ToolHeads, ExtractHead DEF ExtractOps
<1>7. CASE health \/ database_tables \/ database_keys \/ count \/ generate_keys \/ view_row
  BY <1>7, ToolHeads, ExtractHead DEF ExtractOps
<1>8. CASE handle_check_duplicates \/ duplicate_rows
  BY <1>8, ToolHeads, ExtractHead DEF ExtractOps
<1> QED
  BY <1>1, <1>2, <1>3, <1>4, <1>5, <1>6, <1>7, <1>8 DEF Step

LEMMA ExtractNext ==
    ASSUME TypeOK, Slots, Untouched, ExtractInv, [Next]_vars
    PROVE  Untouched' /\ ExtractInv'
<1>1. CASE Step
  <2>1. status' # "start" /\ call' = call
    BY <1>1, StepIs, CatalogStays DEF GoesOn, Starts, Stops, Fails, Finish
  <2>2. CASE call.tool = "extract"
    BY <1>1, <2>1, <2>2, ExtractStep DEF Untouched
  <2>3. CASE call.tool # "extract"
    BY <2>1, <2>3 DEF Untouched, ExtractInv
  <2> QED
    BY <2>2, <2>3
<1>2. CASE Others /\ UNCHANGED handlerVars
  <2>1. UNCHANGED <<call, status, work, out>> /\ seen \subseteq seen'
    BY <1>2, OthersKeep DEF handlerVars
  <2> QED
    BY <2>1, SameKeeps DEF Untouched
<1>3. CASE UNCHANGED vars
  <2>1. UNCHANGED <<call, status, work, out>> /\ seen \subseteq seen'
    BY <1>3 DEF vars, catalogVars, handlerVars
  <2> QED
    BY <2>1, SameKeeps DEF Untouched
<1> QED
  BY <1>1, <1>2, <1>3 DEF Next, Over

\* A script holds no statement twice, and each is about an object that was asked
\* for and was there at some moment of the call, for every database, every call and
\* any changes in between (metadata.rs, extract_ddl_filtered).
THEOREM ExtractsOnlyAsked == Spec => []OnlyAsked
<1> DEFINE Inv == TypeOK /\ Slots /\ Untouched /\ ExtractInv
<1>1. Init => Inv
  BY InitTypeOK, SlotsInit, ExtractInit
<1>2. Inv /\ [Next]_vars => Inv'
  BY NextTypeOK, SlotsNext, ExtractNext
<1>3. Inv => OnlyAsked
  <2> SUFFICES ASSUME Written(out)
               PROVE  \A k \in DOMAIN out :
                        LET s == out[k]
                            n == IF s.stmt \in {"key", "index"} THEN s.on ELSE s.name
                            what == IF s.stmt \in {"key", "index"} THEN "table" ELSE s.stmt
                        IN /\ should_extract(n)
                           /\ \E o \in seen : kind(o) = what /\ name(o) = n /\ ~ World[o].system
                           /\ \A j \in DOMAIN out :
                                out[j].stmt = s.stmt /\ out[j].name = s.name
                                    /\ (s.stmt \in {"key", "index"} => out[j].on = n) => j = k
    BY DEF ExtractInv, OnlyAsked
  <2> SUFFICES ASSUME NEW k \in DOMAIN out
               PROVE  /\ should_extract(Whose(out[k]))
                      /\ \E o \in seen : kind(o) = What(out[k]) /\ name(o) = Whose(out[k])
                                            /\ ~ World[o].system
                      /\ \A j \in DOMAIN out :
                           out[j].stmt = out[k].stmt /\ out[j].name = out[k].name
                               /\ (out[k].stmt \in {"key", "index"} => out[j].on = Whose(out[k]))
                             => j = k
    BY DEF What, Whose
  <2>1. Wanted(What(out[k]), Whose(out[k]))
    BY DEF Written
  <2>2. ASSUME NEW j \in DOMAIN out, out[j].stmt = out[k].stmt, out[j].name = out[k].name,
               out[k].stmt \in {"key", "index"} => out[j].on = Whose(out[k])
        PROVE  j = k
    <3>1. Id(out[j]) = Id(out[k])
      BY <2>2 DEF Id, Whose
    <3> QED
      BY <3>1 DEF Written
  <2> QED
    BY <2>1, <2>2 DEF Wanted
<1> QED
  BY <1>1, <1>2, <1>3, PTL DEF Spec
=============================================================================
