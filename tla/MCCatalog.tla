------------------------------- MODULE MCCatalog -------------------------------
(***************************************************************************)
(* A small database for the model-checking runs of CatalogProperties.      *)
(***************************************************************************)
EXTENDS CatalogProperties, TLC

\* Types: INTEGER, NUMERIC(9, 2), VARCHAR(25), TIMESTAMP, FLOAT, BLOB TEXT, DECFLOAT(34).
Int4 == Raw(8, 0, 0, 0, 0)
Money == Raw(8, 1, 0, 9, -2)
Text25 == Raw(37, 0, 100, 0, 0)
Stamp == Raw(35, 0, 0, 0, 0)
Real4 == Raw(10, 0, 0, 0, 0)
Memo == Raw(261, 1, 0, 0, 0)
Decimal34 == Raw(25, 0, 0, 0, 0)

Column(n, t, null, default, source) ==
    [name |-> n, type |-> t, null |-> null, default |-> default, source |-> source]
Constraint(n, t, cols, ref) == [name |-> n, type |-> t, cols |-> cols, ref |-> ref]
Index(n, cols, unique) == [name |-> n, cols |-> cols, unique |-> unique]
Domain(t, null, default) ==
    [uses |-> {}, system |-> FALSE, type |-> t, null |-> null, default |-> default]
Table(uses, cols, cons, idx) ==
    [uses |-> uses, system |-> FALSE, unsaid |-> {}, cols |-> cols, cons |-> cons, idx |-> idx,
     rows |-> <<1>>]
View(uses, cols, rows) ==
    [uses |-> uses, system |-> FALSE, unsaid |-> {}, cols |-> cols, rows |-> rows, named |-> TRUE]
Sequence == [uses |-> {}, system |-> FALSE, unsaid |-> {}]
Trigger(on, event, uses) ==
    [uses |-> uses \cup {<<"table", on>>}, system |-> FALSE, unsaid |-> {}, on |-> on, event |-> event]
Procedure(uses, params, system) == [uses |-> uses, system |-> system, params |-> params]
FunctionOf(uses, args, returns, system) ==
    [uses |-> uses, system |-> system, args |-> args, returns |-> returns]

\* Three domains, one of them altered in version 2. Tables: 11, altered in version
\* 2; 12, with three keys; 10, which refers to 11 and has a CHECK; 14, which refers to
\* itself, its primary key NOT NULL in version 2 by a domain; 21, whose name is not in
\* capitals. Views: 16 has no row; 17 a column of DECFLOAT and one that its SELECT does
\* not name; 18 reads 19. 71 and 72 are 11 and 51 as a caller may write them.
Tables11 == {<<"table", 11, 1>>, <<"table", 11, 2>>}
MCWorld ==
    [ o \in { <<"domain", 1, 1>>, <<"domain", 1, 2>>, <<"domain", 2, 1>>, <<"domain", 3, 1>>,
              <<"table", 10, 1>>, <<"table", 11, 1>>, <<"table", 11, 2>>, <<"table", 12, 1>>,
              <<"table", 13, 1>>, <<"table", 13, 2>>, <<"table", 14, 1>>, <<"table", 14, 2>>,
              <<"table", 21, 1>>, <<"view", 15, 1>>, <<"view", 16, 1>>, <<"view", 17, 1>>,
              <<"view", 18, 1>>, <<"view", 19, 1>>,
              <<"sequence", 11, 1>>, <<"sequence", 12, 1>>, <<"trigger", 40, 1>>, <<"trigger", 41, 1>>,
              <<"trigger", 42, 1>>, <<"trigger", 43, 1>>, <<"trigger", 44, 1>>, <<"procedure", 51, 1>>, <<"procedure", 52, 1>>,
              <<"procedure", 53, 1>>, <<"function", 61, 1>>, <<"function", 62, 1>> } |->
      CASE o = <<"domain", 1, 1>> -> Domain(Int4, 1, "none")
        [] o = <<"domain", 1, 2>> -> Domain(Text25, 0, "text")
        [] o = <<"domain", 2, 1>> -> Domain(Money, 0, "none")
        [] o = <<"domain", 3, 1>> -> Domain(Stamp, 1, "timestamp")
        [] o = <<"table", 11, 1>> ->
              Table({<<"domain", 1>>}, <<Column(101, Int4, 0, "none", 1), Column(102, Text25, 1, "text", 0)>>,
                    <<Constraint(201, "PRIMARY KEY", <<101>>, 0)>>,
                    <<Index(301, <<102, 101>>, TRUE), Index(304, <<>>, FALSE)>>)
        [] o = <<"table", 11, 2>> ->
              Table({<<"domain", 1>>}, <<Column(101, Int4, 0, "none", 1), Column(103, Real4, 0, "none", 0)>>,
                    <<Constraint(201, "PRIMARY KEY", <<101>>, 0)>>, <<>>)
        [] o = <<"table", 12, 1>> ->
              Table({<<"domain", 1>>, <<"domain", 2>>, <<"table", 11>>},
                    <<Column(101, Int4, 0, "none", 1), Column(104, Money, 0, "none", 2),
                      Column(105, Memo, 0, "none", 0), Column(106, Stamp, 0, "timestamp", 0)>>,
                    <<Constraint(202, "PRIMARY KEY", <<101>>, 0), Constraint(203, "UNIQUE", <<104, 101>>, 0),
                      Constraint(204, "FOREIGN KEY", <<101>>, 11)>>, <<>>)
        [] o = <<"table", 10, 1>> ->
              [Table({<<"table", 11>>},
                    <<Column(101, Int4, 1, "none", 0), Column(102, Text25, 0, "none", 0)>>,
                    <<Constraint(205, "CHECK", <<>>, 0), Constraint(206, "FOREIGN KEY", <<101>>, 11),
                      Constraint(207, "NOT NULL", <<>>, 0)>>,
                    <<Index(302, <<102>>, TRUE), Index(303, <<>>, FALSE)>>) EXCEPT !.unsaid = {2}]
        [] o = <<"table", 21, 1>> -> Table({}, <<Column(102, Text25, 0, "none", 0)>>, <<>>, <<>>)
        [] o = <<"table", 14, 1>> ->
              Table({}, <<Column(101, Int4, 1, "none", 0), Column(108, Int4, 1, "none", 0)>>,
                    <<Constraint(208, "PRIMARY KEY", <<101>>, 0), Constraint(209, "FOREIGN KEY", <<108>>, 14)>>,
                    <<>>)
        [] o = <<"table", 14, 2>> ->
              Table({<<"domain", 1>>}, <<Column(101, Int4, 0, "none", 1), Column(108, Int4, 1, "none", 0)>>,
                    <<Constraint(208, "PRIMARY KEY", <<101>>, 0), Constraint(209, "FOREIGN KEY", <<108>>, 14)>>,
                    <<>>)
        [] o = <<"table", 13, 1>> ->
              [Table({}, <<Column(102, Text25, 0, "none", 0)>>, <<>>, <<>>)
                  EXCEPT !.rows = <<1, 2, 2, 3, 0, 3, 0, 3, 5, 5>>]
        [] o = <<"table", 13, 2>> ->
              [Table({}, <<Column(102, Text25, 0, "none", 0)>>, <<>>, <<>>)
                  EXCEPT !.rows = <<2, 1, 2>>]
        [] o = <<"view", 15, 1>> -> View({<<"table", 11>>}, <<Column(102, Text25, 0, "none", 0)>>, <<1>>)
        [] o = <<"view", 16, 1>> -> View({<<"table", 12>>, <<"domain", 2>>},
                                         <<Column(104, Money, 0, "none", 2)>>, <<>>)
        [] o = <<"view", 17, 1>> ->
              [View({<<"table", 11>>}, <<Column(107, Decimal34, 0, "none", 0), Column(102, Text25, 0, "none", 0)>>,
                    <<1>>) EXCEPT !.named = FALSE, !.unsaid = {1}]
        [] o = <<"view", 18, 1>> -> View({<<"view", 19>>}, <<Column(102, Text25, 0, "none", 0)>>, <<1>>)
        [] o = <<"view", 19, 1>> -> View({<<"table", 11>>}, <<Column(102, Text25, 0, "none", 0)>>, <<1>>)
        [] o = <<"sequence", 11, 1>> -> Sequence
        [] o = <<"sequence", 12, 1>> -> [Sequence EXCEPT !.unsaid = {3}]
        [] o = <<"trigger", 40, 1>> -> [Trigger(10, 1, {}) EXCEPT !.system = TRUE]
        [] o = <<"trigger", 41, 1>> -> [Trigger(12, 2, {}) EXCEPT !.unsaid = {5}]
        [] o = <<"trigger", 42, 1>> -> Trigger(12, 3, {<<"procedure", 51>>})
        [] o = <<"trigger", 43, 1>> -> Trigger(11, 17, {})
        [] o = <<"trigger", 44, 1>> -> [Trigger(11, 1, {}) EXCEPT !.unsaid = {5}]
        [] o = <<"procedure", 51, 1>> ->
              Procedure({<<"table", 12>>, <<"domain", 2>>},
                        <<[name |-> 101, out |-> FALSE, source |-> 2, type |-> Money],
                          [name |-> 102, out |-> TRUE, source |-> 0,
                           type |-> Declared(<<"VARCHAR", <<100>>>>)]>>, FALSE)
        [] o = <<"procedure", 52, 1>> -> Procedure({}, <<>>, TRUE)
        [] o = <<"procedure", 53, 1>> ->
              Procedure({}, <<[name |-> 101, out |-> FALSE, source |-> 0, type |-> Int4]>>, FALSE)
        [] o = <<"function", 61, 1>> ->
              FunctionOf({}, <<[name |-> 101, type |-> Stamp]>>, Text25, FALSE)
        [] o = <<"function", 62, 1>> -> FunctionOf({}, <<>>, Int4, TRUE) ]

\* The objects of it that the other session may create and drop.
SmallWorld ==
    [o \in DOMAIN MCWorld \ { <<"table", 14, 1>>, <<"table", 14, 2>>, <<"view", 18, 1>>, <<"view", 19, 1>>,
                             <<"sequence", 12, 1>>, <<"trigger", 43, 1>>, <<"trigger", 44, 1>>,
                             <<"procedure", 53, 1>> } |-> MCWorld[o]]

MCUpper == [n \in 0 .. 110 |-> CASE n = 21 -> 13 [] n = 71 -> 11 [] n = 72 -> 51 [] OTHER -> n]

\* Values 1 to 5: a pipe is put into the text of 3, and 5 has a quote in it.
MCFormat == [v \in 1 .. 5 |-> CASE v = 3 -> 4 [] v = 5 -> Broken [] OTHER -> v]

\* A database in a good order, and one with everything in it that is not.
Good == { <<"domain", 1, 1>>, <<"domain", 2, 1>>, <<"table", 11, 1>>, <<"table", 12, 1>>,
          <<"view", 15, 1>>, <<"sequence", 11, 1>>, <<"trigger", 41, 1>>, <<"procedure", 51, 1>>,
          <<"function", 61, 1>> }
Crowded == { <<"domain", 1, 1>>, <<"domain", 2, 1>>, <<"domain", 3, 1>>, <<"table", 10, 1>>,
             <<"table", 11, 1>>, <<"table", 12, 1>>, <<"table", 21, 1>>, <<"view", 16, 1>>,
             <<"trigger", 40, 1>>, <<"trigger", 42, 1>>, <<"procedure", 51, 1>>,
             <<"procedure", 52, 1>>, <<"function", 62, 1>> }
Rows == {<<"domain", 1, 1>>, <<"table", 11, 1>>, <<"table", 13, 1>>, <<"view", 17, 1>>}
Starts == {Good, Crowded, Rows, {<<"table", 13, 2>>}}

\* Every database of some objects: an object's needs are with it, its name is its own.
Databases(objects) ==
    {S \in SUBSET objects :
        /\ \A o, p \in S : SameSlot(o, p) => o = p
        /\ \A o \in S : \A ref \in Needs(o) : Has(S, ref)}
MCDatabases ==
    Databases({<<"domain", 1, 1>>, <<"domain", 2, 1>>, <<"table", 10, 1>>, <<"table", 11, 1>>,
               <<"table", 12, 1>>, <<"table", 14, 1>>, <<"table", 14, 2>>, <<"view", 15, 1>>,
               <<"view", 17, 1>>, <<"view", 18, 1>>, <<"view", 19, 1>>, <<"sequence", 11, 1>>,
               <<"trigger", 41, 1>>, <<"procedure", 52, 1>>, <<"function", 61, 1>>})

\* One in which nothing comes back as it is: a domain more than the lists hold, a
\* foreign key to a later table from one with a CHECK, a view with names of its own for
\* its columns, a trigger of two events, one with a place, a sequence with a start.
Lossy == {{<<"domain", 1, 1>>, <<"domain", 2, 1>>, <<"domain", 3, 1>>, <<"table", 10, 1>>,
           <<"table", 11, 1>>, <<"view", 17, 1>>, <<"sequence", 12, 1>>, <<"trigger", 43, 1>>,
           <<"trigger", 44, 1>>, <<"procedure", 53, 1>>, <<"function", 61, 1>>}}

Call(t, names, kinds) == [tool |-> t, names |-> names, kinds |-> kinds]
WholeExtract == {Call("extract", <<>>, {})}
AllCalls ==
    WholeExtract \cup
    { Call("extract", <<71, 61, 3>>, {}), Call("describe", <<71, 61, 42>>, {}),
      Call("describe", <<72, 2, 99>>, {}), Call("describe", <<>>, {}),
      Call("describe_table", <<71>>, {}), Call("describe_database", <<>>, {}),
      Call("domains", <<>>, {}), Call("find_column", <<102>>, {}),
      Call("duplicates", <<13>>, {}), Call("duplicates", <<13, 0>>, {}),
      Call("duplicates", <<13, 1>>, {}), Call("duplicates", <<71>>, {}),
      Call("generate", <<11, 12>>, {}), Call("generate", <<11, 12, 13>>, {}),
      Call("view_dto", <<17, 71>>, {}) }
    \cup {Call("list", <<>>, k) : k \in {{}, {"table", "view"}, {"domain"}, {"sequence"},
                                        {"trigger"}, {"procedure"}, {"function"}}}
=============================================================================
