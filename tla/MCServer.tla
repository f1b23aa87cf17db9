------------------------------- MODULE MCServer -------------------------------
(***************************************************************************)
(* Inputs and configurations for the model-checking run of McpServer.      *)
(***************************************************************************)
EXTENDS McpServer, TLC

\* Comments in front of a statement: with a terminator and a quote in them, a
\* directive, an END, a character of two bytes; the last two touch the sign.
Leads == { <<>>,
           <<"--", " ", "X", ";", "'", "NL">>,
           <<"--", "SET", " ", "TERM", " ", "^", " ", ";", "NL">>,
           <<"/*", "END", ";", "\"", "*/", "NL">>,
           <<"--", " ", "wide", "NL">> }
BadLeads == { <<"--", "wide", "NL">>, <<"/*", "wide", "*/">> }

\* A statement; strings and names with terminators, keywords and doubled quotes in
\* them; comments; blocks, CASE in and out of them; SET and TERM as words of SQL;
\* a wide character in a string and in a block; a stray END; names that begin
\* or end like a keyword.
Bodies == { <<"X">>,
            <<"X", "'", ";", "'", "'", "BEGIN", "'">>,
            <<"X", " ", "\"", ";", "END", "\"", "\"", "\"">>,
            <<"X", " ", "/*", ";", "'", "*/", "X">>,
            <<"X", " ", "--", "'", ";", "NL", "X">>,
            <<"X", " ", "BEGIN", " ", "X", ";", " ", "END">>,
            <<"X", " ", "BEGIN", " ", "BEGIN", "NL", "END", ";", "END">>,
            <<"X", " ", "BEGIN", " ", "CASE", " ", "END", ";", "END">>,
            <<"X", " ", "CASE", " ", "X", " ", "END">>, <<"X", " ", "END">>,
            <<"SET", " ", "X">>,
            <<"X", " ", "SET", " ", "TERM", " ", "X">>,
            <<"X", " ", "'", "wide", "'">>,
            <<"X", " ", "BEGIN", " ", "wide", ";", "END">>,
            <<"X", " ", "X", "$", "BEGIN">>, <<"X", " ", "BEGIN", "X">>,
            <<"X", " ", "BEGIN", " ", "END", "$", ";", "$", "END", ";", "END">> }
BadBodies == { <<"X", " ", "wide">>, <<"SET", " ", "--", "X", "wide", "NL">> }

\* A body that is a statement only under another terminator.
CaretBodies == Bodies \cup { <<"X", ";", "X">>, <<"SET", " ", "TERM", "X">> }

\* How a statement is written: with the terminator that holds, under one of
\* its own (as metadata.rs writes routines; glued; of two characters), or last
\* of its script and without.
Directive1 == <<"SET", " ", "TERM", " ">>
Written(form, lead, body) ==
    CASE form = "plain"   -> lead \o body \o <<";", "NL">>
      [] form = "blank"   -> lead \o body \o <<" ", ";">>
      [] form = "last"    -> lead \o body
      [] form = "caret"   -> lead \o Directive1 \o <<"^", " ", ";", "NL">> \o body
                             \o <<" ", "^", "NL">> \o Directive1 \o <<";", " ", "^", "NL">>
      [] form = "glued"   -> lead \o Directive1 \o <<"^", ";", "NL">> \o body
                             \o <<"^">> \o Directive1 \o <<";", "^", "NL">>
      [] form = "dollars" -> lead \o Directive1 \o <<"$", "$", " ", ";", "NL">> \o body
                             \o <<" ", "$", "$", "NL">> \o Directive1 \o <<";", " ", "$", "$">>

\* A comment in front of a directive goes with it; any other stays.
Meant(form, lead, body) ==
    IF form \in {"plain", "blank", "last"} THEN Trim(lead \o body) ELSE Trim(body)

Part(form, lead, body) ==
    [text |-> Written(form, lead, body), meant |-> <<Meant(form, lead, body)>>,
     breaks |-> lead \in BadLeads \/ body \in BadBodies]

OwnForms == {"caret", "glued", "dollars"}
Parts == { Part(f, l, b) : f \in {"plain", "blank"} \cup OwnForms, l \in Leads, b \in Bodies }
            \cup { Part(f, <<>>, b) : f \in OwnForms, b \in CaretBodies }
BadParts == { Part(f, l, <<"X">>) : f \in {"plain", "caret"}, l \in BadLeads }
                \cup { Part("plain", <<>>, b) : b \in BadBodies }
Firsts == { Part(f, l, <<"X">>) : f \in {"plain"} \cup OwnForms, l \in Leads }
LastParts == { Part("last", l, b) : l \in Leads, b \in Bodies }

Join(p, q) == [text |-> p.text \o q.text, meant |-> p.meant \o q.meant,
               breaks |-> p.breaks \/ q.breaks]

\* Comments alone, or terminators alone, mean no statement.
Empty == { [text |-> t, meant |-> <<>>, breaks |-> FALSE] :
               t \in {<<" ", ";", "NL", ";">>, <<"--", "X", ";">>, <<"/*", ";", "*/", ";">>} }

Scripts == Parts \cup LastParts \cup BadParts \cup Empty
            \cup { Join(p, q) : p \in Firsts, q \in Firsts \cup BadParts }
            \cup { Join(Part("glued", <<>>, b), Part("last", <<>>, <<"X">>)) : b \in CaretBodies }

\* A script as isql takes it, its terminator glued to the last word.
GluedDollars ==
    [text |-> Directive1 \o <<"$", "$", " ", ";", "NL", "X", "$", "$", "NL">> \o Directive1
              \o <<";", " ", "$", "$">>,
     meant |-> <<<<"X">>>>, breaks |-> FALSE]

NoScript == [text |-> <<>>, meant |-> <<>>, breaks |-> FALSE]
Message(id, method, tool, db, script) ==
    [kind |-> "message", id |-> id, method |-> method, tool |-> tool,
     database |-> db, script |-> script, shifts |-> FALSE, waits |-> FALSE]

A == <<"a", 1>>
Call(id, tool, db) == Message(id, "tools/call", tool, db, NoScript)
Run(id, script) == Message(id, "tools/call", "firebird_run_script", A, script)
Waiting(m) == [m EXCEPT !.waits = TRUE]
Shifted(m) == [m EXCEPT !.shifts = TRUE]

\* A message, a notification (no id, a method the server does not know), calls
\* for the default database, for one in another spelling and for one that is
\* not there, a script; and what is no message.
Kinds == { [kind |-> "blank"], [kind |-> "garbage"], [kind |-> "binary"],
           Message(1, "initialize", "other", None, NoScript),
           Message(NoId, "other", "other", None, NoScript),
           Call(2, "firebird_list", None), Call(3, "firebird_list", <<"b", 2>>),
           Call(4, "firebird_database_stats", None),
           Call(5, "firebird_run_script", None),
           Run(6, Part("plain", <<>>, <<"X">>)), Run(7, Part("plain", <<>>, <<"X", " ", "wide">>)),
           Waiting(Run(8, Part("plain", <<>>, <<"X">>))) }

\* Calls that open no client: a fixed answer, and a tool that there is not; the
\* other tools that cut; queries, of a database that is not there, one that
\* shifts, one that waits.
MoreKinds == Kinds \cup
    { Call(9, "firebird_get_databases", None), Call(10, "other", None),
      Call(11, "firebird_query_history", None), Call(12, "firebird_generate_dev", None),
      Call(13, "firebird_query", None), Call(14, "firebird_query", <<"b", 2>>),
      Shifted(Call(15, "firebird_query", None)), Waiting(Call(16, "firebird_query", None)) }

Configs == { [databases |-> <<A>>, default |-> None],
             [databases |-> <<A, <<"b", 1>>>>, default |-> None],
             [databases |-> <<<<"b", 1>>, A>>, default |-> <<"a", 2>>],
             [databases |-> <<A>>, default |-> <<"b", 1>>],
             [databases |-> <<>>, default |-> None] }

OneDatabase == [databases |-> <<A>>, default |-> None]
Settings ==
    { [config |-> OneDatabase, lines |-> <<Run(1, s)>>] : s \in Scripts }
        \cup { [config |-> c, lines |-> l] :
                  c \in Configs, l \in UNION { [1 .. n -> MoreKinds] : n \in 0 .. 2 } }
        \cup { [config |-> OneDatabase, lines |-> <<k, l, m>>] :
                  k \in Kinds, l \in Kinds, m \in Kinds }

GluedSettings == { [config |-> OneDatabase, lines |-> <<Run(1, GluedDollars)>>] }
=============================================================================
