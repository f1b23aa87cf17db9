------------------------------- MODULE MCSession -------------------------------
(***************************************************************************)
(* The calls for the run Told, of the database of MCCatalog.               *)
(***************************************************************************)
EXTENDS Session, MCCatalog

\* A table with a FLOAT, one with duplicates, a view without rows, domains in use.
ToldStart == {{<<"domain", 1, 1>>, <<"domain", 2, 1>>, <<"table", 11, 2>>, <<"table", 12, 1>>,
               <<"table", 13, 1>>, <<"view", 16, 1>>}}
ToldCalls ==
    { Call("domains", <<>>, {}), Call("generate", <<11>>, {}), Call("view_dto", <<16>>, {}),
      Call("duplicates", <<13, 0>>, {}), Call("duplicates", <<13>>, {}) }
=============================================================================
