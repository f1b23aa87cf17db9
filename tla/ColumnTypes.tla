----------------------------- MODULE ColumnTypes -----------------------------
(***************************************************************************)
(* types.rs, codegen/fbtype.rs and sql_type_name: the ways a column's type *)
(* is read and written. A raw type is what RDB$FIELDS holds; a written     *)
(* type is a name with its arguments, <<"VARCHAR", <<25>>>> for            *)
(* VARCHAR(25); an FbType is a variant with its fields.                    *)
(***************************************************************************)
EXTENDS Integers, Sequences

RawType == [base : Int, sub : Int, size : Int, precision : Int, scale : Int]
Raw(base, sub, size, precision, scale) ==
    [base |-> base, sub |-> sub, size |-> size, precision |-> precision, scale |-> scale]

IntegerBase == {7, 8, 16, 26}
BlobBase == {45, 261}
Abs(n) == IF n < 0 THEN -n ELSE n

type_name_for(base) ==
    CASE base = 7 -> "SMALLINT"        [] base = 8 -> "INTEGER"
      [] base \in {9, 12} -> "DATE"    [] base \in {10, 11} -> "FLOAT"
      [] base = 13 -> "TIME"           [] base = 14 -> "CHAR"
      [] base = 16 -> "BIGINT"         [] base \in {20, 37} -> "VARCHAR"
      [] base \in {23, 49} -> "BOOLEAN"
      [] base \in {24, 25} -> "DECFLOAT"
      [] base = 26 -> "INT128"         [] base = 27 -> "DOUBLE PRECISION"
      [] base \in {29, 35} -> "TIMESTAMP"
      [] base = 40 -> "CSTRING"        [] base = 43 -> "NUMERIC"
      [] base \in BlobBase -> "BLOB"   [] base = 48 -> "NVARCHAR"
      [] base = 0 -> "UNKNOWN"         [] OTHER -> "TYPE_n"

\* Bytes to characters: four a character, or two in NVARCHAR; whole characters.
bytes_to_chars(size, name) ==
    IF size <= 0 THEN 0 ELSE size \div IF name = "NVARCHAR" THEN 2 ELSE 4

WithScale(name, precision, scale) ==
    <<name, IF precision <= 0 THEN <<>>
            ELSE IF scale = 0 THEN <<precision>> ELSE <<precision, Abs(scale)>> >>

format_column_type(t) ==
    LET name == type_name_for(t.base)
    IN CASE t.base \in IntegerBase /\ t.sub = 1 -> WithScale("NUMERIC", t.precision, t.scale)
         [] t.base \in IntegerBase /\ t.sub = 2 -> WithScale("DECIMAL", t.precision, t.scale)
         [] name \in {"CHAR", "VARCHAR", "NVARCHAR"} ->
                <<name, IF bytes_to_chars(t.size, name) > 0
                        THEN <<bytes_to_chars(t.size, name)>> ELSE <<>> >>
         [] name = "BLOB" ->
                <<name, IF t.sub = 1 THEN <<"TEXT">>
                        ELSE IF t.sub = 2 THEN <<"BINARY">> ELSE <<>> >>
         [] name = "DECFLOAT" -> <<name, <<IF t.base = 24 THEN 16 ELSE 34>> >>
         [] name = "TYPE_n" -> <<name, <<t.base>> >>
         [] OTHER -> <<name, <<>> >>

-----------------------------------------------------------------------------
\* FbType: of a column, back to the codes, and of a written type.
Variant(name, args) == [type |-> name, args |-> args]

Simple == [ SmallInt |-> 7, Integer |-> 8, BigInt |-> 16, Int128 |-> 26,
            DecFloat16 |-> 24, DecFloat34 |-> 25, Float |-> 11, DoublePrecision |-> 27,
            Cstring |-> 40, Date |-> 9, Time |-> 10, Timestamp |-> 29, Boolean |-> 23 ]

MutantNoTimestamp(base) == CASE base = 12 -> 9 [] base = 49 -> 23 [] OTHER -> base
Canonical(base) == CASE base = 12 -> 9 [] base = 35 -> 29 [] base = 49 -> 23 [] OTHER -> base

Sized == [ Char |-> {14}, Varchar |-> {20, 37}, Nvarchar |-> {48} ]
IsNumeric(t) == t.base \in IntegerBase /\ t.sub \in {1, 2}

from_column(t) ==
    IF t.base \in BlobBase THEN
        Variant(CASE t.sub = 1 -> "BlobText" [] t.sub = 2 -> "BlobBinary" [] OTHER -> "Blob", <<>>)
    ELSE IF IsNumeric(t) THEN
        Variant(IF t.sub = 1 THEN "Numeric" ELSE "Decimal", <<t.precision, t.scale>>)
    ELSE IF \E n \in DOMAIN Sized : t.base \in Sized[n] THEN
        Variant(CHOOSE n \in DOMAIN Sized : t.base \in Sized[n], <<t.size>>)
    ELSE IF \E n \in DOMAIN Simple : Simple[n] = Canonical(t.base) THEN
        Variant(CHOOSE n \in DOMAIN Simple : Simple[n] = Canonical(t.base), <<>>)
    ELSE Variant("Unknown", <<t.base>>)

raw(f) ==
    CASE f.type \in DOMAIN Simple -> Raw(Simple[f.type], 0, 0, 0, 0)
      [] f.type = "Numeric"    -> Raw(16, 1, 0, f.args[1], f.args[2])
      [] f.type = "Decimal"    -> Raw(16, 2, 0, f.args[1], f.args[2])
      [] f.type = "Char"       -> Raw(14, 0, f.args[1], 0, 0)
      [] f.type = "Varchar"    -> Raw(20, 0, f.args[1], 0, 0)
      [] f.type = "Nvarchar"   -> Raw(48, 0, f.args[1], 0, 0)
      [] f.type = "BlobText"   -> Raw(261, 1, 0, 0, 0)
      [] f.type = "BlobBinary" -> Raw(261, 2, 0, 0, 0)
      [] f.type = "Blob"       -> Raw(261, 0, 0, 0, 0)
      [] f.type = "Unknown"    -> Raw(f.args[1], 0, 0, 0, 0)

type_str(f) == format_column_type(raw(f))

\* parse_size, parse_precision_scale: an argument that is missing is 0.
Argument(w, k) == IF k <= Len(w[2]) THEN w[2][k] ELSE 0

from_type_str(w) ==
    CASE w[1] = "BLOB" -> Variant(CASE w[2] = <<"TEXT">> -> "BlobText"
                                    [] w[2] = <<"BINARY">> -> "BlobBinary"
                                    [] OTHER -> "Blob", <<>>)
      [] w[1] = "SMALLINT" -> Variant("SmallInt", <<>>)
      [] w[1] \in {"INTEGER", "INT"} -> Variant("Integer", <<>>)
      [] w[1] = "BIGINT"   -> Variant("BigInt", <<>>)
      [] w[1] = "INT128"   -> Variant("Int128", <<>>)
      [] w[1] = "NUMERIC"  -> Variant("Numeric", <<Argument(w, 1), Argument(w, 2)>>)
      [] w[1] = "DECIMAL"  -> Variant("Decimal", <<Argument(w, 1), Argument(w, 2)>>)
      [] w[1] = "DECFLOAT" -> Variant(IF w[2] = <<16>> THEN "DecFloat16" ELSE "DecFloat34", <<>>)
      [] w[1] = "FLOAT"    -> Variant("Float", <<>>)
      [] w[1] \in {"DOUBLE PRECISION", "DOUBLE"} -> Variant("DoublePrecision", <<>>)
      [] w[1] = "CHAR"     -> Variant("Char", <<Argument(w, 1)>>)
      [] w[1] = "VARCHAR"  -> Variant("Varchar", <<Argument(w, 1)>>)
      [] w[1] = "NVARCHAR" -> Variant("Nvarchar", <<Argument(w, 1)>>)
      [] w[1] = "DATE"     -> Variant("Date", <<>>)
      [] w[1] = "TIME"     -> Variant("Time", <<>>)
      [] w[1] = "TIMESTAMP" -> Variant("Timestamp", <<>>)
      [] w[1] = "BOOLEAN"  -> Variant("Boolean", <<>>)
      [] OTHER             -> Variant("Unknown", <<0>>)

-----------------------------------------------------------------------------
\* What the driver says of a column of a result: the wire code of its type,
\* with neither size nor scale (a NUMERIC is the integer that holds it).
WireCode ==
    [base \in {7, 8, 10, 12, 13, 14, 16, 23, 24, 25, 26, 27, 35, 37, 261} |->
        CASE base = 7 -> 500  [] base = 8 -> 496    [] base = 10 -> 482
          [] base = 12 -> 570 [] base = 13 -> 560   [] base = 14 -> 452
          [] base = 16 -> 580 [] base = 23 -> 32764 [] base = 26 -> 32752
          [] base = 24 -> 32760 [] base = 25 -> 32762
          [] base = 27 -> 480 [] base = 35 -> 510   [] base = 37 -> 448
          [] base = 261 -> 520]

sql_type_name(code) ==
    CASE code = 448 -> "VARCHAR"   [] code = 452 -> "CHAR"
      [] code = 500 -> "SMALLINT"  [] code = 496 -> "INTEGER"
      [] code = 580 -> "BIGINT"    [] code = 32752 -> "INT128"
      [] code = 482 -> "FLOAT"     [] code = 480 -> "DOUBLE PRECISION"
      [] code = 510 -> "TIMESTAMP" [] code = 570 -> "DATE"
      [] code = 560 -> "TIME"      [] code = 32764 -> "BOOLEAN"
      [] code = 520 -> "BLOB"      [] OTHER -> "TYPE_n"

\* Of the value in the first row, by its variant, where the type has no name.
infer_type_from_value ==
    [ Null |-> "VARCHAR", Bool |-> "BOOLEAN", Int |-> "INTEGER", Float |-> "DOUBLE PRECISION",
      Text |-> "VARCHAR", Date |-> "DATE", Time |-> "TIME", Timestamp |-> "TIMESTAMP",
      Binary |-> "BLOB" ]
=============================================================================
