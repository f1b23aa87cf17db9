--------------------------- MODULE DescriptionProofs ---------------------------
(***************************************************************************)
(* Proofs about the tools that read the schemas of tables: describe,       *)
(* describe_table and describe_database, and the generators, which take    *)
(* the fields of an entity or a DTO from them. A schema is six queries,    *)
(* each with a snapshot of its own, so the invariants say of the schema    *)
(* that is being read, and of those told, what they have of a table that   *)
(* stays; the work that is left says what is still owed.                   *)
(***************************************************************************)
EXTENDS ListingProofs

-----------------------------------------------------------------------------
\* The two readings of a column's type agree, for every type: the one generators
\* take from the codes of the catalog, and the one of the type as it is written.

\* The codes that from_column and type_name_for read alike: all they both know but
\* 10, 13 (FLOAT and TIME) and 40 (CSTRING, which is not read back).
Scalar == {7, 8, 16, 26, 9, 12, 11, 23, 49, 24, 25, 27, 29, 35}
Text == {14, 20, 37, 48}
Known == Scalar \cup Text \cup BlobBase

Reading(t) == from_type_str(format_column_type(t)).type

\* What a written type is read as, by its name.
LEMMA Reads ==
    ASSUME NEW w
    PROVE  /\ w[1] = "SMALLINT" => from_type_str(w).type = "SmallInt"
           /\ w[1] = "INTEGER" => from_type_str(w).type = "Integer"
           /\ w[1] = "BIGINT" => from_type_str(w).type = "BigInt"
           /\ w[1] = "INT128" => from_type_str(w).type = "Int128"
           /\ w[1] = "NUMERIC" => from_type_str(w).type = "Numeric"
           /\ w[1] = "DECIMAL" => from_type_str(w).type = "Decimal"
           /\ w[1] = "FLOAT" => from_type_str(w).type = "Float"
           /\ w[1] = "CHAR" => from_type_str(w).type = "Char"
           /\ w[1] = "VARCHAR" => from_type_str(w).type = "Varchar"
           /\ w[1] = "NVARCHAR" => from_type_str(w).type = "Nvarchar"
           /\ w[1] = "DATE" => from_type_str(w).type = "Date"
           /\ w[1] = "TIMESTAMP" => from_type_str(w).type = "Timestamp"
           /\ w[1] = "BOOLEAN" => from_type_str(w).type = "Boolean"
           /\ w[1] = "DOUBLE PRECISION" => from_type_str(w).type = "DoublePrecision"
  BY DEF from_type_str, Variant

LEMMA Arguments ==
    /\ <<>> # <<"TEXT">> /\ <<>> # <<"BINARY">> /\ <<"TEXT">> # <<"BINARY">>
    /\ <<34>> # <<16>>
<1>1. Len(<<>>) = 0 /\ Len(<<"TEXT">>) = 1 /\ Len(<<"BINARY">>) = 1
  OBVIOUS
<1>2. <<"TEXT">>[1] = "TEXT" /\ <<"BINARY">>[1] = "BINARY" /\ <<34>>[1] = 34 /\ <<16>>[1] = 16
  OBVIOUS
<1> QED
  BY <1>1, <1>2

LEMMA BlobReads ==
    ASSUME NEW args
    PROVE  from_type_str(<<"BLOB", args>>).type =
              IF args = <<"TEXT">> THEN "BlobText"
              ELSE IF args = <<"BINARY">> THEN "BlobBinary" ELSE "Blob"
  BY Arguments DEF from_type_str, Variant

LEMMA BlobReading ==
    ASSUME NEW t \in RawType, t.base \in BlobBase
    PROVE  from_column(t).type = Reading(t)
<1>1. /\ type_name_for(t.base) = "BLOB"
      /\ t.base \notin IntegerBase
  BY DEF BlobBase, type_name_for, IntegerBase
<1>2. format_column_type(t) =
         <<"BLOB", IF t.sub = 1 THEN <<"TEXT">> ELSE IF t.sub = 2 THEN <<"BINARY">> ELSE <<>> >>
  BY <1>1 DEF format_column_type
<1> DEFINE args == IF t.sub = 1 THEN <<"TEXT">> ELSE IF t.sub = 2 THEN <<"BINARY">> ELSE <<>>
<1>3. Reading(t) = IF t.sub = 1 THEN "BlobText" ELSE IF t.sub = 2 THEN "BlobBinary" ELSE "Blob"
  <2>1. Reading(t) = IF args = <<"TEXT">> THEN "BlobText"
                     ELSE IF args = <<"BINARY">> THEN "BlobBinary" ELSE "Blob"
    BY <1>2, BlobReads DEF Reading
  <2> QED
    BY <2>1, Arguments
<1> QED
  BY <1>3 DEF from_column, Variant

\* type_name_for, code by code.
LEMMA NameOfCode ==
    /\ type_name_for(7) = "SMALLINT"  /\ type_name_for(8) = "INTEGER"
    /\ type_name_for(16) = "BIGINT"   /\ type_name_for(26) = "INT128"
    /\ type_name_for(9) = "DATE"      /\ type_name_for(12) = "DATE"
    /\ type_name_for(11) = "FLOAT"    /\ type_name_for(27) = "DOUBLE PRECISION"
    /\ type_name_for(23) = "BOOLEAN"  /\ type_name_for(49) = "BOOLEAN"
    /\ type_name_for(24) = "DECFLOAT" /\ type_name_for(25) = "DECFLOAT"
    /\ type_name_for(29) = "TIMESTAMP" /\ type_name_for(35) = "TIMESTAMP"
    /\ type_name_for(14) = "CHAR"     /\ type_name_for(48) = "NVARCHAR"
    /\ type_name_for(20) = "VARCHAR"  /\ type_name_for(37) = "VARCHAR"
  BY DEF type_name_for, BlobBase

\* The cases of format_column_type exclude one another.
Named == {"CHAR", "VARCHAR", "NVARCHAR", "BLOB", "DECFLOAT", "TYPE_n"}

LEMMA NumericReading ==
    ASSUME NEW t \in RawType, IsNumeric(t)
    PROVE  from_column(t).type = Reading(t)
<1>0. type_name_for(t.base) \notin Named
  BY NameOfCode DEF IsNumeric, IntegerBase, Named
<1>1. t.base \notin BlobBase /\ t.base \in IntegerBase /\ t.sub \in {1, 2}
  BY DEF IsNumeric, BlobBase, IntegerBase
<1>2. CASE t.sub = 1
  <2>1. format_column_type(t) = WithScale("NUMERIC", t.precision, t.scale)
    BY <1>0, <1>1, <1>2 DEF format_column_type, Named
  <2>2. format_column_type(t)[1] = "NUMERIC"
    BY <2>1 DEF WithScale
  <2>3. Reading(t) = "Numeric"
    BY <2>2, Reads DEF Reading
  <2> QED
    BY <1>1, <1>2, <2>3 DEF from_column, Variant, IsNumeric
<1>3. CASE t.sub = 2
  <2>1. format_column_type(t) = WithScale("DECIMAL", t.precision, t.scale)
    BY <1>0, <1>1, <1>3 DEF format_column_type, Named
  <2>2. format_column_type(t)[1] = "DECIMAL"
    BY <2>1 DEF WithScale
  <2>3. Reading(t) = "Decimal"
    BY <2>2, Reads DEF Reading
  <2> QED
    BY <1>1, <1>3, <2>3 DEF from_column, Variant, IsNumeric
<1> QED
  BY <1>1, <1>2, <1>3

LEMMA SizedIs ==
    /\ DOMAIN Sized = {"Char", "Varchar", "Nvarchar"}
    /\ Sized["Char"] = {14} /\ Sized["Varchar"] = {20, 37} /\ Sized["Nvarchar"] = {48}
  BY DEF Sized

LEMMA TextReading ==
    ASSUME NEW t \in RawType, t.base \in Text
    PROVE  from_column(t).type = Reading(t)
<1> DEFINE w == type_name_for(t.base)
           n == CHOOSE m \in DOMAIN Sized : t.base \in Sized[m]
<1>1. w = IF t.base = 14 THEN "CHAR" ELSE IF t.base = 48 THEN "NVARCHAR" ELSE "VARCHAR"
  <2>1. CASE t.base = 14
    BY <2>1, NameOfCode
  <2>2. CASE t.base = 48
    BY <2>2, NameOfCode
  <2>3. CASE t.base = 20
    BY <2>3, NameOfCode
  <2>4. CASE t.base = 37
    BY <2>4, NameOfCode
  <2> QED
    BY <2>1, <2>2, <2>3, <2>4 DEF Text
<1>2. n = IF t.base = 14 THEN "Char" ELSE IF t.base = 48 THEN "Nvarchar" ELSE "Varchar"
  <2>1. \E m \in DOMAIN Sized : t.base \in Sized[m]
    BY SizedIs DEF Text
  <2>2. n \in DOMAIN Sized /\ t.base \in Sized[n]
    BY <2>1
  <2> HIDE DEF n
  <2>3. n \in {"Char", "Varchar", "Nvarchar"}
    BY <2>2, SizedIs
  <2>4. CASE n = "Char"
    BY <2>2, <2>4, SizedIs
  <2>5. CASE n = "Varchar"
    BY <2>2, <2>5, SizedIs
  <2>6. CASE n = "Nvarchar"
    BY <2>2, <2>6, SizedIs
  <2> QED
    BY <2>3, <2>4, <2>5, <2>6
<1>3. from_column(t).type = n
  <2>1. t.base \notin BlobBase /\ ~ IsNumeric(t) /\ \E m \in DOMAIN Sized : t.base \in Sized[m]
    BY <1>2, SizedIs DEF Text, BlobBase, IsNumeric, IntegerBase
  <2> QED
    BY <2>1 DEF from_column, Variant
<1>4. format_column_type(t)[1] = w
  BY <1>1 DEF format_column_type, Text, IntegerBase
<1>5. Reading(t) = n
  BY <1>1, <1>2, <1>4, Reads DEF Reading
<1> QED
  BY <1>3, <1>5

LEMMA ScalarColumn ==
    ASSUME NEW t \in RawType, t.base \in Scalar, ~ IsNumeric(t),
           NEW n \in DOMAIN Simple, Simple[n] = Canonical(t.base),
           \A m \in DOMAIN Simple : Simple[m] = Canonical(t.base) => m = n
    PROVE  from_column(t).type = n
<1>1. t.base \notin BlobBase /\ ~ \E m \in DOMAIN Sized : t.base \in Sized[m]
  BY SizedIs DEF Scalar, BlobBase
<1> QED
  BY <1>1 DEF from_column, Variant

LEMMA SimpleIs ==
    /\ DOMAIN Simple = {"SmallInt", "Integer", "BigInt", "Int128", "DecFloat16", "DecFloat34",
                        "Float", "DoublePrecision", "Cstring", "Date", "Time", "Timestamp",
                        "Boolean"}
    /\ Simple["SmallInt"] = 7 /\ Simple["Integer"] = 8 /\ Simple["BigInt"] = 16
    /\ Simple["Int128"] = 26 /\ Simple["DecFloat16"] = 24 /\ Simple["DecFloat34"] = 25
    /\ Simple["Float"] = 11 /\ Simple["DoublePrecision"] = 27 /\ Simple["Cstring"] = 40
    /\ Simple["Date"] = 9 /\ Simple["Time"] = 10 /\ Simple["Timestamp"] = 29
    /\ Simple["Boolean"] = 23
  BY DEF Simple

\* The one variant of a scalar code.
ScalarType(b) ==
    CASE b = 7 -> "SmallInt" [] b = 8 -> "Integer" [] b = 16 -> "BigInt" [] b = 26 -> "Int128"
      [] b = 24 -> "DecFloat16" [] b = 25 -> "DecFloat34" [] b = 11 -> "Float"
      [] b = 27 -> "DoublePrecision" [] b \in {9, 12} -> "Date" [] b \in {29, 35} -> "Timestamp"
      [] b \in {23, 49} -> "Boolean"

LEMMA TypeOfCode ==
    /\ ScalarType(7) = "SmallInt" /\ ScalarType(8) = "Integer"
    /\ ScalarType(16) = "BigInt" /\ ScalarType(26) = "Int128"
    /\ ScalarType(24) = "DecFloat16" /\ ScalarType(25) = "DecFloat34"
    /\ ScalarType(11) = "Float" /\ ScalarType(27) = "DoublePrecision"
    /\ ScalarType(9) = "Date" /\ ScalarType(12) = "Date"
    /\ ScalarType(29) = "Timestamp" /\ ScalarType(35) = "Timestamp"
    /\ ScalarType(23) = "Boolean" /\ ScalarType(49) = "Boolean"
  BY DEF ScalarType

LEMMA CanonicalCode ==
    /\ Canonical(7) = 7 /\ Canonical(8) = 8 /\ Canonical(16) = 16 /\ Canonical(26) = 26
    /\ Canonical(24) = 24 /\ Canonical(25) = 25 /\ Canonical(11) = 11 /\ Canonical(27) = 27
    /\ Canonical(9) = 9 /\ Canonical(12) = 9 /\ Canonical(29) = 29 /\ Canonical(35) = 29
    /\ Canonical(23) = 23 /\ Canonical(49) = 23
  BY DEF Canonical

LEMMA ScalarVariant ==
    ASSUME NEW b \in Scalar
    PROVE  /\ ScalarType(b) \in DOMAIN Simple
           /\ Simple[ScalarType(b)] = Canonical(b)
           /\ \A m \in DOMAIN Simple : Simple[m] = Canonical(b) => m = ScalarType(b)
<1>1. /\ ScalarType(b) \in DOMAIN Simple
      /\ Simple[ScalarType(b)] = Canonical(b)
  BY TypeOfCode, CanonicalCode, SimpleIs DEF Scalar
<1>2. \A m, n \in DOMAIN Simple : Simple[m] = Simple[n] => m = n
  BY SimpleIs
<1> QED
  BY <1>1, <1>2

LEMMA DecFloatReads ==
    /\ from_type_str(<<"DECFLOAT", <<16>>>>).type = "DecFloat16"
    /\ from_type_str(<<"DECFLOAT", <<34>>>>).type = "DecFloat34"
  BY Arguments DEF from_type_str, Variant

LEMMA ScalarReading ==
    ASSUME NEW t \in RawType, t.base \in Scalar, ~ IsNumeric(t)
    PROVE  from_column(t).type = Reading(t)
<1>1. from_column(t).type = ScalarType(t.base)
  BY ScalarColumn, ScalarVariant
<1>2. CASE t.base \in {24, 25}
  <2>1. type_name_for(t.base) = "DECFLOAT"
    BY <1>2, NameOfCode
  <2>2. format_column_type(t) = <<"DECFLOAT", <<IF t.base = 24 THEN 16 ELSE 34>> >>
    BY <1>2, <2>1 DEF format_column_type, IntegerBase
  <2> QED
    BY <1>1, <1>2, <2>2, DecFloatReads DEF Reading, ScalarType
<1>3. CASE t.base \notin {24, 25}
  <2> DEFINE w == type_name_for(t.base)
  <2>1. w \notin Named
    BY <1>3, NameOfCode DEF Scalar, Named
  <2>2. format_column_type(t) = <<w, <<>> >>
    BY <1>3, <2>1 DEF format_column_type, IsNumeric, Named
  <2>3. format_column_type(t)[1] = w
    BY <2>2
  <2>4. CASE t.base = 7
    <3>1. format_column_type(t)[1] = "SMALLINT"
      BY <2>4, <2>3, NameOfCode
    <3>2. ScalarType(t.base) = "SmallInt"
      BY <2>4, TypeOfCode
    <3> QED
      BY <3>1, <3>2, <1>1, Reads DEF Reading
  <2>5. CASE t.base = 8
    <3>1. format_column_type(t)[1] = "INTEGER"
      BY <2>5, <2>3, NameOfCode
    <3>2. ScalarType(t.base) = "Integer"
      BY <2>5, TypeOfCode
    <3> QED
      BY <3>1, <3>2, <1>1, Reads DEF Reading
  <2>6. CASE t.base = 16
    <3>1. format_column_type(t)[1] = "BIGINT"
      BY <2>6, <2>3, NameOfCode
    <3>2. ScalarType(t.base) = "BigInt"
      BY <2>6, TypeOfCode
    <3> QED
      BY <3>1, <3>2, <1>1, Reads DEF Reading
  <2>7. CASE t.base = 26
    <3>1. format_column_type(t)[1] = "INT128"
      BY <2>7, <2>3, NameOfCode
    <3>2. ScalarType(t.base) = "Int128"
      BY <2>7, TypeOfCode
    <3> QED
      BY <3>1, <3>2, <1>1, Reads DEF Reading
  <2>8. CASE t.base = 11
    <3>1. format_column_type(t)[1] = "FLOAT"
      BY <2>8, <2>3, NameOfCode
    <3>2. ScalarType(t.base) = "Float"
      BY <2>8, TypeOfCode
    <3> QED
      BY <3>1, <3>2, <1>1, Reads DEF Reading
  <2>9. CASE t.base = 27
    <3>1. format_column_type(t)[1] = "DOUBLE PRECISION"
      BY <2>9, <2>3, NameOfCode
    <3>2. ScalarType(t.base) = "DoublePrecision"
      BY <2>9, TypeOfCode
    <3> QED
      BY <3>1, <3>2, <1>1, Reads DEF Reading
  <2>10. CASE t.base = 9
    <3>1. format_column_type(t)[1] = "DATE"
      BY <2>10, <2>3, NameOfCode
    <3>2. ScalarType(t.base) = "Date"
      BY <2>10, TypeOfCode
    <3> QED
      BY <3>1, <3>2, <1>1, Reads DEF Reading
  <2>11. CASE t.base = 12
    <3>1. format_column_type(t)[1] = "DATE"
      BY <2>11, <2>3, NameOfCode
    <3>2. ScalarType(t.base) = "Date"
      BY <2>11, TypeOfCode
    <3> QED
      BY <3>1, <3>2, <1>1, Reads DEF Reading
  <2>12. CASE t.base = 29
    <3>1. format_column_type(t)[1] = "TIMESTAMP"
      BY <2>12, <2>3, NameOfCode
    <3>2. ScalarType(t.base) = "Timestamp"
      BY <2>12, TypeOfCode
    <3> QED
      BY <3>1, <3>2, <1>1, Reads DEF Reading
  <2>13. CASE t.base = 35
    <3>1. format_column_type(t)[1] = "TIMESTAMP"
      BY <2>13, <2>3, NameOfCode
    <3>2. ScalarType(t.base) = "Timestamp"
      BY <2>13, TypeOfCode
    <3> QED
      BY <3>1, <3>2, <1>1, Reads DEF Reading
  <2>14. CASE t.base = 23
    <3>1. format_column_type(t)[1] = "BOOLEAN"
      BY <2>14, <2>3, NameOfCode
    <3>2. ScalarType(t.base) = "Boolean"
      BY <2>14, TypeOfCode
    <3> QED
      BY <3>1, <3>2, <1>1, Reads DEF Reading
  <2>15. CASE t.base = 49
    <3>1. format_column_type(t)[1] = "BOOLEAN"
      BY <2>15, <2>3, NameOfCode
    <3>2. ScalarType(t.base) = "Boolean"
      BY <2>15, TypeOfCode
    <3> QED
      BY <3>1, <3>2, <1>1, Reads DEF Reading
  <2> QED
    BY <1>3, <2>4, <2>5, <2>6, <2>7, <2>8, <2>9, <2>10, <2>11, <2>12, <2>13, <2>14,
       <2>15 DEF Scalar
<1> QED
  BY <1>2, <1>3

\* The type that a generator takes from the codes of a column (from_column) is the
\* one its written type is read as (from_type_str of format_column_type), for any
\* size, precision, scale and sub-type, and any of the codes both sides know but
\* those of FLOAT and TIME.
THEOREM SameReading ==
    ASSUME NEW t \in RawType, t.base \in Known
    PROVE  from_column(t).type = Reading(t)
<1>1. CASE t.base \in BlobBase
  BY <1>1, BlobReading
<1>2. CASE IsNumeric(t)
  BY <1>2, NumericReading
<1>3. CASE t.base \in Text
  BY <1>3, TextReading
<1>4. CASE t.base \in Scalar /\ ~ IsNumeric(t)
  BY <1>4, ScalarReading
<1> QED
  BY <1>1, <1>2, <1>3, <1>4 DEF Known

-----------------------------------------------------------------------------
\* The driver's names of the types of a result.
WireBase == {7, 8, 10, 12, 13, 14, 16, 23, 26, 27, 35, 37, 261}

LEMMA WireIs ==
    /\ WireCode[7] = 500 /\ WireCode[8] = 496 /\ WireCode[10] = 482 /\ WireCode[12] = 570
    /\ WireCode[13] = 560 /\ WireCode[14] = 452 /\ WireCode[16] = 580 /\ WireCode[23] = 32764
    /\ WireCode[26] = 32752 /\ WireCode[27] = 480 /\ WireCode[35] = 510 /\ WireCode[37] = 448
    /\ WireCode[261] = 520
  BY DEF WireCode

\* The names of types other than BLOB.
Spelled == {"SMALLINT", "INTEGER", "FLOAT", "DATE", "TIME", "CHAR", "BIGINT", "BOOLEAN", "INT128",
            "DOUBLE PRECISION", "TIMESTAMP", "VARCHAR"}

LEMMA SameName ==
    ASSUME NEW b \in WireBase
    PROVE  /\ sql_type_name(WireCode[b]) = type_name_for(b)
           /\ type_name_for(b) \in Spelled \cup {"BLOB"}
           /\ type_name_for(b) = "BLOB" <=> b = 261
<1>1. CASE b = 7
  <2>1. WireCode[7] = 500
    BY WireIs
  <2>2. sql_type_name(500) = "SMALLINT"
    BY DEF sql_type_name
  <2>3. type_name_for(7) = "SMALLINT"
    BY DEF type_name_for, BlobBase
  <2>4. sql_type_name(WireCode[b]) = type_name_for(b)
    BY Zenon, <1>1, <2>1, <2>2, <2>3
  <2>5. type_name_for(b) = "SMALLINT"
    BY <1>1, <2>3
  <2>6. type_name_for(b) \in Spelled \cup {"BLOB"}
    BY Zenon, <2>5 DEF Spelled
  <2>7. type_name_for(b) = "BLOB" <=> b = 261
    BY <1>1, <2>5
  <2> QED
    BY <2>4, <2>6, <2>7
<1>2. CASE b = 8
  <2>1. WireCode[8] = 496
    BY WireIs
  <2>2. sql_type_name(496) = "INTEGER"
    BY DEF sql_type_name
  <2>3. type_name_for(8) = "INTEGER"
    BY DEF type_name_for, BlobBase
  <2>4. sql_type_name(WireCode[b]) = type_name_for(b)
    BY Zenon, <1>2, <2>1, <2>2, <2>3
  <2>5. type_name_for(b) = "INTEGER"
    BY <1>2, <2>3
  <2>6. type_name_for(b) \in Spelled \cup {"BLOB"}
    BY Zenon, <2>5 DEF Spelled
  <2>7. type_name_for(b) = "BLOB" <=> b = 261
    BY <1>2, <2>5
  <2> QED
    BY <2>4, <2>6, <2>7
<1>3. CASE b = 10
  <2>1. WireCode[10] = 482
    BY WireIs
  <2>2. sql_type_name(482) = "FLOAT"
    BY DEF sql_type_name
  <2>3. type_name_for(10) = "FLOAT"
    BY DEF type_name_for, BlobBase
  <2>4. sql_type_name(WireCode[b]) = type_name_for(b)
    BY Zenon, <1>3, <2>1, <2>2, <2>3
  <2>5. type_name_for(b) = "FLOAT"
    BY <1>3, <2>3
  <2>6. type_name_for(b) \in Spelled \cup {"BLOB"}
    BY Zenon, <2>5 DEF Spelled
  <2>7. type_name_for(b) = "BLOB" <=> b = 261
    BY <1>3, <2>5
  <2> QED
    BY <2>4, <2>6, <2>7
<1>4. CASE b = 12
  <2>1. WireCode[12] = 570
    BY WireIs
  <2>2. sql_type_name(570) = "DATE"
    BY DEF sql_type_name
  <2>3. type_name_for(12) = "DATE"
    BY DEF type_name_for, BlobBase
  <2>4. sql_type_name(WireCode[b]) = type_name_for(b)
    BY Zenon, <1>4, <2>1, <2>2, <2>3
  <2>5. type_name_for(b) = "DATE"
    BY <1>4, <2>3
  <2>6. type_name_for(b) \in Spelled \cup {"BLOB"}
    BY Zenon, <2>5 DEF Spelled
  <2>7. type_name_for(b) = "BLOB" <=> b = 261
    BY <1>4, <2>5
  <2> QED
    BY <2>4, <2>6, <2>7
<1>5. CASE b = 13
  <2>1. WireCode[13] = 560
    BY WireIs
  <2>2. sql_type_name(560) = "TIME"
    BY DEF sql_type_name
  <2>3. type_name_for(13) = "TIME"
    BY DEF type_name_for, BlobBase
  <2>4. sql_type_name(WireCode[b]) = type_name_for(b)
    BY Zenon, <1>5, <2>1, <2>2, <2>3
  <2>5. type_name_for(b) = "TIME"
    BY <1>5, <2>3
  <2>6. type_name_for(b) \in Spelled \cup {"BLOB"}
    BY Zenon, <2>5 DEF Spelled
  <2>7. type_name_for(b) = "BLOB" <=> b = 261
    BY <1>5, <2>5
  <2> QED
    BY <2>4, <2>6, <2>7
<1>6. CASE b = 14
  <2>1. WireCode[14] = 452
    BY WireIs
  <2>2. sql_type_name(452) = "CHAR"
    BY DEF sql_type_name
  <2>3. type_name_for(14) = "CHAR"
    BY DEF type_name_for, BlobBase
  <2>4. sql_type_name(WireCode[b]) = type_name_for(b)
    BY Zenon, <1>6, <2>1, <2>2, <2>3
  <2>5. type_name_for(b) = "CHAR"
    BY <1>6, <2>3
  <2>6. type_name_for(b) \in Spelled \cup {"BLOB"}
    BY Zenon, <2>5 DEF Spelled
  <2>7. type_name_for(b) = "BLOB" <=> b = 261
    BY <1>6, <2>5
  <2> QED
    BY <2>4, <2>6, <2>7
<1>7. CASE b = 16
  <2>1. WireCode[16] = 580
    BY WireIs
  <2>2. sql_type_name(580) = "BIGINT"
    BY DEF sql_type_name
  <2>3. type_name_for(16) = "BIGINT"
    BY DEF type_name_for, BlobBase
  <2>4. sql_type_name(WireCode[b]) = type_name_for(b)
    BY Zenon, <1>7, <2>1, <2>2, <2>3
  <2>5. type_name_for(b) = "BIGINT"
    BY <1>7, <2>3
  <2>6. type_name_for(b) \in Spelled \cup {"BLOB"}
    BY Zenon, <2>5 DEF Spelled
  <2>7. type_name_for(b) = "BLOB" <=> b = 261
    BY <1>7, <2>5
  <2> QED
    BY <2>4, <2>6, <2>7
<1>8. CASE b = 23
  <2>1. WireCode[23] = 32764
    BY WireIs
  <2>2. sql_type_name(32764) = "BOOLEAN"
    BY DEF sql_type_name
  <2>3. type_name_for(23) = "BOOLEAN"
    BY DEF type_name_for, BlobBase
  <2>4. sql_type_name(WireCode[b]) = type_name_for(b)
    BY <1>8, <2>1, <2>2, <2>3
  <2>5. type_name_for(b) = "BOOLEAN"
    BY <1>8, <2>3
  <2>6. type_name_for(b) \in Spelled \cup {"BLOB"}
    BY Zenon, <2>5 DEF Spelled
  <2>7. type_name_for(b) = "BLOB" <=> b = 261
    BY <1>8, <2>5
  <2> QED
    BY <2>4, <2>6, <2>7
<1>9. CASE b = 26
  <2>1. WireCode[26] = 32752
    BY WireIs
  <2>2. sql_type_name(32752) = "INT128"
    BY DEF sql_type_name
  <2>3. type_name_for(26) = "INT128"
    BY DEF type_name_for, BlobBase
  <2>4. sql_type_name(WireCode[b]) = type_name_for(b)
    BY <1>9, <2>1, <2>2, <2>3
  <2>5. type_name_for(b) = "INT128"
    BY <1>9, <2>3
  <2>6. type_name_for(b) \in Spelled \cup {"BLOB"}
    BY Zenon, <2>5 DEF Spelled
  <2>7. type_name_for(b) = "BLOB" <=> b = 261
    BY <1>9, <2>5
  <2> QED
    BY <2>4, <2>6, <2>7
<1>10. CASE b = 27
  <2>1. WireCode[27] = 480
    BY WireIs
  <2>2. sql_type_name(480) = "DOUBLE PRECISION"
    BY DEF sql_type_name
  <2>3. type_name_for(27) = "DOUBLE PRECISION"
    BY DEF type_name_for, BlobBase
  <2>4. sql_type_name(WireCode[b]) = type_name_for(b)
    BY Zenon, <1>10, <2>1, <2>2, <2>3
  <2>5. type_name_for(b) = "DOUBLE PRECISION"
    BY <1>10, <2>3
  <2>6. type_name_for(b) \in Spelled \cup {"BLOB"}
    BY Zenon, <2>5 DEF Spelled
  <2>7. type_name_for(b) = "BLOB" <=> b = 261
    <3>1. type_name_for(b) # "BLOB"
      BY Zenon, <2>5
    <3> QED
      BY <1>10, <3>1
  <2> QED
    BY <2>4, <2>6, <2>7
<1>11. CASE b = 35
  <2>1. WireCode[35] = 510
    BY WireIs
  <2>2. sql_type_name(510) = "TIMESTAMP"
    BY DEF sql_type_name
  <2>3. type_name_for(35) = "TIMESTAMP"
    BY DEF type_name_for, BlobBase
  <2>4. sql_type_name(WireCode[b]) = type_name_for(b)
    BY Zenon, <1>11, <2>1, <2>2, <2>3
  <2>5. type_name_for(b) = "TIMESTAMP"
    BY <1>11, <2>3
  <2>6. type_name_for(b) \in Spelled \cup {"BLOB"}
    BY Zenon, <2>5 DEF Spelled
  <2>7. type_name_for(b) = "BLOB" <=> b = 261
    BY <1>11, <2>5
  <2> QED
    BY <2>4, <2>6, <2>7
<1>12. CASE b = 37
  <2>1. WireCode[37] = 448
    BY WireIs
  <2>2. sql_type_name(448) = "VARCHAR"
    BY DEF sql_type_name
  <2>3. type_name_for(37) = "VARCHAR"
    BY DEF type_name_for, BlobBase
  <2>4. sql_type_name(WireCode[b]) = type_name_for(b)
    BY Zenon, <1>12, <2>1, <2>2, <2>3
  <2>5. type_name_for(b) = "VARCHAR"
    BY <1>12, <2>3
  <2>6. type_name_for(b) \in Spelled \cup {"BLOB"}
    BY Zenon, <2>5 DEF Spelled
  <2>7. type_name_for(b) = "BLOB" <=> b = 261
    BY <1>12, <2>5
  <2> QED
    BY <2>4, <2>6, <2>7
<1>13. CASE b = 261
  <2>1. WireCode[261] = 520
    BY WireIs
  <2>2. sql_type_name(520) = "BLOB"
    BY DEF sql_type_name
  <2>3. type_name_for(261) = "BLOB"
    BY DEF type_name_for, BlobBase
  <2>4. sql_type_name(WireCode[b]) = type_name_for(b)
    BY Zenon, <1>13, <2>1, <2>2, <2>3
  <2>5. type_name_for(b) = "BLOB"
    BY <1>13, <2>3
  <2>6. type_name_for(b) \in Spelled \cup {"BLOB"}
    BY Zenon, <2>5 DEF Spelled
  <2>7. type_name_for(b) = "BLOB" <=> b = 261
    BY <1>13, <2>5
  <2> QED
    BY <2>4, <2>6, <2>7
<1> QED
  BY <1>1, <1>2, <1>3, <1>4, <1>5, <1>6, <1>7, <1>8, <1>9, <1>10, <1>11, <1>12, <1>13 DEF WireBase

LEMMA TimeReads ==
    ASSUME NEW w, w[1] = "TIME"
    PROVE  from_type_str(w).type = "Time"
  BY DEF from_type_str, Variant

LEMMA TypeByName ==
    ASSUME NEW w \in Spelled, NEW x, NEW y, x[1] = w, y[1] = w
    PROVE  from_type_str(x).type = from_type_str(y).type
<1>1. /\ w = "TIME" => from_type_str(x).type = "Time" /\ from_type_str(y).type = "Time"
  BY TimeReads
<1>2. w # "TIME" => from_type_str(x).type = from_type_str(y).type
  BY Reads DEF Spelled
<1> QED
  BY <1>1, <1>2

LEMMA ScalarBack ==
    ASSUME NEW f, f.type \in {"SmallInt", "Integer", "Float", "Date", "BigInt", "Boolean", "Int128",
                              "DoublePrecision", "Timestamp"}
    PROVE  from_column(raw(f)).type = f.type
<1>1. PICK n : n = f.type
  OBVIOUS
<1>2. n \in DOMAIN Simple
  BY <1>1, SimpleIs
<1>3. raw(f) = Raw(Simple[n], 0, 0, 0, 0)
  BY <1>1, <1>2 DEF raw
<1>4. PICK b : b = Simple[n]
  OBVIOUS
<1>5. b \in {7, 8, 11, 9, 16, 23, 26, 27, 29}
  BY <1>1, <1>4, SimpleIs
<1>6. b \in Scalar /\ Canonical(b) = b
  BY <1>5, CanonicalCode DEF Scalar
<1>7. PICK t : t = Raw(b, 0, 0, 0, 0)
  OBVIOUS
<1>8. t \in RawType /\ t.base = b /\ t.sub = 0
  <2>1. b \in Int
    BY <1>5
  <2> QED
    BY <1>7, <2>1 DEF Raw, RawType
<1>9. ~ IsNumeric(t)
  BY <1>8 DEF IsNumeric
<1>10. \A m, k \in DOMAIN Simple : Simple[m] = Simple[k] => m = k
  BY SimpleIs
<1>11. \A m \in DOMAIN Simple : Simple[m] = Canonical(t.base) => m = n
  BY <1>2, <1>4, <1>6, <1>8, <1>10
<1>12. Simple[n] = Canonical(t.base) /\ t.base \in Scalar
  BY <1>4, <1>6, <1>8
<1>13. from_column(t).type = n
  BY <1>2, <1>8, <1>9, <1>11, <1>12, ScalarColumn
<1> QED
  BY <1>1, <1>3, <1>4, <1>7, <1>13

LEMMA TimeBack ==
    ASSUME NEW f, f.type = "Time"
    PROVE  from_column(raw(f)).type = "Time"
<1>1. PICK t : t = Raw(10, 0, 0, 0, 0)
  OBVIOUS
<1>2. raw(f) = t
  BY <1>1, SimpleIs DEF raw
<1>3. t.base = 10 /\ t.sub = 0
  BY <1>1 DEF Raw
<1>4. Canonical(t.base) = 10
  BY <1>3 DEF Canonical
<1>5. /\ \A m \in DOMAIN Simple : Simple[m] = 10 <=> m = "Time"
      /\ "Time" \in DOMAIN Simple
  BY SimpleIs
<1>6. t.base \notin BlobBase /\ ~ IsNumeric(t) /\ ~ \E m \in DOMAIN Sized : t.base \in Sized[m]
  BY <1>3, SizedIs DEF BlobBase, IsNumeric
<1>7. (CHOOSE m \in DOMAIN Simple : Simple[m] = Canonical(t.base)) = "Time"
  BY <1>4, <1>5
<1>8. \E m \in DOMAIN Simple : Simple[m] = Canonical(t.base)
  BY <1>4, <1>5
<1>9. from_column(t).type = "Time"
  BY <1>6, <1>7, <1>8 DEF from_column, Variant
<1> QED
  BY <1>2, <1>9

LEMMA TextBack ==
    ASSUME NEW f, f.type \in {"Char", "Varchar"}
    PROVE  from_column(raw(f)).type = f.type
<1>1. PICK b, t : /\ b = IF f.type = "Char" THEN 14 ELSE 20
                  /\ t = Raw(b, 0, f.args[1], 0, 0)
  OBVIOUS
<1>2. f.type \notin DOMAIN Simple
  BY SimpleIs
<1>3. raw(f) = t
  BY <1>1, <1>2 DEF raw
<1>4. t.base = b /\ t.sub = 0
  BY <1>1 DEF Raw
<1>5. \A m \in DOMAIN Sized : b \in Sized[m] <=> m = f.type
  BY <1>1, SizedIs
<1>6. f.type \in DOMAIN Sized
  BY SizedIs
<1>7. b \notin BlobBase /\ ~ IsNumeric(t)
  BY <1>1, <1>4 DEF BlobBase, IsNumeric
<1>8. (CHOOSE m \in DOMAIN Sized : t.base \in Sized[m]) = f.type
  BY <1>4, <1>5, <1>6
<1>9. \E m \in DOMAIN Sized : t.base \in Sized[m]
  BY <1>4, <1>5, <1>6
<1>10. from_column(t).type = f.type
  BY <1>4, <1>7, <1>8, <1>9 DEF from_column, Variant
<1> QED
  BY <1>3, <1>10

LEMMA BlobBack ==
    ASSUME NEW f, f.type = "Blob"
    PROVE  from_column(raw(f)).type = "Blob"
<1>1. f.type \notin DOMAIN Simple
  BY SimpleIs
<1>2. raw(f) = Raw(261, 0, 0, 0, 0)
  BY <1>1 DEF raw
<1>3. Raw(261, 0, 0, 0, 0).base = 261 /\ Raw(261, 0, 0, 0, 0).sub = 0
  BY DEF Raw
<1> QED
  BY <1>2, <1>3 DEF from_column, Variant, BlobBase

LEMMA ReadBack ==
    ASSUME NEW w \in Spelled \cup {"BLOB"}, NEW none, none = <<>>, NEW f, f = from_type_str(<<w, none>>)
    PROVE  from_column(raw(f)).type = f.type
<1>1. PICK x : x = <<w, none>>
  OBVIOUS
<1>2. x[1] = w /\ x[2] = none
  BY <1>1
<1>3. CASE w = "TIME"
  BY <1>1, <1>2, <1>3, TimeReads, TimeBack
<1>4. CASE w = "BLOB"
  <2>1. f.type = "Blob"
    BY <1>4, Arguments, BlobReads
  <2> QED
    BY <2>1, BlobBack
<1>5. CASE w \in {"CHAR", "VARCHAR"}
  <2>1. f.type \in {"Char", "Varchar"}
    BY <1>1, <1>2, <1>5, Reads
  <2> QED
    BY <2>1, TextBack
<1>6. CASE w \notin {"TIME", "BLOB", "CHAR", "VARCHAR"}
  <2>1. f.type \in {"SmallInt", "Integer", "Float", "Date", "BigInt", "Boolean", "Int128",
                              "DoublePrecision", "Timestamp"}
    BY <1>1, <1>2, <1>6, Reads DEF Spelled
  <2> QED
    BY <2>1, ScalarBack
<1> QED
  BY <1>3, <1>4, <1>5, <1>6

\* The type that view_dto takes from the driver's name of a column's type is the one
\* the column's own type is read as where it is written out, its sub-type left aside
\* (a NUMERIC is its integer), for any size, precision and scale.
THEOREM WireReading ==
    ASSUME NEW t \in RawType, t.base \in WireBase, NEW none, none = <<>>
    PROVE  from_column(raw(from_type_str(<<sql_type_name(WireCode[t.base]), none>>))).type
              = Reading([t EXCEPT !.sub = 0])
<1>1. PICK b, w : b = t.base /\ w = type_name_for(b)
  OBVIOUS
<1>2. sql_type_name(WireCode[b]) = w
  BY <1>1, SameName
<1>3. w \in Spelled \cup {"BLOB"} /\ (w = "BLOB" <=> b = 261)
  BY <1>1, SameName
<1>4. PICK f : f = from_type_str(<<w, none>>)
  OBVIOUS
<1>5. from_column(raw(f)).type = f.type
  BY <1>3, <1>4, ReadBack
<1>6. PICK u : u = [t EXCEPT !.sub = 0]
  OBVIOUS
<1>7. u.base = b /\ u.sub = 0
  BY <1>1, <1>6 DEF RawType
<1>8. PICK x : x = format_column_type(u)
  OBVIOUS
<1>9. x[1] = w
  BY <1>1, <1>7, <1>8 DEF format_column_type
<1>10. Reading(u) = f.type
  <2>1. CASE w = "BLOB"
    <3>1. x = <<w, none>>
      BY <1>1, <1>3, <1>7, <1>8, <2>1 DEF format_column_type, IntegerBase
    <3> QED
      BY <1>4, <1>8, <3>1 DEF Reading
  <2>2. CASE w # "BLOB"
    <3>1. PICK y : y = <<w, none>>
      OBVIOUS
    <3>2. y[1] = w /\ w \in Spelled
      BY <1>3, <2>2, <3>1
    <3>3. from_type_str(x).type = from_type_str(y).type
      BY <1>9, <3>2, TypeByName
    <3> QED
      BY <1>4, <1>8, <3>1, <3>3 DEF Reading
  <2> QED
    BY <2>1, <2>2
<1> QED
  BY <1>1, <1>2, <1>4, <1>5, <1>6, <1>10

-----------------------------------------------------------------------------
\* Indexes put together again from a row for each column: those with columns.
SegmentRows(i) == [j \in 1 .. Len(i.cols) |-> <<i, i.cols[j]>>]

LEMMA SegmentRowsAre ==
    ASSUME NEW i \in IndexData
    PROVE  /\ SegmentRows(i) \in Seq(IndexData \X Nat)
           /\ DOMAIN SegmentRows(i) = 1 .. Len(i.cols) /\ Len(i.cols) \in Nat
           /\ \A j \in 1 .. Len(i.cols) : SegmentRows(i)[j][1] = i /\ SegmentRows(i)[j][2] = i.cols[j]
<1>1. i.cols \in Seq(Nat)
  BY DEF IndexData
<1>2. Len(i.cols) \in Nat /\ \A j \in 1 .. Len(i.cols) : <<i, i.cols[j]>> \in IndexData \X Nat
  BY <1>1
<1> QED
  BY <1>2 DEF SegmentRows

\* The rows of one index, and its columns in them.
LEMMA GroupIs ==
    ASSUME NEW i \in IndexData, NEW mine, mine = SegmentRows(i)
    PROVE  [i EXCEPT !.cols = [j \in 1 .. Len(mine) |-> mine[j][2]]] = i
<1>1. i.cols \in Seq(Nat) /\ i = [i EXCEPT !.cols = i.cols]
  BY DEF IndexData
<1>2. /\ DOMAIN mine = 1 .. Len(i.cols) /\ Len(i.cols) \in Nat
      /\ \A j \in 1 .. Len(i.cols) : mine[j][2] = i.cols[j]
      /\ mine \in Seq(IndexData \X Nat)
  BY SegmentRowsAre
<1>3. Len(mine) = Len(i.cols)
  BY <1>2
<1>4. [j \in 1 .. Len(mine) |-> mine[j][2]] = i.cols
  <2>1. PICK c \in Seq(Nat) : c = i.cols
    BY <1>1
  <2>2. Len(mine) = Len(c) /\ \A j \in 1 .. Len(c) : mine[j][2] = c[j]
    BY <1>2, <1>3, <2>1
  <2>3. c = [j \in 1 .. Len(c) |-> c[j]]
    OBVIOUS
  <2>4. [j \in 1 .. Len(mine) |-> mine[j][2]] = [j \in 1 .. Len(c) |-> c[j]]
    BY <2>2
  <2> QED
    BY <2>1, <2>3, <2>4
<1> QED
  BY <1>1, <1>4

LEMMA GroupedIs ==
    ASSUME NEW idx \in Seq(IndexData), NamesDiffer(idx),
           NEW s, s = Segments(idx), NEW g, g = Grouped(s)
    PROVE  /\ ToSet(g) = {i \in ToSet(idx) : i.cols # <<>>}
           /\ g \in Seq(IndexData)
           /\ \E b : Picks(g, idx, {k \in DOMAIN idx : idx[k].cols # <<>>}, b)
<1> DEFINE n == Len(idx)
           X == IndexData \X Nat
           ss == [k \in 1 .. n |-> SegmentRows(idx[k])]
           places == {k \in DOMAIN s : k = 1 \/ s[k - 1][1] # s[k][1]}
           starts == Ascending(places)
           cols(k) == LET mine == Where(s, LAMBDA r : r[1] = s[starts[k]][1])
                      IN [j \in 1 .. Len(mine) |-> mine[j][2]]
           m == Cardinality(places)
<1>1. n \in Nat /\ DOMAIN idx = 1 .. n /\ \A k \in 1 .. n : idx[k] \in IndexData
  OBVIOUS
<1>2. s = FlattenSeq(ss)
  BY DEF Segments, SegmentRows
<1>3. g = [k \in 1 .. Len(starts) |-> [s[starts[k]][1] EXCEPT !.cols = cols(k)]]
  BY DEF Grouped
<1>4. DOMAIN ss = 1 .. n /\ Len(ss) = n /\ \A k \in 1 .. n : ss[k] = SegmentRows(idx[k])
  BY <1>1
<1> HIDE DEF n, ss
<1>5. ListsOf(X, ss, n)
  BY <1>1, <1>4, SegmentRowsAre DEF ListsOf
<1> HIDE DEF X
<1>6. s \in Seq(X)
  BY <1>1, <1>2, <1>4, <1>5, FlattenIs DEF ListsOf
<1>7. PICK at : Joins(s, ss, n, at)
  BY <1>1, <1>2, <1>4, <1>5, FlattenIs DEF ListsOf
<1>8. at \in [DOMAIN s -> (1 .. n) \X Nat]
  BY <1>7 DEF Joins
<1>9. \A p \in DOMAIN s : at[p][1] \in 1 .. n /\ at[p][2] \in Nat /\ at[p] = <<at[p][1], at[p][2]>>
  BY <1>8
<1>10. ASSUME NEW p \in DOMAIN s
       PROVE  /\ s[p][1] = idx[at[p][1]] /\ idx[at[p][1]] \in IndexData
              /\ at[p][2] \in 1 .. Len(idx[at[p][1]].cols)
  <2>1. at[p][2] \in DOMAIN ss[at[p][1]] /\ s[p] = ss[at[p][1]][at[p][2]]
    BY <1>7 DEF Joins
  <2>2. PICK i \in 1 .. n, j \in Nat : i = at[p][1] /\ j = at[p][2]
    BY <1>9
  <2>3. PICK x : x = idx[i]
    OBVIOUS
  <2>4. x \in IndexData /\ ss[i] = SegmentRows(x)
    BY <1>1, <1>4, <2>3
  <2>5. DOMAIN SegmentRows(x) = 1 .. Len(x.cols)
        /\ \A l \in 1 .. Len(x.cols) : SegmentRows(x)[l][1] = x
    BY <2>4, SegmentRowsAre
  <2>6. j \in 1 .. Len(x.cols) /\ s[p] = SegmentRows(x)[j]
    BY <2>1, <2>2, <2>4, <2>5
  <2>7. s[p][1] = x
    BY <2>5, <2>6
  <2> QED
    BY <2>2, <2>3, <2>4, <2>6, <2>7
<1>11. ASSUME NEW j \in 1 .. n, NEW k \in 1 .. n, idx[j] = idx[k]
       PROVE  j = k
  BY <1>1, <1>11 DEF NamesDiffer
\* The rows of the index at i stand together.
<1>12. ASSUME NEW i \in 1 .. n
       PROVE  Chosen(s, {p \in DOMAIN s : s[p][1] = idx[i]}) = ss[i]
  <2> DEFINE mine == {p \in DOMAIN s : at[p][1] = i}
  <2>1. {p \in DOMAIN s : s[p][1] = idx[i]} = mine
    BY <1>9, <1>10, <1>11
  <2>2. Chosen(s, {p \in DOMAIN s : s[p][1] = idx[i]}) = Chosen(s, mine)
    BY <2>1
  <2>3. mine = {p \in DOMAIN s : at[p][1] = i}
    OBVIOUS
  <2> HIDE DEF mine
  <2> QED
    BY <1>1, <1>5, <1>6, <1>7, <2>2, <2>3, BlockIs
<1>13. /\ m \in Nat /\ starts \in [1 .. m -> places] /\ places \subseteq DOMAIN s
       /\ \A j, k \in 1 .. m : j < k <=> starts[j] < starts[k]
       /\ \A p \in places : \E k \in 1 .. m : starts[k] = p
  <2>1. DOMAIN s = 1 .. Len(s) /\ Len(s) \in Nat
    BY <1>6
  <2>2. IsFiniteSet(1 .. Len(s)) /\ places \subseteq 1 .. Len(s)
    BY <2>1, FS_Interval
  <2>3. IsFiniteSet(places) /\ \A k \in places : k \in Int
    BY <2>1, <2>2, FS_Subset
  <2>4. places \subseteq DOMAIN s
    OBVIOUS
  <2> HIDE DEF places
  <2> QED
    BY <2>3, <2>4, AscendingIs
<1>14. \A p \in DOMAIN s : p \in places <=> p = 1 \/ s[p - 1][1] # s[p][1]
  OBVIOUS
<1> HIDE DEF places, starts, m
<1>15. Len(starts) = m
  BY <1>13
<1>16. ASSUME NEW k \in 1 .. m
       PROVE  /\ g[k] = idx[at[starts[k]][1]] /\ starts[k] \in DOMAIN s
  <2>1. PICK p \in DOMAIN s : p = starts[k]
    BY <1>13
  <2>8. cols(k) = LET mine == Where(s, LAMBDA r : r[1] = s[starts[k]][1])
                  IN [j \in 1 .. Len(mine) |-> mine[j][2]]
    OBVIOUS
  <2> HIDE DEF cols
  <2>2. PICK i \in 1 .. n : i = at[p][1]
    BY <1>9
  <2>3. s[p][1] = idx[i] /\ idx[i] \in IndexData
    BY <1>10, <2>2
  <2>9. PICK x : x = s[starts[k]][1]
    OBVIOUS
  <2>10. x = idx[i]
    BY <2>1, <2>3, <2>9
  <2>4. PICK mine : mine = Where(s, LAMBDA r : r[1] = x)
    OBVIOUS
  <2>5. mine = SegmentRows(idx[i])
    <3>1. mine = Chosen(s, {q \in DOMAIN s : s[q][1] = x})
      BY <2>4 DEF Where
    <3>2. Chosen(s, {q \in DOMAIN s : s[q][1] = idx[i]}) = SegmentRows(idx[i])
      BY <1>4, <1>12
    <3> QED
      BY <2>10, <3>1, <3>2
  <2>11. cols(k) = [j \in 1 .. Len(mine) |-> mine[j][2]]
    BY <2>4, <2>8, <2>9
  <2>6. g[k] = [x EXCEPT !.cols = cols(k)]
    BY <1>3, <1>15, <2>9
  <2>12. x \in IndexData /\ mine = SegmentRows(x)
    BY <2>3, <2>5, <2>10
  <2>7. g[k] = x
    BY <2>6, <2>11, <2>12, GroupIs
  <2> QED
    BY <2>1, <2>2, <2>7, <2>10
<1>17. DOMAIN g = 1 .. m /\ Len(g) = m
  BY <1>3, <1>13, <1>15
<1>18. \A k \in 1 .. m : g[k] \in IndexData
  BY <1>10, <1>16
<1>19. g \in Seq(IndexData)
  <2>1. g \in [1 .. m -> IndexData]
    BY <1>3, <1>15, <1>18
  <2> QED
    BY <1>13, <2>1
<1>20. ASSUME NEW k \in 1 .. m
       PROVE  g[k] \in ToSet(idx) /\ g[k].cols # <<>> /\ idx[at[starts[k]][1]].cols # <<>>
  <2>1. PICK i \in 1 .. n : i = at[starts[k]][1]
    BY <1>9, <1>16
  <2>2. g[k] = idx[i] /\ idx[i] \in IndexData /\ at[starts[k]][2] \in 1 .. Len(idx[i].cols)
    BY <1>10, <1>16, <2>1
  <2>3. idx[i].cols # <<>>
    <3>1. Len(idx[i].cols) # 0
      BY <2>2, SegmentRowsAre
    <3> QED
      BY <3>1
  <2> QED
    BY <1>1, <2>1, <2>2, <2>3 DEF ToSet
<1>21. ASSUME NEW i \in 1 .. n, idx[i].cols # <<>>
       PROVE  \E k \in 1 .. m : g[k] = idx[i] /\ at[starts[k]][1] = i
  <2>1. 1 \in DOMAIN ss[i]
    <3>1. idx[i].cols \in Seq(Nat) /\ idx[i] \in IndexData
      BY <1>1 DEF IndexData
    <3>2. Len(idx[i].cols) \in Nat \ {0}
      BY <1>21, <3>1
    <3> QED
      BY <1>4, <3>1, <3>2, SegmentRowsAre
  <2>2. PICK p \in DOMAIN s : at[p] = <<i, 1>>
    BY <1>7, <2>1 DEF Joins
  <2>3. at[p][1] = i /\ at[p][2] = 1
    BY <2>2
  <2>4. p \in places
    <3> SUFFICES ASSUME p # 1
                 PROVE  s[p - 1][1] # s[p][1]
      BY <1>14
    <3>1. p - 1 \in DOMAIN s /\ p - 1 < p
      <4>1. DOMAIN s = 1 .. Len(s) /\ Len(s) \in Nat
        BY <1>6
      <4> QED
        BY <4>1
    <3>2. \/ at[p - 1][1] < at[p][1]
          \/ (at[p - 1][1] = at[p][1] /\ at[p - 1][2] < at[p][2])
      BY <1>7, <3>1 DEF Joins
    <3>3. ~ (at[p - 1][2] < at[p][2])
      <4>1. at[p - 1][2] \in 1 .. Len(idx[at[p - 1][1]].cols) /\ at[p - 1][2] \in Nat
        BY <1>9, <1>10, <3>1
      <4> QED
        BY <2>3, <4>1
    <3>4. at[p - 1][1] # at[p][1]
      BY <1>1, <1>9, <3>1, <3>2, <3>3
    <3> QED
      BY <1>9, <1>10, <1>11, <3>1, <3>4
  <2>5. PICK k \in 1 .. m : starts[k] = p
    BY <1>13, <2>4
  <2> QED
    BY <1>16, <2>3, <2>5
<1>22. ToSet(g) = {g[k] : k \in 1 .. m} /\ ToSet(idx) = {idx[k] : k \in 1 .. n}
  BY <1>1, <1>17 DEF ToSet
\* Each index where its first row stands.
<1>23. PICK b : b = [k \in 1 .. m |-> at[starts[k]][1]]
  OBVIOUS
<1>24. PICK P : P = {k \in DOMAIN idx : idx[k].cols # <<>>}
  OBVIOUS
<1>25. \A k \in 1 .. m : b[k] = at[starts[k]][1] /\ b[k] \in P /\ b[k] \in 1 .. n
  BY <1>1, <1>9, <1>16, <1>20, <1>23, <1>24
<1>26. ASSUME NEW p \in DOMAIN s, NEW q \in DOMAIN s, p < q, q \in places
       PROVE  at[p][1] < at[q][1]
  <2>1. DOMAIN s = 1 .. Len(s) /\ Len(s) \in Nat
    BY <1>6
  <2>2. PICK r : r = q - 1
    OBVIOUS
  <2>3. r \in DOMAIN s /\ r < q /\ q # 1 /\ p <= r /\ p \in Nat /\ r \in Nat
    BY <1>26, <2>1, <2>2
  <2>4. s[r][1] # s[q][1]
    BY <1>14, <1>26, <2>2, <2>3
  <2>5. at[r][1] # at[q][1]
    BY <1>9, <1>10, <2>3, <2>4
  <2>6. /\ at[r][1] < at[q][1] \/ at[r][1] = at[q][1]
        /\ p < r => at[p][1] < at[r][1] \/ at[p][1] = at[r][1]
    BY <1>7, <2>3 DEF Joins
  <2>7. at[p][1] \in 1 .. n /\ at[q][1] \in 1 .. n /\ at[r][1] \in 1 .. n
    BY <1>9, <2>3
  <2>8. CASE p = r
    BY <2>5, <2>6, <2>8
  <2>9. CASE p < r
    BY <1>1, <2>5, <2>6, <2>7, <2>9
  <2> QED
    BY <2>3, <2>8, <2>9
<1>27. ASSUME NEW j \in 1 .. m, NEW k \in 1 .. m, j < k
       PROVE  b[j] < b[k]
  <2>1. starts[j] \in places /\ starts[k] \in places /\ starts[j] < starts[k]
    BY <1>13, <1>27
  <2>2. PICK p, q : p = starts[j] /\ q = starts[k]
    OBVIOUS
  <2>3. p \in DOMAIN s /\ q \in DOMAIN s /\ p < q /\ q \in places
    BY <1>13, <2>1, <2>2
  <2>4. at[p][1] < at[q][1]
    BY <1>26, <2>3
  <2> QED
    BY <1>25, <2>2, <2>4
<1>28. \A j, k \in 1 .. m : j < k <=> b[j] < b[k]
  <2>1. ASSUME NEW j \in 1 .. m, NEW k \in 1 .. m, b[j] < b[k]
        PROVE  j < k
    <3>1. b[j] \in Nat /\ b[k] \in Nat /\ j \in Nat /\ k \in Nat
      BY <1>1, <1>13, <1>25
    <3>2. ~ (k < j)
      BY <1>27, <2>1, <3>1
    <3>3. j # k
      BY <2>1, <3>1
    <3> QED
      BY <3>1, <3>2, <3>3
  <2> QED
    BY <1>27, <2>1
<1>29. ASSUME NEW i \in P
       PROVE  \E k \in 1 .. m : b[k] = i
  <2>1. i \in 1 .. n /\ idx[i].cols # <<>>
    BY <1>1, <1>24
  <2> QED
    BY <1>21, <1>25, <2>1
<1>30. \A k \in 1 .. m : g[k] = idx[b[k]]
  BY <1>16, <1>25
<1>31. g \in Seq(Range(idx))
  <2>1. \A k \in 1 .. m : g[k] \in Range(idx)
    BY <1>1, <1>25, <1>30 DEF Range
  <2>2. g = [k \in 1 .. m |-> g[k]]
    BY <1>3, <1>15
  <2>3. PICK R : R = Range(idx)
    OBVIOUS
  <2>4. \A k \in 1 .. m : g[k] \in R
    BY <2>1, <2>3
  <2>5. g \in [1 .. m -> R]
    BY <2>2, <2>4
  <2>6. g \in Seq(R)
    BY <1>13, <2>5
  <2> QED
    BY <2>3, <2>6
<1>32. DOMAIN b = 1 .. m /\ b \in [1 .. m -> P]
  BY <1>23, <1>25
<1>33. Picks(g, idx, P, b)
  BY <1>17, <1>28, <1>29, <1>30, <1>31, <1>32 DEF Picks
<1>34. ToSet(g) = {i \in ToSet(idx) : i.cols # <<>>}
  BY <1>20, <1>21, <1>22
<1>35. \E x : Picks(g, idx, {k \in DOMAIN idx : idx[k].cols # <<>>}, x)
  BY <1>24, <1>33
<1> QED
  BY <1>19, <1>34, <1>35

\* The members of lists.
LEMMA JoinSets ==
    ASSUME NEW A, NEW s \in Seq(A), NEW B, NEW t \in Seq(B), NEW u, u = s \o t
    PROVE  /\ \A x : x \in ToSet(u) <=> x \in ToSet(s) \/ x \in ToSet(t)
           /\ u \in Seq(A \cup B)
<1>1. /\ u \in Seq(A \cup B)
      /\ \A k \in DOMAIN s : k \in DOMAIN u /\ u[k] = s[k]
      /\ \A k \in DOMAIN t : Len(s) + k \in DOMAIN u /\ u[Len(s) + k] = t[k]
      /\ \A k \in DOMAIN u : \/ k \in DOMAIN s /\ u[k] = s[k]
                             \/ (k - Len(s) \in DOMAIN t /\ u[k] = t[k - Len(s)])
  BY AppendedIs
<1>2. \A x \in ToSet(u) : x \in ToSet(s) \cup ToSet(t)
  BY <1>1 DEF ToSet
<1>3. \A x \in ToSet(s) : x \in ToSet(u)
  BY <1>1 DEF ToSet
<1>4. ASSUME NEW x \in ToSet(t)
      PROVE  x \in ToSet(u)
  <2>1. PICK k \in DOMAIN t : t[k] = x
    BY DEF ToSet
  <2>2. Len(s) + k \in DOMAIN u /\ u[Len(s) + k] = x
    BY <1>1, <2>1
  <2>3. PICK j : j = Len(s) + k
    OBVIOUS
  <2>4. j \in DOMAIN u /\ u[j] = x
    BY <2>2, <2>3
  <2> QED
    BY <2>4 DEF ToSet
<1> QED
  BY <1>1, <1>2, <1>3, <1>4

LEMMA EachSet ==
    ASSUME NEW A, NEW s \in Seq(A), NEW f, f = [k \in 1 .. Len(s) |-> f[k]]
    PROVE  /\ ToSet(f) = {f[k] : k \in 1 .. Len(s)} /\ f \in Seq(ToSet(f)) /\ Len(f) = Len(s)
           /\ ToSet(s) = {s[k] : k \in 1 .. Len(s)}
<1>1. PICK n \in Nat : n = Len(s) /\ DOMAIN s = 1 .. n
  OBVIOUS
<1>2. DOMAIN f = 1 .. n
  BY <1>1
<1>3. ToSet(f) = {f[k] : k \in 1 .. n} /\ ToSet(s) = {s[k] : k \in 1 .. n}
  BY <1>1, <1>2 DEF ToSet
<1>4. PICK T : T = ToSet(f)
  OBVIOUS
<1>5. f \in [1 .. n -> T]
  BY <1>1, <1>3, <1>4
<1>6. f \in Seq(T) /\ Len(f) = n
  BY <1>2, <1>5
<1> QED
  BY <1>1, <1>3, <1>4, <1>6

\* All indexes of a table, those of its keys first.
LEMMA AllAre ==
    ASSUME NEW o \in Object, kind(o) = "table", NEW keyed, keyed = Keyed(World[o].cons),
           NEW all, all = ForEach(keyed, KeyIndex) \o World[o].idx
    PROVE  /\ all \in Seq(IndexData) /\ NamesDiffer(all)
           /\ ToSet(all) = {KeyIndex(c) : c \in ToSet(keyed)} \cup ToSet(World[o].idx)
<1> DEFINE of == ForEach(keyed, KeyIndex)
           idx == World[o].idx
<1>1. /\ keyed \in Seq(ConstraintData) /\ NamesDiffer(keyed)
      /\ idx \in Seq(IndexData) /\ NamesDiffer(idx)
      /\ \A c \in ToSet(keyed), i \in ToSet(idx) : c.name # i.name
  BY KeysAre
<1>2. of = [k \in 1 .. Len(keyed) |-> of[k]] /\ \A k \in 1 .. Len(keyed) : of[k] = KeyIndex(keyed[k])
  BY DEF ForEach
<1>3. all = of \o idx
  OBVIOUS
<1> HIDE DEF of, idx
<1>4. Len(keyed) \in Nat /\ DOMAIN keyed = 1 .. Len(keyed)
      /\ \A k \in 1 .. Len(keyed) : keyed[k] \in ConstraintData
  BY <1>1
<1>5. \A c \in ConstraintData : KeyIndex(c) \in IndexData /\ KeyIndex(c).name = c.name
  BY DEF ConstraintData, IndexData, KeyIndex
<1>6. of \in Seq(IndexData) /\ Len(of) = Len(keyed) /\ DOMAIN of = 1 .. Len(keyed)
  <2>1. PICK n \in Nat : n = Len(keyed)
    BY <1>4
  <2>2. of \in [1 .. n -> IndexData]
    BY <1>2, <1>4, <1>5, <2>1
  <2> QED
    BY <2>1, <2>2
<1>7. /\ all \in Seq(IndexData \cup IndexData)
      /\ \A k \in DOMAIN all :
             \/ k \in DOMAIN of /\ all[k] = of[k]
             \/ (k - Len(of) \in DOMAIN idx /\ all[k] = idx[k - Len(of)])
  BY <1>1, <1>3, <1>6, AppendedIs
<1>8. ToSet(all) = ToSet(of) \cup ToSet(idx)
  <2>1. PICK B : B = IndexData
    OBVIOUS
  <2>2. PICK a, b, c : a = all /\ b = of /\ c = idx
    OBVIOUS
  <2>3. b \in Seq(B) /\ c \in Seq(B) /\ a = b \o c
    BY <1>1, <1>3, <1>6, <2>1, <2>2
  <2>4. \A x : x \in ToSet(a) <=> x \in ToSet(b) \/ x \in ToSet(c)
    BY <2>3, JoinSets
  <2> QED
    BY <2>2, <2>4
<1>9. ToSet(of) = {KeyIndex(c) : c \in ToSet(keyed)}
  BY <1>2, <1>4, <1>6 DEF ToSet
<1>10. /\ \A k \in DOMAIN of : keyed[k] \in ToSet(keyed) /\ of[k].name = keyed[k].name
       /\ \A k \in DOMAIN idx : idx[k] \in ToSet(idx)
  BY <1>2, <1>4, <1>5, <1>6 DEF ToSet
<1>11. ASSUME NEW j \in DOMAIN all, NEW k \in DOMAIN all, all[j].name = all[k].name
       PROVE  j = k
  <2>1. j \in Nat /\ k \in Nat /\ Len(of) \in Nat
    BY <1>4, <1>6, <1>7
  <2>2. CASE j \in DOMAIN of /\ all[j] = of[j] /\ k \in DOMAIN of /\ all[k] = of[k]
    BY <1>1, <1>4, <1>6, <1>10, <1>11, <2>2 DEF NamesDiffer
  <2>3. CASE /\ j - Len(of) \in DOMAIN idx /\ all[j] = idx[j - Len(of)]
             /\ k - Len(of) \in DOMAIN idx /\ all[k] = idx[k - Len(of)]
    <3>1. j - Len(of) = k - Len(of)
      BY <1>1, <1>11, <2>3 DEF NamesDiffer
    <3> QED
      BY <2>1, <3>1
  <2>4. CASE \/ /\ j \in DOMAIN of /\ all[j] = of[j]
                /\ k - Len(of) \in DOMAIN idx /\ all[k] = idx[k - Len(of)]
             \/ /\ k \in DOMAIN of /\ all[k] = of[k]
                /\ j - Len(of) \in DOMAIN idx /\ all[j] = idx[j - Len(of)]
    <3>1. ASSUME NEW p \in DOMAIN of, NEW q \in DOMAIN idx
          PROVE  of[p].name # idx[q].name
      <4>1. keyed[p] \in ToSet(keyed) /\ idx[q] \in ToSet(idx) /\ of[p].name = keyed[p].name
        BY <1>10
      <4> QED
        BY <1>1, <4>1
    <3>2. CASE /\ j \in DOMAIN of /\ all[j] = of[j]
               /\ k - Len(of) \in DOMAIN idx /\ all[k] = idx[k - Len(of)]
      BY <1>11, <3>1, <3>2
    <3>3. CASE /\ k \in DOMAIN of /\ all[k] = of[k]
               /\ j - Len(of) \in DOMAIN idx /\ all[j] = idx[j - Len(of)]
      BY <1>11, <3>1, <3>3
    <3> QED
      BY <2>4, <3>2, <3>3
  <2> QED
    BY <1>7, <2>2, <2>3, <2>4
<1> QED
  BY <1>7, <1>8, <1>9, <1>11 DEF NamesDiffer, idx

\* describe_table tells them: those that have columns.
LEMMA IndexesAre ==
    ASSUME NEW o \in Object, kind(o) = "table", NEW keyed, keyed = Keyed(World[o].cons),
           NEW all, all = ForEach(keyed, KeyIndex) \o World[o].idx,
           NEW g, g = Grouped(Segments(all))
    PROVE  IndexesRight(o, g)
<1>1. /\ all \in Seq(IndexData) /\ NamesDiffer(all)
      /\ ToSet(all) = {KeyIndex(c) : c \in ToSet(keyed)} \cup ToSet(World[o].idx)
  BY AllAre
<1>2. ToSet(g) = {i \in ToSet(all) : i.cols # <<>>}
  BY <1>1, GroupedIs
<1>3. \A c \in ToSet(keyed) : c.cols # <<>>
  BY KeyAssumption
<1>4. \A c : KeyIndex(c).cols = c.cols /\ OfIndex(KeyIndex(c)) = AsIndex(c)
  BY DEF KeyIndex, OfIndex, AsIndex
<1>5. PICK own : own = ToSet(World[o].idx)
  OBVIOUS
<1>6. ToSet(g) = {KeyIndex(c) : c \in ToSet(keyed)} \cup {j \in own : j.cols # <<>>}
  BY <1>1, <1>2, <1>3, <1>4, <1>5
<1>7. {OfIndex(i) : i \in ToSet(g)} =
          {AsIndex(c) : c \in ToSet(keyed)} \cup {OfIndex(i) : i \in {j \in own : j.cols # <<>>}}
  <2>1. \A x : x \in {OfIndex(i) : i \in ToSet(g)} =>
                  x \in {AsIndex(c) : c \in ToSet(keyed)}
                           \cup {OfIndex(i) : i \in {j \in own : j.cols # <<>>}}
    BY <1>4, <1>6
  <2>2. \A c \in ToSet(keyed) : KeyIndex(c) \in ToSet(g) /\ AsIndex(c) = OfIndex(KeyIndex(c))
    BY <1>4, <1>6
  <2> QED
    BY <1>6, <2>1, <2>2
<1> QED
  BY <1>5, <1>7 DEF IndexesRight

-----------------------------------------------------------------------------
\* The queries of describe_table follow one another, for the same table.
Succ == [columns_of |-> "comments_of", comments_of |-> "indexes_of", indexes_of |-> "constraints_of",
         constraints_of |-> "triggers_of", triggers_of |-> "schema"]
Firsts == {"columns_of", "comments_of", "indexes_of", "constraints_of", "triggers_of"}
Lasts == {"comments_of", "indexes_of", "constraints_of", "triggers_of", "schema"}
Linked(w) ==
    /\ \E A : w \in Seq(A)
    /\ \A k \in DOMAIN w : w[k].op \in Firsts =>
          k + 1 \in DOMAIN w /\ w[k + 1].op = Succ[w[k].op] /\ w[k + 1].of = w[k].of
    /\ \A k \in DOMAIN w : w[k].op \in Lasts => k = 1 \/ w[k - 1].op \in Firsts
Fresh(w) == Linked(w) /\ (1 \in DOMAIN w => w[1].op \notin Lasts)

LEMMA SuccIs ==
    /\ DOMAIN Succ = Firsts
    /\ Succ["columns_of"] = "comments_of" /\ Succ["comments_of"] = "indexes_of"
    /\ Succ["indexes_of"] = "constraints_of" /\ Succ["constraints_of"] = "triggers_of"
    /\ Succ["triggers_of"] = "schema"
    /\ \A op \in Firsts : Succ[op] \in Lasts
  BY DEF Succ, Firsts, Lasts

LEMMA LinkedEnd ==
    ASSUME NEW w, Linked(w), NEW d \in 1 .. Len(w), NEW A, NEW u \in Seq(A), EndOf(u, w, d)
    PROVE  Linked(u) /\ (w[d].op \notin Firsts => Fresh(u))
<1>1. PICK n \in Nat : n = Len(w) /\ DOMAIN w = 1 .. n
  BY DEF Linked
<1>2. d \in Nat /\ d >= 1 /\ d <= n /\ DOMAIN u = 1 .. n - d
  BY <1>1 DEF EndOf
<1>3. ASSUME NEW k \in DOMAIN u, u[k].op \in Firsts
      PROVE  k + 1 \in DOMAIN u /\ u[k + 1].op = Succ[u[k].op] /\ u[k + 1].of = u[k].of
  <2>1. k + d \in DOMAIN w /\ u[k] = w[k + d]
    BY DEF EndOf
  <2>2. k + d + 1 \in DOMAIN w /\ w[k + d + 1].op = Succ[u[k].op] /\ w[k + d + 1].of = u[k].of
    BY <1>3, <2>1 DEF Linked
  <2>3. k + 1 \in DOMAIN u /\ k + 1 + d = k + d + 1
    BY <1>1, <1>2, <2>2
  <2>4. u[k + 1] = w[k + d + 1]
    BY <2>3 DEF EndOf
  <2> QED
    BY <2>2, <2>3, <2>4
<1>4. ASSUME NEW k \in DOMAIN u, u[k].op \in Lasts
      PROVE  k = 1 \/ u[k - 1].op \in Firsts
  <2> SUFFICES ASSUME k # 1
               PROVE  u[k - 1].op \in Firsts
    OBVIOUS
  <2>1. k + d \in DOMAIN w /\ u[k] = w[k + d]
    BY DEF EndOf
  <2>2. k + d # 1
    BY <1>2
  <2>3. w[k + d - 1].op \in Firsts
    BY <1>4, <2>1, <2>2 DEF Linked
  <2>4. k - 1 \in DOMAIN u /\ k - 1 + d = k + d - 1
    BY <1>2
  <2>5. u[k - 1] = w[k + d - 1]
    BY <2>4 DEF EndOf
  <2> QED
    BY <2>3, <2>5
<1>5. Linked(u)
  BY <1>3, <1>4 DEF Linked
<1>6. ASSUME w[d].op \notin Firsts, 1 \in DOMAIN u
      PROVE  u[1].op \notin Lasts
  <2>1. 1 + d \in DOMAIN w /\ u[1] = w[1 + d]
    BY <1>6 DEF EndOf
  <2>2. 1 + d # 1 /\ 1 + d - 1 = d
    BY <1>2
  <2> QED
    BY <1>6, <2>1, <2>2 DEF Linked
<1> QED
  BY <1>5, <1>6 DEF Fresh

LEMMA LinkedTail ==
    ASSUME NEW w, Linked(w), w # <<>>, NEW u, u = Tail(w)
    PROVE  /\ Linked(u) /\ (w[1].op \notin Firsts => Fresh(u))
           /\ w[1] = Head(w) /\ 1 \in DOMAIN w
           /\ w[1].op \in Firsts =>
                 u # <<>> /\ Head(u).op = Succ[w[1].op] /\ Head(u).of = w[1].of
<1>1. PICK A : w \in Seq(A)
  BY DEF Linked
<1>2. PICK n \in Nat : n = Len(w) /\ DOMAIN w = 1 .. n /\ n # 0
  BY <1>1
<1>3. u \in Seq(A) /\ DOMAIN u = 1 .. n - 1 /\ \A k \in DOMAIN u : u[k] = w[k + 1]
  BY <1>1, <1>2
<1>4. 1 \in 1 .. Len(w) /\ EndOf(u, w, 1)
  BY <1>2, <1>3 DEF EndOf
<1>5. Linked(u) /\ (w[1].op \notin Firsts => Fresh(u))
  BY <1>3, <1>4, LinkedEnd
<1>6. w[1] = Head(w) /\ 1 \in DOMAIN w
  BY <1>1, <1>2
<1>7. ASSUME w[1].op \in Firsts
      PROVE  u # <<>> /\ Head(u).op = Succ[w[1].op] /\ Head(u).of = w[1].of
  <2>1. 1 + 1 \in DOMAIN w /\ w[1 + 1].op = Succ[w[1].op] /\ w[1 + 1].of = w[1].of
    BY <1>6, <1>7 DEF Linked
  <2>2. 1 \in DOMAIN u /\ u[1] = w[2]
    BY <1>2, <1>3, <2>1
  <2>3. u # <<>> /\ Head(u) = u[1]
    BY <1>3, <2>2
  <2> QED
    BY <2>1, <2>2, <2>3
<1> QED
  BY <1>5, <1>6, <1>7

\* What is not the work of one schema: lists that no schema of another is cut by.
LEMMA FreshJoins ==
    ASSUME NEW s, Fresh(s), NEW t, Fresh(t), NEW u, u = s \o t
    PROVE  Fresh(u)
<1>1. PICK A : s \in Seq(A)
  BY DEF Fresh, Linked
<1>2. PICK B : t \in Seq(B)
  BY DEF Fresh, Linked
<1>3. /\ u \in Seq(A \cup B) /\ Len(s) \in Nat
      /\ DOMAIN s = 1 .. Len(s) /\ DOMAIN t = 1 .. Len(t) /\ Len(t) \in Nat
      /\ \A k \in DOMAIN s : k \in DOMAIN u /\ u[k] = s[k]
      /\ \A k \in DOMAIN t : Len(s) + k \in DOMAIN u /\ u[Len(s) + k] = t[k]
      /\ \A k \in DOMAIN u : \/ k \in DOMAIN s /\ u[k] = s[k]
                             \/ (k - Len(s) \in DOMAIN t /\ u[k] = t[k - Len(s)])
  BY <1>1, <1>2, AppendedIs
<1>4. PICK m \in Nat : m = Len(s)
  BY <1>3
<1>5. \A k \in DOMAIN u : k \in Int
  BY <1>3
<1>6. ASSUME NEW k \in DOMAIN u, u[k].op \in Firsts
      PROVE  k + 1 \in DOMAIN u /\ u[k + 1].op = Succ[u[k].op] /\ u[k + 1].of = u[k].of
  <2>1. CASE k \in DOMAIN s /\ u[k] = s[k]
    <3>1. k + 1 \in DOMAIN s /\ s[k + 1].op = Succ[s[k].op] /\ s[k + 1].of = s[k].of
      BY <1>6, <2>1 DEF Fresh, Linked
    <3> QED
      BY <1>3, <2>1, <3>1
  <2>2. CASE k - m \in DOMAIN t /\ u[k] = t[k - m]
    <3>1. PICK j : j = k - m
      OBVIOUS
    <3>2. j + 1 \in DOMAIN t /\ t[j + 1].op = Succ[t[j].op] /\ t[j + 1].of = t[j].of
      BY <1>6, <2>2, <3>1 DEF Fresh, Linked
    <3>3. m + (j + 1) \in DOMAIN u /\ u[m + (j + 1)] = t[j + 1]
      BY <1>3, <1>4, <3>2
    <3>4. m + (j + 1) = k + 1
      BY <1>5, <3>1
    <3> QED
      BY <2>2, <3>1, <3>2, <3>3, <3>4
  <2> QED
    BY <1>3, <1>4, <2>1, <2>2
<1>7. ASSUME NEW k \in DOMAIN u, u[k].op \in Lasts, k # 1
      PROVE  u[k - 1].op \in Firsts
  <2>1. CASE k \in DOMAIN s /\ u[k] = s[k]
    <3>1. s[k - 1].op \in Firsts /\ k - 1 \in DOMAIN s
      BY <1>3, <1>7, <2>1 DEF Fresh, Linked
    <3> QED
      BY <1>3, <3>1
  <2>2. CASE k - m \in DOMAIN t /\ u[k] = t[k - m]
    <3>1. PICK j : j = k - m
      OBVIOUS
    <3>2. j \in DOMAIN t /\ t[j].op \in Lasts
      BY <1>7, <2>2, <3>1
    <3>3. j # 1
      BY <3>2 DEF Fresh
    <3>4. t[j - 1].op \in Firsts
      BY <3>2, <3>3 DEF Fresh, Linked
    <3>5. j - 1 \in DOMAIN t
      BY <1>3, <3>2, <3>3
    <3>6. m + (j - 1) \in DOMAIN u /\ u[m + (j - 1)] = t[j - 1]
      BY <1>3, <1>4, <3>5
    <3>7. m + (j - 1) = k - 1
      BY <1>5, <3>1
    <3> QED
      BY <3>4, <3>6, <3>7
  <2> QED
    BY <1>3, <1>4, <2>1, <2>2
<1>8. ASSUME 1 \in DOMAIN u
      PROVE  u[1].op \notin Lasts
  <2>1. CASE 1 \in DOMAIN s /\ u[1] = s[1]
    BY <2>1 DEF Fresh
  <2>2. CASE 1 - m \in DOMAIN t /\ u[1] = t[1 - m]
    <3>1. 1 - m = 1
      BY <1>3, <1>4, <2>2
    <3> QED
      BY <2>2, <3>1 DEF Fresh
  <2> QED
    BY <1>3, <1>4, <1>8, <2>1, <2>2
<1> QED
  BY <1>3, <1>6, <1>7, <1>8 DEF Fresh, Linked

LEMMA FreshFlattened ==
    ASSUME NEW ss, NEW n \in Nat, DOMAIN ss = 1 .. n, Len(ss) = n,
           \A i \in 1 .. n : Fresh(ss[i]), NEW w, w = FlattenSeq(ss)
    PROVE  Fresh(w)
<1>1. CASE n = 0
  <2>1. w = <<>>
    BY <1>1 DEF FlattenSeq
  <2>2. <<>> \in Seq({}) /\ DOMAIN <<>> = {}
    OBVIOUS
  <2> QED
    BY <2>1, <2>2 DEF Fresh, Linked
<1>2. CASE n # 0
  <2> DEFINE flat == CHOOSE f : Joined(ss, f, n)
  <2>1. Joined(ss, flat, n)
    BY JoinedExists
  <2>2. w = flat[n]
    BY <1>2 DEF FlattenSeq, Joined
  <2> HIDE DEF flat
  <2> DEFINE S == {m \in Nat : m + 1 \in 1 .. n => Fresh(flat[m + 1])}
  <2>3. 0 \in S
    <3>1. flat[1] = ss[1] /\ 1 \in 1 .. n
      BY <1>2, <2>1 DEF Joined
    <3> QED
      BY <3>1
  <2>4. ASSUME NEW m \in Nat, m \in S
        PROVE  m + 1 \in S
    <3>0. PICK k \in Nat : k = m + 1
      OBVIOUS
    <3> SUFFICES ASSUME k + 1 \in 1 .. n
                 PROVE  Fresh(flat[k + 1])
      BY <3>0
    <3>1. m + 1 \in 1 .. n
      BY <3>0
    <3>2. Fresh(flat[k])
      BY <2>4, <3>0, <3>1
    <3>3. k + 1 # 1 /\ (k + 1) - 1 = k
      BY <3>0
    <3>4. flat[k + 1] = IF k + 1 = 1 THEN ss[k + 1] ELSE flat[(k + 1) - 1] \o ss[k + 1]
      BY <2>1 DEF Joined
    <3>5. flat[k + 1] = flat[k] \o ss[k + 1]
      BY <3>3, <3>4
    <3>6. Fresh(ss[k + 1])
      OBVIOUS
    <3> QED
      BY <3>2, <3>5, <3>6, FreshJoins
  <2> HIDE DEF S
  <2>5. Nat \subseteq S
    BY <2>3, <2>4, SetInduction
  <2>6. n - 1 \in Nat /\ (n - 1) + 1 = n /\ n \in 1 .. n
    BY <1>2
  <2>7. n - 1 \in S
    BY <2>5, <2>6
  <2> QED
    BY <2>2, <2>6, <2>7 DEF S
<1> QED
  BY <1>1, <1>2

\* Items of which none is a schema's.
LEMMA PlainFresh ==
    ASSUME NEW A, NEW s \in Seq(A), \A k \in DOMAIN s : s[k].op \notin SchemaOps
    PROVE  Fresh(s)
<1>1. Firsts \subseteq SchemaOps /\ Lasts \subseteq SchemaOps
  BY DEF Firsts, Lasts, SchemaOps
<1> QED
  BY <1>1 DEF Fresh, Linked

LEMMA DescribeTableIs ==
    ASSUME NEW n, NEW w, w = describe_table(n)
    PROVE  /\ Fresh(w) /\ Item("columns_of", n, <<>>) \in ToSet(w)
           /\ \A i \in ToSet(w) : i.op \in SchemaOps /\ i.of = n
<1> DEFINE a == Item("columns_of", n, <<>>)
           b == Item("comments_of", n, <<>>)
           c == Item("indexes_of", n, <<>>)
           d == Item("constraints_of", n, <<>>)
           e == Item("triggers_of", n, <<>>)
           f == Item("schema", n, <<>>)
<1>1. /\ a.op = "columns_of" /\ b.op = "comments_of" /\ c.op = "indexes_of"
      /\ d.op = "constraints_of" /\ e.op = "triggers_of" /\ f.op = "schema"
      /\ a.of = n /\ b.of = n /\ c.of = n /\ d.of = n /\ e.of = n /\ f.of = n
  BY ItemIs
<1>2. w = <<a, b, c, d, e, f>>
  BY DEF describe_table
<1>3. a = Item("columns_of", n, <<>>)
  OBVIOUS
<1> HIDE DEF a, b, c, d, e, f
<1>4. /\ w \in Seq({a, b, c, d, e, f}) /\ DOMAIN w = 1 .. 6
      /\ w[1] = a /\ w[2] = b /\ w[3] = c /\ w[4] = d /\ w[5] = e /\ w[6] = f
  BY <1>2
<1>5. \A k \in DOMAIN w : k = 1 \/ k = 2 \/ k = 3 \/ k = 4 \/ k = 5 \/ k = 6
  BY <1>4
<1>6. ASSUME NEW k \in DOMAIN w, w[k].op \in Firsts
      PROVE  k + 1 \in DOMAIN w /\ w[k + 1].op = Succ[w[k].op] /\ w[k + 1].of = w[k].of
  <2>1. "schema" \notin Firsts
    BY DEF Firsts
  <2>2. k # 6 /\ k + 1 \in DOMAIN w
    BY <1>1, <1>4, <1>5, <1>6, <2>1
  <2> QED
    BY <1>1, <1>4, <1>5, <2>2, SuccIs
<1>7. ASSUME NEW k \in DOMAIN w, k # 1
      PROVE  w[k - 1].op \in Firsts
  <2>1. /\ "columns_of" \in Firsts /\ "comments_of" \in Firsts /\ "indexes_of" \in Firsts
        /\ "constraints_of" \in Firsts /\ "triggers_of" \in Firsts
    BY DEF Firsts
  <2> QED
    BY <1>1, <1>4, <1>5, <1>7, <2>1
<1>8. w[1].op \notin Lasts
  BY <1>1, <1>4 DEF Lasts
<1>9. Fresh(w)
  BY <1>4, <1>6, <1>7, <1>8 DEF Fresh, Linked
<1>10. ToSet(w) = {w[k] : k \in 1 .. 6}
  BY <1>4 DEF ToSet
<1>11. \A i \in ToSet(w) : i \in {a, b, c, d, e, f}
  BY <1>4, <1>5, <1>10
<1>12. \A i \in {a, b, c, d, e, f} : i.op \in SchemaOps /\ i.of = n
  BY <1>1 DEF SchemaOps
<1>13. a \in ToSet(w)
  BY <1>4, <1>10
<1> QED
  BY <1>3, <1>9, <1>11, <1>12, <1>13

\* A schema that is given up: what is left of it goes, and nothing else.
LEMMA AfterSchemaIs ==
    ASSUME Linked(work), work # <<>>, Head(work).op \in Firsts
    PROVE  /\ Fresh(AfterSchema)
           /\ \A i \in ToSet(work) : i.op \notin SchemaOps => i \in ToSet(AfterSchema)
           /\ \A i \in ToSet(AfterSchema) : i \in ToSet(work)
<1>0. PICK w : w = work
  OBVIOUS
<1>1. PICK A : w \in Seq(A)
  BY <1>0 DEF Linked
<1>2. PICK n \in Nat : n = Len(w) /\ DOMAIN w = 1 .. n /\ 1 \in DOMAIN w /\ Head(w) = w[1]
  BY <1>0, <1>1
<1>3. Linked(w) /\ w[1].op \in Firsts
  BY <1>0, <1>2
<1> DEFINE S == {k \in 1 .. n : w[k].op \notin Firsts}
           P(k) == w[k].op = "schema" /\ \A j \in 1 .. k - 1 : w[j].op # "schema"
<1>4. n \in S
  <2>1. n + 1 \notin DOMAIN w /\ n \in DOMAIN w
    BY <1>2
  <2> QED
    BY <1>2, <1>3, <2>1 DEF Linked
<1>5. S \in SUBSET Nat /\ S # {}
  BY <1>4
<1>6. PICK m \in S : \A k \in S : m <= k
  BY <1>5, LeastNumber
<1>7. m \in 1 .. n /\ w[m].op \notin Firsts /\ m # 1 /\ \A k \in 1 .. m - 1 : w[k].op \in Firsts
  BY <1>3, <1>6
<1> HIDE DEF S
<1>8. w[m].op = "schema"
  <2>1. m - 1 \in DOMAIN w /\ m - 1 \in 1 .. m - 1
    BY <1>2, <1>7
  <2>2. w[m - 1].op \in Firsts
    BY <1>7, <2>1
  <2>3. w[(m - 1) + 1].op = Succ[w[m - 1].op] /\ (m - 1) + 1 = m
    BY <1>3, <1>7, <2>1, <2>2 DEF Linked
  <2>4. w[m].op \in Lasts
    BY <2>2, <2>3, SuccIs
  <2> QED
    BY <1>7, <2>4 DEF Firsts, Lasts
<1>9. "schema" \notin Firsts
  BY DEF Firsts
<1>10. m \in 1 .. n /\ P(m)
  BY <1>7, <1>8, <1>9
<1>11. \A k \in 1 .. n : P(k) => k = m
  <2> TAKE k \in 1 .. n
  <2>1. ASSUME P(k), k < m
        PROVE  FALSE
    BY <1>7, <1>9, <2>1
  <2>2. ASSUME P(k), m < k
        PROVE  FALSE
    <3>1. m \in 1 .. k - 1
      BY <1>7, <2>2
    <3> QED
      BY <1>8, <2>2, <3>1
  <2> QED
    BY <1>7, <2>1, <2>2
<1> HIDE DEF P
<1>12. m = CHOOSE k \in 1 .. n : P(k)
  BY <1>10, <1>11
<1>13. AfterSchema = SubSeq(w, m + 1, n)
  BY <1>0, <1>2, <1>12 DEF AfterSchema, P
<1>14. PICK u : u = SubSeq(w, m + 1, n)
  OBVIOUS
<1>15. /\ u \in Seq(A) /\ DOMAIN u = 1 .. n - m
       /\ \A k \in DOMAIN u : k + m \in DOMAIN w /\ u[k] = w[k + m]
  BY <1>1, <1>2, <1>7, <1>14
<1>16. EndOf(u, w, m) /\ m \in 1 .. Len(w)
  BY <1>2, <1>7, <1>15 DEF EndOf
<1>17. Fresh(u)
  BY <1>3, <1>7, <1>15, <1>16, LinkedEnd
<1>18. ToSet(w) = {w[k] : k \in 1 .. n} /\ ToSet(u) = {u[k] : k \in 1 .. n - m}
  BY <1>2, <1>15 DEF ToSet
<1>19. ASSUME NEW k \in 1 .. n, w[k].op \notin SchemaOps
       PROVE  w[k] \in ToSet(u)
  <2>1. Firsts \subseteq SchemaOps /\ "schema" \in SchemaOps
    BY DEF Firsts, SchemaOps
  <2>2. m < k
    BY <1>7, <1>8, <1>19, <2>1
  <2>3. k - m \in 1 .. n - m /\ (k - m) + m = k
    BY <1>7, <2>2
  <2>4. u[k - m] = w[k]
    BY <1>15, <2>3
  <2> QED
    BY <1>18, <2>3, <2>4
<1>20. \A i \in ToSet(w) : i.op \notin SchemaOps => i \in ToSet(u)
  BY <1>18, <1>19
<1>21. \A i \in ToSet(u) : i \in ToSet(w)
  BY <1>15, <1>18, <1>2
<1> QED
  BY <1>0, <1>13, <1>14, <1>17, <1>20, <1>21

-----------------------------------------------------------------------------
\* The schema that is being read, and those that have been told, are of the tables
\* and views that stay: st of the catalog, of which sn was seen.
Depth == [comments_of |-> 1, indexes_of |-> 1, constraints_of |-> 2, triggers_of |-> 3,
          schema |-> 4]
Apt(o, st) == o \in st /\ kind(o) \in Relation /\ ~ World[o].system
TriggersTold(o, rows, st, sn) ==
    /\ Numbers(TriggersOf(o, st)) \subseteq {r[1] : r \in ToSet(rows)}
    /\ {r[1] : r \in ToSet(rows)} \subseteq Numbers(TriggersOf(o, sn))
SectionRight(o, d, s, st, sn) ==
    /\ d = 1 => s = World[o].cols
    /\ d = 2 /\ kind(o) = "table" => IndexesRight(o, s)
    /\ d = 3 /\ kind(o) = "table" => ConstraintsRight(o, s)
    /\ d = 4 => TriggersTold(o, s, st, sn)
SchemaTold(o, s, st, sn) == \A d \in 1 .. 4 : SectionRight(o, d, s[d], st, sn)
PartFor(p, n, d, st, sn) ==
    /\ \E B : p \in Seq(B)
    /\ Len(p) = d
    /\ \A o \in Object : Apt(o, st) /\ name(o) = n =>
          \A j \in 1 .. d : SectionRight(o, j, p[j], st, sn)
Built(w, p, st, sn) ==
    w # <<>> /\ Head(w).op \in Lasts => PartFor(p, Head(w).of, Depth[Head(w).op], st, sn)
OutRight(t, st, sn) ==
    /\ \E B : t \in Seq(B)
    /\ \A r \in ToSet(t) : r.told = "schema" =>
          \A o \in Object : Apt(o, st) /\ name(o) = r.name => SchemaTold(o, r.sections, st, sn)
Reading3(w, p, t, st, sn) == Linked(w) /\ Built(w, p, st, sn) /\ OutRight(t, st, sn)

LEMMA DepthIs ==
    /\ Depth["comments_of"] = 1 /\ Depth["indexes_of"] = 1 /\ Depth["constraints_of"] = 2
    /\ Depth["triggers_of"] = 3 /\ Depth["schema"] = 4
  BY DEF Depth

\* What stayed grows less, what was seen grows.
LEMMA SectionStays ==
    ASSUME NEW o, NEW d, NEW s, NEW st, NEW sn, SectionRight(o, d, s, st, sn),
           NEW st1, st1 \subseteq st, NEW sn1, sn \subseteq sn1
    PROVE  SectionRight(o, d, s, st1, sn1)
<1>1. TriggersOf(o, st1) \subseteq TriggersOf(o, st) /\ TriggersOf(o, sn) \subseteq TriggersOf(o, sn1)
  BY DEF TriggersOf
<1>2. /\ Numbers(TriggersOf(o, st1)) \subseteq Numbers(TriggersOf(o, st))
      /\ Numbers(TriggersOf(o, sn)) \subseteq Numbers(TriggersOf(o, sn1))
  BY <1>1 DEF Numbers
<1> QED
  BY <1>2 DEF SectionRight, TriggersTold

LEMMA ReadingStays ==
    ASSUME NEW w, NEW p, NEW t, NEW st, NEW sn, Reading3(w, p, t, st, sn),
           NEW st1, st1 \subseteq st, NEW sn1, sn \subseteq sn1
    PROVE  Reading3(w, p, t, st1, sn1)
<1>1. \A o : Apt(o, st1) => Apt(o, st)
  BY DEF Apt
<1>2. \A n, d : PartFor(p, n, d, st, sn) => PartFor(p, n, d, st1, sn1)
  <2> SUFFICES ASSUME NEW n, NEW d, PartFor(p, n, d, st, sn)
               PROVE  PartFor(p, n, d, st1, sn1)
    OBVIOUS
  <2>1. ASSUME NEW o \in Object, Apt(o, st1), name(o) = n, NEW j \in 1 .. d
        PROVE  SectionRight(o, j, p[j], st1, sn1)
    <3>1. SectionRight(o, j, p[j], st, sn)
      BY <1>1, <2>1 DEF PartFor
    <3> QED
      BY <3>1, SectionStays
  <2> QED
    BY <2>1 DEF PartFor
<1>3. Built(w, p, st1, sn1)
  BY <1>2 DEF Reading3, Built
<1>4. ASSUME NEW r \in ToSet(t), r.told = "schema", NEW o \in Object, Apt(o, st1),
             name(o) = r.name, NEW d \in 1 .. 4
      PROVE  SectionRight(o, d, r.sections[d], st1, sn1)
  <2>1. SectionRight(o, d, r.sections[d], st, sn)
    BY <1>1, <1>4 DEF Reading3, OutRight, SchemaTold
  <2> QED
    BY <2>1, SectionStays
<1> QED
  BY <1>3, <1>4 DEF Reading3, OutRight, SchemaTold

LEMMA PartGrows ==
    ASSUME NEW p, NEW n, NEW d \in Nat, NEW st, NEW sn, PartFor(p, n, d, st, sn),
           NEW x, NEW u, u = Append(p, x),
           \A o \in Object : Apt(o, st) /\ name(o) = n => SectionRight(o, d + 1, x, st, sn)
    PROVE  PartFor(u, n, d + 1, st, sn)
<1>1. PICK B : p \in Seq(B) /\ Len(p) = d
  BY DEF PartFor
<1>2. /\ u \in Seq(B \cup {x}) /\ Len(u) = d + 1 /\ u[d + 1] = x
      /\ \A j \in 1 .. d : u[j] = p[j]
  BY <1>1
<1>3. ASSUME NEW o \in Object, Apt(o, st), name(o) = n, NEW j \in 1 .. d + 1
      PROVE  SectionRight(o, j, u[j], st, sn)
  <2>0. j = d + 1 \/ j \in 1 .. d
    OBVIOUS
  <2>1. CASE j = d + 1
    BY <1>2, <1>3, <2>1
  <2>2. CASE j \in 1 .. d
    BY <1>2, <1>3, <2>2 DEF PartFor
  <2> QED
    BY <2>0, <2>1, <2>2
<1> QED
  BY <1>2, <1>3 DEF PartFor

-----------------------------------------------------------------------------
\* What the catalog has of a table or view that stays.
LEMMA AptIs ==
    ASSUME TypeOK, Slots, NEW o \in Object, Apt(o, stable)
    PROVE  /\ Columns(name(o)) = World[o].cols
           /\ kind(o) = "table" => Constraints(name(o)) = World[o].cons
                                     /\ Indexes(name(o)) = World[o].idx
           /\ Called(Relation, name(o)) # {} /\ The(Called(Relation, name(o))) = o
<1>1. o \in db /\ kind(o) \in Relation /\ ~ World[o].system
  BY DEF Apt, TypeOK, CatalogTypeOK
<1>2. o \in Called(Relation, name(o))
  BY <1>1 DEF Called, User
<1>3. The(Called(Relation, name(o))) = o
  BY <1>1, <1>2, TheIs, RelationShares
<1>4. ASSUME kind(o) = "table"
      PROVE  /\ Called({"table"}, name(o)) # {}
             /\ The(Called({"table"}, name(o))) = o
  <2>1. o \in Called({"table"}, name(o))
    BY <1>1, <1>4 DEF Called, User
  <2>2. Shares({"table"})
    BY RelationShares
  <2> QED
    BY <1>1, <1>4, <2>1, <2>2, TheIs
<1> QED
  BY <1>2, <1>3, <1>4 DEF Columns, Constraints, Indexes

TriggerRow(t) == <<name(t), World[t].event>>
LEMMA TriggersNow ==
    ASSUME TypeOK, Slots, NEW o, NEW rows, rows = ForEach(ByName(TriggersOn(name(o))), TriggerRow)
    PROVE  TriggersTold(o, rows, stable, seen)
<1> DEFINE S == TriggersOn(name(o))
           b == ByName(S)
<1>1. S \in SUBSET db /\ \A t \in S : kind(t) \in {"trigger"}
  BY DEF TriggersOn, Every
<1>2. Shares({"trigger"})
  BY RelationShares
<1>3. S = TriggersOf(o, db)
  BY DEF TriggersOn, TriggersOf, Every
<1>4. rows = [k \in 1 .. Len(b) |-> TriggerRow(b[k])]
  BY DEF ForEach
<1> HIDE DEF S
<1>5. /\ b \in Seq(S) /\ DOMAIN b = 1 .. Cardinality(S) /\ Len(b) = Cardinality(S)
      /\ \A t \in S : \E k \in DOMAIN b : b[k] = t
  BY <1>1, <1>2, ByNameIs
<1> HIDE DEF b
<1>6. DOMAIN rows = DOMAIN b /\ \A k \in DOMAIN b : rows[k] = TriggerRow(b[k]) /\ b[k] \in S
  BY <1>4, <1>5
<1>7. \A t : TriggerRow(t)[1] = name(t)
  BY DEF TriggerRow
<1>8. \A r \in ToSet(rows) : \E t \in S : r[1] = name(t)
  BY <1>6, <1>7 DEF ToSet
<1>9. ASSUME NEW t \in S
      PROVE  \E r \in ToSet(rows) : r[1] = name(t)
  <2>1. PICK k \in DOMAIN b : b[k] = t
    BY <1>5
  <2>2. rows[k] \in ToSet(rows) /\ rows[k][1] = name(t)
    BY <1>6, <1>7, <2>1 DEF ToSet
  <2> QED
    BY <2>2
<1>10. stable \subseteq db /\ db \subseteq seen
  BY DEF TypeOK, CatalogTypeOK
<1>11. TriggersOf(o, stable) \subseteq S /\ S \subseteq TriggersOf(o, seen)
  BY <1>3, <1>10 DEF TriggersOf
<1>12. Numbers(TriggersOf(o, stable)) \subseteq {r[1] : r \in ToSet(rows)}
  BY <1>9, <1>11 DEF Numbers
<1>13. {r[1] : r \in ToSet(rows)} \subseteq Numbers(TriggersOf(o, seen))
  BY <1>8, <1>11 DEF Numbers
<1> QED
  BY <1>12, <1>13 DEF TriggersTold

-----------------------------------------------------------------------------
\* The queries of describe_table, one by one.
ReadingNow == Reading3(work, part, out, stable, seen)

LEMMA RestIs ==
    ASSUME ReadingNow, work # <<>>, NEW u, u = <<>> \o Tail(work)
    PROVE  /\ u = Tail(work) /\ Linked(u) /\ (Head(work).op \notin Firsts => Fresh(u))
           /\ Head(work).op \in Firsts =>
                 u # <<>> /\ Head(u).op = Succ[Head(work).op] /\ Head(u).of = Head(work).of
           /\ out \o <<>> = out
<1>1. PICK w : w = work
  OBVIOUS
<1>2. PICK A : w \in Seq(A)
  BY <1>1 DEF ReadingNow, Reading3, Linked
<1>3. Tail(w) \in Seq(A)
  BY <1>1, <1>2
<1>4. u = Tail(w)
  BY <1>1, <1>3
<1>5. Linked(w) /\ w # <<>>
  BY <1>1 DEF ReadingNow, Reading3
<1>6. out \o <<>> = out
  <2>1. PICK t, B : t = out /\ t \in Seq(B)
    BY DEF ReadingNow, Reading3, OutRight
  <2>2. t \o <<>> = t
    BY <2>1
  <2> QED
    BY <2>1, <2>2
<1>7. /\ Linked(u) /\ (w[1].op \notin Firsts => Fresh(u)) /\ w[1] = Head(w)
      /\ w[1].op \in Firsts => u # <<>> /\ Head(u).op = Succ[w[1].op] /\ Head(u).of = w[1].of
  BY <1>1, <1>4, <1>5, LinkedTail
<1> QED
  BY <1>1, <1>4, <1>6, <1>7

\* A query whose answer is the next section.
LEMMA SectionGoesOn ==
    ASSUME ReadingNow, work # <<>>, Goes(<<>>, <<>>),
           NEW op \in Firsts, Head(work).op = op,
           NEW p, part' = p, PartFor(p, Of, Depth[Succ[op]], stable, seen)
    PROVE  ReadingNow'
<1>1. work' = <<>> \o Tail(work) /\ out' = out \o <<>> /\ UNCHANGED <<stable, seen>>
  BY DEF Goes, Rest, catalogVars
<1>2. PICK u : u = work'
  OBVIOUS
<1>3. /\ Linked(u) /\ u # <<>> /\ Head(u).op = Succ[op] /\ Head(u).of = Of /\ out' = out
  BY <1>1, <1>2, RestIs DEF Of
<1>4. Built(u, p, stable, seen)
  BY <1>3 DEF Built
<1>5. Reading3(u, p, out, stable, seen)
  BY <1>3, <1>4 DEF Reading3, ReadingNow
<1> QED
  BY <1>1, <1>2, <1>3, <1>5 DEF ReadingNow

LEMMA ColumnsGoOn ==
    ASSUME TypeOK, Slots, ReadingNow, columns_of
    PROVE  ReadingNow'
<1>1. work # <<>> /\ Head(work).op = "columns_of" /\ Goes(<<>>, <<>>) /\ part' = <<Columns(Of)>>
  BY DEF columns_of, At
<1>2. PICK c : c = Columns(Of)
  OBVIOUS
<1>3. PICK n : n = Of
  OBVIOUS
<1>4. ASSUME NEW o \in Object, Apt(o, stable), name(o) = n
      PROVE  c = World[o].cols
  BY <1>2, <1>3, <1>4, AptIs
<1>5. <<c>> \in Seq({c}) /\ Len(<<c>>) = 1 /\ <<c>>[1] = c
  OBVIOUS
<1>6. PartFor(<<c>>, n, 1, stable, seen)
  <2>1. PICK p : p = <<c>>
    OBVIOUS
  <2>2. (\E B : p \in Seq(B)) /\ Len(p) = 1 /\ p[1] = c
    BY <1>5, <2>1
  <2>3. ASSUME NEW o \in Object, Apt(o, stable), name(o) = n, NEW j \in 1 .. 1
        PROVE  SectionRight(o, j, p[j], stable, seen)
    <3>1. j = 1
      OBVIOUS
    <3> QED
      BY <1>4, <2>2, <2>3, <3>1 DEF SectionRight
  <2>4. PartFor(p, n, 1, stable, seen)
    BY <2>2, <2>3 DEF PartFor
  <2> QED
    BY <2>1, <2>4
<1>7. "columns_of" \in Firsts /\ Depth[Succ["columns_of"]] = 1
  BY DepthIs, SuccIs DEF Firsts
<1> QED
  BY <1>1, <1>2, <1>3, <1>6, <1>7, SectionGoesOn

LEMMA CommentsGoOn ==
    ASSUME ReadingNow, get_comments
    PROVE  ReadingNow'
<1>1. /\ work # <<>> /\ Head(work).op = "comments_of" /\ work' = Tail(work)
      /\ UNCHANGED <<stable, seen, part, out>>
  BY DEF get_comments, At, Rest, catalogVars
<1>2. PICK u : u = work'
  OBVIOUS
<1>3. "comments_of" \in Firsts /\ "comments_of" \in Lasts /\ Succ["comments_of"] = "indexes_of"
  BY SuccIs DEF Firsts, Lasts
<1>4. PICK w : w = work /\ Linked(w) /\ w # <<>>
  BY <1>1 DEF ReadingNow, Reading3
<1>5. /\ Linked(u) /\ u # <<>> /\ Head(u).op = "indexes_of" /\ Head(u).of = Head(work).of
  <2>1. u = Tail(w) /\ Head(w).op = "comments_of"
    BY <1>1, <1>2, <1>4
  <2> QED
    BY <1>3, <1>4, <2>1, LinkedTail
<1>6. PartFor(part, Head(work).of, 1, stable, seen)
  BY <1>1, <1>3, DepthIs DEF ReadingNow, Reading3, Built
<1>7. Built(u, part, stable, seen)
  BY <1>5, <1>6, DepthIs DEF Built
<1>8. Reading3(u, part, out, stable, seen)
  BY <1>5, <1>7 DEF Reading3, ReadingNow
<1> QED
  BY <1>1, <1>2, <1>8 DEF ReadingNow

\* The next section, of an answer that is right.
LEMMA NextSection ==
    ASSUME ReadingNow, work # <<>>, Goes(<<>>, <<>>),
           NEW op \in Firsts \cap Lasts, Head(work).op = op,
           Depth[op] \in Nat, Depth[Succ[op]] = Depth[op] + 1,
           NEW x, part' = Append(part, x),
           \A o \in Object : Apt(o, stable) /\ name(o) = Of =>
               SectionRight(o, Depth[op] + 1, x, stable, seen)
    PROVE  ReadingNow'
<1>0. PICK n : n = Of
  OBVIOUS
<1>1. PICK d \in Nat : d = Depth[op] /\ n = Of
  BY <1>0
<1>2. PartFor(part, n, d, stable, seen)
  BY <1>1 DEF ReadingNow, Reading3, Built, Of
<1>3. PICK u : u = Append(part, x)
  OBVIOUS
<1>4. PartFor(u, n, d + 1, stable, seen)
  BY <1>1, <1>2, <1>3, PartGrows
<1> QED
  BY <1>1, <1>3, <1>4, SectionGoesOn

LEMMA IndexesGoOn ==
    ASSUME TypeOK, Slots, ReadingNow, indexes_of
    PROVE  ReadingNow'
<1>1. PICK n : n = Of
  OBVIOUS
<1>2. PICK x : x = Grouped(Segments(AllIndexes(n)))
  OBVIOUS
<1>3. /\ work # <<>> /\ Head(work).op = "indexes_of" /\ Goes(<<>>, <<>>)
      /\ part' = Append(part, x)
  BY <1>1, <1>2 DEF indexes_of, At, Section
<1>4. ASSUME NEW o \in Object, Apt(o, stable), name(o) = n
      PROVE  SectionRight(o, 2, x, stable, seen)
  <2> SUFFICES ASSUME kind(o) = "table"
               PROVE  IndexesRight(o, x)
    BY DEF SectionRight
  <2>1. Constraints(n) = World[o].cons /\ Indexes(n) = World[o].idx
    BY <1>4, AptIs
  <2>2. PICK keyed : keyed = Keyed(World[o].cons)
    OBVIOUS
  <2>3. PICK all : all = ForEach(keyed, KeyIndex) \o World[o].idx
    OBVIOUS
  <2>4. AllIndexes(n) = all
    BY <2>1, <2>2, <2>3 DEF AllIndexes
  <2> QED
    BY <1>2, <2>2, <2>3, <2>4, IndexesAre
<1>5. "indexes_of" \in Firsts \cap Lasts /\ Depth["indexes_of"] = 1 /\ Depth[Succ["indexes_of"]] = 2
  BY DepthIs, SuccIs DEF Firsts, Lasts
<1> QED
  BY <1>1, <1>3, <1>4, <1>5, NextSection

LEMMA ConstraintsGoOn ==
    ASSUME TypeOK, Slots, ReadingNow, constraints_of
    PROVE  ReadingNow'
<1>1. PICK n : n = Of
  OBVIOUS
<1>2. PICK x : x = ForEach(Constraints(n), LAMBDA c : <<c.name, c.type>>)
  OBVIOUS
<1>3. /\ work # <<>> /\ Head(work).op = "constraints_of" /\ Goes(<<>>, <<>>)
      /\ part' = Append(part, x)
  BY <1>1, <1>2 DEF constraints_of, At, Section
<1>4. ASSUME NEW o \in Object, Apt(o, stable), name(o) = n
      PROVE  SectionRight(o, 3, x, stable, seen)
  <2> SUFFICES ASSUME kind(o) = "table"
               PROVE  ConstraintsRight(o, x)
    BY DEF SectionRight
  <2>1. Constraints(n) = World[o].cons
    BY <1>4, AptIs
  <2> QED
    BY <1>2, <2>1 DEF ConstraintsRight
<1>5. /\ "constraints_of" \in Firsts \cap Lasts /\ Depth["constraints_of"] = 2
      /\ Depth[Succ["constraints_of"]] = 3
  BY DepthIs, SuccIs DEF Firsts, Lasts
<1> QED
  BY <1>1, <1>3, <1>4, <1>5, NextSection

LEMMA TriggersGoOn ==
    ASSUME TypeOK, Slots, ReadingNow, triggers_of
    PROVE  ReadingNow'
<1>1. PICK n : n = Of
  OBVIOUS
<1>2. PICK x : x = ForEach(ByName(TriggersOn(n)), TriggerRow)
  OBVIOUS
<1>3. /\ work # <<>> /\ Head(work).op = "triggers_of" /\ Goes(<<>>, <<>>)
      /\ part' = Append(part, x)
  BY <1>1, <1>2 DEF triggers_of, At, Section, TriggerRow, ForEach
<1>4. ASSUME NEW o \in Object, Apt(o, stable), name(o) = n
      PROVE  SectionRight(o, 4, x, stable, seen)
  BY <1>2, <1>4, TriggersNow DEF SectionRight
<1>5. /\ "triggers_of" \in Firsts \cap Lasts /\ Depth["triggers_of"] = 3
      /\ Depth[Succ["triggers_of"]] = 4
  BY DepthIs, SuccIs DEF Firsts, Lasts
<1> QED
  BY <1>1, <1>3, <1>4, <1>5, NextSection

LEMMA OutJoins ==
    ASSUME NEW t, NEW st, NEW sn, OutRight(t, st, sn), NEW B, NEW s \in Seq(B),
           \A r \in ToSet(s) : r.told = "schema" =>
               \A o \in Object : Apt(o, st) /\ name(o) = r.name => SchemaTold(o, r.sections, st, sn),
           NEW u, u = t \o s
    PROVE  OutRight(u, st, sn)
<1>1. PICK C : t \in Seq(C)
  BY DEF OutRight
<1>2. u \in Seq(C \cup B) /\ \A x : x \in ToSet(u) <=> x \in ToSet(t) \/ x \in ToSet(s)
  BY <1>1, JoinSets
<1> QED
  BY <1>2 DEF OutRight

\* The first of what has been told stays the first.
LEMMA FirstStays ==
    ASSUME NEW A, NEW s \in Seq(A), s # <<>>, NEW B, NEW t \in Seq(B), NEW u, u = s \o t
    PROVE  u # <<>> /\ u[1] = s[1]
<1>1. 1 \in DOMAIN s /\ u \in Seq(A \cup B)
      /\ \A k \in DOMAIN s : k \in DOMAIN u /\ u[k] = s[k]
  <2>1. 1 \in DOMAIN s
    OBVIOUS
  <2> QED
    BY <2>1, AppendedIs
<1>2. 1 \in DOMAIN u /\ u[1] = s[1]
  BY <1>1
<1> QED
  BY <1>1, <1>2

LEMMA HeadSets ==
    ASSUME NEW A, NEW w \in Seq(A), w # <<>>
    PROVE  /\ \A x : x \in ToSet(w) <=> x = Head(w) \/ x \in ToSet(Tail(w))
           /\ Tail(w) \in Seq(A)
<1>1. PICK n \in Nat : n = Len(w) /\ DOMAIN w = 1 .. n /\ n # 0
  OBVIOUS
<1>2. PICK u : u = Tail(w)
  OBVIOUS
<1>3. u \in Seq(A) /\ DOMAIN u = 1 .. n - 1 /\ \A k \in DOMAIN u : u[k] = w[k + 1]
  BY <1>1, <1>2
<1>4. Head(w) = w[1] /\ 1 \in DOMAIN w
  BY <1>1
<1>5. ToSet(w) = {w[k] : k \in 1 .. n} /\ ToSet(u) = {u[k] : k \in 1 .. n - 1}
  BY <1>1, <1>3 DEF ToSet
<1>6. ASSUME NEW k \in 1 .. n, k # 1
      PROVE  w[k] \in ToSet(u)
  <2>1. k - 1 \in 1 .. n - 1 /\ (k - 1) + 1 = k
    BY <1>6
  <2>2. u[k - 1] = w[k]
    BY <1>3, <2>1
  <2> QED
    BY <1>5, <2>1, <2>2
<1>7. \A k \in 1 .. n - 1 : u[k] = w[k + 1] /\ k + 1 \in 1 .. n
  BY <1>1, <1>3
<1>8. \A x \in ToSet(u) : x \in ToSet(w)
  BY <1>5, <1>7
<1>9. \A x \in ToSet(w) : x = Head(w) \/ x \in ToSet(u)
  BY <1>4, <1>5, <1>6
<1>10. Head(w) \in ToSet(w)
  BY <1>1, <1>4, <1>5
<1> QED
  BY <1>2, <1>3, <1>8, <1>9, <1>10

\* What is to do and what has been told, as sets, after a step.
LEMMA GoesSets ==
    ASSUME ReadingNow, work # <<>>, NEW A, NEW items \in Seq(A), NEW B, NEW statements \in Seq(B),
           Goes(items, statements)
    PROVE  /\ \A x : x \in ToSet(work) <=> x = Head(work) \/ x \in ToSet(Tail(work))
           /\ \A x : x \in ToSet(work') <=> x \in ToSet(items) \/ x \in ToSet(Tail(work))
           /\ \A x : x \in ToSet(out') <=> x \in ToSet(out) \/ x \in ToSet(statements)
           /\ out # <<>> => out' # <<>> /\ out'[1] = out[1]
           /\ work' = items \o Tail(work) /\ out' = out \o statements
           /\ UNCHANGED <<db, stable, seen, changes, call, status, faulted>>
<1>1. /\ work' = items \o Tail(work) /\ out' = out \o statements
      /\ UNCHANGED <<db, stable, seen, changes, call, status, faulted>>
  BY DEF Goes, Rest, catalogVars
<1>2. PICK w, X : w = work /\ w \in Seq(X) /\ w # <<>>
  BY DEF ReadingNow, Reading3, Linked
<1>3. PICK t, Y : t = out /\ t \in Seq(Y)
  BY DEF ReadingNow, Reading3, OutRight
<1>4. Tail(w) \in Seq(X) /\ \A x : x \in ToSet(w) <=> x = Head(w) \/ x \in ToSet(Tail(w))
  BY <1>2, HeadSets
<1>5. PICK r : r = Tail(w)
  OBVIOUS
<1>6. PICK u, v : u = items \o r /\ v = t \o statements
  OBVIOUS
<1>7. \A x : x \in ToSet(u) <=> x \in ToSet(items) \/ x \in ToSet(r)
  <2>1. r \in Seq(X) /\ u = items \o r
    BY <1>4, <1>5, <1>6
  <2> QED
    BY <2>1, JoinSets
<1>8. \A x : x \in ToSet(v) <=> x \in ToSet(t) \/ x \in ToSet(statements)
  BY <1>3, <1>6, JoinSets
<1>9. t # <<>> => v # <<>> /\ v[1] = t[1]
  BY <1>3, <1>6, FirstStays
<1>10. work' = u /\ out' = v
  BY <1>1, <1>2, <1>3, <1>5, <1>6
<1> QED
  BY <1>1, <1>2, <1>3, <1>4, <1>5, <1>7, <1>8, <1>9, <1>10

LEMMA LastGoesOn ==
    ASSUME ReadingNow, schema
    PROVE  ReadingNow'
<1>1. PICK n, p : n = Of /\ p = part
  OBVIOUS
<1>2. PICK r : r = [told |-> "schema", name |-> n, sections |-> p]
  OBVIOUS
<1>3. /\ work # <<>> /\ Head(work).op = "schema" /\ Goes(<<>>, <<r>>) /\ part' = <<>>
  BY <1>1, <1>2 DEF schema, At, NoPart
<1>4. work' = <<>> \o Tail(work) /\ out' = out \o <<r>> /\ UNCHANGED <<stable, seen>>
  BY <1>3 DEF Goes, Rest, catalogVars
<1>5. PICK u, v : u = work' /\ v = out'
  OBVIOUS
<1>6. "schema" \notin Firsts /\ "schema" \in Lasts
  BY DEF Firsts, Lasts
<1>7. Fresh(u)
  BY <1>3, <1>4, <1>5, <1>6, RestIs
<1>8. PartFor(p, n, 4, stable, seen)
  BY <1>1, <1>3, <1>6, DepthIs DEF ReadingNow, Reading3, Built, Of
<1>9. r.told = "schema" /\ r.name = n /\ r.sections = p
  BY <1>2
<1>10. \A o \in Object : Apt(o, stable) /\ name(o) = n => SchemaTold(o, p, stable, seen)
  BY <1>8 DEF PartFor, SchemaTold
<1>11. PICK s : s = <<r>>
  OBVIOUS
<1>12. s \in Seq({r}) /\ \A x \in ToSet(s) : x = r
  BY <1>11 DEF ToSet
<1>13. OutRight(out, stable, seen)
  BY DEF ReadingNow, Reading3
<1>14. OutRight(v, stable, seen)
  BY <1>4, <1>5, <1>9, <1>10, <1>11, <1>12, <1>13, OutJoins
<1>15. Built(u, <<>>, stable, seen)
  <2> SUFFICES ASSUME u # <<>>
               PROVE  Head(u).op \notin Lasts
    BY DEF Built
  <2>1. PICK A : u \in Seq(A)
    BY <1>7 DEF Fresh, Linked
  <2>2. 1 \in DOMAIN u /\ Head(u) = u[1]
    BY <2>1
  <2> QED
    BY <1>7, <2>2 DEF Fresh
<1>16. Reading3(u, <<>>, v, stable, seen)
  BY <1>7, <1>14, <1>15 DEF Reading3, Fresh
<1> QED
  BY <1>3, <1>4, <1>5, <1>16 DEF ReadingNow

LEMMA FreshBuilt ==
    ASSUME NEW u, Fresh(u), NEW p, NEW st, NEW sn
    PROVE  Linked(u) /\ Built(u, p, st, sn)
<1>1. PICK A : u \in Seq(A)
  BY DEF Fresh, Linked
<1>2. ASSUME u # <<>>
      PROVE  Head(u).op \notin Lasts
  <2>1. 1 \in DOMAIN u /\ Head(u) = u[1]
    BY <1>1, <1>2
  <2> QED
    BY <2>1 DEF Fresh
<1> QED
  BY <1>2 DEF Built, Fresh

LEMMA SchemaReadGoesOn ==
    ASSUME TypeOK, Slots, ReadingNow, SchemaRead
    PROVE  ReadingNow'
  BY ColumnsGoOn, CommentsGoOn, IndexesGoOn, ConstraintsGoOn, TriggersGoOn, LastGoesOn DEF SchemaRead

LEMMA GivenUpGoesOn ==
    ASSUME ReadingNow, schema_fails
    PROVE  ReadingNow'
<1>1. /\ work # <<>> /\ Head(work).op \in Firsts
      /\ work' = AfterSchema /\ part' = <<>> /\ UNCHANGED <<stable, seen>>
      /\ out' = out \/ out' = Append(out, Told("no schema", <<>>))
  BY DEF schema_fails, TableQuery, Firsts, catalogVars
<1>2. PICK u, v, r, t : u = work' /\ v = out' /\ r = Told("no schema", <<>>) /\ t = out
  OBVIOUS
<1>3. Linked(work)
  BY DEF ReadingNow, Reading3
<1>4. Fresh(u)
  BY <1>1, <1>2, <1>3, AfterSchemaIs
<1>5. OutRight(t, stable, seen)
  BY <1>2 DEF ReadingNow, Reading3
<1>6. r.told = "no schema"
  BY <1>2 DEF Told
<1>7. OutRight(v, stable, seen)
  <2>1. PICK B : t \in Seq(B)
    BY <1>5 DEF OutRight
  <2>2. PICK s : s = <<r>>
    OBVIOUS
  <2>3. s \in Seq({r}) /\ (\A x \in ToSet(s) : x = r) /\ Append(t, r) = t \o s
    BY <2>1, <2>2 DEF ToSet
  <2>4. PICK j : j = t \o s
    OBVIOUS
  <2>5. OutRight(j, stable, seen)
    BY <1>5, <1>6, <2>3, <2>4, OutJoins
  <2> QED
    BY <1>1, <1>2, <1>5, <2>3, <2>4, <2>5
<1>8. Reading3(u, <<>>, v, stable, seen)
  BY <1>4, <1>7, FreshBuilt DEF Reading3
<1> QED
  BY <1>1, <1>2, <1>8 DEF ReadingNow

\* A step that is none of a schema's.
LEMMA PlainGoesOn ==
    ASSUME ReadingNow, work # <<>>, Head(work).op \notin SchemaOps,
           NEW items, Fresh(items), NEW B, NEW statements \in Seq(B),
           \A r \in ToSet(statements) : r.told # "schema", Goes(items, statements)
    PROVE  ReadingNow'
<1>1. work' = items \o Tail(work) /\ out' = out \o statements /\ UNCHANGED <<stable, seen>>
  BY DEF Goes, Rest, catalogVars
<1>2. Firsts \subseteq SchemaOps
  BY DEF Firsts, SchemaOps
<1>3. PICK r : r = Tail(work)
  OBVIOUS
<1>4. PICK w : w = work /\ Linked(w) /\ w # <<>>
  BY DEF ReadingNow, Reading3
<1>5. Fresh(r)
  BY <1>2, <1>3, <1>4, LinkedTail
<1>6. PICK u, v, t, p : u = work' /\ v = out' /\ t = out /\ p = part'
  OBVIOUS
<1>7. Fresh(u)
  BY <1>1, <1>3, <1>5, <1>6, FreshJoins
<1>8. OutRight(t, stable, seen)
  BY <1>6 DEF ReadingNow, Reading3
<1>9. v = t \o statements
  BY <1>1, <1>6
<1>10. OutRight(v, stable, seen)
  BY <1>8, <1>9, OutJoins
<1>11. Reading3(u, p, v, stable, seen)
  BY <1>7, <1>10, FreshBuilt DEF Reading3
<1> QED
  BY <1>1, <1>6, <1>11 DEF ReadingNow

-----------------------------------------------------------------------------
\* What is owed to an object: its schema, or what is told of its kind.
LookRank == [relation |-> 1, of_procedure |-> 2, of_function |-> 3, of_trigger |-> 4,
             of_sequence |-> 5, of_domain |-> 6]
LookOps == {"relation", "of_procedure", "of_function", "of_trigger", "of_sequence", "of_domain"}
SchemaDue(o, W, T) ==
    \/ \E t \in T : t.told = "schema" /\ t.name = name(o)
    \/ \E i \in W : i.of = name(o) /\ i.op \in SchemaOps \cup {"relation"}
Looks(i, o) == \/ i.op \in LookOps /\ LookRank[i.op] <= Rank(o)
               \/ i.op = "params_of" /\ kind(o) = "procedure"
KindDue(o, W, T) ==
    \/ \E t \in T : t.told = kind(o) /\ t.name = name(o) /\ ToldRight(o, t.row)
    \/ \E i \in W : i.of = name(o) /\ Looks(i, o)

\* It stays owed when the head of the work is done, unless the head was what it was for.
Follows(h, W, W1, T, T1) ==
    /\ \A x \in W : x = h \/ x \in W1
    /\ \A t \in T : t \in T1

LEMMA DueFollows ==
    ASSUME NEW h, NEW W, NEW W1, NEW T, NEW T1, Follows(h, W, W1, T, T1), NEW o
    PROVE  /\ SchemaDue(o, W, T) =>
                 SchemaDue(o, W1, T1) \/ (h.of = name(o) /\ h.op \in SchemaOps \cup {"relation"})
           /\ KindDue(o, W, T) => KindDue(o, W1, T1) \/ (h.of = name(o) /\ Looks(h, o))
  BY DEF Follows, SchemaDue, KindDue

LEMMA NotLooks ==
    ASSUME NEW i, i.op \in SchemaOps, NEW o
    PROVE  ~ Looks(i, o)
<1>1. SchemaOps \cap LookOps = {} /\ "params_of" \notin SchemaOps
  BY DEF SchemaOps, LookOps
<1> QED
  BY <1>1 DEF Looks

\* A query of a schema.
LEMMA SchemaReadIs ==
    ASSUME ReadingNow, SchemaRead, faulted \in BOOLEAN
    PROVE  /\ work # <<>> /\ Head(work).op \in SchemaOps
           /\ Follows(Head(work), ToSet(work), ToSet(work'), ToSet(out), ToSet(out'))
           /\ \A x \in ToSet(work') : x \in ToSet(work)
           /\ out # <<>> => out' # <<>> /\ out'[1] = out[1]
           /\ UNCHANGED <<stable, seen, call, status>>
           /\ faulted => faulted'
           /\ \/ \E i \in ToSet(work') : i.of = Head(work).of /\ i.op \in SchemaOps
              \/ \E t \in ToSet(out') : t.told = "schema" /\ t.name = Head(work).of
           /\ work' = Tail(work) /\ \A t \in ToSet(out') : t \in ToSet(out) \/ t.told = "schema"
<1>1. /\ status = "run" /\ work # <<>> /\ Head(work).op \in SchemaOps
  BY SchemaHeads DEF Heads
<1>2. PICK w, X, h : w = work /\ w \in Seq(X) /\ w # <<>> /\ Linked(w) /\ h = Head(work)
  BY <1>1 DEF ReadingNow, Reading3, Linked
<1>3. Tail(w) \in Seq(X) /\ \A x : x \in ToSet(w) <=> x = Head(w) \/ x \in ToSet(Tail(w))
  BY <1>2, HeadSets
<1>4. PICK t, Y : t = out /\ t \in Seq(Y)
  BY DEF ReadingNow, Reading3, OutRight
<1>5. CASE ~ schema
  <2>1. /\ work' = Tail(work) /\ out' = out /\ UNCHANGED <<stable, seen, call, status>>
        /\ faulted => faulted'
        /\ Head(work).op \in Firsts
    <3>1. CASE get_comments
      <4>1. /\ work' = Tail(work) /\ out' = out /\ UNCHANGED <<stable, seen, call, status>>
            /\ Head(work).op = "comments_of"
        BY <3>1 DEF get_comments, At, Rest, catalogVars
      <4>2. faulted' \in {faulted, TRUE}
        BY <3>1 DEF get_comments
      <4>3. faulted => faulted'
        BY <4>2
      <4>4. "comments_of" \in Firsts
        BY DEF Firsts
      <4> QED
        BY <4>1, <4>3, <4>4
    <3>2. CASE ~ get_comments
      <4>1. Goes(<<>>, <<>>) /\ Head(work).op \in Firsts
        BY <1>5, <3>2 DEF SchemaRead, columns_of, indexes_of, constraints_of, triggers_of, At, Firsts
      <4>2. /\ work' = <<>> \o Tail(work) /\ out' = out \o <<>>
            /\ UNCHANGED <<stable, seen, call, status, faulted>>
        BY <4>1 DEF Goes, Rest, catalogVars
      <4>3. <<>> \o Tail(w) = Tail(w) /\ t \o <<>> = t
        BY <1>3, <1>4
      <4> QED
        BY <1>2, <1>4, <4>1, <4>2, <4>3
    <3> QED
      BY <3>1, <3>2
  <2>2. PICK u : u = Tail(w)
    OBVIOUS
  <2>3. u # <<>> /\ Head(u).op \in SchemaOps /\ Head(u).of = h.of
    <3>1. u # <<>> /\ Head(u).op = Succ[Head(w).op] /\ Head(u).of = Head(w).of
      BY <1>2, <2>1, <2>2, LinkedTail
    <3>2. Lasts \subseteq SchemaOps
      BY DEF Lasts, SchemaOps
    <3> QED
      BY <1>2, <2>1, <3>1, <3>2, SuccIs
  <2>4. Head(u) \in ToSet(u)
    BY <1>3, <2>2, <2>3, HeadSets
  <2> QED
    BY <1>1, <1>2, <1>3, <2>1, <2>2, <2>3, <2>4 DEF Follows
<1>6. CASE schema
  <2>1. PICK r : r = [told |-> "schema", name |-> Of, sections |-> part]
    OBVIOUS
  <2>2. Goes(<<>>, <<r>>)
    BY <1>6, <2>1 DEF schema
  <2>3. PICK a, b : a = <<>> /\ b = <<r>>
    OBVIOUS
  <2>4. a \in Seq({}) /\ b \in Seq({r}) /\ ToSet(b) = {r} /\ ToSet(a) = {}
    BY <2>3 DEF ToSet
  <2>5. /\ \A x : x \in ToSet(work') <=> x \in ToSet(a) \/ x \in ToSet(Tail(work))
        /\ \A x : x \in ToSet(out') <=> x \in ToSet(out) \/ x \in ToSet(b)
        /\ out # <<>> => out' # <<>> /\ out'[1] = out[1]
        /\ UNCHANGED <<stable, seen, call, status, faulted>>
        /\ work' = a \o Tail(work)
    BY <1>1, <2>2, <2>3, <2>4, GoesSets
  <2>6. r.told = "schema" /\ r.name = h.of
    BY <1>2, <2>1 DEF Of
  <2>7. work' = Tail(work)
    <3>1. a \o Tail(w) = Tail(w)
      BY <1>3, <2>3
    <3> QED
      BY <1>2, <2>5, <3>1
  <2> QED
    BY <1>1, <1>2, <1>3, <2>4, <2>5, <2>6, <2>7 DEF Follows
<1> QED
  BY <1>5, <1>6

LEMMA SchemaReadOwes ==
    ASSUME ReadingNow, SchemaRead, faulted \in BOOLEAN, NEW o
    PROVE  /\ SchemaDue(o, ToSet(work), ToSet(out)) => SchemaDue(o, ToSet(work'), ToSet(out'))
           /\ KindDue(o, ToSet(work), ToSet(out)) => KindDue(o, ToSet(work'), ToSet(out'))
<1>1. PICK h, W, W1, T, T1 : /\ h = Head(work) /\ W = ToSet(work) /\ W1 = ToSet(work')
                             /\ T = ToSet(out) /\ T1 = ToSet(out')
  OBVIOUS
<1>2. /\ h.op \in SchemaOps /\ Follows(h, W, W1, T, T1)
      /\ \/ \E i \in W1 : i.of = h.of /\ i.op \in SchemaOps
         \/ \E t \in T1 : t.told = "schema" /\ t.name = h.of
  BY <1>1, SchemaReadIs
<1>3. ~ Looks(h, o)
  BY <1>2, NotLooks
<1>4. KindDue(o, W, T) => KindDue(o, W1, T1)
  BY <1>2, <1>3, DueFollows
<1>5. SchemaDue(o, W, T) => SchemaDue(o, W1, T1)
  <2>1. SchemaDue(o, W, T) => SchemaDue(o, W1, T1) \/ h.of = name(o)
    BY <1>2, DueFollows
  <2>2. h.of = name(o) => SchemaDue(o, W1, T1)
    BY <1>2 DEF SchemaDue
  <2> QED
    BY <2>1, <2>2
<1> QED
  BY <1>1, <1>4, <1>5

\* A schema that is given up.
LEMMA GivenUpIs ==
    ASSUME ReadingNow, schema_fails
    PROVE  /\ work # <<>> /\ Head(work).op \in SchemaOps
           /\ \A x \in ToSet(work) : x.op \in SchemaOps \/ x \in ToSet(work')
           /\ \A x \in ToSet(work') : x \in ToSet(work)
           /\ \A t \in ToSet(out) : t \in ToSet(out')
           /\ out # <<>> => out' # <<>> /\ out'[1] = out[1]
           /\ UNCHANGED <<stable, seen, call, status>> /\ faulted'
           /\ call.tool \in {"describe", "describe_database"}
<1>1. /\ work # <<>> /\ Head(work).op \in Firsts /\ call.tool \in {"describe", "describe_database"}
      /\ work' = AfterSchema /\ UNCHANGED <<stable, seen, call, status>> /\ faulted'
      /\ out' = out \/ out' = Append(out, Told("no schema", <<>>))
  BY DEF schema_fails, TableQuery, Firsts, catalogVars
<1>2. Linked(work)
  BY DEF ReadingNow, Reading3
<1>3. Firsts \subseteq SchemaOps
  BY DEF Firsts, SchemaOps
<1>4. /\ \A i \in ToSet(work) : i.op \notin SchemaOps => i \in ToSet(AfterSchema)
      /\ \A i \in ToSet(AfterSchema) : i \in ToSet(work)
  BY <1>1, <1>2, AfterSchemaIs
<1>5. PICK t, B, r : t = out /\ t \in Seq(B) /\ r = Told("no schema", <<>>)
  BY DEF ReadingNow, Reading3, OutRight
<1>6. /\ \A x \in ToSet(t) : x \in ToSet(Append(t, r))
      /\ t # <<>> => Append(t, r) # <<>> /\ Append(t, r)[1] = t[1]
  <2>0. t \in Seq(B)
    BY <1>5
  <2>1. PICK n \in Nat : n = Len(t) /\ DOMAIN t = 1 .. n
    BY <2>0
  <2>2. PICK u : u = Append(t, r)
    OBVIOUS
  <2>3. DOMAIN u = 1 .. n + 1 /\ \A k \in 1 .. n : u[k] = t[k]
    BY <2>0, <2>1, <2>2
  <2>4. \A x \in ToSet(t) : x \in ToSet(u)
    BY <2>1, <2>3 DEF ToSet
  <2>5. t # <<>> => 1 \in 1 .. n
    BY <2>0, <2>1
  <2>6. u # <<>>
    BY <2>0, <2>2
  <2> QED
    BY <2>2, <2>3, <2>4, <2>5, <2>6
<1> QED
  BY <1>1, <1>3, <1>4, <1>5, <1>6

LEMMA GivenUpOwes ==
    ASSUME ReadingNow, schema_fails, NEW o, KindDue(o, ToSet(work), ToSet(out))
    PROVE  KindDue(o, ToSet(work'), ToSet(out'))
<1>1. PICK W, W1, T, T1 : /\ W = ToSet(work) /\ W1 = ToSet(work')
                          /\ T = ToSet(out) /\ T1 = ToSet(out')
  OBVIOUS
<1>2. (\A x \in W : x.op \in SchemaOps \/ x \in W1) /\ \A t \in T : t \in T1
  BY <1>1, GivenUpIs
<1>3. \A i : Looks(i, o) => i.op \notin SchemaOps
  BY NotLooks
<1>4. KindDue(o, W1, T1)
  BY <1>1, <1>2, <1>3 DEF KindDue
<1> QED
  BY <1>1, <1>4

-----------------------------------------------------------------------------
\* describe_objects.
Wants == {upper[n] : n \in ToSet(call.names)}
Sought(o, wants, st, sn) ==
    /\ o \in st /\ ~ World[o].system /\ name(o) \in wants
    /\ \A p \in sn : name(p) = name(o) /\ ~ World[p].system => Rank(p) >= Rank(o)
DescribeOwes(W, T, wants, fault, st, sn) ==
    /\ \A i \in W : i.op \in DescribeOps \cup SchemaOps
    /\ \A o \in Object : Sought(o, wants, st, sn) =>
          KindDue(o, W, T) /\ (kind(o) \in Relation /\ ~ fault => SchemaDue(o, W, T))
Describing == DescribeOwes(ToSet(work), ToSet(out), Wants, faulted, stable, seen)

LEMMA RanksAre ==
    /\ Ranks[1] = Relation /\ Ranks[2] = {"procedure"} /\ Ranks[3] = {"function"}
    /\ Ranks[4] = {"trigger"} /\ Ranks[5] = {"sequence"} /\ Ranks[6] = {"domain"}
    /\ DOMAIN Ranks = 1 .. 6
    /\ \A o \in Object : /\ Rank(o) \in 1 .. 6 /\ kind(o) \in Ranks[Rank(o)]
                         /\ \A k \in 1 .. 6 : kind(o) \in Ranks[k] => k = Rank(o)
<1>1. /\ Ranks[1] = Relation /\ Ranks[2] = {"procedure"} /\ Ranks[3] = {"function"}
      /\ Ranks[4] = {"trigger"} /\ Ranks[5] = {"sequence"} /\ Ranks[6] = {"domain"}
      /\ DOMAIN Ranks = 1 .. 6
  BY DEF Ranks
<1>2. ASSUME NEW o \in Object
      PROVE  /\ Rank(o) \in 1 .. 6 /\ kind(o) \in Ranks[Rank(o)]
             /\ \A k \in 1 .. 6 : kind(o) \in Ranks[k] => k = Rank(o)
  <2>1. PICK x : x = kind(o)
    OBVIOUS
  <2>2. x \in {"domain", "table", "view", "sequence", "trigger", "procedure", "function"}
    BY <2>1, CatalogAssumption DEF Kind, kind
  <2>3. \E k \in 1 .. 6 : x \in Ranks[k]
    BY <1>1, <2>2 DEF Relation
  <2>4. \A j, k \in 1 .. 6 : x \in Ranks[j] /\ x \in Ranks[k] => j = k
    <3> SUFFICES ASSUME NEW j \in 1 .. 6, NEW k \in 1 .. 6, x \in Ranks[j], x \in Ranks[k]
                 PROVE  j = k
      OBVIOUS
    <3>1. j \in {1, 2, 3, 4, 5, 6} /\ k \in {1, 2, 3, 4, 5, 6}
      OBVIOUS
    <3> QED
      BY <1>1, <3>1 DEF Relation
  <2>5. Rank(o) = CHOOSE k \in 1 .. 6 : x \in Ranks[k]
    BY <1>1, <2>1 DEF Rank
  <2>6. Rank(o) \in 1 .. 6 /\ x \in Ranks[Rank(o)]
    BY <2>3, <2>5
  <2> QED
    BY <2>1, <2>4, <2>6
<1> QED
  BY <1>1, <1>2

LEMMA LooksAre ==
    /\ LookRank["relation"] = 1 /\ LookRank["of_procedure"] = 2 /\ LookRank["of_function"] = 3
    /\ LookRank["of_trigger"] = 4 /\ LookRank["of_sequence"] = 5 /\ LookRank["of_domain"] = 6
    /\ LookOps \subseteq DescribeOps /\ LookOps \cap SchemaOps = {} /\ "params_of" \notin LookOps
    /\ DescribeOps \cap SchemaOps = {}
  BY DEF LookRank, LookOps, DescribeOps, SchemaOps

\* A lookup that comes upon an object of its kind has found what is sought; one that
\* does not leaves it to a later kind.
LEMMA LookFinds ==
    ASSUME TypeOK, Slots, NEW r \in 1 .. 6, Head(work).op \in LookOps, LookRank[Head(work).op] = r,
           NEW o \in Object, Sought(o, Wants, stable, seen), name(o) = Of, Looks(Head(work), o)
    PROVE  /\ Called(Ranks[r], Of) = {} => r + 1 <= Rank(o)
           /\ Called(Ranks[r], Of) # {} => The(Called(Ranks[r], Of)) = o /\ Rank(o) = r
<1>1. o \in stable /\ o \in db /\ ~ World[o].system /\ db \subseteq seen /\ db \subseteq Object
  BY DEF Sought, TypeOK, CatalogTypeOK
<1>2. Rank(o) \in 1 .. 6 /\ kind(o) \in Ranks[Rank(o)]
  BY RanksAre
<1>3. r <= Rank(o)
  BY LooksAre DEF Looks
<1>4. Rank(o) = r => o \in Called(Ranks[r], Of)
  BY <1>1, <1>2 DEF Called, User
<1>5. ASSUME Called(Ranks[r], Of) # {}
      PROVE  The(Called(Ranks[r], Of)) = o /\ Rank(o) = r
  <2>1. PICK p \in Called(Ranks[r], Of) : TRUE
    BY <1>5
  <2>2. p \in seen /\ p \in Object /\ name(p) = name(o) /\ ~ World[p].system /\ kind(p) \in Ranks[r]
    BY <1>1, <2>1 DEF Called, User
  <2>3. Rank(p) >= Rank(o) /\ Rank(p) = r
    BY <2>2, RanksAre DEF Sought
  <2>4. Rank(o) = r
    BY <1>2, <1>3, <2>3
  <2>5. Shares(Ranks[r])
    <3>1. r = 1 \/ r = 2 \/ r = 3 \/ r = 4 \/ r = 5 \/ r = 6
      OBVIOUS
    <3>2. /\ Shares(Relation) /\ Shares({"procedure"}) /\ Shares({"function"})
          /\ Shares({"trigger"}) /\ Shares({"sequence"}) /\ Shares({"domain"})
      BY RelationShares
    <3>3. /\ Ranks[1] = Relation /\ Ranks[2] = {"procedure"} /\ Ranks[3] = {"function"}
          /\ Ranks[4] = {"trigger"} /\ Ranks[5] = {"sequence"} /\ Ranks[6] = {"domain"}
      BY RanksAre
    <3> HIDE DEF Ranks
    <3>4. CASE r = 1
      BY <3>2, <3>3, <3>4
    <3>5. CASE r # 1
      BY <3>1, <3>2, <3>3, <3>5
    <3> QED
      BY <3>4, <3>5
  <2>6. PICK kinds : kinds = Ranks[r]
    OBVIOUS
  <2>7. The(Called(kinds, name(o))) = o
    BY <1>1, <1>2, <1>5, <2>4, <2>5, <2>6, TheIs
  <2> QED
    BY <2>4, <2>6, <2>7
<1> QED
  BY <1>2, <1>3, <1>4, <1>5

\* The head of the work has been answered for every object that it was for.
Answers(items, statements) ==
    \A o \in Object :
        Sought(o, Wants, stable, seen) /\ name(o) = Of /\ Looks(Head(work), o) =>
            /\ KindDue(o, ToSet(items), ToSet(statements))
            /\ kind(o) \in Relation => SchemaDue(o, ToSet(items), ToSet(statements))

LEMMA AnswerKeeps ==
    ASSUME ReadingNow, Describing, work # <<>>, Head(work).op \in DescribeOps,
           NEW items, Fresh(items), \A i \in ToSet(items) : i.op \in DescribeOps \cup SchemaOps,
           NEW B, NEW statements \in Seq(B), \A r \in ToSet(statements) : r.told # "schema",
           Goes(items, statements), Answers(items, statements)
    PROVE  ReadingNow' /\ Describing'
<1>1. Head(work).op \notin SchemaOps
  BY LooksAre
<1>2. ReadingNow'
  BY <1>1, PlainGoesOn
<1>3. PICK A : items \in Seq(A)
  BY DEF Fresh, Linked
<1>4. /\ \A x : x \in ToSet(work) <=> x = Head(work) \/ x \in ToSet(Tail(work))
      /\ \A x : x \in ToSet(work') <=> x \in ToSet(items) \/ x \in ToSet(Tail(work))
      /\ \A x : x \in ToSet(out') <=> x \in ToSet(out) \/ x \in ToSet(statements)
      /\ UNCHANGED <<stable, seen, call, faulted>>
  BY <1>3, GoesSets
<1>5. PICK h, W, W1, T, T1, I, S :
          /\ h = Head(work) /\ W = ToSet(work) /\ W1 = ToSet(work') /\ T = ToSet(out)
          /\ T1 = ToSet(out') /\ I = ToSet(items) /\ S = ToSet(statements)
  OBVIOUS
<1>6. /\ Follows(h, W, W1, T, T1) /\ I \subseteq W1 /\ S \subseteq T1
      /\ \A x \in W1 : x \in I \/ x \in W
  BY <1>4, <1>5 DEF Follows
<1>7. PICK st, sn, wants, fault :
          st = stable /\ sn = seen /\ wants = Wants /\ fault = faulted
  OBVIOUS
<1>8. DescribeOwes(W, T, wants, fault, st, sn)
  BY <1>5, <1>7 DEF Describing
<1>9. \A i \in W1 : i.op \in DescribeOps \cup SchemaOps
  BY <1>5, <1>6, <1>8 DEF DescribeOwes
<1>10. ASSUME NEW o \in Object, Sought(o, wants, st, sn)
       PROVE  /\ KindDue(o, W1, T1)
              /\ kind(o) \in Relation /\ ~ fault => SchemaDue(o, W1, T1)
  <2>1. KindDue(o, W, T) /\ (kind(o) \in Relation /\ ~ fault => SchemaDue(o, W, T))
    BY <1>8, <1>10 DEF DescribeOwes
  <2>2. h.of = name(o) /\ Looks(h, o) =>
            KindDue(o, I, S) /\ (kind(o) \in Relation => SchemaDue(o, I, S))
    BY <1>5, <1>7, <1>10 DEF Answers, Of
  <2>3. KindDue(o, I, S) => KindDue(o, W1, T1)
    BY <1>6 DEF KindDue
  <2>4. SchemaDue(o, I, S) => SchemaDue(o, W1, T1)
    BY <1>6 DEF SchemaDue
  <2>5. KindDue(o, W1, T1)
    BY <1>6, <2>1, <2>2, <2>3, DueFollows
  <2>6. ASSUME kind(o) \in Relation, ~ fault
        PROVE  SchemaDue(o, W1, T1)
    <3>1. SchemaDue(o, W1, T1) \/ (h.of = name(o) /\ h.op \in SchemaOps \cup {"relation"})
      BY <1>6, <2>1, <2>6, DueFollows
    <3>2. ASSUME h.of = name(o), h.op = "relation"
          PROVE  SchemaDue(o, W1, T1)
      <4>1. h.op \in LookOps /\ LookRank[h.op] <= Rank(o)
        BY <3>2, LooksAre, RanksAre DEF LookOps
      <4> QED
        BY <2>2, <2>4, <2>6, <3>2, <4>1 DEF Looks
    <3> QED
      BY <1>1, <1>5, <3>1, <3>2
  <2> QED
    BY <2>5, <2>6
<1>11. DescribeOwes(W1, T1, wants, fault, st, sn)
  BY <1>9, <1>10 DEF DescribeOwes
<1>12. wants = Wants' /\ fault = faulted' /\ st = stable' /\ sn = seen'
  BY <1>4, <1>7 DEF Wants
<1> QED
  BY <1>2, <1>5, <1>11, <1>12 DEF Describing

\* Nothing of the name among the objects of one kind: the next kind is looked at.
NextLook(r, next) ==
    /\ next \in DescribeOps
    /\ r < 6 => next \in LookOps /\ LookRank[next] = r + 1

LEMMA LookOn ==
    ASSUME TypeOK, Slots, ReadingNow, Describing, work # <<>>,
           NEW r \in 1 .. 6, Head(work).op \in LookOps, LookRank[Head(work).op] = r,
           Called(Ranks[r], Of) = {}, NEW next, NextLook(r, next),
           Goes(<<Item(next, Of, <<>>)>>, <<>>)
    PROVE  ReadingNow' /\ Describing'
<1>1. PICK n, i : n = Of /\ i = Item(next, n, <<>>)
  OBVIOUS
<1>2. i.op = next /\ i.of = n
  BY <1>1, ItemIs
<1>3. PICK items, none : items = <<i>> /\ none = <<>>
  OBVIOUS
<1>4. /\ items \in Seq({i}) /\ DOMAIN items = {1} /\ items[1] = i /\ ToSet(items) = {i}
      /\ none \in Seq({}) /\ ToSet(none) = {}
  BY <1>3 DEF ToSet
<1>5. next \in DescribeOps /\ next \notin SchemaOps
  BY LooksAre DEF NextLook
<1>6. Fresh(items)
  BY <1>2, <1>4, <1>5, PlainFresh
<1>7. ASSUME NEW o \in Object, Sought(o, Wants, stable, seen), name(o) = n, Looks(Head(work), o)
      PROVE  /\ KindDue(o, ToSet(items), ToSet(none))
             /\ kind(o) \in Relation => SchemaDue(o, ToSet(items), ToSet(none))
  <2>1. r + 1 <= Rank(o) /\ Rank(o) \in 1 .. 6
    BY <1>1, <1>7, LookFinds, RanksAre
  <2>2. r < 6
    BY <2>1
  <2>3. Looks(i, o)
    BY <1>2, <2>1, <2>2 DEF Looks, NextLook
  <2>4. KindDue(o, ToSet(items), ToSet(none))
    BY <1>2, <1>4, <1>7, <2>3 DEF KindDue
  <2>5. kind(o) \notin Relation
    <3>1. kind(o) \in Relation => Rank(o) = 1
      BY RanksAre
    <3> QED
      BY <2>1, <3>1
  <2> QED
    BY <2>4, <2>5
<1>8. Answers(items, none)
  BY <1>1, <1>7 DEF Answers
<1>9. Goes(items, none)
  BY <1>1, <1>3
<1>10. Head(work).op \in DescribeOps
  BY LooksAre
<1> QED
  BY <1>2, <1>4, <1>5, <1>6, <1>8, <1>9, <1>10, AnswerKeeps

\* What is told of an object that was found.
Told4(o, items, statements) ==
    /\ Fresh(items) /\ \A i \in ToSet(items) : i.op \in DescribeOps \cup SchemaOps
    /\ \E B : statements \in Seq(B)
    /\ \A r \in ToSet(statements) : r.told # "schema"
    /\ KindDue(o, ToSet(items), ToSet(statements))
    /\ kind(o) \in Relation => SchemaDue(o, ToSet(items), ToSet(statements))

LEMMA LookFound ==
    ASSUME TypeOK, Slots, ReadingNow, Describing, work # <<>>,
           NEW r \in 1 .. 6, Head(work).op \in LookOps, LookRank[Head(work).op] = r,
           Called(Ranks[r], Of) # {}, NEW o, o = The(Called(Ranks[r], Of)),
           NEW items, NEW statements, Told4(o, items, statements), Goes(items, statements)
    PROVE  ReadingNow' /\ Describing'
<1>1. \A p \in Object : Sought(p, Wants, stable, seen) /\ name(p) = Of /\ Looks(Head(work), p) =>
                            p = o
  BY LookFinds
<1>2. Answers(items, statements)
  BY <1>1 DEF Answers, Told4
<1>3. PICK B : statements \in Seq(B)
  BY DEF Told4
<1>4. Fresh(items) /\ (\A i \in ToSet(items) : i.op \in DescribeOps \cup SchemaOps)
      /\ \A x \in ToSet(statements) : x.told # "schema"
  BY DEF Told4
<1>5. Head(work).op \in DescribeOps
  BY LooksAre
<1> QED
  BY <1>2, <1>3, <1>4, <1>5, AnswerKeeps

\* The object that a lookup finds.
LEMMA FoundIs ==
    ASSUME TypeOK, NEW kinds, Called(kinds, Of) # {}, NEW o, o = The(Called(kinds, Of))
    PROVE  o \in Object /\ o \in db /\ kind(o) \in kinds /\ name(o) = Of /\ ~ World[o].system
<1>1. o \in Called(kinds, Of)
  BY DEF The
<1> QED
  BY <1>1 DEF Called, User, TypeOK, CatalogTypeOK

\* One statement, and nothing more to do.
LEMMA OneTold ==
    ASSUME NEW o, kind(o) \notin Relation, NEW t, t.told = kind(o), t.name = name(o),
           t.told # "schema", ToldRight(o, t.row)
    PROVE  Told4(o, <<>>, <<t>>)
<1>1. PICK s, none : s = <<t>> /\ none = <<>>
  OBVIOUS
<1>2. /\ s \in Seq({t}) /\ ToSet(s) = {t}
      /\ none \in Seq({}) /\ ToSet(none) = {} /\ DOMAIN none = {}
  BY <1>1 DEF ToSet
<1>3. Fresh(none)
  BY <1>2, PlainFresh
<1>4. KindDue(o, {}, {t})
  BY DEF KindDue
<1>5. Told4(o, none, s)
  BY <1>2, <1>3, <1>4 DEF Told4
<1> QED
  BY <1>1, <1>5

-----------------------------------------------------------------------------
\* The types that a declaration makes, written out and declared again.
LEMMA NameOfDeclared ==
    type_name_for(10) = "FLOAT" /\ type_name_for(13) = "TIME" /\ type_name_for(261) = "BLOB"
  BY DEF type_name_for, BlobBase

LEMMA WrittenPlain ==
    ASSUME NEW t, t.sub = 0, NEW w, w = type_name_for(t.base), w \notin Named
    PROVE  format_column_type(t) = <<w, <<>> >>
  BY DEF format_column_type, Named

LEMMA DeclaredPlain ==
    /\ Declared(<<"SMALLINT", <<>> >>) = PlainType(7, 0)
    /\ Declared(<<"INTEGER", <<>> >>) = PlainType(8, 0)
    /\ Declared(<<"FLOAT", <<>> >>) = PlainType(10, 0)
    /\ Declared(<<"DATE", <<>> >>) = PlainType(12, 0)
    /\ Declared(<<"TIME", <<>> >>) = PlainType(13, 0)
    /\ Declared(<<"BIGINT", <<>> >>) = PlainType(16, 0)
    /\ Declared(<<"BOOLEAN", <<>> >>) = PlainType(23, 0)
    /\ Declared(<<"INT128", <<>> >>) = PlainType(26, 0)
    /\ Declared(<<"DOUBLE PRECISION", <<>> >>) = PlainType(27, 0)
    /\ Declared(<<"TIMESTAMP", <<>> >>) = PlainType(35, 0)
  BY DEF Declared, PlainType

LEMMA DeclaredBlob ==
    /\ Declared(<<"BLOB", <<>> >>) = Raw(261, 0, 0, 0, 0)
    /\ Declared(<<"BLOB", <<"TEXT">> >>) = Raw(261, 1, 0, 0, 0)
<1>1. PICK e, x : e = <<>> /\ x = <<"TEXT">>
  OBVIOUS
<1>2. e # x
  BY <1>1, Arguments
<1>3. /\ Declared(<<"BLOB", e>>) = Raw(261, IF e = x THEN 1 ELSE 0, 0, 0, 0)
      /\ Declared(<<"BLOB", x>>) = Raw(261, IF x = x THEN 1 ELSE 0, 0, 0, 0)
  BY <1>1 DEF Declared
<1> QED
  BY <1>1, <1>2, <1>3

LEMMA DeclaredText ==
    ASSUME NEW n \in Nat \ {0}
    PROVE  /\ Declared(<<"CHAR", <<n>> >>) = PlainType(14, 4 * n)
           /\ Declared(<<"VARCHAR", <<n>> >>) = PlainType(37, 4 * n)
<1>1. PICK e : e = <<n>>
  OBVIOUS
<1>2. e # <<>> /\ e[1] = n
  BY <1>1
<1>3. Declared(<<"CHAR", e>>) = Raw(14, 0, 4 * e[1], 0, 0)
  BY <1>2 DEF Declared
<1>4. Declared(<<"VARCHAR", e>>) = Raw(37, 0, 4 * e[1], 0, 0)
  BY <1>2 DEF Declared
<1> QED
  BY <1>1, <1>2, <1>3, <1>4 DEF PlainType

LEMMA NoSign ==
    ASSUME NEW x \in Int, x <= 0, x >= 0
    PROVE  - x = 0
  OBVIOUS

LEMMA DeclaredNumber ==
    ASSUME NEW p \in 1 .. 38, NEW s \in - p .. 0, NEW args,
           args = IF s = 0 THEN <<p>> ELSE <<p, Abs(s)>>
    PROVE  /\ Declared(<<"NUMERIC", args>>) = Raw(HoldsDigits(p, 1), 1, 0, p, s)
           /\ Declared(<<"DECIMAL", args>>) = Raw(HoldsDigits(p, 2), 2, 0, p, s)
<1>1. args[1] = p /\ Argument(<<"NUMERIC", args>>, 2) = - s /\ Argument(<<"DECIMAL", args>>, 2) = - s
  <2>1. CASE s = 0
    <3>1. PICK n, d : n = <<"NUMERIC", args>> /\ d = <<"DECIMAL", args>>
      OBVIOUS
    <3>2. n[2] = args /\ d[2] = args /\ Len(args) = 1 /\ args[1] = p
      BY <2>1, <3>1
    <3>4. ~(2 <= Len(args))
      BY <3>2
    <3>5. Argument(n, 2) = 0 /\ Argument(d, 2) = 0
      BY <3>2, <3>4 DEF Argument
    <3>6. s \in Int /\ s <= 0 /\ s >= 0
      BY <2>1
    <3>7. - s = 0
      BY <3>6, NoSign
    <3>3. Argument(n, 2) = - s /\ Argument(d, 2) = - s
      BY <3>5, <3>7
    <3> QED
      BY <3>1, <3>2, <3>3
  <2>2. CASE s # 0
    <3>1. args = <<p, Abs(s)>> /\ Abs(s) = - s
      BY <2>2 DEF Abs
    <3>2. Len(args) = 2 /\ args[2] = - s /\ args[1] = p
      BY <3>1
    <3> QED
      BY <3>2 DEF Argument
  <2> QED
    BY <2>1, <2>2
<1>2. /\ Declared(<<"NUMERIC", args>>)
            = Raw(HoldsDigits(args[1], 1), 1, 0, args[1], - Argument(<<"NUMERIC", args>>, 2))
      /\ Declared(<<"DECIMAL", args>>)
            = Raw(HoldsDigits(args[1], 2), 2, 0, args[1], - Argument(<<"DECIMAL", args>>, 2))
  BY DEF Declared
<1>3. - (- s) = s
  OBVIOUS
<1> QED
  BY <1>1, <1>2, <1>3

LEMMA RawIs ==
    ASSUME NEW b, NEW u, NEW z, NEW p, NEW s, NEW t, t = Raw(b, u, z, p, s)
    PROVE  t.base = b /\ t.sub = u /\ t.size = z /\ t.precision = p /\ t.scale = s
  BY DEF Raw

\* A type that was declared is declared again as it was written out.
LEMMA DeclaredFloat ==
    ASSUME NEW t, t = PlainType(24, 0) \/ t = PlainType(25, 0)
    PROVE  Declared(format_column_type(t)) = t
<1>1. (t.base = 24 \/ t.base = 25) /\ t.sub = 0
  BY RawIs DEF PlainType
<1>2. PICK n : n = IF t.base = 24 THEN 16 ELSE 34
  OBVIOUS
<1>3. PICK e : e = <<n>>
  OBVIOUS
<1>4. type_name_for(t.base) = "DECFLOAT"
  BY <1>1, NameOfCode
<1>5. format_column_type(t) = <<"DECFLOAT", e>>
  BY <1>1, <1>2, <1>3, <1>4 DEF format_column_type, IntegerBase
<1>6. Declared(<<"DECFLOAT", e>>) = Raw(IF e = <<16>> THEN 24 ELSE 25, 0, 0, 0, 0)
  BY DEF Declared
<1>7. e = <<16>> <=> n = 16
  BY <1>3
<1>8. (n = 16 /\ t.base = 24) \/ (n = 34 /\ t.base = 25)
  BY <1>1, <1>2
<1>9. t = PlainType(t.base, 0)
  BY <1>1, RawIs DEF PlainType
<1> QED
  BY <1>5, <1>6, <1>7, <1>8, <1>9 DEF PlainType

LEMMA Redeclared ==
    ASSUME NEW t, IsDeclared(t)
    PROVE  Declared(format_column_type(t)) = t
<1>0. CASE t = PlainType(24, 0) \/ t = PlainType(25, 0)
  BY <1>0, DeclaredFloat
<1>1. CASE /\ t.base \in {7, 8, 10, 12, 13, 16, 23, 26, 27, 35, 261} /\ t = PlainType(t.base, 0)
  <2>1. t.sub = 0
    BY <1>1, RawIs DEF PlainType
  <2>2. PICK w : w = type_name_for(t.base)
    OBVIOUS
  <2>3. CASE t.base = 261
    <3>1. w = "BLOB" /\ t = Raw(261, 0, 0, 0, 0)
      BY <1>1, <2>2, <2>3, NameOfDeclared DEF PlainType
    <3>2. format_column_type(t) = <<"BLOB", <<>> >>
      BY <2>1, <2>2, <2>3, <3>1 DEF format_column_type, IntegerBase
    <3> QED
      BY <3>1, <3>2, DeclaredBlob
  <2>4. CASE t.base # 261
    <3> PICK b : b = t.base
      OBVIOUS
    <3>5. b \in {7, 8, 10, 12, 13, 16, 23, 26, 27, 35} /\ w = type_name_for(b)
      BY <1>1, <2>2, <2>4
    <3>6. /\ type_name_for(7) = "SMALLINT"
          /\ type_name_for(8) = "INTEGER"
          /\ type_name_for(10) = "FLOAT"
          /\ type_name_for(12) = "DATE"
          /\ type_name_for(13) = "TIME"
          /\ type_name_for(16) = "BIGINT"
          /\ type_name_for(23) = "BOOLEAN"
          /\ type_name_for(26) = "INT128"
          /\ type_name_for(27) = "DOUBLE PRECISION"
          /\ type_name_for(35) = "TIMESTAMP"
      BY NameOfCode, NameOfDeclared
    <3>7. \/ b = 7 \/ b = 8 \/ b = 10 \/ b = 12 \/ b = 13
          \/ b = 16 \/ b = 23 \/ b = 26 \/ b = 27 \/ b = 35
      BY <3>5
    <3>8. /\ b = 7 => w = "SMALLINT"
          /\ b = 8 => w = "INTEGER"
          /\ b = 10 => w = "FLOAT"
          /\ b = 12 => w = "DATE"
          /\ b = 13 => w = "TIME"
          /\ b = 16 => w = "BIGINT"
          /\ b = 23 => w = "BOOLEAN"
          /\ b = 26 => w = "INT128"
          /\ b = 27 => w = "DOUBLE PRECISION"
          /\ b = 35 => w = "TIMESTAMP"
      BY <3>5, <3>6, Zenon
    <3>1. \/ (b = 7 /\ w = "SMALLINT")
          \/ (b = 8 /\ w = "INTEGER")
          \/ (b = 10 /\ w = "FLOAT")
          \/ (b = 12 /\ w = "DATE")
          \/ (b = 13 /\ w = "TIME")
          \/ (b = 16 /\ w = "BIGINT")
          \/ (b = 23 /\ w = "BOOLEAN")
          \/ (b = 26 /\ w = "INT128")
          \/ (b = 27 /\ w = "DOUBLE PRECISION")
          \/ (b = 35 /\ w = "TIMESTAMP")
      BY <3>7, <3>8, Zenon
    <3>2. w \notin Named
      BY <3>1, Zenon DEF Named
    <3>3. format_column_type(t) = <<w, <<>> >>
      BY <2>1, <2>2, <3>2, WrittenPlain
    <3>4. Declared(<<w, <<>> >>) = PlainType(t.base, 0)
      BY <3>1, DeclaredPlain
    <3> QED
      BY <1>1, <3>3, <3>4
  <2> QED
    BY <2>3, <2>4
<1>2. CASE t = Raw(261, 1, 0, 0, 0)
  <2>1. t.base = 261 /\ t.sub = 1 /\ type_name_for(t.base) = "BLOB"
    BY <1>2, RawIs, NameOfDeclared
  <2>2. format_column_type(t) = <<"BLOB", <<"TEXT">> >>
    BY <2>1 DEF format_column_type, IntegerBase
  <2> QED
    BY <1>2, <2>2, DeclaredBlob
<1>3. CASE /\ t.base \in {14, 37} /\ t.size \in Nat \ {0} /\ t.size % 4 = 0
           /\ t = PlainType(t.base, t.size)
  <2>1. t.sub = 0
    BY <1>3, RawIs DEF PlainType
  <2>2. PICK n \in Nat \ {0} : t.size = 4 * n
    <3>1. t.size \div 4 \in Nat /\ t.size = 4 * (t.size \div 4)
      BY <1>3
    <3>2. t.size \div 4 # 0
      BY <1>3, <3>1
    <3> QED
      BY <3>1, <3>2
  <2>3. PICK w : w = type_name_for(t.base)
    OBVIOUS
  <2>4. (t.base = 14 /\ w = "CHAR") \/ (t.base = 37 /\ w = "VARCHAR")
    BY <1>3, <2>3, NameOfCode
  <2>5. bytes_to_chars(t.size, w) = n
    <3>1. w # "NVARCHAR" /\ ~ (t.size <= 0) /\ (4 * n) \div 4 = n
      BY <2>2, <2>4
    <3> QED
      BY <2>2, <3>1 DEF bytes_to_chars
  <2>6. format_column_type(t) = <<w, <<n>> >>
    <3>1. n > 0 /\ t.base \notin IntegerBase
      BY <2>4 DEF IntegerBase
    <3> QED
      BY <2>3, <2>4, <2>5, <3>1 DEF format_column_type
  <2>7. Declared(<<w, <<n>> >>) = PlainType(t.base, t.size)
    BY <2>2, <2>4, DeclaredText
  <2> QED
    BY <1>3, <2>6, <2>7
<1>4. CASE /\ t.sub \in {1, 2} /\ t.precision \in 1 .. 38 /\ t.scale \in - t.precision .. 0
           /\ t = Raw(HoldsDigits(t.precision, t.sub), t.sub, 0, t.precision, t.scale)
  <2>1. PICK u, p, s : u = t.sub /\ p = t.precision /\ s = t.scale
    OBVIOUS
  <2>2. t.base \in IntegerBase
    <3>1. t.base = HoldsDigits(p, u)
      BY <1>4, <2>1, RawIs
    <3> QED
      BY <3>1 DEF HoldsDigits, IntegerBase
  <2>3. PICK args : args = IF s = 0 THEN <<p>> ELSE <<p, Abs(s)>>
    OBVIOUS
  <2>4. p \in 1 .. 38 /\ s \in - p .. 0 /\ u \in {1, 2} /\ t = Raw(HoldsDigits(p, u), u, 0, p, s)
    BY <1>4, <2>1
  <2>5. /\ Declared(<<"NUMERIC", args>>) = Raw(HoldsDigits(p, 1), 1, 0, p, s)
        /\ Declared(<<"DECIMAL", args>>) = Raw(HoldsDigits(p, 2), 2, 0, p, s)
    BY <2>3, <2>4, DeclaredNumber
  <2>6. \A n : WithScale(n, p, s) = <<n, args>>
    BY <2>3, <2>4 DEF WithScale
  <2>9. type_name_for(t.base) \notin Named
    BY <2>2, NameOfCode DEF IntegerBase, Named
  <2>7. CASE u = 1
    <3>1. format_column_type(t) = WithScale("NUMERIC", p, s)
      BY <2>1, <2>2, <2>7, <2>9 DEF format_column_type, Named
    <3> QED
      BY <2>4, <2>5, <2>6, <2>7, <3>1
  <2>8. CASE u = 2
    <3>1. format_column_type(t) = WithScale("DECIMAL", p, s)
      BY <2>1, <2>2, <2>8, <2>9 DEF format_column_type, Named
    <3> QED
      BY <2>4, <2>5, <2>6, <2>8, <3>1
  <2> QED
    BY <2>4, <2>7, <2>8
<1> QED
  <2>1. t.base \in {24, 25} /\ t = PlainType(t.base, 0) => t = PlainType(24, 0) \/ t = PlainType(25, 0)
    OBVIOUS
  <2> QED
    BY <1>0, <1>1, <1>2, <1>3, <1>4, <2>1 DEF IsDeclared

\* A lookup of any of the kinds.
LEMMA LookGoes ==
    ASSUME TypeOK, Slots, ReadingNow, Describing, NEW r \in 1 .. 6, NEW op \in LookOps,
           LookRank[op] = r, At(op), NEW next, NextLook(r, next),
           Called(Ranks[r], Of) = {} => Goes(<<Item(next, Of, <<>>)>>, <<>>),
           NEW items, NEW statements,
           Called(Ranks[r], Of) # {} => Goes(items, statements),
           \A o \in Object : o = The(Called(Ranks[r], Of)) /\ kind(o) \in Ranks[r] /\ name(o) = Of =>
               Told4(o, items, statements)
    PROVE  ReadingNow' /\ Describing'
<1>1. work # <<>> /\ Head(work).op = op
  BY DEF At
<1>2. CASE Called(Ranks[r], Of) = {}
  BY <1>1, <1>2, LookOn
<1>3. CASE Called(Ranks[r], Of) # {}
  <2>1. PICK o : o = The(Called(Ranks[r], Of))
    OBVIOUS
  <2>2. o \in Object /\ kind(o) \in Ranks[r] /\ name(o) = Of
    BY <1>3, <2>1, FoundIs
  <2>3. Told4(o, items, statements)
    BY <2>1, <2>2
  <2> QED
    BY <1>1, <1>3, <2>1, <2>3, LookFound
<1> QED
  BY <1>2, <1>3

LEMMA RelationTold ==
    ASSUME NEW o \in Object, kind(o) \in Relation, NEW n, name(o) = n,
           NEW w, w = describe_table(n), NEW t, t.told = kind(o), t.name = n
    PROVE  Told4(o, w, <<t>>)
<1>1. PICK s : s = <<t>>
  OBVIOUS
<1>2. s \in Seq({t}) /\ ToSet(s) = {t}
  BY <1>1 DEF ToSet
<1>3. /\ Fresh(w) /\ Item("columns_of", n, <<>>) \in ToSet(w)
      /\ \A i \in ToSet(w) : i.op \in SchemaOps /\ i.of = n
  BY DescribeTableIs
<1>4. kind(o) \in {"table", "view"}
  BY DEF Relation
<1>5. ToldRight(o, t.row)
  BY <1>4 DEF ToldRight
<1>6. KindDue(o, ToSet(w), ToSet(s))
  BY <1>2, <1>5 DEF KindDue
<1>7. SchemaDue(o, ToSet(w), ToSet(s))
  <2>1. PICK i : i = Item("columns_of", n, <<>>)
    OBVIOUS
  <2>2. i.op \in SchemaOps /\ i.of = n /\ i \in ToSet(w)
    BY <1>3, <2>1
  <2> QED
    BY <2>2 DEF SchemaDue
<1>8. t.told # "schema"
  BY <1>4
<1> QED
  BY <1>1, <1>2, <1>3, <1>6, <1>7, <1>8 DEF Told4

LEMMA RelationGoes ==
    ASSUME TypeOK, Slots, ReadingNow, Describing, describe_relation
    PROVE  ReadingNow' /\ Describing'
<1>1. PICK o : o = The(Called(Relation, Of))
  OBVIOUS
<1>2. PICK w : w = describe_table(Of)
  OBVIOUS
<1>3. PICK t : t = Told(kind(o), <<>>)
  OBVIOUS
<1>4. /\ At("relation")
      /\ Called(Relation, Of) = {} => Goes(<<Item("of_procedure", Of, <<>>)>>, <<>>)
      /\ Called(Relation, Of) # {} => Goes(w, <<t>>)
  BY <1>1, <1>2, <1>3 DEF describe_relation, Look
<1>5. \A p \in Object : p = The(Called(Relation, Of)) /\ kind(p) \in Relation /\ name(p) = Of =>
                           Told4(p, w, <<t>>)
  <2>1. t.told = kind(o) /\ t.name = Of
    BY <1>3 DEF Told
  <2> QED
    BY <1>1, <1>2, <2>1, RelationTold
<1>6. NextLook(1, "of_procedure") /\ "relation" \in LookOps /\ LookRank["relation"] = 1
      /\ Ranks[1] = Relation
  BY LooksAre, RanksAre DEF NextLook, LookOps, DescribeOps
<1> QED
  BY <1>4, <1>5, <1>6, LookGoes

LEMMA ProcedureGoes ==
    ASSUME TypeOK, Slots, ReadingNow, Describing, describe_procedure
    PROVE  ReadingNow' /\ Describing'
<1>0. PICK kinds : kinds = {"procedure"}
  OBVIOUS
<1>1. PICK i : i = Item("params_of", Of, <<>>)
  OBVIOUS
<1>2. PICK s, none : s = <<i>> /\ none = <<>>
  OBVIOUS
<1>3. /\ At("of_procedure")
      /\ Called(kinds, Of) = {} => Goes(<<Item("of_function", Of, <<>>)>>, <<>>)
      /\ Called(kinds, Of) # {} => Goes(s, none)
  BY <1>0, <1>1, <1>2 DEF describe_procedure, Look, Nothing
<1>4. /\ i.op = "params_of" /\ i.of = Of /\ s \in Seq({i}) /\ ToSet(s) = {i} /\ DOMAIN s = {1}
      /\ s[1] = i /\ none \in Seq({}) /\ ToSet(none) = {}
  BY <1>1, <1>2 DEF Item, ToSet
<1>5. Fresh(s)
  <2>1. \A k \in DOMAIN s : s[k].op \notin SchemaOps
    BY <1>4 DEF SchemaOps
  <2> QED
    BY <1>4, <2>1, PlainFresh
<1>6. ASSUME NEW p \in Object, kind(p) \in kinds, name(p) = Of
      PROVE  Told4(p, s, none)
  <2>1. KindDue(p, ToSet(s), ToSet(none))
    BY <1>0, <1>4, <1>6 DEF KindDue, Looks
  <2>2. \A x \in ToSet(s) : x.op \in DescribeOps
    BY <1>4 DEF DescribeOps
  <2>3. kind(p) \notin Relation
    BY <1>0, <1>6 DEF Relation
  <2> QED
    BY <1>4, <1>5, <2>1, <2>2, <2>3 DEF Told4
<1>7. NextLook(2, "of_function") /\ "of_procedure" \in LookOps /\ LookRank["of_procedure"] = 2
      /\ Ranks[2] = kinds
  BY <1>0, LooksAre, RanksAre DEF NextLook, LookOps, DescribeOps
<1>8. \A p \in Object : p = The(Called(kinds, Of)) /\ kind(p) \in kinds
                           /\ name(p) = Of => Told4(p, s, none)
  BY <1>6
<1> QED
  BY <1>3, <1>7, <1>8, LookGoes

LEMMA FunctionGoes ==
    ASSUME TypeOK, Slots, ReadingNow, Describing, describe_function
    PROVE  ReadingNow' /\ Describing'
<1>1. PICK kinds : kinds = {"function"}
  OBVIOUS
<1>2. PICK o : o = The(Called(kinds, Of))
  OBVIOUS
<1>3. PICK t : t = Told("function", <<>>)
  OBVIOUS
<1>4. PICK s, none : s = <<t>> /\ none = <<>>
  OBVIOUS
<1>5. /\ At("of_function")
      /\ Called(kinds, Of) = {} => Goes(<<Item("of_trigger", Of, <<>>)>>, <<>>)
      /\ Called(kinds, Of) # {} => Goes(none, s)
  BY <1>1, <1>2, <1>3, <1>4 DEF describe_function, Look, Nothing
<1>6. t.told = "function" /\ t.name = Of
  BY <1>3 DEF Told
<1>7. ASSUME NEW p \in Object, p = The(Called(kinds, Of)), kind(p) \in kinds, name(p) = Of
      PROVE  Told4(p, none, s)
  <2>1. kind(p) = "function"
    BY <1>1, <1>7
  <2>2. kind(p) \notin Relation
    BY <2>1 DEF Relation
  <2>3. ToldRight(p, t.row)
    BY <2>1 DEF ToldRight
  <2> QED
    BY <1>4, <1>6, <1>7, <2>1, <2>2, <2>3, OneTold
<1>8. NextLook(3, "of_trigger") /\ "of_function" \in LookOps /\ LookRank["of_function"] = 3
      /\ Ranks[3] = kinds
  BY <1>1, LooksAre, RanksAre DEF NextLook, LookOps, DescribeOps
<1> QED
  BY <1>5, <1>7, <1>8, LookGoes

LEMMA TriggerGoes ==
    ASSUME TypeOK, Slots, ReadingNow, Describing, describe_trigger
    PROVE  ReadingNow' /\ Describing'
<1>1. PICK kinds : kinds = {"trigger"}
  OBVIOUS
<1>2. PICK o : o = The(Called(kinds, Of))
  OBVIOUS
<1>3. PICK t : t = Told("trigger", <<World[o].on, ShownEvent(World[o].event)>>)
  OBVIOUS
<1>4. PICK s, none : s = <<t>> /\ none = <<>>
  OBVIOUS
<1>5. /\ At("of_trigger")
      /\ Called(kinds, Of) = {} => Goes(<<Item("of_sequence", Of, <<>>)>>, <<>>)
      /\ Called(kinds, Of) # {} => Goes(none, s)
  BY <1>1, <1>2, <1>3, <1>4 DEF describe_trigger, Look, Nothing
<1>6. t.told = "trigger" /\ t.name = Of
  BY <1>3 DEF Told
<1>7. ASSUME NEW p \in Object, p = The(Called(kinds, Of)), kind(p) \in kinds, name(p) = Of
      PROVE  Told4(p, none, s)
  <2>1. kind(p) = "trigger"
    BY <1>1, <1>7
  <2>2. kind(p) \notin Relation
    BY <2>1 DEF Relation
  <2>3. ToldRight(p, t.row)
    <3>1. t.row[1] = World[o].on
      BY <1>3 DEF Told
    <3> QED
      BY <1>2, <1>7, <2>1, <3>1 DEF ToldRight
  <2> QED
    BY <1>4, <1>6, <1>7, <2>1, <2>2, <2>3, OneTold
<1>8. NextLook(4, "of_sequence") /\ "of_trigger" \in LookOps /\ LookRank["of_trigger"] = 4
      /\ Ranks[4] = kinds
  BY <1>1, LooksAre, RanksAre DEF NextLook, LookOps, DescribeOps
<1> QED
  BY <1>5, <1>7, <1>8, LookGoes

LEMMA SequenceGoes ==
    ASSUME TypeOK, Slots, ReadingNow, Describing, describe_sequence
    PROVE  ReadingNow' /\ Describing'
<1>1. PICK kinds : kinds = {"sequence"}
  OBVIOUS
<1>2. PICK o : o = The(Called(kinds, Of))
  OBVIOUS
<1>3. PICK t : t = Told("sequence", <<>>)
  OBVIOUS
<1>4. PICK s, none : s = <<t>> /\ none = <<>>
  OBVIOUS
<1>5. /\ At("of_sequence")
      /\ Called(kinds, Of) = {} => Goes(<<Item("of_domain", Of, <<>>)>>, <<>>)
      /\ Called(kinds, Of) # {} => Goes(none, s)
  BY <1>1, <1>2, <1>3, <1>4 DEF describe_sequence, Look, Nothing
<1>6. t.told = "sequence" /\ t.name = Of
  BY <1>3 DEF Told
<1>7. ASSUME NEW p \in Object, p = The(Called(kinds, Of)), kind(p) \in kinds, name(p) = Of
      PROVE  Told4(p, none, s)
  <2>1. kind(p) = "sequence"
    BY <1>1, <1>7
  <2>2. kind(p) \notin Relation
    BY <2>1 DEF Relation
  <2>3. ToldRight(p, t.row)
    BY <2>1 DEF ToldRight
  <2> QED
    BY <1>4, <1>6, <1>7, <2>1, <2>2, <2>3, OneTold
<1>8. NextLook(5, "of_domain") /\ "of_sequence" \in LookOps /\ LookRank["of_sequence"] = 5
      /\ Ranks[5] = kinds
  BY <1>1, LooksAre, RanksAre DEF NextLook, LookOps, DescribeOps
<1> QED
  BY <1>5, <1>7, <1>8, LookGoes

LEMMA DomainGoes ==
    ASSUME TypeOK, Slots, ReadingNow, Describing, describe_domain
    PROVE  ReadingNow' /\ Describing'
<1>1. PICK kinds : kinds = {"domain"}
  OBVIOUS
<1>2. PICK o : o = The(Called(kinds, Of))
  OBVIOUS
<1>3. PICK t : t = Told("domain", <<format_column_type(World[o].type),
                                      WritesNotNull(World[o].null)>>)
  OBVIOUS
<1>4. PICK s, none : s = <<t>> /\ none = <<>>
  OBVIOUS
<1>5. /\ At("of_domain")
      /\ Called(kinds, Of) = {} => Goes(<<Item("of_nothing", Of, <<>>)>>, <<>>)
      /\ Called(kinds, Of) # {} => Goes(none, s)
  BY <1>1, <1>2, <1>3, <1>4 DEF describe_domain, Look, Nothing
<1>6. t.told = "domain" /\ t.name = Of
  BY <1>3 DEF Told
<1>7. ASSUME NEW p \in Object, p = The(Called(kinds, Of)), kind(p) \in kinds, name(p) = Of
      PROVE  Told4(p, none, s)
  <2>1. kind(p) = "domain"
    BY <1>1, <1>7
  <2>2. kind(p) \notin Relation
    BY <2>1 DEF Relation
  <2>3. ToldRight(p, t.row)
    <3>1. t.row[1] = format_column_type(World[o].type)
      BY <1>3 DEF Told
    <3>2. IsDeclared(World[p].type)
      BY <1>7, <2>1, TypeAssumption
    <3>3. Declared(t.row[1]) = World[p].type
      BY <1>2, <1>7, <3>1, <3>2, Redeclared
    <3> QED
      BY <2>1, <3>3 DEF ToldRight
  <2> QED
    BY <1>4, <1>6, <1>7, <2>1, <2>2, <2>3, OneTold
<1>8. NextLook(6, "of_nothing") /\ "of_domain" \in LookOps /\ LookRank["of_domain"] = 6
      /\ Ranks[6] = kinds
  BY <1>1, LooksAre, RanksAre DEF NextLook, LookOps, DescribeOps
<1> QED
  BY <1>5, <1>7, <1>8, LookGoes

ParamRow(p) == <<p.name, p.out, p.source>>
ParamsTold(rows) == ForEach(First(rows), ParamRow)

LEMMA ParamsGo ==
    ASSUME TypeOK, Slots, ReadingNow, Describing, describe_params
    PROVE  ReadingNow' /\ Describing'
<1>1. PICK t : t = Told("procedure", ParamsTold(Params(Of)))
  OBVIOUS
<1>2. PICK s, none : s = <<t>> /\ none = <<>>
  OBVIOUS
<1>3. At("params_of") /\ Goes(none, s)
  BY <1>1, <1>2 DEF describe_params, ParamsTold, ParamRow
<1>4. /\ t.told = "procedure" /\ t.name = Of /\ t.row = ParamsTold(Params(Of))
      /\ s \in Seq({t}) /\ ToSet(s) = {t} /\ none \in Seq({}) /\ ToSet(none) = {} /\ DOMAIN none = {}
  BY <1>1, <1>2 DEF Told, ToSet
<1>5. Fresh(none)
  BY <1>4, PlainFresh
<1>6. Head(work).op = "params_of" /\ work # <<>> /\ Head(work).op \in DescribeOps
  BY <1>3 DEF At, DescribeOps
<1>7. ASSUME NEW o \in Object, Sought(o, Wants, stable, seen), name(o) = Of, Looks(Head(work), o)
      PROVE  /\ KindDue(o, ToSet(none), ToSet(s))
             /\ kind(o) \in Relation => SchemaDue(o, ToSet(none), ToSet(s))
  <2>1. kind(o) = "procedure"
    BY <1>6, <1>7, LooksAre DEF Looks
  <2>2. o \in db /\ ~ World[o].system
    BY <1>7 DEF Sought, TypeOK, CatalogTypeOK
  <2>3. Called({"procedure"}, Of) # {}
    BY <1>7, <2>1, <2>2 DEF Called, User
  <2>4. The(Called({"procedure"}, Of)) = o
    BY <1>7, <2>1, <2>2, <2>3, TheIs, RelationShares
  <2>5. Params(Of) = World[o].params
    BY <2>3, <2>4 DEF Params
  <2>6. ToldRight(o, t.row)
    BY <1>4, <2>1, <2>5 DEF ToldRight, ParamsTold, ParamRow
  <2>7. KindDue(o, ToSet(none), ToSet(s))
    BY <1>4, <1>7, <2>1, <2>6 DEF KindDue
  <2>8. kind(o) \notin Relation
    BY <2>1 DEF Relation
  <2> QED
    BY <2>7, <2>8
<1>8. Answers(none, s)
  BY <1>7 DEF Answers
<1>9. \A r \in ToSet(s) : r.told # "schema"
  BY <1>4
<1> QED
  BY <1>3, <1>4, <1>5, <1>6, <1>8, <1>9, AnswerKeeps

LEMMA NothingGoes ==
    ASSUME ReadingNow, Describing, describe_nothing
    PROVE  ReadingNow' /\ Describing'
<1>1. PICK t : t = Told("nothing", <<>>)
  OBVIOUS
<1>2. PICK s, none : s = <<t>> /\ none = <<>>
  OBVIOUS
<1>3. At("of_nothing") /\ Goes(none, s)
  BY <1>1, <1>2 DEF describe_nothing
<1>4. /\ t.told = "nothing"
      /\ s \in Seq({t}) /\ ToSet(s) = {t} /\ none \in Seq({}) /\ ToSet(none) = {} /\ DOMAIN none = {}
  BY <1>1, <1>2 DEF Told, ToSet
<1>5. Fresh(none)
  BY <1>4, PlainFresh
<1>6. Head(work).op = "of_nothing" /\ work # <<>> /\ Head(work).op \in DescribeOps
  BY <1>3 DEF At, DescribeOps
<1>7. \A o : ~ Looks(Head(work), o)
  BY <1>6 DEF Looks, LookOps
<1>8. Answers(none, s)
  BY <1>7 DEF Answers
<1>9. \A r \in ToSet(s) : r.told # "schema"
  BY <1>4
<1> QED
  BY <1>3, <1>4, <1>5, <1>6, <1>8, <1>9, AnswerKeeps

LEMMA DescribeKeeps ==
    ASSUME TypeOK, Slots, ReadingNow, Describing, Describe
    PROVE  ReadingNow' /\ Describing'
  BY RelationGoes, ProcedureGoes, ParamsGo, FunctionGoes, TriggerGoes, SequenceGoes, DomainGoes,
     NothingGoes DEF Describe

-----------------------------------------------------------------------------
\* A call of describe.
DescribeInv ==
    call.tool = "describe" =>
        /\ status = "start" => out = <<>>
        /\ status \in {"run", "done"} => ReadingNow /\ Describing

LEMMA DescribeInit == Init => DescribeInv
  BY DEF Init, DescribeInv

LEMMA ReadKeeps ==
    ASSUME TypeOK, Slots, ReadingNow, Describing, SchemaRead
    PROVE  Describing'
<1>1. faulted \in BOOLEAN
  BY DEF TypeOK
<1>2. /\ \A x \in ToSet(work') : x \in ToSet(work)
      /\ UNCHANGED <<stable, seen, call>> /\ (faulted => faulted')
  BY <1>1, SchemaReadIs
<1>3. Wants' = Wants
  BY <1>2 DEF Wants
<1>4. \A i \in ToSet(work') : i.op \in DescribeOps \cup SchemaOps
  BY <1>2 DEF Describing, DescribeOwes
<1>5. ASSUME NEW o \in Object, Sought(o, Wants, stable, seen)
      PROVE  /\ KindDue(o, ToSet(work'), ToSet(out'))
             /\ kind(o) \in Relation /\ ~ faulted' => SchemaDue(o, ToSet(work'), ToSet(out'))
  <2>1. KindDue(o, ToSet(work), ToSet(out))
        /\ (kind(o) \in Relation /\ ~ faulted => SchemaDue(o, ToSet(work), ToSet(out)))
    BY <1>5 DEF Describing, DescribeOwes
  <2> QED
    BY <1>1, <1>2, <2>1, SchemaReadOwes
<1> QED
  BY <1>2, <1>3, <1>4, <1>5 DEF Describing, DescribeOwes

LEMMA GivenUpKeeps ==
    ASSUME ReadingNow, Describing, schema_fails
    PROVE  Describing'
<1>1. /\ \A x \in ToSet(work') : x \in ToSet(work)
      /\ UNCHANGED <<stable, seen, call>> /\ faulted'
  BY GivenUpIs
<1>2. Wants' = Wants
  BY <1>1 DEF Wants
<1>3. \A i \in ToSet(work') : i.op \in DescribeOps \cup SchemaOps
  BY <1>1 DEF Describing, DescribeOwes
<1>4. ASSUME NEW o \in Object, Sought(o, Wants, stable, seen)
      PROVE  KindDue(o, ToSet(work'), ToSet(out'))
  <2>1. KindDue(o, ToSet(work), ToSet(out))
    BY <1>4 DEF Describing, DescribeOwes
  <2> QED
    BY <2>1, GivenUpOwes
<1> QED
  BY <1>1, <1>2, <1>3, <1>4 DEF Describing, DescribeOwes

\* The other session: less is sought, and what has been told stays right.
LEMMA SoughtLess ==
    ASSUME NEW st, NEW sn, NEW st1, st1 \subseteq st, NEW sn1, sn \subseteq sn1,
           NEW o, NEW wants, Sought(o, wants, st1, sn1)
    PROVE  Sought(o, wants, st, sn)
  BY DEF Sought

LEMMA DescribingStays ==
    ASSUME Describing, stable' \subseteq stable, seen \subseteq seen',
           UNCHANGED <<call, work, out, faulted>>
    PROVE  Describing'
<1>1. Wants' = Wants
  BY DEF Wants
<1>2. \A o \in Object : Sought(o, Wants, stable', seen') => Sought(o, Wants, stable, seen)
  BY SoughtLess
<1> QED
  BY <1>1, <1>2 DEF Describing, DescribeOwes

LEMMA DescribePlan ==
    ASSUME call.tool = "describe", NEW w, w = Plan
    PROVE  w = [k \in 1 .. Len(call.names) |-> Item("relation", upper[call.names[k]], <<>>)]
  BY DEF Plan, describe_objects, ForEach

LEMMA NothingTold ==
    ASSUME NEW t, t = <<>>, NEW st, NEW sn
    PROVE  OutRight(t, st, sn)
<1>1. t \in Seq({}) /\ ToSet(t) = {}
  BY DEF ToSet
<1> QED
  BY <1>1 DEF OutRight

LEMMA DescribeBegins ==
    ASSUME TypeOK, call.tool = "describe", out = <<>>, Begin, status' # "failed"
    PROVE  ReadingNow' /\ Describing'
<1>1. PICK w : w = Plan
  OBVIOUS
<1>2. /\ work' = w /\ out' = <<>>
      /\ UNCHANGED <<call, stable, seen>>
  BY <1>1 DEF Begin, Fails, catalogVars
<1>3. call.names \in Seq(Nat)
  BY CallsAssumption DEF TypeOK
<1>4. PICK n \in Nat : n = Len(call.names) /\ DOMAIN call.names = 1 .. n
  BY <1>3
<1>5. w = [k \in 1 .. n |-> Item("relation", upper[call.names[k]], <<>>)]
  BY <1>1, <1>4, DescribePlan
<1>6. /\ DOMAIN w = 1 .. n /\ Len(w) = n
      /\ \A k \in 1 .. n : w[k].op = "relation" /\ w[k].of = upper[call.names[k]]
  BY <1>5 DEF Item
<1>7. w = [k \in 1 .. n |-> w[k]]
  BY <1>5
<1>8. PICK A : w \in Seq(A)
  BY <1>7, RowsAreSeq
<1>9. \A k \in DOMAIN w : w[k].op \notin SchemaOps
  BY <1>6 DEF SchemaOps
<1>10. Fresh(w)
  BY <1>8, <1>9, PlainFresh
<1>11. Linked(w) /\ Built(w, part', stable', seen')
  BY <1>10, FreshBuilt
<1>12. ReadingNow'
  BY <1>2, <1>11, NothingTold DEF ReadingNow, Reading3
<1>13. \A x \in ToSet(w) : x.op \in DescribeOps
  BY <1>6 DEF ToSet, DescribeOps
<1>14. Wants' = Wants
  BY <1>2 DEF Wants
<1>15. ASSUME NEW o \in Object, Sought(o, Wants, stable, seen)
       PROVE  KindDue(o, ToSet(w), {}) /\ SchemaDue(o, ToSet(w), {})
  <2>1. PICK m \in ToSet(call.names) : name(o) = upper[m]
    BY <1>15 DEF Sought, Wants
  <2>2. PICK k \in 1 .. n : m = call.names[k]
    BY <1>4, <2>1 DEF ToSet
  <2>3. PICK i : i = w[k]
    OBVIOUS
  <2>4. i \in ToSet(w)
    BY <1>6, <2>2, <2>3 DEF ToSet
  <2>5. i.op = "relation" /\ i.of = name(o)
    BY <1>6, <2>1, <2>2, <2>3
  <2>6. Rank(o) \in 1 .. 6 /\ LookRank["relation"] = 1 /\ "relation" \in LookOps
    BY RanksAre, LooksAre DEF LookOps
  <2>7. Looks(i, o)
    BY <2>5, <2>6 DEF Looks
  <2> QED
    BY <2>4, <2>5, <2>7 DEF KindDue, SchemaDue
<1>16. ToSet(out') = {}
  BY <1>2 DEF ToSet
<1> QED
  BY <1>2, <1>12, <1>13, <1>14, <1>15, <1>16 DEF Describing, DescribeOwes

LEMMA DescribeStep ==
    ASSUME TypeOK, Slots, DescribeInv, call.tool = "describe", Step
    PROVE  DescribeInv'
<1>0. call' = call
  BY CatalogStays
<1>9. status' # "start"
  BY StepIs DEF GoesOn, Starts, Stops, Fails, Finish
<1> SUFFICES ASSUME status' \in {"run", "done"}
             PROVE  ReadingNow' /\ Describing'
  BY <1>9 DEF DescribeInv
<1>1. CASE Begin
  <2>1. status = "start" /\ out = <<>>
    BY <1>1 DEF Begin, DescribeInv
  <2> QED
    BY <1>1, <2>1, DescribeBegins
<1>2. CASE ErrorEnds
  BY <1>2 DEF ErrorEnds, Fails
<1>3. CASE Finish
  <2>1. UNCHANGED <<stable, seen, call, work, part, out, faulted>> /\ status = "run"
    BY <1>3 DEF Finish, catalogVars
  <2>2. ReadingNow /\ Describing
    BY <2>1 DEF DescribeInv
  <2>3. ReadingNow'
    BY <2>1, <2>2 DEF ReadingNow
  <2> QED
    BY <2>1, <2>2, <2>3, DescribingStays
<1>4. \A ops : Heads(ops) => /\ ReadingNow /\ Describing
                             /\ Head(work).op \in ops \cap (DescribeOps \cup SchemaOps)
  <2> SUFFICES ASSUME NEW ops, Heads(ops)
               PROVE  ReadingNow /\ Describing /\ Head(work).op \in DescribeOps \cup SchemaOps
    BY DEF Heads
  <2>1. ReadingNow /\ Describing /\ work # <<>>
    BY DEF Heads, DescribeInv
  <2>2. Linked(work)
    BY <2>1 DEF ReadingNow, Reading3
  <2>3. PICK A : work \in Seq(A)
    BY <2>2 DEF Linked
  <2>4. Head(work) \in ToSet(work)
    BY <2>1, <2>3, HeadSets
  <2> QED
    BY <2>1, <2>4 DEF Describing, DescribeOwes
<1>5. CASE Describe
  BY <1>4, <1>5, DescribeHeads, DescribeKeeps
<1>6. CASE SchemaRead
  BY <1>4, <1>6, SchemaHeads, SchemaReadGoesOn, ReadKeeps
<1>7. CASE schema_fails
  BY <1>4, <1>7, SchemaHeads, GivenUpGoesOn, GivenUpKeeps
<1>10. CASE Extract
  BY <1>4, <1>10, ExtractHeads DEF ExtractOps, DescribeOps, SchemaOps
<1>11. CASE \/ handle_list \/ handle_find_column \/ domain_list \/ domain_uses \/ column_types
            \/ health \/ database_tables \/ database_keys \/ count
            \/ generate_keys \/ view_row \/ handle_check_duplicates \/ duplicate_rows
  BY <1>4, <1>11, ToolHeads DEF DescribeOps, SchemaOps
<1> QED
  BY <1>1, <1>2, <1>3, <1>5, <1>6, <1>7, <1>10, <1>11 DEF Step

LEMMA ReadingStill ==
    ASSUME ReadingNow, stable' \subseteq stable, seen \subseteq seen', UNCHANGED <<work, part, out>>
    PROVE  ReadingNow'
<1>1. PICK w, p, t : w = work /\ p = part /\ t = out
  OBVIOUS
<1>2. PICK st, sn, st1, sn1 : st = stable /\ sn = seen /\ st1 = stable' /\ sn1 = seen'
  OBVIOUS
<1>3. Reading3(w, p, t, st, sn)
  BY <1>1, <1>2 DEF ReadingNow
<1>4. Reading3(w, p, t, st1, sn1)
  BY <1>2, <1>3, ReadingStays
<1>5. work' = w /\ part' = p /\ out' = t
  BY <1>1
<1> QED
  BY <1>2, <1>4, <1>5 DEF ReadingNow

LEMMA DescribeNext ==
    ASSUME TypeOK, Slots, DescribeInv, [Next]_vars
    PROVE  DescribeInv'
<1>1. CASE Step
  <2>1. CASE call.tool = "describe"
    BY <1>1, <2>1, DescribeStep
  <2>2. CASE call.tool # "describe"
    BY <1>1, <2>2, CatalogStays DEF DescribeInv
  <2> QED
    BY <2>1, <2>2
<1>2. CASE \/ Others /\ UNCHANGED handlerVars
           \/ UNCHANGED vars
  <2>1. UNCHANGED <<call, status, work, part, out, faulted>>
    BY <1>2 DEF handlerVars, vars
  <2>2. stable' \subseteq stable /\ seen \subseteq seen'
    BY <1>2, OthersKeep DEF vars, catalogVars
  <2> QED
    BY <2>1, <2>2, ReadingStill, DescribingStays DEF DescribeInv
<1> QED
  BY <1>1, <1>2 DEF Next, Over

-----------------------------------------------------------------------------
\* The schemas of the tables and views of some names: each is told or still to be read.
SchemasDue(W, T, wants, st) ==
    \A o \in Object : Apt(o, st) /\ name(o) \in wants => SchemaDue(o, W, T)

LEMMA SchemasDueRead ==
    ASSUME TypeOK, ReadingNow, SchemaRead, NEW wants,
           SchemasDue(ToSet(work), ToSet(out), wants, stable)
    PROVE  SchemasDue(ToSet(work'), ToSet(out'), wants, stable')
<1>1. faulted \in BOOLEAN
  BY DEF TypeOK
<1>2. stable' = stable
  BY <1>1, SchemaReadIs
<1>3. ASSUME NEW o \in Object, Apt(o, stable), name(o) \in wants
      PROVE  SchemaDue(o, ToSet(work'), ToSet(out'))
  <2>1. SchemaDue(o, ToSet(work), ToSet(out))
    BY <1>3 DEF SchemasDue
  <2> QED
    BY <1>1, <2>1, SchemaReadOwes
<1> QED
  BY <1>2, <1>3 DEF SchemasDue

LEMMA AptLess ==
    ASSUME NEW W, NEW T, NEW wants, NEW st, SchemasDue(W, T, wants, st), NEW st1, st1 \subseteq st
    PROVE  SchemasDue(W, T, wants, st1)
  BY DEF SchemasDue, Apt

\* A call of describe_table.
OnlyOne == {upper[call.names[1]]}
OneSchema ==
    /\ \A i \in ToSet(work) : i.op \in SchemaOps
    /\ SchemasDue(ToSet(work), ToSet(out), OnlyOne, stable)
TableInv ==
    call.tool = "describe_table" =>
        /\ status = "start" => out = <<>>
        /\ status \in {"run", "done"} => ReadingNow /\ OneSchema

LEMMA TableInit == Init => TableInv
  BY DEF Init, TableInv

LEMMA TableBegins ==
    ASSUME TypeOK, call.tool = "describe_table", out = <<>>, Begin, status' # "failed"
    PROVE  ReadingNow' /\ OneSchema'
<1>1. PICK n, w : n = upper[call.names[1]] /\ w = describe_table(n)
  OBVIOUS
<1>2. Plan = w
  BY <1>1 DEF Plan
<1>3. /\ work' = w /\ out' = <<>> /\ ~ Refused
      /\ UNCHANGED <<call, stable, seen>>
  BY <1>2 DEF Begin, Fails, catalogVars
<1>4. /\ Fresh(w) /\ Item("columns_of", n, <<>>) \in ToSet(w)
      /\ \A i \in ToSet(w) : i.op \in SchemaOps /\ i.of = n
  BY <1>1, DescribeTableIs
<1>5. Linked(w) /\ Built(w, part', stable', seen')
  BY <1>4, FreshBuilt
<1>6. ReadingNow'
  BY <1>3, <1>5, NothingTold DEF ReadingNow, Reading3
<1>7. OnlyOne' = {n}
  BY <1>1, <1>3 DEF OnlyOne
<1>8. PICK i : i = Item("columns_of", n, <<>>)
  OBVIOUS
<1>9. i \in ToSet(w) /\ i.of = n /\ i.op \in SchemaOps
  BY <1>4, <1>8
<1>10. SchemasDue(ToSet(work'), ToSet(out'), {n}, stable')
  BY <1>3, <1>9 DEF SchemasDue, SchemaDue
<1>11. \A x \in ToSet(work') : x.op \in SchemaOps
  BY <1>3, <1>4
<1> QED
  BY <1>6, <1>7, <1>10, <1>11 DEF OneSchema

LEMMA TableStep ==
    ASSUME TypeOK, Slots, TableInv, call.tool = "describe_table", Step
    PROVE  TableInv'
<1>0. call' = call
  BY CatalogStays
<1>9. status' # "start"
  BY StepIs DEF GoesOn, Starts, Stops, Fails, Finish
<1> SUFFICES ASSUME status' \in {"run", "done"}
             PROVE  ReadingNow' /\ OneSchema'
  BY <1>9 DEF TableInv
<1>1. CASE Begin
  <2>1. status = "start" /\ out = <<>>
    BY <1>1 DEF Begin, TableInv
  <2> QED
    BY <1>1, <2>1, TableBegins
<1>2. CASE ErrorEnds
  BY <1>2 DEF ErrorEnds, Fails
<1>3. CASE Finish
  <2>1. UNCHANGED <<stable, seen, call, work, part, out, faulted>> /\ status = "run"
    BY <1>3 DEF Finish, catalogVars
  <2>2. ReadingNow /\ OneSchema
    BY <2>1 DEF TableInv
  <2>3. ReadingNow'
    BY <2>1, <2>2 DEF ReadingNow
  <2>4. OnlyOne' = OnlyOne
    BY <2>1 DEF OnlyOne
  <2> QED
    BY <2>1, <2>2, <2>3, <2>4 DEF OneSchema
<1>4. \A ops : Heads(ops) => ReadingNow /\ OneSchema /\ Head(work).op \in ops \cap SchemaOps
  <2> SUFFICES ASSUME NEW ops, Heads(ops)
               PROVE  ReadingNow /\ OneSchema /\ Head(work).op \in SchemaOps
    BY DEF Heads
  <2>1. ReadingNow /\ OneSchema /\ work # <<>>
    BY DEF Heads, TableInv
  <2>2. Linked(work)
    BY <2>1 DEF ReadingNow, Reading3
  <2>3. PICK A : work \in Seq(A)
    BY <2>2 DEF Linked
  <2>4. Head(work) \in ToSet(work)
    BY <2>1, <2>3, HeadSets
  <2> QED
    BY <2>1, <2>4 DEF OneSchema
<1>5. CASE SchemaRead
  <2>1. ReadingNow /\ OneSchema
    BY <1>4, <1>5, SchemaHeads
  <2>2. faulted \in BOOLEAN
    BY DEF TypeOK
  <2>3. \A x \in ToSet(work') : x \in ToSet(work)
    BY <1>5, <2>1, <2>2, SchemaReadIs
  <2>4. OnlyOne' = OnlyOne
    BY <1>0 DEF OnlyOne
  <2>5. SchemasDue(ToSet(work'), ToSet(out'), OnlyOne, stable')
    BY <1>5, <2>1, SchemasDueRead DEF OneSchema
  <2> QED
    BY <1>5, <2>1, <2>3, <2>4, <2>5, SchemaReadGoesOn DEF OneSchema
<1>6. CASE schema_fails
  BY <1>6 DEF schema_fails
<1>10. CASE Extract \/ Describe
  BY <1>4, <1>10, ExtractHeads, DescribeHeads DEF ExtractOps, DescribeOps, SchemaOps
<1>11. CASE \/ handle_list \/ handle_find_column \/ domain_list \/ domain_uses \/ column_types
            \/ health \/ database_tables \/ database_keys \/ count
            \/ generate_keys \/ view_row \/ handle_check_duplicates \/ duplicate_rows
  BY <1>4, <1>11, ToolHeads DEF SchemaOps
<1> QED
  BY <1>1, <1>2, <1>3, <1>5, <1>6, <1>10, <1>11 DEF Step

LEMMA TableNext ==
    ASSUME TypeOK, Slots, TableInv, [Next]_vars
    PROVE  TableInv'
<1>1. CASE Step
  <2>1. CASE call.tool = "describe_table"
    BY <1>1, <2>1, TableStep
  <2>2. CASE call.tool # "describe_table"
    BY <1>1, <2>2, CatalogStays DEF TableInv
  <2> QED
    BY <2>1, <2>2
<1>2. CASE \/ Others /\ UNCHANGED handlerVars
           \/ UNCHANGED vars
  <2>1. UNCHANGED <<call, status, work, part, out, faulted>>
    BY <1>2 DEF handlerVars, vars
  <2>2. stable' \subseteq stable /\ seen \subseteq seen'
    BY <1>2, OthersKeep DEF vars, catalogVars
  <2>3. OneSchema => OneSchema'
    <3>1. OnlyOne' = OnlyOne
      BY <2>1 DEF OnlyOne
    <3> QED
      BY <2>1, <2>2, <3>1, AptLess DEF OneSchema
  <2> QED
    BY <2>1, <2>2, <2>3, ReadingStill DEF TableInv
<1> QED
  BY <1>1, <1>2 DEF Next, Over

-----------------------------------------------------------------------------
\* describe_database: the work of each table, as that of its schema.
HasSchema(w, n) == \E i \in ToSet(w) : i.of = n /\ i.op \in SchemaOps

LEMMA PieceFresh ==
    ASSUME NEW o \in Object, NEW counts \in BOOLEAN, NEW describes \in BOOLEAN,
           NEW p, p = SectionsOf(o, counts, describes)
    PROVE  Fresh(p) /\ (describes => HasSchema(p, name(o)))
<1>1. PICK n : n = name(o)
  OBVIOUS
<1>2. PICK c : c = IF counts THEN Counting(n) ELSE <<>>
  OBVIOUS
<1>3. PICK t : t = IF describes THEN describe_table(n) ELSE <<>>
  OBVIOUS
<1>4. p = c \o t
  BY <1>1, <1>2, <1>3 DEF SectionsOf
<1>5. PICK none : none = <<>>
  OBVIOUS
<1>6. none \in Seq({}) /\ DOMAIN none = {}
  BY <1>5
<1>7. Fresh(none)
  BY <1>6, PlainFresh
<1>8. Fresh(c)
  <2>1. CASE counts
    <3>1. PICK i : i = Item("count", n, <<>>)
      OBVIOUS
    <3>2. c = <<i>> /\ i.op = "count"
      BY <1>2, <2>1, <3>1 DEF Counting, Item
    <3>3. c \in Seq({i}) /\ \A k \in DOMAIN c : c[k].op \notin SchemaOps
      BY <3>2 DEF SchemaOps
    <3> QED
      BY <3>3, PlainFresh
  <2>2. CASE ~ counts
    BY <1>2, <1>5, <1>7, <2>2
  <2> QED
    BY <2>1, <2>2
<1>9. Fresh(t) /\ (describes => HasSchema(t, n))
  <2>1. CASE describes
    <3>1. t = describe_table(n)
      BY <1>3, <2>1
    <3>2. Fresh(t) /\ Item("columns_of", n, <<>>) \in ToSet(t)
          /\ \A i \in ToSet(t) : i.op \in SchemaOps /\ i.of = n
      BY <3>1, DescribeTableIs
    <3> QED
      BY <3>2 DEF HasSchema
  <2>2. CASE ~ describes
    BY <1>3, <1>5, <1>7, <2>2
  <2> QED
    BY <2>1, <2>2
<1>10. Fresh(p)
  BY <1>4, <1>8, <1>9, FreshJoins
<1>11. (\E A : c \in Seq(A)) /\ (\E B : t \in Seq(B))
  BY <1>8, <1>9 DEF Fresh, Linked
<1>12. \A x \in ToSet(t) : x \in ToSet(p)
  BY <1>4, <1>11, JoinSets
<1> QED
  BY <1>1, <1>9, <1>10, <1>12 DEF HasSchema

LEMMA PiecesFresh ==
    ASSUME NEW rows \in Seq(Object), NEW counts \in BOOLEAN, NEW describes \in BOOLEAN,
           NEW w, w = FlattenSeq([k \in 1 .. Len(rows) |-> SectionsOf(rows[k], counts, describes)])
    PROVE  /\ Fresh(w)
           /\ describes => \A k \in DOMAIN rows : HasSchema(w, name(rows[k]))
<1> DEFINE ss == [k \in 1 .. Len(rows) |-> SectionsOf(rows[k], counts, describes)]
<1>1. PICK n \in Nat : n = Len(rows) /\ (\A k \in 1 .. n : rows[k] \in Object) /\ DOMAIN rows = 1 .. n
  OBVIOUS
<1>2. DOMAIN ss = 1 .. n /\ Len(ss) = n
      /\ \A k \in 1 .. n : ss[k] = SectionsOf(rows[k], counts, describes)
  BY <1>1
<1>3. w = FlattenSeq(ss)
  OBVIOUS
<1> HIDE DEF ss
<1>4. \A k \in 1 .. n : /\ ss[k] \in Seq(DatabaseItem) /\ Fresh(ss[k])
                        /\ describes => HasSchema(ss[k], name(rows[k]))
  BY <1>1, <1>2, PieceIs, PieceFresh
<1>5. Fresh(w)
  BY <1>2, <1>3, <1>4, FreshFlattened
<1>6. ListsOf(DatabaseItem, ss, n)
  BY <1>4 DEF ListsOf
<1>7. \A x : x \in ToSet(w) <=> \E i \in 1 .. n : x \in ToSet(ss[i])
  BY <1>2, <1>3, <1>6, JoinedHolds
<1>8. describes => \A k \in DOMAIN rows : HasSchema(w, name(rows[k]))
  BY <1>1, <1>4, <1>7 DEF HasSchema
<1> QED
  BY <1>5, <1>8

\* Tables that stay, and are among those that are shown.
Others3(sn) == {p \in sn : kind(p) \in Relation /\ ~ World[p].system}
Shown(o, st, sn) == Apt(o, st) /\ kind(o) = "table" /\ WithinCap(o, Others3(sn))

LEMMA ShownLess ==
    ASSUME NEW st, NEW sn, NEW st1, st1 \subseteq st, NEW sn1, sn \subseteq sn1, IsFiniteSet(sn1),
           sn1 \subseteq Object, NEW o \in Object, Shown(o, st1, sn1)
    PROVE  Shown(o, st, sn)
<1>1. Apt(o, st) /\ kind(o) = "table"
  BY DEF Shown, Apt
<1> DEFINE below(S) == {n \in Numbers(Others3(S)) : n < name(o)}
<1>2. below(sn) \subseteq below(sn1)
  BY DEF Numbers, Others3
<1>3. IsFiniteSet(below(sn1))
  <2>1. IsFiniteSet(Others3(sn1))
    BY FS_Subset DEF Others3
  <2>2. IsFiniteSet(Numbers(Others3(sn1)))
    BY <2>1, NumbersFinite
  <2> QED
    BY <2>2, FS_Subset
<1>4. PICK a, b : a = below(sn) /\ b = below(sn1)
  OBVIOUS
<1>5. IsFiniteSet(a) /\ Cardinality(a) <= Cardinality(b) /\ Cardinality(a) \in Nat /\ Cardinality(b) \in Nat
  BY <1>2, <1>3, <1>4, FS_Subset, FS_CardinalityType
<1>6. Cardinality(b) < CAP
  BY <1>4 DEF Shown, WithinCap
<1>7. Cardinality(a) < CAP
  BY <1>5, <1>6, CatalogAssumption
<1> QED
  BY <1>1, <1>4, <1>7 DEF Shown, WithinCap

LEMMA ShownListed ==
    ASSUME TypeOK, Slots, NEW rows, rows = TableList, NEW o \in Object, Shown(o, stable, seen)
    PROVE  rows \in Seq(User(Relation)) /\ o \in ToSet(rows)
<1>1. PICK S : S = User(Relation)
  OBVIOUS
<1>2. S \in SUBSET db /\ \A p \in S : kind(p) \in Relation
  BY <1>1 DEF User, TypeOK, CatalogTypeOK
<1> DEFINE key == [p \in S |-> name(p)]
<1>3. IsFiniteSet(S) /\ Tells(S, key) /\ ByName(S) \in Seq(S) /\ Cardinality(S) \in Nat
      /\ DOMAIN ByName(S) = 1 .. Cardinality(S)
  BY <1>2, RelationShares, ByNameIs
<1>4. rows = First(ByName(S)) /\ ByName(S) = Sorted(S, key)
  BY <1>1 DEF TableList, ByName
<1>5. PICK M : M = Numbers(Others3(seen))
  OBVIOUS
<1>6. IsFiniteSet(M)
  <2>1. IsFiniteSet(Others3(seen))
    BY FS_Subset DEF Others3, Slots
  <2> QED
    BY <1>5, <2>1, NumbersFinite
<1>7. \A y \in S : key[y] \in M
  BY <1>1, <1>5 DEF User, Numbers, Others3, TypeOK, CatalogTypeOK
<1>8. o \in S /\ key[o] = name(o)
  BY <1>1 DEF Shown, Apt, User, TypeOK, CatalogTypeOK
<1>9. Cardinality({m \in M : m < key[o]}) < CAP
  BY <1>5, <1>8 DEF Shown, WithinCap
<1>10. CAP \in Nat
  BY CatalogAssumption
<1>11. IsFiniteSet(S) /\ Tells(S, key)
  BY <1>3
<1>12. PICK k \in 1 .. CAP : k <= Cardinality(S) /\ Sorted(S, key)[k] = o
  BY <1>6, <1>7, <1>8, <1>9, <1>10, <1>11, WithinFirst
<1> HIDE DEF key
<1>13. k \in DOMAIN ByName(S) /\ k <= CAP /\ ByName(S)[k] = o
  BY <1>3, <1>4, <1>10, <1>12
<1>14. /\ rows \in Seq(S)
       /\ \A j \in DOMAIN rows : j \in DOMAIN ByName(S) /\ rows[j] = ByName(S)[j]
       /\ \A j \in DOMAIN ByName(S) : j <= CAP => j \in DOMAIN rows
  BY <1>3, <1>4, FirstIs
<1>15. k \in DOMAIN rows /\ rows[k] = o
  BY <1>13, <1>14
<1> QED
  BY <1>1, <1>14, <1>15 DEF ToSet

\* A call of describe_database: the rows at hand hold the tables that are shown, and
\* then their schemas are told or still to be read, unless one failed.
RowsHold == \A o \in Object : Shown(o, stable, seen) => o \in ToSet(Head(work).row)
SchemasToTell ==
    out[1].schemas /\ ~ faulted =>
        \A o \in Object : Shown(o, stable, seen) => SchemaDue(o, ToSet(work), ToSet(out))
ShownInv ==
    call.tool = "describe_database" /\ status \in {"run", "done"} =>
        /\ work # <<>> /\ Head(work).op = "database_keys" => RowsHold
        /\ out # <<>> => ReadingNow /\ SchemasToTell

LEMMA ShownInit == Init => ShownInv
  BY DEF Init, ShownInv

LEMMA SectionsHead ==
    ASSUME NEW w, Sections(w), w # <<>>
    PROVE  Head(w).op \in DatabaseOps
<1>1. PICK A : w \in Seq(A)
  BY DEF Sections
<1>2. 1 \in DOMAIN w /\ Head(w) = w[1]
  BY <1>1
<1> QED
  BY <1>2 DEF Sections, Closes

LEMMA TablesShow ==
    ASSUME TypeOK, Slots, AtTables, database_tables
    PROVE  out' = <<>> /\ RowsHold'
<1>1. PICK rows : rows = TableList
  OBVIOUS
<1>2. PICK i : i = Item("database_keys", 0, rows)
  OBVIOUS
<1>3. /\ work' = <<i>> \o Tail(<<Do("database_tables")>>)
      /\ out' = <<>> \o <<>> /\ UNCHANGED catalogVars
  BY <1>1, <1>2 DEF AtTables, database_tables, Goes, Rest
<1>4. work' = <<i>> /\ out' = <<>> /\ i.row = rows
  BY <1>2, <1>3 DEF Item
<1>5. Head(work').row = rows
  BY <1>4
<1>6. \A o \in Object : Shown(o, stable, seen) => o \in ToSet(rows)
  BY <1>1, ShownListed
<1>7. stable' = stable /\ seen' = seen
  BY <1>3 DEF catalogVars
<1> QED
  BY <1>4, <1>5, <1>6, <1>7 DEF RowsHold

LEMMA KeysShow ==
    ASSUME TypeOK, Slots, AtKeys, RowsHold, database_keys
    PROVE  ReadingNow' /\ SchemasToTell'
<1>1. PICK rows, counts, describes, w, r : KeysRead(rows, counts, describes, w, r)
  BY KeysAct
<1>2. PICK tables : tables = TablesOf(rows)
  OBVIOUS
<1>3. /\ rows \in Seq(Object) /\ tables \in Seq(Object)
      /\ counts \in BOOLEAN /\ describes \in BOOLEAN
      /\ work = <<Item("database_keys", 0, rows)>>
      /\ w = FlattenSeq([k \in 1 .. Len(tables) |-> SectionsOf(tables[k], counts, describes)])
      /\ work' = w \o <<>> /\ out' = <<r>> /\ stable' = stable /\ seen' = seen
  BY <1>1, <1>2 DEF KeysRead, catalogVars
<1>4. r.told = "database" /\ r.schemas = describes
  BY <1>1 DEF KeysRead
<1>5. Fresh(w) /\ (describes => \A k \in DOMAIN tables : HasSchema(w, name(tables[k])))
  BY <1>3, PiecesFresh
<1>6. PICK A : w \in Seq(A)
  BY <1>5 DEF Fresh, Linked
<1>7. work' = w
  BY <1>3, <1>6
<1>8. Linked(w) /\ Built(w, part', stable', seen')
  BY <1>5, FreshBuilt
<1>9. out' \in Seq({r}) /\ ToSet(out') = {r} /\ out'[1] = r
  BY <1>3 DEF ToSet
<1>10. OutRight(out', stable', seen')
  BY <1>4, <1>9 DEF OutRight
<1>11. ReadingNow'
  BY <1>7, <1>8, <1>10 DEF ReadingNow, Reading3
<1>12. ASSUME NEW o \in Object, Shown(o, stable, seen)
       PROVE  \E k \in DOMAIN tables : tables[k] = o
  <2>1. Head(work).row = rows
    BY <1>3 DEF Item
  <2>2. o \in ToSet(rows) /\ kind(o) = "table"
    BY <1>12, <2>1 DEF RowsHold, Shown
  <2>3. PICK p \in DOMAIN rows : rows[p] = o
    BY <2>2 DEF ToSet
  <2>4. p \in TablePlaces(rows) /\ TablePlaces(rows) \in SUBSET DOMAIN rows
    BY <2>2, <2>3 DEF TablePlaces
  <2>5. PICK at : Picks(tables, rows, TablePlaces(rows), at)
    BY <1>2, <1>3, <2>4, ChosenIs DEF TablesOf
  <2>6. PICK k \in DOMAIN tables : at[k] = p
    BY <2>4, <2>5 DEF Picks
  <2>7. tables[k] = rows[p]
    BY <2>5, <2>6 DEF Picks
  <2> QED
    BY <2>3, <2>7
<1>13. ASSUME describes, NEW o \in Object, Shown(o, stable, seen)
       PROVE  SchemaDue(o, ToSet(w), ToSet(out'))
  <2>1. PICK k \in DOMAIN tables : tables[k] = o
    BY <1>12, <1>13
  <2>2. HasSchema(w, name(o))
    BY <1>5, <1>13, <2>1
  <2> QED
    BY <2>2 DEF HasSchema, SchemaDue
<1>14. SchemasToTell'
  BY <1>3, <1>4, <1>7, <1>9, <1>13 DEF SchemasToTell
<1> QED
  BY <1>11, <1>14

LEMMA CountShows ==
    ASSUME ReadingNow, SchemasToTell, out # <<>>, count
    PROVE  out' # <<>> /\ ReadingNow' /\ SchemasToTell'
<1>1. /\ work # <<>> /\ Head(work).op = "count" /\ work' = Tail(work)
      /\ UNCHANGED <<stable, seen, out>>
  BY DEF count, At, Rest, catalogVars
<1>2. faulted => faulted'
  BY DEF count
<1>3. Linked(work)
  BY DEF ReadingNow, Reading3
<1>4. PICK A : work \in Seq(A)
  BY <1>3 DEF Linked
<1>5. work[1] = Head(work) /\ (work[1].op \notin Firsts => Fresh(work'))
  BY <1>1, <1>3, LinkedTail
<1>6. Fresh(work')
  BY <1>1, <1>5 DEF Firsts
<1>7. Linked(work') /\ Built(work', part', stable', seen')
  BY <1>6, FreshBuilt
<1>8. OutRight(out', stable', seen')
  BY <1>1 DEF ReadingNow, Reading3
<1>9. ReadingNow'
  BY <1>7, <1>8 DEF ReadingNow, Reading3
<1>10. \A x : x \in ToSet(work) <=> x = Head(work) \/ x \in ToSet(work')
  BY <1>1, <1>4, HeadSets
<1>11. Follows(Head(work), ToSet(work), ToSet(work'), ToSet(out), ToSet(out'))
  BY <1>1, <1>10 DEF Follows
<1>12. Head(work).op \notin SchemaOps \cup {"relation"}
  BY <1>1 DEF SchemaOps
<1>13. ASSUME NEW o, SchemaDue(o, ToSet(work), ToSet(out))
       PROVE  SchemaDue(o, ToSet(work'), ToSet(out'))
  BY <1>11, <1>12, <1>13, DueFollows
<1>14. SchemasToTell'
  BY <1>1, <1>2, <1>13 DEF SchemasToTell
<1> QED
  BY <1>1, <1>9, <1>14

LEMMA ReadShows ==
    ASSUME TypeOK, Slots, ReadingNow, SchemasToTell, out # <<>>, SchemaRead
    PROVE  out' # <<>> /\ ReadingNow' /\ SchemasToTell'
<1>1. faulted \in BOOLEAN
  BY DEF TypeOK
<1>2. out' # <<>> /\ out'[1] = out[1] /\ UNCHANGED <<stable, seen>> /\ (faulted => faulted')
  BY <1>1, SchemaReadIs
<1>3. \A o : SchemaDue(o, ToSet(work), ToSet(out)) => SchemaDue(o, ToSet(work'), ToSet(out'))
  BY <1>1, SchemaReadOwes
<1>4. SchemasToTell'
  BY <1>2, <1>3 DEF SchemasToTell
<1> QED
  BY <1>2, <1>4, SchemaReadGoesOn

LEMMA GivenUpShows ==
    ASSUME ReadingNow, out # <<>>, schema_fails
    PROVE  out' # <<>> /\ ReadingNow' /\ SchemasToTell'
<1>1. out' # <<>> /\ faulted'
  BY GivenUpIs
<1> QED
  BY <1>1, GivenUpGoesOn DEF SchemasToTell

LEMMA ShownStep ==
    ASSUME TypeOK, Slots, DatabaseInv, DatabaseInv', ShownInv, call.tool = "describe_database", Step
    PROVE  ShownInv'
<1>0. call' = call
  BY CatalogStays
<1> SUFFICES ASSUME status' \in {"run", "done"}
             PROVE  /\ work' # <<>> /\ Head(work').op = "database_keys" => RowsHold'
                    /\ out' # <<>> => ReadingNow' /\ SchemasToTell'
  BY DEF ShownInv
<1>1. CASE Begin
  <2>1. status = "start" /\ out = <<>> /\ work' = Plan /\ out' = out
    BY <1>1 DEF Begin, Fails, DatabaseInv
  <2>2. work' = <<Do("health"), Do("database_tables")>>
    BY <2>1, DatabasePlan
  <2>3. Head(work').op = "health"
    BY <2>2 DEF Do, Item
  <2> QED
    BY <2>1, <2>3
<1>2. CASE ErrorEnds
  BY <1>2 DEF ErrorEnds, Fails
<1>3. CASE Finish
  <2>1. work' = <<>> /\ UNCHANGED <<stable, seen, call, work, part, out, faulted>> /\ status = "run"
    BY <1>3 DEF Finish, catalogVars
  <2>2. out # <<>> => ReadingNow /\ SchemasToTell
    BY <2>1 DEF ShownInv
  <2>3. out # <<>> => ReadingNow'
    BY <2>1, <2>2 DEF ReadingNow
  <2>4. out # <<>> => SchemasToTell'
    BY <2>1, <2>2 DEF SchemasToTell
  <2> QED
    BY <2>1, <2>3, <2>4
<1>4. CASE health
  <2>1. AtHealth
    BY <1>4, ToolHeads, DatabaseHeads DEF DatabaseOps, SchemaOps
  <2>2. AtTables'
    BY <1>4, <2>1, HealthGoes
  <2>3. Head(work').op = "database_tables" /\ out' = <<>>
    BY <2>2 DEF AtTables, Do, Item
  <2> QED
    BY <2>3
<1>5. CASE database_tables
  <2>1. AtTables
    BY <1>5, ToolHeads, DatabaseHeads DEF DatabaseOps, SchemaOps
  <2> QED
    BY <1>5, <2>1, TablesShow
<1>6. CASE database_keys
  <2>1. AtKeys /\ Heads({"database_keys"})
    BY <1>6, ToolHeads, DatabaseHeads DEF DatabaseOps, SchemaOps
  <2>2. RowsHold
    BY <2>1 DEF Heads, ShownInv
  <2>3. ReadingNow' /\ SchemasToTell' /\ AtSections'
    BY <1>6, <2>1, <2>2, KeysShow, KeysGo
  <2>4. work' # <<>> => Head(work').op \in DatabaseOps
    BY <2>3, SectionsHead DEF AtSections
  <2> QED
    BY <2>3, <2>4 DEF DatabaseOps, SchemaOps
<1>7. ASSUME SchemaRead \/ schema_fails \/ count
      PROVE  AtSections /\ ReadingNow /\ SchemasToTell /\ out # <<>> /\ AtSections'
  <2>4. Heads(SchemaOps) \/ Heads({"count"})
    BY <1>7, SchemaHeads, ToolHeads
  <2>5. Heads(SchemaOps) => AtSections /\ work # <<>>
    BY DatabaseHeads DEF SchemaOps
  <2>6. Heads({"count"}) => AtSections /\ work # <<>>
    BY DatabaseHeads
  <2>1. AtSections /\ work # <<>> /\ status = "run"
    BY <2>4, <2>5, <2>6 DEF Heads
  <2>2. out # <<>>
    BY <2>1 DEF AtSections
  <2>3. AtSections'
    BY <1>7, <2>1, SectionGoes
  <2> QED
    BY <2>1, <2>2, <2>3 DEF ShownInv
<1>8. ASSUME AtSections'
      PROVE  work' # <<>> => Head(work').op # "database_keys"
  <2>1. work' # <<>> => Head(work').op \in DatabaseOps
    BY <1>8, SectionsHead DEF AtSections
  <2> QED
    BY <2>1 DEF DatabaseOps, SchemaOps
<1>9. CASE SchemaRead
  BY <1>7, <1>8, <1>9, ReadShows
<1>12. CASE schema_fails
  BY <1>7, <1>8, <1>12, GivenUpShows
<1>13. CASE count
  BY <1>7, <1>8, <1>13, CountShows
<1>10. CASE Extract \/ Describe
  BY <1>10, ExtractHeads, DescribeHeads, DatabaseHeads
     DEF ExtractOps, DescribeOps, SchemaOps, DatabaseOps
<1>11. CASE \/ handle_list \/ handle_find_column \/ domain_list \/ domain_uses \/ column_types
            \/ generate_keys \/ view_row \/ handle_check_duplicates \/ duplicate_rows
  BY <1>11, ToolHeads, DatabaseHeads DEF SchemaOps, DatabaseOps
<1> QED
  BY <1>1, <1>2, <1>3, <1>4, <1>5, <1>6, <1>9, <1>10, <1>11, <1>12, <1>13 DEF Step

LEMMA ShownNext ==
    ASSUME TypeOK, Slots, TypeOK', Slots', DatabaseInv, DatabaseInv', ShownInv, [Next]_vars
    PROVE  ShownInv'
<1>1. CASE Step
  <2>1. CASE call.tool = "describe_database"
    BY <1>1, <2>1, ShownStep
  <2>2. CASE call.tool # "describe_database"
    BY <1>1, <2>2, CatalogStays DEF ShownInv
  <2> QED
    BY <2>1, <2>2
<1>2. CASE \/ Others /\ UNCHANGED handlerVars
           \/ UNCHANGED vars
  <2>1. UNCHANGED <<call, status, work, part, out, faulted>>
    BY <1>2 DEF handlerVars, vars
  <2>2. stable' \subseteq stable /\ seen \subseteq seen'
    BY <1>2, OthersKeep DEF vars, catalogVars
  <2>3. IsFiniteSet(seen') /\ seen' \subseteq Object
    BY DEF Slots, TypeOK, CatalogTypeOK
  <2>4. \A o \in Object : Shown(o, stable', seen') => Shown(o, stable, seen)
    BY <2>2, <2>3, ShownLess
  <2>5. RowsHold => RowsHold'
    BY <2>1, <2>4 DEF RowsHold
  <2>6. SchemasToTell => SchemasToTell'
    BY <2>1, <2>4 DEF SchemasToTell
  <2> QED
    BY <2>1, <2>2, <2>5, <2>6, ReadingStill DEF ShownInv
<1> QED
  BY <1>1, <1>2 DEF Next, Over

-----------------------------------------------------------------------------
\* What has been told when the call is over.
IsNamed(o) == \E n \in ToSet(call.names) : upper[n] = name(o)
IsShown(o) ==
    CASE call.tool = "describe" -> IsNamed(o) /\ kind(o) \in Relation /\ Foremost(o)
      [] call.tool = "describe_table" -> kind(o) \in Relation /\ upper[call.names[1]] = name(o)
      [] OTHER -> out[1].schemas /\ kind(o) = "table" /\ WithinCap(o, Others3(seen))
IsDescribed(o) ==
    /\ call.tool = "describe" /\ IsNamed(o) /\ Foremost(o) => \E t \in ToldOf(o) : ToldRight(o, t.row)
    /\ IsShown(o) /\ ~ faulted => SchemasOf(o) # {}
    /\ IsShown(o) => \A t \in SchemasOf(o) : SchemaRight(o, t.sections)

LEMMA SchemasAreRight ==
    ASSUME ReadingNow, NEW o \in Object, Apt(o, stable), NEW t \in SchemasOf(o)
    PROVE  SchemaRight(o, t.sections)
<1>1. t \in ToSet(out) /\ t.told = "schema" /\ t.name = name(o)
  BY DEF SchemasOf
<1>2. PICK s : s = t.sections
  OBVIOUS
<1>3. SchemaTold(o, s, stable, seen)
  BY <1>1, <1>2 DEF ReadingNow, Reading3, OutRight
<1>4. /\ SectionRight(o, 1, s[1], stable, seen) /\ SectionRight(o, 2, s[2], stable, seen)
      /\ SectionRight(o, 3, s[3], stable, seen) /\ SectionRight(o, 4, s[4], stable, seen)
  BY <1>3 DEF SchemaTold
<1>5. s[1] = World[o].cols
  BY <1>4 DEF SectionRight
<1>6. kind(o) = "table" => IndexesRight(o, s[2])
  BY <1>4 DEF SectionRight
<1>7. kind(o) = "table" => ConstraintsRight(o, s[3])
  BY <1>4 DEF SectionRight
<1>8. TriggersTold(o, s[4], stable, seen)
  BY <1>4 DEF SectionRight
<1>9. TriggersRight(o, s[4])
  BY <1>8 DEF TriggersTold, TriggersRight
<1> QED
  BY <1>2, <1>5, <1>6, <1>7, <1>9 DEF SchemaRight

LEMMA SchemaIsTold ==
    ASSUME NEW o, SchemaDue(o, {}, ToSet(out))
    PROVE  SchemasOf(o) # {}
  BY DEF SchemaDue, SchemasOf

LEMMA KindIsTold ==
    ASSUME NEW o, KindDue(o, {}, ToSet(out))
    PROVE  \E t \in ToldOf(o) : ToldRight(o, t.row)
  BY DEF KindDue, ToldOf

LEMMA NothingLeft ==
    ASSUME TypeOK, status = "done"
    PROVE  work = <<>> /\ ToSet(work) = {}
<1>1. work = <<>>
  BY DEF TypeOK
<1>2. Range(<<>>) = {}
  BY DEF Range
<1> QED
  BY <1>1, <1>2 DEF ToSet

LEMMA DescribedByName ==
    ASSUME TypeOK, DescribeInv, status = "done", call.tool = "describe",
           NEW o \in Object, o \in stable, ~ World[o].system
    PROVE  IsDescribed(o)
<1>1. ReadingNow /\ Describing /\ ToSet(work) = {}
  BY NothingLeft DEF DescribeInv
<1>2. ASSUME IsNamed(o), Foremost(o)
      PROVE  KindDue(o, {}, ToSet(out)) /\ (kind(o) \in Relation /\ ~ faulted => SchemaDue(o, {}, ToSet(out)))
  <2>1. Sought(o, Wants, stable, seen)
    BY <1>2 DEF IsNamed, Foremost, Sought, Wants
  <2> QED
    BY <1>1, <2>1 DEF Describing, DescribeOwes
<1>3. IsShown(o) <=> IsNamed(o) /\ kind(o) \in Relation /\ Foremost(o)
  BY DEF IsShown
<1>4. IsNamed(o) /\ Foremost(o) => \E t \in ToldOf(o) : ToldRight(o, t.row)
  BY <1>2, KindIsTold
<1>5. IsShown(o) /\ ~ faulted => SchemasOf(o) # {}
  BY <1>2, <1>3, SchemaIsTold
<1>6. IsShown(o) => Apt(o, stable)
  BY <1>3 DEF Apt
<1>7. IsShown(o) => \A t \in SchemasOf(o) : SchemaRight(o, t.sections)
  BY <1>1, <1>6, SchemasAreRight
<1> QED
  BY <1>4, <1>5, <1>7 DEF IsDescribed

LEMMA DescribedTable ==
    ASSUME TypeOK, TableInv, status = "done", call.tool = "describe_table",
           NEW o \in Object, o \in stable, ~ World[o].system
    PROVE  IsDescribed(o)
<1>1. ReadingNow /\ OneSchema /\ ToSet(work) = {}
  BY NothingLeft DEF TableInv
<1>2. IsShown(o) <=> kind(o) \in Relation /\ upper[call.names[1]] = name(o)
  BY DEF IsShown
<1>3. IsShown(o) => Apt(o, stable) /\ name(o) \in OnlyOne
  BY <1>2 DEF Apt, OnlyOne
<1>4. IsShown(o) => SchemasOf(o) # {}
  BY <1>1, <1>3, SchemaIsTold DEF OneSchema, SchemasDue
<1>5. IsShown(o) => \A t \in SchemasOf(o) : SchemaRight(o, t.sections)
  BY <1>1, <1>3, SchemasAreRight
<1> QED
  BY <1>4, <1>5 DEF IsDescribed

LEMMA DescribedDatabase ==
    ASSUME TypeOK, DatabaseInv, ShownInv, status = "done", call.tool = "describe_database",
           NEW o \in Object, o \in stable, ~ World[o].system
    PROVE  IsDescribed(o)
<1>1. work = <<>> /\ ToSet(work) = {}
  BY NothingLeft
<1>2. AtSections
  BY <1>1 DEF DatabaseInv, AtHealth, AtTables, AtKeys
<1>3. ReadingNow /\ SchemasToTell
  BY <1>2 DEF ShownInv, AtSections
<1>4. IsShown(o) <=> out[1].schemas /\ kind(o) = "table" /\ WithinCap(o, Others3(seen))
  BY DEF IsShown
<1>5. IsShown(o) => Apt(o, stable) /\ Shown(o, stable, seen) /\ out[1].schemas
  BY <1>4 DEF Apt, Shown, Relation
<1>6. IsShown(o) /\ ~ faulted => SchemasOf(o) # {}
  BY <1>1, <1>3, <1>5, SchemaIsTold DEF SchemasToTell
<1>7. IsShown(o) => \A t \in SchemasOf(o) : SchemaRight(o, t.sections)
  BY <1>3, <1>5, SchemasAreRight
<1> QED
  BY <1>6, <1>7 DEF IsDescribed

LEMMA DescribedIs ==
    ASSUME \A o \in stable : ~ World[o].system => IsDescribed(o)
    PROVE  StableIsDescribed
  BY DEF StableIsDescribed, IsDescribed, IsShown, IsNamed, Others3

DescriptionInv == ListingInv /\ DescribeInv /\ TableInv /\ ShownInv

LEMMA DescriptionInit == Init => DescriptionInv
  BY ListingInit, DescribeInit, TableInit, ShownInit DEF DescriptionInv

LEMMA DescriptionNext == DescriptionInv /\ [Next]_vars => DescriptionInv'
<1> SUFFICES ASSUME DescriptionInv, [Next]_vars
             PROVE  DescriptionInv'
  OBVIOUS
<1>1. ListingInv /\ ListingInv'
  BY ListingNext DEF DescriptionInv
<1>2. /\ TypeOK /\ Slots /\ TypeOK' /\ Slots' /\ DatabaseInv /\ DatabaseInv'
      /\ DescribeInv /\ TableInv /\ ShownInv
  BY <1>1 DEF ListingInv, DescriptionInv
<1>3. DescribeInv'
  BY <1>2, DescribeNext
<1>4. TableInv'
  BY <1>2, TableNext
<1>5. ShownInv'
  BY <1>2, ShownNext
<1> QED
  BY <1>1, <1>3, <1>4, <1>5 DEF DescriptionInv

LEMMA DescriptionHolds == DescriptionInv => StableIsDescribed
<1> SUFFICES ASSUME DescriptionInv
             PROVE  StableIsDescribed
  OBVIOUS
<1>1. TypeOK /\ DatabaseInv /\ DescribeInv /\ TableInv /\ ShownInv
  BY DEF DescriptionInv, ListingInv
<1>2. CASE status = "done" /\ call.tool \in {"describe", "describe_table", "describe_database"}
  <2>1. stable \subseteq Object
    BY <1>1 DEF TypeOK, CatalogTypeOK
  <2>2. ASSUME NEW o \in stable, ~ World[o].system
        PROVE  IsDescribed(o)
    <3>1. CASE call.tool = "describe"
      BY <1>1, <1>2, <2>1, <2>2, <3>1, DescribedByName
    <3>2. CASE call.tool = "describe_table"
      BY <1>1, <1>2, <2>1, <2>2, <3>2, DescribedTable
    <3>3. CASE call.tool = "describe_database"
      BY <1>1, <1>2, <2>1, <2>2, <3>3, DescribedDatabase
    <3> QED
      BY <1>2, <3>1, <3>2, <3>3
  <2> QED
    BY <2>2, DescribedIs
<1>3. CASE ~ (status = "done" /\ call.tool \in {"describe", "describe_table", "describe_database"})
  BY <1>3 DEF StableIsDescribed
<1> QED
  BY <1>2, <1>3

\* An object that is there throughout a call of describe, describe_table or
\* describe_database is told of, under the first kind that has its name, and with the
\* whole of its schema unless a query for it failed; what a schema says is of that
\* table alone, for every database, every call and any number of changes meanwhile.
THEOREM StableAreDescribed == Spec => []StableIsDescribed
<1>1. Init => DescriptionInv
  BY DescriptionInit
<1>2. DescriptionInv /\ [Next]_vars => DescriptionInv'
  BY DescriptionNext
<1>3. DescriptionInv => StableIsDescribed
  BY DescriptionHolds
<1> QED
  BY <1>1, <1>2, <1>3, PTL DEF Spec

-----------------------------------------------------------------------------
\* generate_dev: the schemas of all tables, and last the keys.
KeysLast(w) ==
    /\ w # <<>> /\ w[Len(w)].op = "generate_keys"
    /\ \A k \in 1 .. Len(w) - 1 : w[k].op \in SchemaOps
Gathering ==
    /\ ReadingNow /\ KeysLast(work) /\ \A t \in ToSet(out) : t.told = "schema"
    /\ SchemasDue(ToSet(work), ToSet(out), Wants, stable)
EntitiesRight(T, wants, st) ==
    /\ \A t \in T : t.told = "entity"
    /\ \A o \in Object : Apt(o, st) /\ name(o) \in wants =>
          /\ \E t \in T : t.name = name(o)
          /\ \A t \in T : t.name = name(o) => t.fields = ForEach(World[o].cols, EntityField)
Generated == work = <<>> /\ EntitiesRight(ToSet(out), Wants, stable)
GenerateInv ==
    call.tool = "generate" =>
        /\ status = "start" => out = <<>>
        /\ status = "run" => Gathering \/ Generated
        /\ status = "done" => Generated

LEMMA GenerateInit == Init => GenerateInv
  BY DEF Init, GenerateInv

LEMMA KeysOp == "generate_keys" \notin SchemaOps
  BY DEF SchemaOps

LEMMA KeysTail ==
    ASSUME NEW A, NEW w \in Seq(A), KeysLast(w), Head(w).op \in SchemaOps, NEW u, u = Tail(w)
    PROVE  KeysLast(u)
<1>1. w # <<>> /\ w[Len(w)].op = "generate_keys"
  BY DEF KeysLast
<1>2. PICK n \in Nat : n = Len(w) /\ n >= 1 /\ Head(w) = w[1]
  BY <1>1
<1>3. n # 1
  BY <1>1, <1>2, KeysOp
<1>4. Len(u) = n - 1 /\ u # <<>> /\ \A k \in 1 .. n - 1 : u[k] = w[k + 1]
  <2>1. u \in Seq(A) /\ Len(u) = n - 1
    BY <1>1, <1>2
  <2>2. n - 1 # 0
    BY <1>2, <1>3
  <2>3. \A k \in 1 .. n - 1 : u[k] = w[k + 1]
    BY <1>1, <1>2
  <2> QED
    BY <2>1, <2>2, <2>3
<1>5. u[Len(u)] = w[Len(w)]
  BY <1>2, <1>3, <1>4
<1>6. \A k \in 1 .. n - 1 : w[k].op \in SchemaOps
  BY <1>2 DEF KeysLast
<1>7. \A k \in 1 .. (n - 1) - 1 : u[k].op \in SchemaOps
  BY <1>2, <1>4, <1>6
<1> QED
  BY <1>1, <1>4, <1>5, <1>7 DEF KeysLast

LEMMA ListWithin ==
    ASSUME NEW A, NEW s \in Seq(A), NEW X, \A x \in ToSet(s) : x \in X
    PROVE  s \in Seq(X)
<1>1. \A k \in 1 .. Len(s) : s[k] \in X
  BY DEF ToSet
<1> QED
  BY <1>1

LEMMA TablesFresh ==
    ASSUME NEW names, NEW n \in Nat, n = Len(names), DOMAIN names = 1 .. n,
           NEW w, w = FlattenSeq([k \in 1 .. n |-> describe_table(upper[names[k]])])
    PROVE  /\ Fresh(w)
           /\ \A i \in ToSet(w) : i.op \in SchemaOps
           /\ \A k \in 1 .. n : HasSchema(w, upper[names[k]])
<1> DEFINE ss == [k \in 1 .. n |-> describe_table(upper[names[k]])]
<1>1. /\ DOMAIN ss = 1 .. n /\ Len(ss) = n /\ w = FlattenSeq(ss)
      /\ \A k \in 1 .. n : ss[k] = describe_table(upper[names[k]])
  OBVIOUS
<1> HIDE DEF ss
<1>2. ASSUME NEW k \in 1 .. n
      PROVE  /\ Fresh(ss[k]) /\ \A i \in ToSet(ss[k]) : i.op \in SchemaOps
             /\ HasSchema(ss[k], upper[names[k]])
  <2>1. PICK m, d, i : m = upper[names[k]] /\ d = ss[k] /\ i = Item("columns_of", m, <<>>)
    OBVIOUS
  <2>2. /\ Fresh(d) /\ i \in ToSet(d)
        /\ \A x \in ToSet(d) : x.op \in SchemaOps /\ x.of = m
    BY <1>1, <2>1, DescribeTableIs
  <2> QED
    BY <2>1, <2>2 DEF HasSchema
<1>3. Fresh(w)
  BY <1>1, <1>2, FreshFlattened
<1>4. PICK X : X = UNION {ToSet(ss[k]) : k \in 1 .. n}
  OBVIOUS
<1>5. \A k \in 1 .. n : ss[k] \in Seq(X)
  <2> SUFFICES ASSUME NEW k \in 1 .. n
               PROVE  ss[k] \in Seq(X)
    OBVIOUS
  <2>1. PICK d, A : d = ss[k] /\ d \in Seq(A)
    BY <1>2 DEF Fresh, Linked
  <2>2. \A x \in ToSet(d) : x \in X
    BY <1>4, <2>1
  <2> QED
    BY <2>1, <2>2, ListWithin
<1>6. ListsOf(X, ss, n)
  BY <1>5 DEF ListsOf
<1>7. \A x : x \in ToSet(w) <=> \E i \in 1 .. n : x \in ToSet(ss[i])
  BY <1>1, <1>6, JoinedHolds
<1> QED
  BY <1>2, <1>3, <1>7 DEF HasSchema

LEMMA GeneratePlan ==
    ASSUME call.tool = "generate", NEW n, n = Len(call.names)
    PROVE  Plan = FlattenSeq([k \in 1 .. n |-> describe_table(upper[call.names[k]])])
                      \o <<Do("generate_keys")>>
  BY DEF Plan, EachTable, ForEach

LEMMA GenerateBegins ==
    ASSUME TypeOK, call.tool = "generate", out = <<>>, Begin, status' # "failed"
    PROVE  Gathering'
<1>1. PICK n \in Nat : n = Len(call.names) /\ DOMAIN call.names = 1 .. n
  <2>1. call.names \in Seq(Nat)
    BY CallsAssumption DEF TypeOK
  <2> QED
    BY <2>1
<1>2. PICK names : names = call.names
  OBVIOUS
<1>3. PICK a : a = FlattenSeq([k \in 1 .. n |-> describe_table(upper[names[k]])])
  OBVIOUS
<1>4. PICK z, b : z = Do("generate_keys") /\ b = <<z>>
  OBVIOUS
<1>5. PICK w : w = a \o b
  OBVIOUS
<1>6. /\ work' = w /\ out' = <<>> /\ UNCHANGED <<call, stable, seen>>
  <2>1. work' = Plan /\ out' = <<>> /\ UNCHANGED <<call, stable, seen>>
    BY DEF Begin, Fails, catalogVars
  <2>2. Plan = w
    BY <1>1, <1>2, <1>3, <1>4, <1>5, GeneratePlan
  <2> QED
    BY <2>1, <2>2
<1>7. /\ Fresh(a)
      /\ \A i \in ToSet(a) : i.op \in SchemaOps
      /\ \A k \in 1 .. n : HasSchema(a, upper[names[k]])
  BY <1>1, <1>2, <1>3, TablesFresh
<1>8. z.op = "generate_keys" /\ b \in Seq({z}) /\ DOMAIN b = {1} /\ b[1] = z /\ Len(b) = 1
  BY <1>4 DEF Do, Item
<1>9. Fresh(b)
  BY <1>8, KeysOp, PlainFresh
<1>10. Fresh(w)
  BY <1>5, <1>7, <1>9, FreshJoins
<1>11. Linked(w) /\ Built(w, part', stable', seen')
  BY <1>10, FreshBuilt
<1>12. ReadingNow'
  BY <1>6, <1>11, NothingTold DEF ReadingNow, Reading3
<1>13. PICK A : a \in Seq(A)
  BY <1>7 DEF Fresh, Linked
<1>14. PICK m \in Nat : m = Len(a) /\ DOMAIN a = 1 .. m
  BY <1>13
<1>15. /\ Len(w) = m + 1 /\ w[m + 1] = z
       /\ \A k \in 1 .. m : w[k] = a[k]
  <2>1. /\ Len(w) = Len(a) + Len(b)
        /\ \A k \in DOMAIN a : w[k] = a[k]
        /\ \A k \in DOMAIN b : w[Len(a) + k] = b[k]
    <3>1. b \in Seq({z})
      BY <1>8
    <3>2. a \in Seq(A)
      BY <1>13
    <3> QED
      BY <1>5, <3>1, <3>2, AppendedIs
  <2> QED
    BY <1>8, <1>14, <2>1
<1>16. KeysLast(w)
  <2>1. \A k \in 1 .. m : w[k].op \in SchemaOps
    BY <1>7, <1>14, <1>15 DEF ToSet
  <2>2. w # <<>>
    BY <1>15
  <2> QED
    BY <1>8, <1>15, <2>1, <2>2 DEF KeysLast
<1>17. \A x : x \in ToSet(w) <=> x \in ToSet(a) \/ x \in ToSet(b)
  BY <1>5, <1>8, <1>13, JoinSets
<1>18. PICK wants : wants = Wants
  OBVIOUS
<1>19. \A x \in wants : HasSchema(w, x)
  <2> SUFFICES ASSUME NEW x \in wants
               PROVE  HasSchema(w, x)
    OBVIOUS
  <2>1. PICK k \in 1 .. n : x = upper[names[k]]
    BY <1>1, <1>2, <1>18 DEF Wants, ToSet
  <2> QED
    BY <1>7, <1>17, <2>1 DEF HasSchema
<1>20. SchemasDue(ToSet(w), ToSet(out'), wants, stable')
  BY <1>19 DEF SchemasDue, SchemaDue, HasSchema
<1>21. Wants' = wants
  BY <1>6, <1>18 DEF Wants
<1>22. ToSet(out') = {}
  BY <1>6 DEF ToSet
<1> QED
  BY <1>6, <1>12, <1>16, <1>20, <1>21, <1>22 DEF Gathering

LEMMA GatheringReads ==
    ASSUME TypeOK, Slots, Gathering, SchemaRead
    PROVE  Gathering' /\ status' = status
<1>1. ReadingNow /\ KeysLast(work) /\ SchemasDue(ToSet(work), ToSet(out), Wants, stable)
  BY DEF Gathering
<1>2. faulted \in BOOLEAN
  BY DEF TypeOK
<1>3. /\ Head(work).op \in SchemaOps /\ work' = Tail(work)
      /\ \A t \in ToSet(out') : t \in ToSet(out) \/ t.told = "schema"
      /\ UNCHANGED <<call, status>>
  BY <1>1, <1>2, SchemaReadIs
<1>4. PICK A, w, u : w = work /\ w \in Seq(A) /\ u = Tail(w)
  BY <1>1 DEF ReadingNow, Reading3, Linked
<1>5. KeysLast(u)
  BY <1>1, <1>3, <1>4, KeysTail
<1>6. PICK wants : wants = Wants
  OBVIOUS
<1>7. Wants' = wants
  BY <1>3, <1>6 DEF Wants
<1>8. SchemasDue(ToSet(work'), ToSet(out'), wants, stable')
  BY <1>1, <1>6, SchemasDueRead
<1>9. ReadingNow'
  BY <1>1, SchemaReadGoesOn
<1>10. \A t \in ToSet(out') : t.told = "schema"
  BY <1>3 DEF Gathering
<1> QED
  BY <1>3, <1>4, <1>5, <1>7, <1>8, <1>9, <1>10 DEF Gathering

LEMMA EntityIs ==
    ASSUME NEW s, NEW e, e = Entity(s)
    PROVE  e.told = "entity" /\ e.name = s.name /\ e.fields = ForEach(s.sections[1], EntityField)
  BY DEF Entity

LEMMA EntitiesAre ==
    ASSUME NEW B, NEW t \in Seq(B), NEW e, e = [k \in 1 .. Len(t) |-> Entity(t[k])]
    PROVE  \A x : x \in ToSet(e) <=> \E r \in ToSet(t) : x = Entity(r)
<1>1. PICK n \in Nat : n = Len(t) /\ DOMAIN t = 1 .. n
  OBVIOUS
<1>2. DOMAIN e = 1 .. n /\ \A k \in 1 .. n : e[k] = Entity(t[k])
  BY <1>1
<1>3. \A x : x \in ToSet(e) <=> \E k \in 1 .. n : x = e[k]
  BY <1>2 DEF ToSet
<1>4. \A r : r \in ToSet(t) <=> \E k \in 1 .. n : r = t[k]
  BY <1>1 DEF ToSet
<1>5. ASSUME NEW x \in ToSet(e)
      PROVE  \E r \in ToSet(t) : x = Entity(r)
  <2>1. PICK k \in 1 .. n : x = e[k]
    BY <1>3, <1>5
  <2>2. PICK r : r = t[k]
    OBVIOUS
  <2>3. r \in ToSet(t) /\ x = Entity(r)
    BY <1>2, <1>4, <2>1, <2>2
  <2> QED
    BY <2>3
<1>6. ASSUME NEW r \in ToSet(t)
      PROVE  Entity(r) \in ToSet(e)
  <2>1. PICK k \in 1 .. n : r = t[k]
    BY <1>4
  <2> QED
    BY <1>2, <1>3, <2>1
<1> QED
  BY <1>5, <1>6

LEMMA OneLong ==
    ASSUME NEW A, NEW w \in Seq(A), Len(w) = 1
    PROVE  Tail(w) = <<>> /\ \A x \in ToSet(w) : x = w[1]
<1>1. DOMAIN w = {1}
  OBVIOUS
<1>2. PICK u : u = Tail(w)
  OBVIOUS
<1>5. w # <<>>
  OBVIOUS
<1>3. u \in Seq(A) /\ Len(u) = 0
  BY <1>2, <1>5
<1>4. u = <<>>
  BY <1>3
<1> QED
  BY <1>1, <1>2, <1>4 DEF ToSet

\* All schemas have been read: an entity of each.
LEMMA GeneratesAll ==
    ASSUME Gathering, generate_keys
    PROVE  Generated' /\ status' = status
<1>1. /\ ReadingNow /\ KeysLast(work) /\ SchemasDue(ToSet(work), ToSet(out), Wants, stable)
      /\ \A t \in ToSet(out) : t.told = "schema"
  BY DEF Gathering
<1>2. /\ work' = Tail(work) /\ out' = ForEach(out, Entity) /\ Head(work).op = "generate_keys"
      /\ UNCHANGED <<call, status, stable>>
  BY DEF generate_keys, At, Rest, catalogVars
<1>3. PICK A, w : w = work /\ w \in Seq(A) /\ w # <<>>
  BY <1>1 DEF ReadingNow, Reading3, Linked, KeysLast
<1>4. PICK n \in Nat : n = Len(w) /\ n >= 1 /\ Head(w) = w[1] /\ DOMAIN w = 1 .. n
  BY <1>3
<1>5. n = 1
  <2>1. \A k \in 1 .. n - 1 : w[k].op \in SchemaOps
    BY <1>1, <1>3, <1>4 DEF KeysLast
  <2> QED
    BY <1>2, <1>3, <1>4, <2>1, KeysOp
<1>6. Tail(w) = <<>> /\ \A i \in ToSet(w) : i.op = "generate_keys"
  <2>1. Tail(w) = <<>> /\ \A x \in ToSet(w) : x = w[1]
    BY <1>3, <1>4, <1>5, OneLong
  <2> QED
    BY <1>2, <1>3, <1>4, <2>1
<1>7. PICK B, t : t = out /\ t \in Seq(B)
  BY <1>1 DEF ReadingNow, Reading3, OutRight
<1>8. PICK e : e = [k \in 1 .. Len(t) |-> Entity(t[k])]
  OBVIOUS
<1>9. out' = e
  BY <1>2, <1>7, <1>8 DEF ForEach
<1>12. \A x : x \in ToSet(e) <=> \E r \in ToSet(t) : x = Entity(r)
  <2>1. t \in Seq(B)
    BY <1>7
  <2> QED
    BY <1>8, <2>1, EntitiesAre
<1>13. PICK wants, st : wants = Wants /\ st = stable
  OBVIOUS
<1>14. ASSUME NEW o \in Object, Apt(o, st), name(o) \in wants
       PROVE  /\ \E x \in ToSet(e) : x.name = name(o)
              /\ \A x \in ToSet(e) : x.name = name(o) => x.fields = ForEach(World[o].cols, EntityField)
  <2>1. SchemaDue(o, ToSet(w), ToSet(t))
    BY <1>1, <1>3, <1>7, <1>13, <1>14 DEF SchemasDue
  <2>2. "generate_keys" \notin SchemaOps \cup {"relation"}
    BY KeysOp
  <2>3. PICK r \in ToSet(t) : r.name = name(o)
    BY <1>6, <2>1, <2>2 DEF SchemaDue
  <2>4. PICK x \in ToSet(e) : x = Entity(r)
    BY <1>12, <2>3
  <2>5. x.name = name(o)
    BY <2>3, <2>4, EntityIs
  <2>6. ASSUME NEW y \in ToSet(e), y.name = name(o)
        PROVE  y.fields = ForEach(World[o].cols, EntityField)
    <3>1. PICK q \in ToSet(t) : y = Entity(q)
      BY <1>12, <2>6
    <3>2. q.name = name(o) /\ y.fields = ForEach(q.sections[1], EntityField)
      BY <2>6, <3>1, EntityIs
    <3>3. q.told = "schema"
      BY <1>1, <1>7, <3>1
    <3>4. SchemaTold(o, q.sections, st, seen)
      BY <1>1, <1>7, <1>13, <1>14, <3>1, <3>2, <3>3 DEF ReadingNow, Reading3, OutRight
    <3>5. q.sections[1] = World[o].cols
      BY <3>4 DEF SchemaTold, SectionRight
    <3> QED
      BY <3>2, <3>5
  <2> QED
    BY <2>5, <2>6
<1>15. \A x \in ToSet(e) : x.told = "entity"
  BY <1>12, EntityIs
<1>16. EntitiesRight(ToSet(e), wants, st)
  BY <1>14, <1>15 DEF EntitiesRight
<1>17. Wants' = wants /\ stable' = st
  BY <1>2, <1>13 DEF Wants
<1>18. work' = <<>>
  BY <1>2, <1>3, <1>6
<1> QED
  BY <1>2, <1>9, <1>16, <1>17, <1>18 DEF Generated

LEMMA GenerateStep ==
    ASSUME TypeOK, Slots, GenerateInv, call.tool = "generate", Step
    PROVE  GenerateInv'
<1>0. call' = call
  BY CatalogStays
<1>9. status' # "start"
  BY StepIs DEF GoesOn, Starts, Stops, Fails, Finish
<1>1. CASE Begin
  <2>1. status = "start" /\ out = <<>>
    BY <1>1 DEF Begin, GenerateInv
  <2>2. status' \in {"run", "failed"}
    BY <1>1 DEF Begin, Fails
  <2>3. status' # "failed" => Gathering'
    BY <1>1, <2>1, GenerateBegins
  <2> QED
    BY <1>9, <2>2, <2>3 DEF GenerateInv
<1>2. CASE ErrorEnds
  <2>1. status' = "failed"
    BY <1>2 DEF ErrorEnds, Fails
  <2> QED
    BY <2>1 DEF GenerateInv
<1>3. CASE Finish
  <2>1. /\ UNCHANGED <<stable, seen, call, work, part, out, faulted>> /\ status = "run" /\ work = <<>>
        /\ status' = "done"
    BY <1>3 DEF Finish, catalogVars
  <2>2. ~ Gathering
    BY <2>1 DEF Gathering, KeysLast
  <2>3. Generated
    BY <2>1, <2>2 DEF GenerateInv
  <2>4. Wants' = Wants
    BY <2>1 DEF Wants
  <2>5. Generated'
    BY <2>1, <2>3, <2>4 DEF Generated
  <2> QED
    BY <2>1, <2>5 DEF GenerateInv
<1>4. \A ops : Heads(ops) => /\ Gathering /\ status = "run" /\ Head(work).op \in ops
                             /\ Head(work).op \in SchemaOps \cup {"generate_keys"}
  <2> SUFFICES ASSUME NEW ops, Heads(ops)
               PROVE  Gathering /\ Head(work).op \in SchemaOps \cup {"generate_keys"}
    BY DEF Heads
  <2>1. status = "run" /\ work # <<>>
    BY DEF Heads
  <2>2. Gathering
    BY <2>1 DEF GenerateInv, Generated
  <2>3. PICK A, w : w = work /\ w \in Seq(A) /\ w # <<>> /\ KeysLast(w)
    BY <2>1, <2>2 DEF Gathering, ReadingNow, Reading3, Linked
  <2>4. PICK n \in Nat : n = Len(w) /\ n >= 1 /\ Head(w) = w[1]
    BY <2>3
  <2>5. n = 1 \/ 1 \in 1 .. n - 1
    BY <2>4
  <2> QED
    BY <2>2, <2>3, <2>4, <2>5 DEF KeysLast
<1>5. CASE SchemaRead
  <2>1. Gathering /\ status = "run"
    BY <1>4, <1>5, SchemaHeads
  <2> QED
    BY <1>5, <2>1, GatheringReads DEF GenerateInv
<1>6. CASE generate_keys
  <2>1. Gathering /\ status = "run"
    BY <1>4, <1>6, ToolHeads
  <2> QED
    BY <1>6, <2>1, GeneratesAll DEF GenerateInv
<1>7. CASE schema_fails
  BY <1>7 DEF schema_fails
<1>10. CASE Extract \/ Describe
  BY <1>4, <1>10, ExtractHeads, DescribeHeads DEF ExtractOps, DescribeOps, SchemaOps
<1>11. CASE \/ handle_list \/ handle_find_column \/ domain_list \/ domain_uses \/ column_types
            \/ health \/ database_tables \/ database_keys \/ count
            \/ view_row \/ handle_check_duplicates \/ duplicate_rows
  BY <1>4, <1>11, ToolHeads DEF SchemaOps
<1> QED
  BY <1>1, <1>2, <1>3, <1>5, <1>6, <1>7, <1>10, <1>11 DEF Step

LEMMA GenerateNext ==
    ASSUME TypeOK, Slots, GenerateInv, [Next]_vars
    PROVE  GenerateInv'
<1>1. CASE Step
  <2>1. CASE call.tool = "generate"
    BY <1>1, <2>1, GenerateStep
  <2>2. CASE call.tool # "generate"
    BY <1>1, <2>2, CatalogStays DEF GenerateInv
  <2> QED
    BY <2>1, <2>2
<1>2. CASE \/ Others /\ UNCHANGED handlerVars
           \/ UNCHANGED vars
  <2>1. UNCHANGED <<call, status, work, part, out, faulted>>
    BY <1>2 DEF handlerVars, vars
  <2>2. stable' \subseteq stable /\ seen \subseteq seen'
    BY <1>2, OthersKeep DEF vars, catalogVars
  <2>3. PICK wants : wants = Wants /\ Wants' = wants
    BY <2>1 DEF Wants
  <2>4. Gathering => Gathering'
    BY <2>1, <2>2, <2>3, AptLess, ReadingStill DEF Gathering
  <2>5. Generated => Generated'
    <3>1. \A o \in Object : Apt(o, stable') => Apt(o, stable)
      BY <2>2 DEF Apt
    <3> QED
      BY <2>1, <2>3, <3>1 DEF Generated, EntitiesRight
  <2> QED
    BY <2>1, <2>4, <2>5 DEF GenerateInv
<1> QED
  BY <1>1, <1>2 DEF Next, Over

-----------------------------------------------------------------------------
\* view_dto: a DTO of each name, or still the row to read.
IsDto(t, o) ==
    /\ t.told = "dto" /\ t.name = name(o)
    /\ World[o].rows # <<>> =>
          \E values \in [Guessed(o) -> DOMAIN infer_type_from_value] : t.fields = ViewFields(o, values)
DtosDue(W, T, wants, st) ==
    /\ \A i \in W : i.op = "view_row"
    /\ \A o \in Object : Apt(o, st) /\ name(o) \in wants =>
          (\E t \in T : IsDto(t, o)) \/ (\E i \in W : i.of = name(o))
Viewing == ReadingNow /\ DtosDue(ToSet(work), ToSet(out), Wants, stable)
ViewInv ==
    call.tool = "view_dto" =>
        /\ status = "start" => out = <<>>
        /\ status \in {"run", "done"} => Viewing

LEMMA ViewInit == Init => ViewInv
  BY DEF Init, ViewInv

LEMMA ViewOp == "view_row" \notin SchemaOps
  BY DEF SchemaOps

LEMMA ViewPlan ==
    ASSUME call.tool = "view_dto", NEW n, n = Len(call.names)
    PROVE  Plan = [k \in 1 .. n |-> Item("view_row", upper[call.names[k]], <<>>)]
  BY DEF Plan, ForNames, ForEach

LEMMA ViewBegins ==
    ASSUME TypeOK, call.tool = "view_dto", out = <<>>, Begin, status' # "failed"
    PROVE  Viewing'
<1>1. PICK n \in Nat : n = Len(call.names) /\ DOMAIN call.names = 1 .. n
  <2>1. call.names \in Seq(Nat)
    BY CallsAssumption DEF TypeOK
  <2> QED
    BY <2>1
<1>2. PICK names : names = call.names
  OBVIOUS
<1>3. PICK w : w = [k \in 1 .. n |-> Item("view_row", upper[names[k]], <<>>)]
  OBVIOUS
<1>4. /\ work' = w /\ out' = <<>> /\ UNCHANGED <<call, stable, seen>>
  <2>1. work' = Plan /\ out' = <<>> /\ UNCHANGED <<call, stable, seen>>
    BY DEF Begin, Fails, catalogVars
  <2>2. Plan = w
    BY <1>1, <1>2, <1>3, ViewPlan
  <2> QED
    BY <2>1, <2>2
<1>5. /\ DOMAIN w = 1 .. n /\ Len(w) = n
      /\ \A k \in 1 .. n : w[k].op = "view_row" /\ w[k].of = upper[names[k]]
  BY <1>3 DEF Item
<1>6. w = [k \in 1 .. n |-> w[k]]
  BY <1>3
<1>7. PICK A : w \in Seq(A)
  BY <1>6, RowsAreSeq
<1>8. Fresh(w)
  BY <1>5, <1>7, ViewOp, PlainFresh
<1>9. Linked(w) /\ Built(w, part', stable', seen')
  BY <1>8, FreshBuilt
<1>10. ReadingNow'
  BY <1>4, <1>9, NothingTold DEF ReadingNow, Reading3
<1>11. PICK wants : wants = Wants
  OBVIOUS
<1>12. \A x \in wants : \E i \in ToSet(w) : i.of = x
  <2> SUFFICES ASSUME NEW x \in wants
               PROVE  \E i \in ToSet(w) : i.of = x
    OBVIOUS
  <2>1. PICK k \in 1 .. n : x = upper[names[k]]
    BY <1>1, <1>2, <1>11 DEF Wants, ToSet
  <2> QED
    BY <1>5, <2>1 DEF ToSet
<1>13. \A i \in ToSet(w) : i.op = "view_row"
  BY <1>5 DEF ToSet
<1>14. DtosDue(ToSet(w), ToSet(out'), wants, stable')
  BY <1>12, <1>13 DEF DtosDue
<1>15. Wants' = wants
  BY <1>4, <1>11 DEF Wants
<1> QED
  BY <1>4, <1>10, <1>14, <1>15 DEF Viewing

\* The row of one name.
LEMMA ViewReads ==
    ASSUME TypeOK, Slots, Viewing, view_row
    PROVE  Viewing' /\ status' = status
<1>1. ReadingNow /\ DtosDue(ToSet(work), ToSet(out), Wants, stable)
  BY DEF Viewing
<1>17. PICK o1 : o1 = The(Called(Relation, Of))
  OBVIOUS
<1>18. PICK values \in [Guessed(o1) -> DOMAIN infer_type_from_value] :
          Goes(<<>>, <<[told |-> "dto", name |-> Of, fields |->
                         IF World[o1].rows # <<>> THEN ViewFields(o1, values) ELSE <<>>]>>)
  BY <1>17 DEF view_row
<1>2. PICK d : d = [told |-> "dto", name |-> Of, fields |->
                      IF World[o1].rows # <<>> THEN ViewFields(o1, values) ELSE <<>>]
  OBVIOUS
<1>3. Goes(<<>>, <<d>>) /\ work # <<>> /\ Head(work).op = "view_row"
  BY <1>2, <1>18 DEF view_row, At
<1>4. /\ d.told = "dto" /\ d.name = Of
      /\ World[o1].rows # <<>> => d.fields = ViewFields(o1, values)
  BY <1>2
<1>5. PICK a, b : a = <<>> /\ b = <<d>>
  OBVIOUS
<1>6. a \in Seq({}) /\ b \in Seq({d}) /\ ToSet(b) = {d} /\ ToSet(a) = {} /\ DOMAIN a = {}
  BY <1>5 DEF ToSet
<1>7. Goes(a, b)
  BY <1>3, <1>5
<1>8. /\ \A x : x \in ToSet(work) <=> x = Head(work) \/ x \in ToSet(Tail(work))
      /\ \A x : x \in ToSet(work') <=> x \in ToSet(a) \/ x \in ToSet(Tail(work))
      /\ \A x : x \in ToSet(out') <=> x \in ToSet(out) \/ x \in ToSet(b)
      /\ UNCHANGED <<stable, call, status>>
  BY <1>1, <1>3, <1>6, <1>7, GoesSets
<1>9. Fresh(a)
  BY <1>6, PlainFresh
<1>10. \A r \in ToSet(b) : r.told # "schema"
  BY <1>4, <1>6
<1>11. ReadingNow'
  BY <1>1, <1>3, <1>6, <1>7, <1>9, <1>10, ViewOp, PlainGoesOn
<1>12. PICK wants, st : wants = Wants /\ st = stable
  OBVIOUS
<1>13. Wants' = wants /\ stable' = st
  BY <1>8, <1>12 DEF Wants
<1>14. ASSUME NEW o \in Object, Apt(o, st), name(o) \in wants
       PROVE  (\E t \in ToSet(out') : IsDto(t, o)) \/ (\E i \in ToSet(work') : i.of = name(o))
  <2>1. CASE name(o) = Of
    <3>1. The(Called(Relation, name(o))) = o
      BY <1>12, <1>14, AptIs
    <3>2. o1 = o
      BY <1>17, <2>1, <3>1
    <3>3. IsDto(d, o)
      BY <1>4, <2>1, <3>2 DEF IsDto
    <3> QED
      BY <1>6, <1>8, <3>3
  <2>2. CASE name(o) # Of
    <3>1. (\E t \in ToSet(out) : IsDto(t, o)) \/ (\E i \in ToSet(work) : i.of = name(o))
      BY <1>1, <1>12, <1>14 DEF DtosDue
    <3> QED
      BY <1>8, <2>2, <3>1 DEF Of
  <2> QED
    BY <2>1, <2>2
<1>15. \A i \in ToSet(work') : i.op = "view_row"
  BY <1>1, <1>6, <1>8 DEF DtosDue
<1>16. DtosDue(ToSet(work'), ToSet(out'), wants, st)
  BY <1>14, <1>15 DEF DtosDue
<1> QED
  BY <1>8, <1>11, <1>13, <1>16 DEF Viewing

LEMMA ViewStep ==
    ASSUME TypeOK, Slots, ViewInv, call.tool = "view_dto", Step
    PROVE  ViewInv'
<1>0. call' = call
  BY CatalogStays
<1>9. status' # "start"
  BY StepIs DEF GoesOn, Starts, Stops, Fails, Finish
<1>1. CASE Begin
  <2>1. status = "start" /\ out = <<>>
    BY <1>1 DEF Begin, ViewInv
  <2>2. status' # "failed" => Viewing'
    BY <1>1, <2>1, ViewBegins
  <2> QED
    BY <1>9, <2>2 DEF ViewInv
<1>2. CASE ErrorEnds
  <2>1. status' = "failed"
    BY <1>2 DEF ErrorEnds, Fails
  <2> QED
    BY <2>1 DEF ViewInv
<1>3. CASE Finish
  <2>1. UNCHANGED <<stable, seen, call, work, part, out, faulted>> /\ status = "run"
    BY <1>3 DEF Finish, catalogVars
  <2>2. Viewing
    BY <2>1 DEF ViewInv
  <2>3. ReadingNow'
    BY <2>1, <2>2 DEF ReadingNow, Viewing
  <2>4. Wants' = Wants
    BY <2>1 DEF Wants
  <2> QED
    BY <1>9, <2>1, <2>2, <2>3, <2>4 DEF ViewInv, Viewing
<1>4. \A ops : Heads(ops) => Viewing /\ status = "run" /\ "view_row" \in ops
  <2> SUFFICES ASSUME NEW ops, Heads(ops)
               PROVE  Viewing /\ status = "run" /\ "view_row" \in ops
    OBVIOUS
  <2>1. status = "run" /\ work # <<>> /\ Head(work).op \in ops
    BY DEF Heads
  <2>2. Viewing
    BY <2>1 DEF ViewInv
  <2>3. PICK A : work \in Seq(A)
    BY <2>2 DEF Viewing, ReadingNow, Reading3, Linked
  <2>4. Head(work) \in ToSet(work)
    BY <2>1, <2>3, HeadSets
  <2> QED
    BY <2>1, <2>2, <2>4 DEF Viewing, DtosDue
<1>5. CASE view_row
  <2>1. Viewing /\ status = "run"
    BY <1>4, <1>5, ToolHeads
  <2> QED
    BY <1>5, <2>1, ViewReads DEF ViewInv
<1>6. CASE SchemaRead \/ schema_fails
  BY <1>4, <1>6, SchemaHeads DEF SchemaOps
<1>10. CASE Extract \/ Describe
  BY <1>4, <1>10, ExtractHeads, DescribeHeads DEF ExtractOps, DescribeOps
<1>11. CASE \/ handle_list \/ handle_find_column \/ domain_list \/ domain_uses \/ column_types
            \/ health \/ database_tables \/ database_keys \/ count
            \/ generate_keys \/ handle_check_duplicates \/ duplicate_rows
  BY <1>4, <1>11, ToolHeads
<1> QED
  BY <1>1, <1>2, <1>3, <1>5, <1>6, <1>10, <1>11 DEF Step

LEMMA ViewNext ==
    ASSUME TypeOK, Slots, ViewInv, [Next]_vars
    PROVE  ViewInv'
<1>1. CASE Step
  <2>1. CASE call.tool = "view_dto"
    BY <1>1, <2>1, ViewStep
  <2>2. CASE call.tool # "view_dto"
    BY <1>1, <2>2, CatalogStays DEF ViewInv
  <2> QED
    BY <2>1, <2>2
<1>2. CASE \/ Others /\ UNCHANGED handlerVars
           \/ UNCHANGED vars
  <2>1. UNCHANGED <<call, status, work, part, out, faulted>>
    BY <1>2 DEF handlerVars, vars
  <2>2. stable' \subseteq stable /\ seen \subseteq seen'
    BY <1>2, OthersKeep DEF vars, catalogVars
  <2>3. PICK wants : wants = Wants /\ Wants' = wants
    BY <2>1 DEF Wants
  <2>4. \A o \in Object : Apt(o, stable') => Apt(o, stable)
    BY <2>2 DEF Apt
  <2>5. Viewing => Viewing'
    BY <2>1, <2>2, <2>3, <2>4, ReadingStill DEF Viewing, DtosDue
  <2> QED
    BY <2>1, <2>5 DEF ViewInv
<1> QED
  BY <1>1, <1>2 DEF Next, Over

-----------------------------------------------------------------------------
\* The types of columns, which have been declared.
LEMMA DeclaredBase ==
    ASSUME NEW t, IsDeclared(t)
    PROVE  t.base \in WireBase \cup {24, 25} /\ t.base \in Known \cup {10, 13}
<1>1. CASE t.base \in {7, 8, 10, 12, 13, 16, 23, 24, 25, 26, 27, 35, 261} /\ t = PlainType(t.base, 0)
  BY <1>1 DEF WireBase, Known, Scalar, BlobBase
<1>2. CASE t = Raw(261, 1, 0, 0, 0)
  <2>1. t.base = 261
    BY <1>2, RawIs
  <2> QED
    BY <2>1 DEF WireBase, Known, BlobBase
<1>3. CASE t.base \in {14, 37} /\ t.size \in Nat \ {0} /\ t.size % 4 = 0 /\ t = PlainType(t.base, t.size)
  BY <1>3 DEF WireBase, Known, Text
<1>4. CASE /\ t.sub \in {1, 2} /\ t.precision \in 1 .. 38 /\ t.scale \in - t.precision .. 0
           /\ t = Raw(HoldsDigits(t.precision, t.sub), t.sub, 0, t.precision, t.scale)
  <2>1. PICK p, u : p = t.precision /\ u = t.sub
    OBVIOUS
  <2>2. t.base = HoldsDigits(p, u)
    BY <1>4, <2>1, RawIs
  <2>3. t.base \in {7, 8, 16, 26}
    BY <2>2 DEF HoldsDigits
  <2> QED
    BY <2>3 DEF WireBase, Known, Scalar
<1> QED
  BY <1>1, <1>2, <1>3, <1>4 DEF IsDeclared

LEMMA ColumnIs ==
    ASSUME NEW o \in Object, kind(o) \in Relation, NEW cols, cols = World[o].cols
    PROVE  /\ cols \in Seq(ColumnData)
           /\ \A k \in DOMAIN cols : cols[k].type \in RawType /\ IsDeclared(cols[k].type)
<1>1. cols \in Seq(ColumnData)
  BY WorldAssumption DEF Relation
<1>2. \A k \in DOMAIN cols : cols[k] \in ColumnData /\ cols[k] \in ToSet(cols)
  BY <1>1 DEF ToSet
<1>3. \A c \in ToSet(cols) : IsDeclared(c.type)
  BY TypeAssumption
<1> QED
  BY <1>1, <1>2, <1>3 DEF ColumnData

\* An entity's field is of the type that its column's type reads as.
LEMMA EntityReads ==
    ASSUME NEW c, c.type \in RawType, IsDeclared(c.type), c.type.base \notin {10, 13},
           NEW f, f = EntityField(c)
    PROVE  <<f[1], f[2].type>> = <<c.name, Kin(c.type)>>
<1>1. PICK t : t = c.type
  OBVIOUS
<1>2. t \in RawType /\ t.base \in Known
  BY <1>1, DeclaredBase
<1>3. from_column(t).type = Reading(t)
  BY <1>2, SameReading
<1>4. f[1] = c.name /\ f[2] = from_column(t)
  BY <1>1 DEF EntityField
<1> QED
  BY <1>1, <1>3, <1>4 DEF Reading, Kin

LEMMA WireNameless ==
    sql_type_name(WireCode[24]) = "TYPE_n" /\ sql_type_name(WireCode[25]) = "TYPE_n"
<1>1. WireCode[24] = 32760 /\ WireCode[25] = 32762
  BY DEF WireCode
<1> QED
  BY <1>1 DEF sql_type_name

\* A DTO's field, unless it is guessed, is of the type that the driver's name of the column's type reads as.
LEMMA DtoReads ==
    ASSUME NEW c, c.type \in RawType, IsDeclared(c.type), DriverName(c) # "TYPE_n",
           NEW f, f = DtoField(c, DriverName(c))
    PROVE  <<f[1], f[2].type>> = <<c.name, Kin(Bare(c.type))>>
<1>1. PICK t, none : t = c.type /\ none = <<>>
  OBVIOUS
<1>5. DriverName(c) = sql_type_name(WireCode[t.base])
  BY <1>1 DEF DriverName
<1>6. t.base \notin {24, 25}
  BY <1>5, WireNameless
<1>2. t \in RawType /\ t.base \in WireBase
  BY <1>1, <1>6, DeclaredBase
<1>3. from_column(raw(from_type_str(<<sql_type_name(WireCode[t.base]), none>>))).type
         = Reading([t EXCEPT !.sub = 0])
  BY <1>1, <1>2, WireReading
<1>4. f[1] = c.name
      /\ f[2] = from_column(raw(from_type_str(<<sql_type_name(WireCode[t.base]), none>>)))
  BY <1>1, <1>5 DEF DtoField
<1> QED
  BY <1>1, <1>3, <1>4 DEF Reading, Kin, Bare

LEMMA VariantsAre ==
    ASSUME NEW fields, NEW n, n = Len(fields)
    PROVE  Variants(fields) = [k \in 1 .. n |-> <<fields[k][1], fields[k][2].type>>]
  BY DEF Variants, ForEach

\* What generate_dev leaves.
EntityRight(fields, o) ==
    /\ Len(fields) = Len(World[o].cols)
    /\ \A k \in DOMAIN fields :
          World[o].cols[k].type.base \notin {10, 13} =>
              Variants(fields)[k] = <<World[o].cols[k].name, Kin(World[o].cols[k].type)>>
LEMMA EntitiesHold ==
    ASSUME NEW o \in Object, kind(o) \in Relation, NEW T, NEW wants, NEW st, EntitiesRight(T, wants, st),
           Apt(o, st), name(o) \in wants, NEW S, S = {t.fields : t \in {u \in T : u.told = "entity" /\ u.name = name(o)}}
    PROVE  S # {} /\ \A fields \in S : EntityRight(fields, o)
<1>1. S # {}
  <2>1. PICK t \in T : t.name = name(o) /\ t.told = "entity"
    BY DEF EntitiesRight
  <2> QED
    BY <2>1
<1>2. ASSUME NEW fields \in S
      PROVE  EntityRight(fields, o)
  <2>1. PICK cols : cols = World[o].cols
    OBVIOUS
  <2>2. /\ cols \in Seq(ColumnData)
        /\ \A k \in DOMAIN cols : cols[k].type \in RawType /\ IsDeclared(cols[k].type)
    BY <2>1, ColumnIs
  <2>3. PICK n \in Nat : n = Len(cols) /\ DOMAIN cols = 1 .. n
    BY <2>2
  <2>4. PICK t \in T : t.name = name(o) /\ fields = t.fields
    BY <1>2
  <2>5. fields = [k \in 1 .. n |-> EntityField(cols[k])]
    BY <2>1, <2>3, <2>4 DEF EntitiesRight, ForEach
  <2>6. Len(fields) = n /\ DOMAIN fields = 1 .. n /\ \A k \in 1 .. n : fields[k] = EntityField(cols[k])
    BY <2>5
  <2>7. PICK v : v = Variants(fields)
    OBVIOUS
  <2>8. \A k \in 1 .. n : v[k] = <<fields[k][1], fields[k][2].type>>
    BY <2>6, <2>7, VariantsAre
  <2>9. ASSUME NEW k \in DOMAIN fields, cols[k].type.base \notin {10, 13}
        PROVE  v[k] = <<cols[k].name, Kin(cols[k].type)>>
    <3>1. PICK c, f : c = cols[k] /\ f = fields[k]
      OBVIOUS
    <3>2. c.type \in RawType /\ IsDeclared(c.type) /\ c.type.base \notin {10, 13} /\ f = EntityField(c)
      BY <2>2, <2>3, <2>6, <2>9, <3>1
    <3>3. <<f[1], f[2].type>> = <<c.name, Kin(c.type)>>
      BY <3>2, EntityReads
    <3> QED
      BY <2>6, <2>8, <3>1, <3>3
  <2> QED
    BY <2>1, <2>3, <2>6, <2>7, <2>9 DEF EntityRight
<1> QED
  BY <1>1, <1>2

\* What view_dto leaves.
DtoRight(fields, o) ==
    /\ NamesOf(fields) = ForEach(World[o].cols, LAMBDA c : c.name)
    /\ \A k \in DOMAIN fields \ Guessed(o) :
          Variants(fields)[k] = <<World[o].cols[k].name, Kin(Bare(World[o].cols[k].type))>>
LEMMA DtosHold ==
    ASSUME NEW o \in Object, kind(o) \in Relation, NEW values, NEW fields, fields = ViewFields(o, values)
    PROVE  DtoRight(fields, o)
<1>1. PICK cols : cols = World[o].cols
  OBVIOUS
<1>2. /\ cols \in Seq(ColumnData)
      /\ \A k \in DOMAIN cols : cols[k].type \in RawType /\ IsDeclared(cols[k].type)
  BY <1>1, ColumnIs
<1>3. PICK n \in Nat : n = Len(cols) /\ DOMAIN cols = 1 .. n
  BY <1>2
<1>4. PICK G : G = Guessed(o)
  OBVIOUS
<1>5. fields = [k \in 1 .. n |-> DtoField(cols[k], IF k \in G THEN infer_type_from_value[values[k]]
                                                   ELSE DriverName(cols[k]))]
  BY <1>1, <1>3, <1>4 DEF ViewFields
<1>6. \A k \in 1 .. n : k \notin G => DriverName(cols[k]) # "TYPE_n"
  BY <1>1, <1>3, <1>4 DEF Guessed
<1>7. /\ Len(fields) = n /\ DOMAIN fields = 1 .. n
      /\ \A k \in 1 .. n : fields[k][1] = cols[k].name
      /\ \A k \in 1 .. n : k \notin G => fields[k] = DtoField(cols[k], DriverName(cols[k]))
  BY <1>5 DEF DtoField
<1>8. PICK v : v = Variants(fields)
  OBVIOUS
<1>13. v = [k \in 1 .. n |-> <<fields[k][1], fields[k][2].type>>]
  BY <1>7, <1>8, VariantsAre
<1>9. \A k \in 1 .. n : v[k] = <<fields[k][1], fields[k][2].type>>
  BY <1>13
<1>10. NamesOf(fields) = [k \in 1 .. n |-> cols[k].name]
  BY <1>7 DEF NamesOf, ForEach
<1>11. ForEach(cols, LAMBDA c : c.name) = [k \in 1 .. n |-> cols[k].name]
  BY <1>3 DEF ForEach
<1>12. ASSUME NEW k \in DOMAIN fields \ G
       PROVE  v[k] = <<cols[k].name, Kin(Bare(cols[k].type))>>
  <2>1. PICK c, f : c = cols[k] /\ f = fields[k]
    OBVIOUS
  <2>2. /\ c.type \in RawType /\ IsDeclared(c.type) /\ DriverName(c) # "TYPE_n"
        /\ f = DtoField(c, DriverName(c))
    BY <1>2, <1>3, <1>6, <1>7, <2>1
  <2>3. <<f[1], f[2].type>> = <<c.name, Kin(Bare(c.type))>>
    BY <2>2, DtoReads
  <2> QED
    BY <1>7, <1>9, <2>1, <2>3
<1> QED
  BY <1>1, <1>4, <1>8, <1>10, <1>11, <1>12 DEF DtoRight

-----------------------------------------------------------------------------
GeneratedInv == TypeOK /\ Slots /\ GenerateInv /\ ViewInv

LEMMA GeneratedHolds == GeneratedInv => GeneratedRight
<1> SUFFICES ASSUME GeneratedInv
             PROVE  GeneratedRight
  OBVIOUS
<1>1. PICK wants : wants = Wants
  OBVIOUS
<1>2. ASSUME NEW o \in stable, kind(o) \in Relation, ~ World[o].system, name(o) \in wants
      PROVE  /\ o \in Object /\ Apt(o, stable)
  BY <1>2 DEF GeneratedInv, TypeOK, CatalogTypeOK, Apt
<1>3. ASSUME NEW o \in stable, kind(o) \in Relation, ~ World[o].system, name(o) \in wants,
             Done("generate")
      PROVE  Fields("entity", o) # {} /\ \A fields \in Fields("entity", o) : EntityRight(fields, o)
  <2>1. PICK T, st, S : T = ToSet(out) /\ st = stable /\ S = Fields("entity", o)
    OBVIOUS
  <2>2. EntitiesRight(T, wants, st)
    BY <1>1, <1>3, <2>1 DEF Done, GeneratedInv, GenerateInv, Generated
  <2>3. S = {t.fields : t \in {u \in T : u.told = "entity" /\ u.name = name(o)}}
    BY <2>1 DEF Fields
  <2>4. o \in Object /\ Apt(o, st)
    BY <1>2, <1>3, <2>1
  <2> QED
    <3>1. S # {} /\ \A fields \in S : EntityRight(fields, o)
      BY <1>3, <2>2, <2>3, <2>4, EntitiesHold
    <3> QED
      BY <2>1, <3>1
<1>4. ASSUME NEW o \in stable, kind(o) \in Relation, ~ World[o].system, name(o) \in wants,
             Done("view_dto"), World[o].rows # <<>>
      PROVE  \E fields \in Fields("dto", o) : DtoRight(fields, o)
  <2>1. o \in Object /\ Apt(o, stable)
    BY <1>2, <1>4
  <2>2. DtosDue(ToSet(work), ToSet(out), wants, stable)
    BY <1>1, <1>4 DEF Done, GeneratedInv, ViewInv, Viewing
  <2>3. ToSet(work) = {}
    BY <1>4 DEF Done, GeneratedInv, TypeOK, ToSet
  <2>4. PICK t \in ToSet(out) : IsDto(t, o)
    BY <1>4, <2>1, <2>2, <2>3 DEF DtosDue
  <2>5. t.fields \in Fields("dto", o)
    BY <2>4 DEF IsDto, Fields
  <2>6. PICK values : t.fields = ViewFields(o, values)
    BY <1>4, <2>4 DEF IsDto
  <2>7. DtoRight(t.fields, o)
    BY <1>4, <2>1, <2>6, DtosHold
  <2> QED
    BY <2>5, <2>7
<1>5. ASSUME NEW o \in stable, ToGenerate(o)
      PROVE  kind(o) \in Relation /\ ~ World[o].system /\ name(o) \in wants
  BY <1>1, <1>5 DEF ToGenerate, Wants
<1> QED
  BY <1>3, <1>4, <1>5 DEF GeneratedRight, EntityRight, DtoRight

LEMMA GeneratedStays == GeneratedInv /\ [Next]_vars => GeneratedInv'
<1> SUFFICES ASSUME GeneratedInv, [Next]_vars
             PROVE  GeneratedInv'
  OBVIOUS
<1>1. TypeOK /\ Slots /\ GenerateInv /\ ViewInv
  BY DEF GeneratedInv
<1>2. TypeOK' /\ Slots'
  BY <1>1, NextTypeOK, SlotsNext
<1>3. GenerateInv' /\ ViewInv'
  BY <1>1, GenerateNext, ViewNext
<1> QED
  BY <1>2, <1>3 DEF GeneratedInv

\* The fields of an entity, but for FLOAT and TIME, have the types that the types of the
\* columns read as, written out; so have those of the DTO of a view with a row, but for
\* the types that the driver has no name of; and both have a field a column: for every
\* database, every call and any number of changes meanwhile that leave the table alone.
THEOREM GeneratorsAreRight == Spec => []GeneratedRight
<1>1. Init => GeneratedInv
  BY InitTypeOK, SlotsInit, GenerateInit, ViewInit DEF GeneratedInv
<1>2. GeneratedInv /\ [Next]_vars => GeneratedInv'
  BY GeneratedStays
<1>3. GeneratedInv => GeneratedRight
  BY GeneratedHolds
<1> QED
  BY <1>1, <1>2, <1>3, PTL DEF Spec
=============================================================================
