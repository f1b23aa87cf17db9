--------------------------------- MODULE Replay ---------------------------------
(***************************************************************************)
(* External: the engine as it runs an extracted script, statement after    *)
(* statement, in an empty database of the character set UTF8. A catalog is *)
(* here a set of records, one an object with what the statements say of    *)
(* it; Original gives the same record of an object of World.               *)
(***************************************************************************)
EXTENDS SchemaTools

\* The type a written type declares; sizes are kept for characters only.
HoldsDigits(p, sub) ==
    IF p < 5 /\ sub = 1 THEN 7 ELSE IF p < 10 THEN 8 ELSE IF p < 19 THEN 16 ELSE 26
Declared(w) ==
    CASE w[1] = "VARCHAR" /\ w[2] # <<>> -> Raw(37, 0, 4 * w[2][1], 0, 0)
      [] w[1] = "CHAR"     -> Raw(14, 0, 4 * (IF w[2] = <<>> THEN 1 ELSE w[2][1]), 0, 0)
      [] w[1] = "NUMERIC"  -> Raw(HoldsDigits(w[2][1], 1), 1, 0, w[2][1], - Argument(w, 2))
      [] w[1] = "DECIMAL"  -> Raw(HoldsDigits(w[2][1], 2), 2, 0, w[2][1], - Argument(w, 2))
      [] w[1] = "SMALLINT" -> Raw(7, 0, 0, 0, 0)
      [] w[1] = "INTEGER"  -> Raw(8, 0, 0, 0, 0)
      [] w[1] = "BIGINT"   -> Raw(16, 0, 0, 0, 0)
      [] w[1] = "INT128"   -> Raw(26, 0, 0, 0, 0)
      [] w[1] = "DECFLOAT" -> Raw(IF w[2] = <<16>> THEN 24 ELSE 25, 0, 0, 0, 0)
      [] w[1] = "FLOAT"    -> Raw(10, 0, 0, 0, 0)
      [] w[1] = "DOUBLE PRECISION" -> Raw(27, 0, 0, 0, 0)
      [] w[1] = "DATE"     -> Raw(12, 0, 0, 0, 0)
      [] w[1] = "TIME"     -> Raw(13, 0, 0, 0, 0)
      [] w[1] = "TIMESTAMP" -> Raw(35, 0, 0, 0, 0)
      [] w[1] = "BOOLEAN"  -> Raw(23, 0, 0, 0, 0)
      [] w[1] = "BLOB"     -> Raw(261, IF w[2] = <<"TEXT">> THEN 1 ELSE 0, 0, 0, 0)
      [] OTHER             -> Raw(0, 0, 0, 0, 0)

\* The types that a declaration makes, where characters take four bytes.
PlainType(base, size) == Raw(base, 0, size, 0, 0)
IsDeclared(t) ==
    \/ t.base \in {7, 8, 10, 12, 13, 16, 23, 24, 25, 26, 27, 35, 261} /\ t = PlainType(t.base, 0)
    \/ t = Raw(261, 1, 0, 0, 0)
    \/ t.base \in {14, 37} /\ t.size \in Nat \ {0} /\ t.size % 4 = 0 /\ t = PlainType(t.base, t.size)
    \/ /\ t.sub \in {1, 2} /\ t.precision \in 1 .. 38 /\ t.scale \in - t.precision .. 0
       /\ t = Raw(HoldsDigits(t.precision, t.sub), t.sub, 0, t.precision, t.scale)

\* The columns, domains, arguments and results there are have been declared.
ASSUME TypeAssumption ==
    \A o \in Object :
        /\ kind(o) = "domain" => IsDeclared(World[o].type)
        /\ kind(o) \in Relation => \A c \in ToSet(World[o].cols) : IsDeclared(c.type)
        /\ kind(o) = "function" =>
              IsDeclared(World[o].returns) /\ \A a \in ToSet(World[o].args) : IsDeclared(a.type)

Bit(b) == IF b THEN 1 ELSE 0
Typed(p) == <<p.name, Declared(p.type)>>

\* The record a CREATE statement makes; keys and indexes come later.
Made(s) ==
    CASE s.stmt = "domain" ->
            [kind |-> "domain", name |-> upper[s.name], type |-> Declared(s.type),
             null |-> Bit(s.notnull), default |-> s.default]
      [] s.stmt = "table" ->
            [kind |-> "table", name |-> upper[s.name], unsaid |-> {}, keys |-> <<>>, idx |-> <<>>,
             cols |-> ForEach(s.cols, LAMBDA c :
                <<c.name, Declared(c.type), Bit(c.notnull), c.default, 0>>)]
      [] s.stmt = "view" ->
            [kind |-> "view", name |-> upper[s.name], unsaid |-> {}, uses |-> s.uses]
      [] s.stmt = "sequence" -> [kind |-> "sequence", name |-> upper[s.name], unsaid |-> {}]
      [] s.stmt = "trigger" ->
            [kind |-> "trigger", name |-> upper[s.name], unsaid |-> {}, on |-> s.on,
             event |-> s.event, uses |-> s.uses]
      [] s.stmt = "procedure" ->
            [kind |-> "procedure", name |-> upper[s.name], uses |-> s.uses,
             ins |-> ForEach(s.ins, Typed), outs |-> ForEach(s.outs, Typed)]
      [] s.stmt = "function" ->
            [kind |-> "function", name |-> upper[s.name], uses |-> s.uses,
             ins |-> ForEach(s.ins, Typed), returns |-> Declared(s.returns)]

\* The same of an object that exists.
OriginalColumn(c) == <<c.name, c.type, c.null, c.default, c.source>>
OriginalKey(c) == <<c.name, c.type, c.cols, c.ref>>
OriginalParam(p) == <<p.name, p.type>>
Original(o) ==
    LET d == World[o]
    IN CASE kind(o) = "domain" ->
                [kind |-> "domain", name |-> name(o), type |-> d.type, null |-> d.null,
                 default |-> d.default]
         [] kind(o) = "table" ->
                [kind |-> "table", name |-> name(o), unsaid |-> d.unsaid,
                 cols |-> ForEach(d.cols, OriginalColumn),
                 keys |-> ForEach(Where(d.cons, LAMBDA c : c.type # "NOT NULL"), OriginalKey),
                 idx |-> ForEach(d.idx, LAMBDA i : <<i.name, i.cols, i.unique>>)]
         [] kind(o) = "view" ->
                [kind |-> "view", name |-> name(o), unsaid |-> d.unsaid, uses |-> d.uses]
         [] kind(o) = "sequence" -> [kind |-> "sequence", name |-> name(o), unsaid |-> d.unsaid]
         [] kind(o) = "trigger" ->
                [kind |-> "trigger", name |-> name(o), unsaid |-> d.unsaid, on |-> d.on,
                 event |-> d.event, uses |-> d.uses]
         [] kind(o) = "procedure" ->
                [kind |-> "procedure", name |-> name(o), uses |-> d.uses,
                 ins |-> ForEach(Where(d.params, LAMBDA p : ~ p.out), OriginalParam),
                 outs |-> ForEach(Where(d.params, LAMBDA p : p.out), OriginalParam)]
         [] kind(o) = "function" ->
                [kind |-> "function", name |-> name(o), uses |-> d.uses,
                 ins |-> ForEach(d.args, OriginalParam), returns |-> d.returns]

-----------------------------------------------------------------------------
Slot(c, k, n) == {r \in c : r.kind \in Space(k) /\ r.name = n}
There(c, uses) == \A ref \in uses : Slot(c, ref[1], ref[2]) # {}
NotNullIn(t, n) == \E k \in 1 .. Len(t.cols) : t.cols[k][1] = n /\ t.cols[k][3] = 1
PrimaryOf(c, n) ==
    {key \in UNION {ToSet(t.keys) : t \in {r \in Slot(c, "table", n) : r.kind = "table"}} :
        key[2] = "PRIMARY KEY"}

\* What the engine refuses: a name that is taken, a reference to what is not
\* there, a table without columns, a primary key of columns that may be NULL,
\* a foreign key to a table without a primary key of as many columns, a view with
\* a column that has no name; and every procedure and function, for the source the
\* engine keeps of them begins after the AS, and the script puts none before it.
Takes(c, s) ==
    CASE s.stmt = "key" ->
            \E t \in Slot(c, "table", upper[s.on]) :
                /\ s.type = "PRIMARY KEY" => \A k \in 1 .. Len(s.cols) : NotNullIn(t, s.cols[k])
                /\ s.type = "FOREIGN KEY" =>
                       \E p \in PrimaryOf(c, s.ref) : Len(p[3]) = Len(s.cols)
      [] s.stmt = "index" -> Slot(c, "table", upper[s.on]) # {}
      [] OTHER ->
            /\ Slot(c, s.stmt, upper[s.name]) = {}
            /\ s.stmt = "table" => s.cols # <<>>
            /\ s.stmt \in {"view", "trigger"} => There(c, s.uses)
            /\ s.stmt = "view" => s.named
            /\ s.stmt \notin {"procedure", "function"}
            /\ s.stmt = "trigger" => Slot(c, "table", s.on) # {}

Put(c, s) ==
    IF s.stmt \in {"key", "index"}
    THEN {IF r.kind = "table" /\ r.name = upper[s.on]
          THEN IF s.stmt = "key" THEN [r EXCEPT !.keys = Append(@, <<s.name, s.type, s.cols, s.ref>>)]
                                 ELSE [r EXCEPT !.idx = Append(@, <<s.name, s.cols, FALSE>>)]
          ELSE r : r \in c}
    ELSE c \cup {Made(s)}

\* The catalog a script leaves, and whether a statement of it was refused.
Run(b, s) == IF Takes(b.catalog, s) THEN [b EXCEPT !.catalog = Put(@, s)]
                                    ELSE [b EXCEPT !.refused = TRUE]
Replayed ==
    LET after[k \in 0 .. Len(out)] ==
            IF k = 0 THEN [catalog |-> {}, refused |-> FALSE] ELSE Run(after[k - 1], out[k])
    IN after[Len(out)]
=============================================================================
