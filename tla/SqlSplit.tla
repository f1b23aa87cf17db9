------------------------------- MODULE SqlSplit -------------------------------
(***************************************************************************)
(* query/split.rs: the scanner that cuts a script into statements. A       *)
(* script is a sequence of symbols: words, blanks ("NL" ends a line),      *)
(* quotes, comment signs, other characters; "wide" is a character of two   *)
(* bytes, "$" one that goes on with a word and begins none, as digits and  *)
(* "_" do: words and "$" that touch are one longer word. Each action is    *)
(* one turn of the scanner's loop; where the code slices the text inside   *)
(* a character it panics.                                                  *)
(***************************************************************************)
EXTENDS Integers, Sequences, SequencesExt

Word   == {"BEGIN", "CASE", "END", "SET", "TERM", "X"}
Blank  == {" ", "NL"}
WordSign == Word \cup {"$"}
Symbol == Word \cup Blank
              \cup {";", "^", "$", "'", "\"", "--", "/*", "*/", "wide"}

VARIABLES sql,      \* the script
          i,        \* the scanner's place in it
          mode,     \* State: "Normal", a kind of quote or of comment
          start,    \* where the statement begins
          content,  \* has_content
          term,     \* the terminator
          depth,    \* blocks open
          stmts     \* the statements found

scanner == <<i, mode, start, content, term, depth, stmts>>
splitVars == <<sql, scanner>>

ModeSpace == {"Normal", "SingleQuote", "DoubleQuote", "LineComment", "BlockComment"}

SplitTypeOK ==
    /\ sql \in Seq(Symbol)
    /\ i \in 1 .. Len(sql) + 1
    /\ mode \in ModeSpace
    /\ start \in 1 .. i
    /\ content \in BOOLEAN
    /\ term \in Seq(Symbol) \ {<<>>}
    /\ depth \in Nat
    /\ stmts \in Seq(Seq(Symbol))

ScanFrom(text) ==
    /\ sql = text
    /\ i = 1
    /\ mode = "Normal"
    /\ start = 1
    /\ content = FALSE
    /\ term = <<";">>
    /\ depth = 0
    /\ stmts = <<>>

\* The same for a text that comes with a step.
ScanNext(text) ==
    /\ sql' = text
    /\ i' = 1
    /\ mode' = "Normal"
    /\ start' = 1
    /\ content' = FALSE
    /\ term' = <<";">>
    /\ depth' = 0
    /\ stmts' = <<>>

-----------------------------------------------------------------------------
Scanning == i <= Len(sql)
Here == sql[i]

\* What s begins with at place j, and where s goes on after blanks (or other
\* symbols of a set).
LookingAt(j, s) == j + Len(s) - 1 <= Len(sql) /\ SubSeq(sql, j, j + Len(s) - 1) = s
After(j, S) == CHOOSE k \in j .. Len(sql) + 1 :
                   /\ k > Len(sql) \/ sql[k] \notin S
                   /\ \A h \in j .. k - 1 : sql[h] \in S

\* str::trim
Trim(s) == LET solid == {k \in 1 .. Len(s) : s[k] \notin Blank}
           IN IF solid = {} THEN <<>>
              ELSE SubSeq(s, CHOOSE k \in solid : \A h \in solid : k <= h,
                             CHOOSE k \in solid : \A h \in solid : k >= h)

Width(s) == CASE s \in {"BEGIN"} -> 5 [] s \in {"CASE", "TERM"} -> 4
              [] s \in {"END", "SET"} -> 3 [] s \in {"--", "/*", "*/", "wide"} -> 2
              [] OTHER -> 1
Bytes(s) == FoldLeft(LAMBDA n, c : n + Width(c), 0, s)

\* The slice of the first n bytes from place j on ends inside a character.
CutsChar(j, n) ==
    \E k \in j .. Len(sql) :
        /\ k < j + n
        /\ sql[k] = "wide"
        /\ Bytes(SubSeq(sql, j, k - 1)) = n - 1

\* expect_word, past blanks: the word, and no word sign after it.
IsWord(j, word) ==
    LET k == After(j, Blank)
    IN k <= Len(sql) /\ sql[k] = word /\ (k < Len(sql) => sql[k + 1] \notin WordSign)

\* parse_set_term: the slice it takes for SET, or for TERM, may panic.
SetTermPanics ==
    \/ CutsChar(After(i, Blank), 3)
    \/ IsWord(i, "SET") /\ CutsChar(After(After(i, Blank) + 1, Blank), 4)

\* Where the new terminator begins, and where its token ends.
TokenStart == After(After(After(i, Blank) + 1, Blank) + 1, Blank)
TokenEnd == After(TokenStart, Symbol \ Blank)
Token == SubSeq(sql, TokenStart, TokenEnd - 1)

AtSetTerm ==
    /\ IsWord(i, "SET")
    /\ IsWord(After(i, Blank) + 1, "TERM")
    /\ TokenStart <= Len(sql)

\* The current terminator ends the directive: glued to the token, or after it.
Glued == IsSuffix(term, Token) /\ Token # term
NewTerm == IF Glued THEN SubSeq(Token, 1, Len(Token) - Len(term)) ELSE Token
DirectiveEnd ==
    IF Glued THEN TokenEnd
    ELSE LET j == After(TokenEnd, Blank)
         IN IF LookingAt(j, term) THEN j + Len(term) ELSE j

-----------------------------------------------------------------------------
\* The loop, on ordinary text. Before a statement has begun a SET TERM is
\* looked for at every place.
AtText == Scanning /\ mode = "Normal"
Directive == ~ content /\ AtSetTerm
AtTerm == depth = 0 /\ LookingAt(i, term)
MutantSlicesInBlocks == AtText /\ \/ ~ content /\ SetTermPanics
                                  \/ Here = "wide" /\ ~ AtTerm
PanicsHere == AtText /\ \/ ~ content /\ SetTermPanics
                        \/ depth = 0 /\ Here = "wide" /\ ~ AtTerm

SetTerm ==
    /\ AtText /\ ~ PanicsHere /\ Directive
    /\ term' = NewTerm
    /\ i' = DirectiveEnd
    /\ start' = DirectiveEnd
    /\ UNCHANGED <<sql, mode, content, depth, stmts>>

Enter(sign, into, solid) ==
    /\ AtText /\ ~ PanicsHere /\ ~ Directive
    /\ Here = sign
    /\ mode' = into
    /\ content' = (content \/ solid)
    /\ i' = i + 1
    /\ UNCHANGED <<sql, start, term, depth, stmts>>

OpenQuote   == Enter("'", "SingleQuote", TRUE) \/ Enter("\"", "DoubleQuote", TRUE)
OpenComment == Enter("--", "LineComment", FALSE) \/ Enter("/*", "BlockComment", FALSE)

AtOther == /\ AtText /\ ~ PanicsHere /\ ~ Directive
           /\ Here \notin {"'", "\"", "--", "/*"}

\* A statement ends; what holds nothing but comments and blanks is dropped.
Terminate ==
    /\ AtOther /\ AtTerm
    /\ stmts' = IF content THEN Append(stmts, Trim(SubSeq(sql, start, i - 1)))
                           ELSE stmts
    /\ i' = i + Len(term)
    /\ start' = i + Len(term)
    /\ content' = FALSE
    /\ UNCHANGED <<sql, mode, term, depth>>

\* keyword_at: a word begins here, and reaches over all word signs that follow.
keyword_at == Here \in Word /\ (i = 1 \/ sql[i - 1] \notin WordSign)
WordEnd == IF keyword_at THEN After(i, WordSign) ELSE i + 1

\* What a word does to the nesting.
MutantNoCase(word) == IF word = "BEGIN" THEN depth + 1
                      ELSE IF word = "END" /\ depth > 0 THEN depth - 1 ELSE depth
MutantNoFloor(word) == IF word \in {"BEGIN", "CASE"} THEN depth + 1
                       ELSE IF word = "END" THEN depth - 1 ELSE depth
Nest(word) == IF word \in {"BEGIN", "CASE"} THEN depth + 1
              ELSE IF word = "END" /\ depth > 0 THEN depth - 1 ELSE depth

Other ==
    /\ AtOther /\ ~ AtTerm
    /\ depth' = IF keyword_at /\ WordEnd = i + 1 THEN Nest(Here) ELSE depth
    /\ content' = (content \/ Here \notin Blank)
    /\ i' = WordEnd
    /\ UNCHANGED <<sql, mode, start, term, stmts>>

\* Inside quotes and comments. A doubled quote is a quote.
Doubled(sign) == LookingAt(i, <<sign, sign>>)
Leave(from, sign, twice) ==
    /\ Scanning /\ mode = from
    /\ i' = i + IF twice /\ Doubled(sign) THEN 2 ELSE 1
    /\ mode' = IF Here = sign /\ ~ (twice /\ Doubled(sign)) THEN "Normal" ELSE from
    /\ UNCHANGED <<sql, start, content, term, depth, stmts>>

InQuote   == Leave("SingleQuote", "'", TRUE) \/ Leave("DoubleQuote", "\"", TRUE)
InComment == Leave("LineComment", "NL", FALSE) \/ Leave("BlockComment", "*/", FALSE)

Scan == SetTerm \/ OpenQuote \/ OpenComment \/ Terminate \/ Other \/ InQuote \/ InComment

\* What split_statements returns: the last statement needs no terminator.
Found == stmts \o IF content
                  THEN <<Trim(SubSeq(sql, start, Len(sql)))>> ELSE <<>>
=============================================================================
