---------------------------- MODULE McpServerProofs ----------------------------
(***************************************************************************)
(* Proofs about the splitter and the server, for scripts of any length,    *)
(* every input and configuration: the splitter stays within its script,    *)
(* and one without SET TERM is cut exactly where its reader would cut it;  *)
(* replies come in the order of the messages, one each; a database that    *)
(* there is is never said to be missing; and the server runs what a script *)
(* means.                                                                  *)
(***************************************************************************)
EXTENDS McpServer, Lemmas, SequenceTheorems

-----------------------------------------------------------------------------
\* Operators of the scanner.

LEMMA AfterIs ==
    ASSUME sql \in Seq(Symbol), NEW j \in 1 .. Len(sql) + 1, NEW S
    PROVE  /\ After(j, S) \in j .. Len(sql) + 1
           /\ After(j, S) > Len(sql) \/ sql[After(j, S)] \notin S
           /\ \A h \in j .. After(j, S) - 1 : sql[h] \in S
<1> DEFINE Q == {k \in j .. Len(sql) + 1 : k > Len(sql) \/ sql[k] \notin S}
<1>1. Q \in SUBSET Nat /\ Len(sql) + 1 \in Q
  OBVIOUS
<1>2. PICK m \in Q : \A n \in Q : m <= n
  <2> HIDE DEF Q
  <2> QED
    BY <1>1, LeastNumber
<1>3. \A h \in j .. m - 1 : sql[h] \in S
  BY <1>2
<1>4. \E k \in j .. Len(sql) + 1 : /\ k > Len(sql) \/ sql[k] \notin S
                                   /\ \A h \in j .. k - 1 : sql[h] \in S
  BY <1>2, <1>3
<1> QED
  BY <1>4 DEF After

\* str::trim gives a part of the text.
LEMMA TrimIs ==
    ASSUME NEW s \in Seq(Symbol)
    PROVE  Trim(s) \in Seq(Symbol)
<1> DEFINE solid == {k \in 1 .. Len(s) : s[k] \notin Blank}
<1>1. CASE solid = {}
  BY <1>1 DEF Trim
<1>2. CASE solid # {}
  <2>1. solid \in SUBSET Nat /\ solid \in SUBSET (0 .. Len(s)) /\ Len(s) \in Nat
    OBVIOUS
  <2>2. /\ \E k \in solid : \A h \in solid : k <= h
        /\ \E k \in solid : \A h \in solid : h <= k
    <3> HIDE DEF solid
    <3> QED
      BY <1>2, <2>1, LeastNumber, GreatestNumber
  <2>3. /\ (CHOOSE k \in solid : \A h \in solid : k <= h) \in 1 .. Len(s)
        /\ (CHOOSE k \in solid : \A h \in solid : k >= h) \in 1 .. Len(s)
    BY <2>2
  <2>4. \A a, b \in 1 .. Len(s) : SubSeq(s, a, b) \in Seq(Symbol)
    OBVIOUS
  <2> QED
    BY <1>2, <2>3, <2>4 DEF Trim
<1> QED
  BY <1>1, <1>2

\* A suffix as long as the text is the text.
LEMMA SuffixIs ==
    ASSUME NEW s \in Seq(Symbol), NEW t \in Seq(Symbol), IsSuffix(s, t), s # t
    PROVE  Len(s) < Len(t)
<1>1. /\ Reverse(s) \in Seq(Symbol) /\ Len(Reverse(s)) = Len(s)
      /\ \A k \in 1 .. Len(s) : Reverse(s)[k] = s[Len(s) - k + 1]
  BY DEF Reverse
<1>2. /\ Reverse(t) \in Seq(Symbol) /\ Len(Reverse(t)) = Len(t)
      /\ \A k \in 1 .. Len(t) : Reverse(t)[k] = t[Len(t) - k + 1]
  BY DEF Reverse
<1>3. /\ Len(Reverse(s)) <= Len(Reverse(t))
      /\ SubSeq(Reverse(s), 1, Len(Reverse(s))) = SubSeq(Reverse(t), 1, Len(Reverse(s)))
  BY DEF IsSuffix, IsPrefix
<1> HIDE DEF Reverse
<1>4. CASE Len(s) = Len(t)
  <2>1. \A k \in 1 .. Len(s) : Reverse(s)[k] = Reverse(t)[k]
    <3> DEFINE r == Reverse(s)
               u == Reverse(t)
    <3>1. r \in Seq(Symbol) /\ u \in Seq(Symbol) /\ Len(r) = Len(s) /\ Len(u) = Len(s)
      BY <1>1, <1>2, <1>4
    <3>2. SubSeq(r, 1, Len(r)) = SubSeq(u, 1, Len(r))
      BY <1>3
    <3> HIDE DEF r, u
    <3>3. \A k \in 1 .. Len(s) : SubSeq(r, 1, Len(r))[k] = r[k] /\ SubSeq(u, 1, Len(r))[k] = u[k]
      BY <3>1
    <3> QED
      BY <3>2, <3>3 DEF r, u
  <2>2. ASSUME NEW k \in 1 .. Len(s)
        PROVE  s[k] = t[k]
    <3>1. Len(s) - k + 1 \in 1 .. Len(s) /\ Len(s) - (Len(s) - k + 1) + 1 = k
      OBVIOUS
    <3> QED
      BY <2>1, <3>1, <1>1, <1>2, <1>4
  <2> QED
    BY <2>2, <1>4
<1> QED
  BY <1>1, <1>2, <1>3, <1>4

\* A directive that is read has a token, and gives a terminator that is not empty
\* and a place to go on from.
LEMMA DirectiveIs ==
    ASSUME SplitTypeOK, Scanning, AtSetTerm
    PROVE  /\ NewTerm \in Seq(Symbol) \ {<<>>}
           /\ DirectiveEnd \in i + 1 .. Len(sql) + 1
<1> USE DEF SplitTypeOK
<1>1. i \in 1 .. Len(sql)
  BY DEF Scanning
<1> DEFINE a == After(i, Blank)
           b == After(a + 1, Blank)
<1>2. a \in i .. Len(sql)
  BY <1>1, AfterIs DEF AtSetTerm, IsWord
<1>3. b \in a + 1 .. Len(sql)
  <2>1. a + 1 \in 1 .. Len(sql) + 1
    BY <1>2
  <2>2. b <= Len(sql)
    BY DEF AtSetTerm, IsWord
  <2>3. a + 1 \in Nat /\ Len(sql) \in Nat
    BY <1>2
  <2> HIDE DEF a, b
  <2>4. b \in a + 1 .. Len(sql) + 1
    <3>1. After(a + 1, Blank) \in a + 1 .. Len(sql) + 1
      BY <2>1, AfterIs
    <3> QED
      BY <3>1 DEF b
  <2> QED
    BY <2>2, <2>3, <2>4 DEF b
<1>4. TokenStart \in b + 1 .. Len(sql) /\ sql[TokenStart] \notin Blank
  <2>1. b + 1 \in 1 .. Len(sql) + 1
    BY <1>2, <1>3
  <2>2. TokenStart = After(b + 1, Blank)
    BY DEF TokenStart
  <2> HIDE DEF a, b
  <2> QED
    BY <1>2, <1>3, <2>1, <2>2, AfterIs DEF AtSetTerm
<1>5. TokenStart \in 1 .. Len(sql) /\ TokenStart > i
  <2> HIDE DEF a, b
  <2> QED
    BY <1>1, <1>2, <1>3, <1>4
<1> HIDE DEF a, b
<1>6. TokenEnd \in TokenStart + 1 .. Len(sql) + 1
  <2>1. sql[TokenStart] \in Symbol \ Blank
    BY <1>4, <1>5
  <2>2. /\ TokenEnd \in TokenStart .. Len(sql) + 1
        /\ TokenEnd > Len(sql) \/ sql[TokenEnd] \notin Symbol \ Blank
    BY <1>5, AfterIs DEF TokenEnd
  <2> QED
    BY <1>5, <2>1, <2>2
<1>7. Token \in Seq(Symbol) /\ Len(Token) > 0
  BY <1>5, <1>6 DEF Token
<1>8. Glued => Len(term) < Len(Token)
  BY <1>7, SuffixIs DEF Glued
<1>9. NewTerm \in Seq(Symbol) /\ Len(NewTerm) > 0
  BY <1>7, <1>8 DEF NewTerm
<1>10. DirectiveEnd \in TokenEnd .. Len(sql) + 1
  <2>1. After(TokenEnd, Blank) \in TokenEnd .. Len(sql) + 1
    BY <1>5, <1>6, AfterIs
  <2> QED
    BY <1>5, <1>6, <2>1 DEF DirectiveEnd, LookingAt
<1> QED
  BY <1>5, <1>6, <1>9, <1>10

LEMMA Singleton ==
    ASSUME NEW S, NEW x \in S
    PROVE  <<x>> \in Seq(S) \ {<<>>}
<1>1. <<x>> \in Seq(S) /\ Len(<<x>>) = 1
  OBVIOUS
<1> QED
  BY <1>1

LEMMA SingleLength ==
    ASSUME NEW x
    PROVE  Len(<<x>>) = 1
  OBVIOUS

LEMMA FirstTerm == <<";">> \in Seq(Symbol) \ {<<>>}
<1>1. ";" \in Symbol
  BY Zenon DEF Symbol
<1> QED
  BY <1>1, Singleton, Zenon

\* The state that a scan begins with.
LEMMA FirstState ==
    ASSUME NEW text \in Seq(Symbol)
    PROVE  /\ 1 \in 1 .. Len(text) + 1 /\ 1 \in 1 .. 1 /\ 0 \in Nat
           /\ <<>> \in Seq(Seq(Symbol))
  OBVIOUS

LEMMA ScanFromTypes ==
    ASSUME NEW text \in Seq(Symbol), ScanFrom(text)
    PROVE  SplitTypeOK
BY FirstState, FirstTerm, Zenon DEF ScanFrom, SplitTypeOK, ModeSpace

LEMMA ScanNextTypes ==
    ASSUME NEW text \in Seq(Symbol), ScanNext(text)
    PROVE  SplitTypeOK'
BY FirstState, FirstTerm, Zenon DEF ScanNext, SplitTypeOK, ModeSpace

\* One turn of the loop keeps the place in the script, and the statement that is
\* being read begins at it or before it.
LEMMA ScanTypes ==
    ASSUME SplitTypeOK, Scan
    PROVE  SplitTypeOK'
<1> USE DEF SplitTypeOK
<1>1. Scanning
  BY DEF Scan, SetTerm, OpenQuote, OpenComment, Enter, Terminate, Other, AtOther, AtText,
         InQuote, InComment, Leave
<1>2. i \in 1 .. Len(sql) /\ Here \in Symbol
  BY <1>1 DEF Scanning, Here
<1>3. CASE SetTerm
  <2>1. NewTerm \in Seq(Symbol) \ {<<>>} /\ DirectiveEnd \in i + 1 .. Len(sql) + 1
    BY <1>1, <1>3, DirectiveIs DEF SetTerm, Directive
  <2> QED
    BY <1>3, <2>1 DEF SetTerm
<1>4. ASSUME NEW sign, NEW into \in ModeSpace, NEW solid \in BOOLEAN, Enter(sign, into, solid)
      PROVE  SplitTypeOK'
  BY <1>2, <1>4 DEF Enter
<1>5. CASE OpenQuote \/ OpenComment
  BY <1>4, <1>5 DEF OpenQuote, OpenComment, ModeSpace
<1>6. CASE Terminate
  <2>1. i + Len(term) \in i .. Len(sql) + 1
    <3>1. i + Len(term) - 1 <= Len(sql)
      BY <1>6 DEF Terminate, AtTerm, LookingAt
    <3>2. Len(term) \in Nat
      OBVIOUS
    <3> QED
      BY <1>2, <3>1, <3>2
  <2>2. SubSeq(sql, start, i - 1) \in Seq(Symbol)
    BY <1>2
  <2>3. Trim(SubSeq(sql, start, i - 1)) \in Seq(Symbol)
    BY <2>2, TrimIs
  <2>4. stmts' \in Seq(Seq(Symbol))
    BY <1>6, <2>3 DEF Terminate
  <2>5. i' \in 1 .. Len(sql') + 1 /\ start' \in 1 .. i'
    BY <1>2, <1>6, <2>1 DEF Terminate
  <2> QED
    BY <1>6, <2>4, <2>5 DEF Terminate
<1>7. CASE Other
  <2>1. WordEnd \in i + 1 .. Len(sql) + 1
    <3>1. keyword_at => After(i, WordSign) \in i + 1 .. Len(sql) + 1
      <4>1. /\ After(i, WordSign) \in i .. Len(sql) + 1
            /\ After(i, WordSign) > Len(sql) \/ sql[After(i, WordSign)] \notin WordSign
        BY <1>2, AfterIs
      <4>2. keyword_at => sql[i] \in WordSign
        BY DEF keyword_at, Here, WordSign
      <4> QED
        BY <1>2, <4>1, <4>2
    <3> QED
      BY <1>2, <3>1 DEF WordEnd
  <2> QED
    BY <1>2, <1>7, <2>1 DEF Other, Nest, ModeSpace
<1>8. ASSUME NEW from \in ModeSpace, NEW sign, NEW twice \in BOOLEAN, Leave(from, sign, twice)
      PROVE  SplitTypeOK'
  <2>1. i' \in i .. Len(sql) + 1
    BY <1>2, <1>8 DEF Leave, Doubled, LookingAt
  <2> QED
    BY <1>8, <2>1 DEF Leave, ModeSpace
<1>9. CASE InQuote \/ InComment
  BY <1>8, <1>9 DEF InQuote, InComment, ModeSpace
<1> QED
  BY <1>3, <1>5, <1>6, <1>7, <1>9 DEF Scan

-----------------------------------------------------------------------------
(***************************************************************************)
(* How a script without directives is read: B holds the places where its     *)
(* lexemes begin. A quote or a comment reaches to its end, a word over all *)
(* word signs that follow, everything else is a lexeme of one symbol; a    *)
(* statement ends at a semicolon outside all of these and outside blocks.  *)
(***************************************************************************)
Quote == {"'", "\""}
Remark == {"--", "/*"}
Closer(sign) == CASE sign = "--" -> "NL" [] sign = "/*" -> "*/" [] OTHER -> sign

Begins(text, p) == text[p] \in Word /\ (p = 1 \/ text[p - 1] \notin WordSign)
GoesOn(text, p) == p < Len(text) /\ text[p + 1] \in WordSign

Lexeme(text, a, b) ==
    IF text[a] \notin Quote \cup Remark
    THEN IF Begins(text, a)
         THEN (\A k \in a + 1 .. b : text[k] \in WordSign) /\ ~ GoesOn(text, b)
         ELSE a = b
    ELSE /\ \A k \in a + 1 .. b - 1 : text[k] # Closer(text[a])
         /\ \/ a < b /\ text[b] = Closer(text[a])
            \/ text[a] \in Remark /\ b = Len(text)

\* From one beginning to the next.
Reaches(text, B, a, b) ==
    /\ a \in B /\ b \in a .. Len(text)
    /\ b = Len(text) \/ b + 1 \in B
    /\ \A k \in a + 1 .. b : k \notin B

Lexed(text, B) ==
    /\ B \subseteq 1 .. Len(text)
    /\ text # <<>> => 1 \in B
    /\ \A a, b \in 1 .. Len(text) : Reaches(text, B, a, b) => Lexeme(text, a, b)

\* The word a place holds if it stands alone; a part of a longer word is none of
\* those that open or end a block.
Role(text, p) ==
    IF (p = 1 \/ text[p - 1] \notin WordSign) /\ ~ GoesOn(text, p) THEN text[p] ELSE "X"

\* Blocks that begin and that end before a place; no END without its beginning.
Opened(text, B, p) == Cardinality({q \in B : q < p /\ Role(text, q) \in {"BEGIN", "CASE"}})
Ended(text, B, p) == Cardinality({q \in B : q < p /\ Role(text, q) = "END"})
Balanced(text, B) ==
    \A p \in B : Role(text, p) = "END" => Ended(text, B, p) < Opened(text, B, p)

Cuts(text, B) == {p \in B : text[p] = ";" /\ Opened(text, B, p) = Ended(text, B, p)}
Solid(text, B) == {p \in B : text[p] \notin Blank \cup Remark}

\* What stands from a to b is a statement: it is between two cuts and is not
\* comments and blanks alone.
Statement(text, B, a, b) ==
    /\ a \in 1 .. Len(text) /\ b \in a .. Len(text)
    /\ a = 1 \/ a - 1 \in Cuts(text, B)
    /\ b = Len(text) \/ b + 1 \in Cuts(text, B)
    /\ \A p \in a .. b : p \notin Cuts(text, B)
    /\ \E p \in a .. b : p \in Solid(text, B)

\* The statements in their order, each from from[k] to to[k].
Listing(text, B, meant, from, to) ==
    /\ \A k \in 1 .. Len(meant) : /\ Statement(text, B, from[k], to[k])
                                  /\ meant[k] = Trim(SubSeq(text, from[k], to[k]))
    /\ \A j, k \in 1 .. Len(meant) : j < k => to[j] < from[k]
    /\ \A a, b \in 1 .. Len(text) :
          Statement(text, B, a, b) => \E k \in 1 .. Len(meant) : from[k] = a /\ to[k] = b

\* SET TERM is no directive but at the beginning of a statement.
NoDirective(text, B) ==
    \A p \in B : text[p] = "TERM" =>
        \E q, r \in Solid(text, B) : q < r /\ r < p /\ \A k \in q .. p : k \notin Cuts(text, B)

\* A script that reads so, and as its writer means it.
Parsed(text, B) == NoDirective(text, B) /\ Lexed(text, B) /\ Balanced(text, B)
Reads(text, B, meant, from, to) == Parsed(text, B) /\ Listing(text, B, meant, from, to)

\* A place the scanner slices inside a character: one of two bytes where it looks
\* for the terminator, outside blocks; or one that ends after the three bytes it
\* compares with SET before a statement has begun, or after the four for TERM.
AfterBlanks(text, p, j) ==
    /\ j \in p .. Len(text) + 1
    /\ \A h \in p .. j - 1 : text[h] \in Blank
    /\ j > Len(text) \/ text[j] \notin Blank
Midway(text, j, n) ==
    \E k \in j .. Len(text) :
        k < j + n /\ text[k] = "wide" /\ Bytes(SubSeq(text, j, k - 1)) = n - 1
WordSliced(text, p) ==
    \E j \in p .. Len(text) + 1 :
        /\ AfterBlanks(text, p, j)
        /\ \/ Midway(text, j, 3)
           \/ /\ j <= Len(text) /\ text[j] = "SET" /\ ~ GoesOn(text, j)
              /\ \E k \in j + 1 .. Len(text) + 1 : AfterBlanks(text, j + 1, k) /\ Midway(text, k, 4)
Fresh(text, B, p) ==
    \A q \in Solid(text, B) : q < p => \E c \in q .. p - 1 : c \in Cuts(text, B)
Sliced(text, B, p) ==
    \/ Fresh(text, B, p) /\ WordSliced(text, p)
    \/ Opened(text, B, p) = Ended(text, B, p) /\ text[p] = "wide"

-----------------------------------------------------------------------------
\* The signs, which only Zenon tells apart, and the states they lead to.
Sign == Quote \cup Remark
Inside(sign) == CASE sign = "'" -> "SingleQuote" [] sign = "\"" -> "DoubleQuote"
                  [] sign = "--" -> "LineComment" [] OTHER -> "BlockComment"

LEMMA Quotes ==
    /\ \A c \in Quote : Closer(c) = c /\ c \notin Remark
    /\ \A c \in Sign : c \notin Blank /\ c \notin {"BEGIN", "CASE", "END"} /\ Inside(c) # "Normal"
    /\ \A c \in Sign : c # ";"
  BY Zenon DEF Quote, Remark, Sign, Closer, Blank, Inside

LEMMA Words ==
    /\ \A c \in {"BEGIN", "CASE", "END", "SET", "TERM"} : c \notin Sign \cup Blank
    /\ \A c \in Blank : c # ";" /\ c \notin Sign
    /\ ";" \notin Sign \cup Blank \cup {"BEGIN", "CASE", "END"}
  BY Zenon DEF Quote, Remark, Sign, Blank

LEMMA RoleIs ==
    ASSUME NEW text, NEW p
    PROVE  /\ Role(text, p) \in {"BEGIN", "CASE", "END"} => Role(text, p) = text[p]
           /\ GoesOn(text, p) => Role(text, p) \notin {"BEGIN", "CASE", "END"}
<1>1. "X" \notin {"BEGIN", "CASE", "END"}
  BY Zenon
<1> QED
  BY <1>1 DEF Role

LEMMA WordSigns ==
    /\ \A c \in WordSign : c \notin Sign \cup Blank \cup Remark
    /\ \A c \in WordSign : c # ";" /\ c # "wide"
    /\ \A c \in Word : c \in WordSign
  BY Zenon DEF WordSign, Word, Quote, Remark, Sign, Blank

LEMMA OneOf ==
    ASSUME NEW s \in Seq(Symbol), NEW j \in 1 .. Len(s)
    PROVE  SubSeq(s, j, j) = <<s[j]>>
<1>1. Len(SubSeq(s, j, j)) = 1 /\ SubSeq(s, j, j) \in Seq(Symbol) /\ SubSeq(s, j, j)[1] = s[j]
  OBVIOUS
<1>2. <<s[j]>> \in Seq(Symbol) /\ Len(<<s[j]>>) = 1 /\ <<s[j]>>[1] = s[j]
  OBVIOUS
<1> DEFINE t == SubSeq(s, j, j)
           u == <<s[j]>>
<1>3. /\ t \in Seq(Symbol) /\ u \in Seq(Symbol) /\ Len(t) = 1 /\ Len(u) = 1 /\ t[1] = u[1]
  BY <1>1, <1>2
<1> HIDE DEF t, u
<1>4. t = u
  BY <1>3, SeqEqual
<1> QED
  BY <1>4 DEF t, u

LEMMA TwoOf ==
    ASSUME NEW s \in Seq(Symbol), NEW j \in 1 .. Len(s), j + 1 <= Len(s)
    PROVE  SubSeq(s, j, j + 1) = <<s[j], s[j + 1]>>
<1>1. /\ Len(SubSeq(s, j, j + 1)) = 2 /\ SubSeq(s, j, j + 1) \in Seq(Symbol)
      /\ SubSeq(s, j, j + 1)[1] = s[j] /\ SubSeq(s, j, j + 1)[2] = s[j + 1]
  <2>1. j + 1 \in 1 .. Len(s) /\ Len(s) \in Nat /\ j \in 1 .. j + 2
    OBVIOUS
  <2>2. /\ SubSeq(s, j, j + 1) \in Seq(Symbol)
        /\ Len(SubSeq(s, j, j + 1)) = IF j <= j + 1 THEN (j + 1) - j + 1 ELSE 0
        /\ \A k \in 1 .. (j + 1) - j + 1 : SubSeq(s, j, j + 1)[k] = s[j + k - 1]
    BY <2>1, SubSeqProperties
  <2>3. Len(SubSeq(s, j, j + 1)) = 2
    BY <2>2
  <2>4. 1 \in 1 .. (j + 1) - j + 1 /\ 2 \in 1 .. (j + 1) - j + 1 /\ j + 1 - 1 = j /\ j + 2 - 1 = j + 1
    OBVIOUS
  <2>5. SubSeq(s, j, j + 1)[1] = s[j + 1 - 1] /\ SubSeq(s, j, j + 1)[2] = s[j + 2 - 1]
    BY <2>2, <2>4, Zenon
  <2> QED
    BY <2>2, <2>3, <2>4, <2>5, Zenon
<1> DEFINE t == SubSeq(s, j, j + 1)
           u == <<s[j], s[j + 1]>>
<1>2. u \in Seq(Symbol) /\ Len(u) = 2 /\ u[1] = s[j] /\ u[2] = s[j + 1]
  OBVIOUS
<1>3. t \in Seq(Symbol) /\ Len(t) = 2 /\ t[1] = u[1] /\ t[2] = u[2]
  BY <1>1, <1>2
<1> HIDE DEF t, u
<1>4. t = u
  BY <1>2, <1>3, SeqEqual
<1> QED
  BY <1>4 DEF t, u

LEMMA ScanPlace ==
    ASSUME SplitTypeOK, Scan
    PROVE  Scanning /\ i \in 1 .. Len(sql)
<1>1. Scanning
  BY DEF Scan, SetTerm, OpenQuote, OpenComment, Enter, Terminate, Other, AtOther, AtText,
         InQuote, InComment, Leave
<1> QED
  BY <1>1 DEF Scanning, SplitTypeOK

LEMMA LookOne ==
    ASSUME SplitTypeOK, Scanning, NEW c
    PROVE  LookingAt(i, <<c>>) <=> sql[i] = c
<1>1. i \in 1 .. Len(sql) /\ Len(<<c>>) = 1
  BY DEF SplitTypeOK, Scanning
<1>2. SubSeq(sql, i, i) = <<sql[i]>>
  BY <1>1, OneOf DEF SplitTypeOK
<1>3. SubSeq(sql, i, i + Len(<<c>>) - 1) = <<sql[i]>>
  BY <1>1, <1>2
<1>4. <<sql[i]>> = <<c>> <=> sql[i] = c
  OBVIOUS
<1> QED
  BY <1>1, <1>3, <1>4 DEF LookingAt

LEMMA LookTwo ==
    ASSUME SplitTypeOK, Scanning, NEW c
    PROVE  LookingAt(i, <<c, c>>) <=> i + 1 <= Len(sql) /\ sql[i] = c /\ sql[i + 1] = c
<1>1. i \in 1 .. Len(sql) /\ Len(<<c, c>>) = 2
  BY DEF SplitTypeOK, Scanning
<1>2. CASE i + 1 <= Len(sql)
  <2>1. SubSeq(sql, i, i + 1) = <<sql[i], sql[i + 1]>>
    BY <1>1, <1>2, TwoOf DEF SplitTypeOK
  <2>2. SubSeq(sql, i, i + Len(<<c, c>>) - 1) = <<sql[i], sql[i + 1]>>
    BY <1>1, <2>1
  <2>3. <<sql[i], sql[i + 1]>> = <<c, c>> <=> sql[i] = c /\ sql[i + 1] = c
    OBVIOUS
  <2> QED
    BY <1>1, <1>2, <2>2, <2>3 DEF LookingAt
<1>3. CASE ~ (i + 1 <= Len(sql))
  BY <1>1, <1>3 DEF LookingAt
<1> QED
  BY <1>2, <1>3

\* The turns of the loop in ordinary text that is no directive. (A semicolon is
\* named, for the SMT backend does not take one.)
Semicolon(p) == sql[p] = ";"
Plain == term = <<";">>

SignTurn ==
    /\ sql[i] \in Sign /\ mode' = Inside(sql[i])
    /\ content' = (content \/ sql[i] \in Quote)
    /\ UNCHANGED <<start, depth, stmts>>
CutTurn ==
    /\ Semicolon(i) /\ depth = 0
    /\ stmts' = IF content THEN Append(stmts, Trim(SubSeq(sql, start, i - 1))) ELSE stmts
    /\ start' = i + 1 /\ content' = FALSE
    /\ UNCHANGED <<mode, depth>>
OtherTurn ==
    /\ sql[i] \notin Sign /\ ~ (Semicolon(i) /\ depth = 0)
    /\ ~ (Begins(sql, i) /\ GoesOn(sql, i))
    /\ depth' = Nest(Role(sql, i))
    /\ content' = (content \/ sql[i] \notin Blank)
    /\ UNCHANGED <<mode, start, stmts>>
WordTurn ==
    /\ Begins(sql, i) /\ GoesOn(sql, i)
    /\ i' = After(i, WordSign)
    /\ content' = TRUE
    /\ UNCHANGED <<mode, start, depth, stmts>>
Turn == i' = i + 1 /\ (SignTurn \/ CutTurn \/ OtherTurn)

\* Where a word ends that begins here.
LEMMA WordEndIs ==
    ASSUME SplitTypeOK, Scanning
    PROVE  /\ keyword_at <=> Begins(sql, i)
           /\ Begins(sql, i) /\ GoesOn(sql, i) => WordEnd = After(i, WordSign) /\ WordEnd # i + 1
           /\ ~ (Begins(sql, i) /\ GoesOn(sql, i)) => WordEnd = i + 1
<1>1. i \in 1 .. Len(sql) /\ sql \in Seq(Symbol) /\ Len(sql) \in Nat
  BY DEF SplitTypeOK, Scanning
<1>2. keyword_at <=> Begins(sql, i)
  BY DEF keyword_at, Begins, Here
<1> DEFINE e == After(i, WordSign)
<1>3. /\ e \in i .. Len(sql) + 1
      /\ e > Len(sql) \/ sql[e] \notin WordSign
      /\ \A h \in i .. e - 1 : sql[h] \in WordSign
  BY <1>1, AfterIs
<1>4. WordEnd = IF Begins(sql, i) THEN e ELSE i + 1
  BY <1>2 DEF WordEnd
<1> HIDE DEF e
<1>5. ASSUME Begins(sql, i)
      PROVE  e >= i + 1 /\ (e > i + 1 <=> GoesOn(sql, i))
  <2>1. sql[i] \in WordSign
    BY <1>5, WordSigns DEF Begins
  <2>2. e >= i + 1
    BY <1>1, <1>3, <2>1
  <2>3. e > i + 1 => GoesOn(sql, i)
    <3>1. e > i + 1 => i + 1 \in i .. e - 1 /\ i < Len(sql)
      BY <1>1, <1>3
    <3> QED
      BY <1>3, <3>1 DEF GoesOn
  <2>4. GoesOn(sql, i) => e > i + 1
    BY <1>1, <1>3, <2>2 DEF GoesOn
  <2> QED
    BY <2>2, <2>3, <2>4
<1> QED
  BY <1>1, <1>2, <1>3, <1>4, <1>5 DEF e

\* A turn over one symbol nests as its role says.
LEMMA RoleNests ==
    ASSUME ~ (Begins(sql, i) /\ GoesOn(sql, i))
    PROVE  (IF Begins(sql, i) THEN Nest(sql[i]) ELSE depth) = Nest(Role(sql, i))
<1>1. \A word : word \notin {"BEGIN", "CASE", "END"} => Nest(word) = depth
  BY DEF Nest
<1>2. {"BEGIN", "CASE", "END"} \subseteq Word
  BY Zenon DEF Word
<1>3. CASE Begins(sql, i)
  BY <1>3 DEF Begins, Role
<1>4. CASE ~ Begins(sql, i)
  <2>1. Role(sql, i) \notin {"BEGIN", "CASE", "END"}
    BY <1>2, <1>4, RoleIs DEF Begins, Role
  <2> QED
    BY <1>1, <1>4, <2>1
<1> QED
  BY <1>3, <1>4

LEMMA TextStep ==
    ASSUME SplitTypeOK, Scan, mode = "Normal", ~ Directive, Plain
    PROVE  /\ i \in 1 .. Len(sql)
           /\ UNCHANGED <<sql, term>>
           /\ Turn \/ WordTurn
<1> USE DEF SignTurn, CutTurn, Semicolon, Plain, Here, Turn
<1>1. Scanning
  BY ScanPlace, Zenon
<1>2. i \in 1 .. Len(sql)
  BY ScanPlace, Zenon
<1>3. LookingAt(i, term) <=> Here = ";"
  <2>1. LookingAt(i, <<";">>) <=> sql[i] = ";"
    BY <1>1, LookOne, Zenon
  <2> QED
    BY <2>1, Zenon
<1>4. CASE OpenQuote \/ OpenComment
  <2>1. /\ Inside("'") = "SingleQuote" /\ Inside("\"") = "DoubleQuote"
        /\ Inside("--") = "LineComment" /\ Inside("/*") = "BlockComment"
        /\ \A c \in {"'", "\""} : c \in Quote
        /\ \A c \in {"--", "/*"} : c \in Remark
    BY Zenon DEF Inside, Quote, Remark
  <2>2. \/ \E sign \in Quote : Enter(sign, Inside(sign), TRUE)
        \/ \E sign \in Remark : Enter(sign, Inside(sign), FALSE)
    BY <1>4, <2>1, Zenon DEF OpenQuote, OpenComment
  <2>3. CASE \E sign \in Quote : Enter(sign, Inside(sign), TRUE)
    BY <1>2, <2>3, Zenon DEF Enter, Sign
  <2>4. CASE \E sign \in Remark : Enter(sign, Inside(sign), FALSE)
    <3>1. \A c \in Remark : c \notin Quote
      BY Quotes, Zenon
    <3> QED
      BY <1>2, <2>4, <3>1, Zenon DEF Enter, Sign
  <2> QED
    BY <2>2, <2>3, <2>4
<1>5. CASE Terminate
  <2>1. Len(term) = 1
    <3>1. Len(<<";">>) = 1
      BY SingleLength, Zenon
    <3> QED
      BY <3>1, Zenon
  <2>2. i' = i + 1 /\ start' = i + 1
    BY <1>5, <2>1, Zenon DEF Terminate
  <2> QED
    BY <1>2, <1>3, <1>5, <2>2, Zenon DEF Terminate, AtTerm
<1>6. CASE Other
  <2>1. Here \notin Sign
    BY <1>6, Zenon DEF Other, AtOther, Sign, Quote, Remark
  <2>2. /\ keyword_at <=> Begins(sql, i)
        /\ Begins(sql, i) /\ GoesOn(sql, i) => WordEnd = After(i, WordSign) /\ WordEnd # i + 1
        /\ ~ (Begins(sql, i) /\ GoesOn(sql, i)) => WordEnd = i + 1
    BY <1>1, WordEndIs
  <2>3. CASE Begins(sql, i) /\ GoesOn(sql, i)
    <3>1. sql[i] \notin Blank
      BY <2>3, WordSigns DEF Begins
    <3>2. content' = TRUE
      BY <1>6, <3>1 DEF Other
    <3>3. i' = After(i, WordSign) /\ depth' = depth
      BY <1>6, <2>2, <2>3, Zenon DEF Other
    <3> QED
      BY <1>2, <1>6, <2>3, <3>2, <3>3, Zenon DEF Other, WordTurn
  <2>4. CASE ~ (Begins(sql, i) /\ GoesOn(sql, i))
    <3>1. (IF keyword_at /\ WordEnd = i + 1 THEN Nest(Here) ELSE depth) = Nest(Role(sql, i))
      BY <2>2, <2>4, RoleNests DEF Here
    <3> QED
      BY <1>2, <1>3, <1>6, <2>1, <2>2, <2>4, <3>1, Zenon DEF Other, AtTerm, OtherTurn
  <2> QED
    BY <2>3, <2>4
<1>7. ~ SetTerm /\ ~ InQuote /\ ~ InComment
  BY Zenon DEF SetTerm, InQuote, InComment, Leave
<1> QED
  BY <1>4, <1>5, <1>6, <1>7, Zenon DEF Scan

\* A turn of the loop inside a quote or a comment.
LEMMA InsideStep ==
    ASSUME SplitTypeOK, Scan, NEW sign \in Sign, mode = Inside(sign)
    PROVE  LET twice == sign \in Quote /\ i + 1 <= Len(sql) /\ sql[i] = sign /\ sql[i + 1] = sign
           IN /\ i \in 1 .. Len(sql)
              /\ i' = i + IF twice THEN 2 ELSE 1
              /\ mode' = IF sql[i] = Closer(sign) /\ ~ twice THEN "Normal" ELSE mode
              /\ UNCHANGED <<sql, start, content, term, depth, stmts>>
<1>1. Scanning
  BY ScanPlace, Zenon
<1>2. i \in 1 .. Len(sql)
  BY ScanPlace, Zenon
<1>3. mode # "Normal"
  BY Quotes, Zenon
<1>4. InQuote \/ InComment
  BY <1>3, Zenon DEF Scan, SetTerm, OpenQuote, OpenComment, Enter, Terminate, Other, AtOther,
         AtText
<1>5. Leave(mode, Closer(sign), sign \in Quote)
  BY <1>4, Zenon DEF InQuote, InComment, Leave, Inside, Closer, Sign, Quote, Remark
<1>6. sign \in Quote => Closer(sign) = sign
  BY Quotes, Zenon
<1>7. Doubled(sign) <=> i + 1 <= Len(sql) /\ sql[i] = sign /\ sql[i + 1] = sign
  BY <1>1, LookTwo DEF Doubled
<1>8. (sign \in Quote /\ Doubled(Closer(sign)))
        <=> (sign \in Quote /\ i + 1 <= Len(sql) /\ sql[i] = sign /\ sql[i + 1] = sign)
  BY <1>6, <1>7, Zenon
<1> QED
  BY <1>2, <1>5, <1>8, Zenon DEF Leave, Here

-----------------------------------------------------------------------------
\* Lexemes and counts, of any text and any reading of it.

LEMMA ReachesSome ==
    ASSUME NEW text \in Seq(Symbol), NEW B \in SUBSET (1 .. Len(text)), NEW a \in B
    PROVE  \E b \in 1 .. Len(text) : Reaches(text, B, a, b)
<1> DEFINE Q == {n \in a + 1 .. Len(text) + 1 : n \in B \/ n = Len(text) + 1}
<1>1. Q \in SUBSET Nat /\ Len(text) + 1 \in Q
  OBVIOUS
<1>2. PICK n \in Q : \A m \in Q : n <= m
  <2> HIDE DEF Q
  <2> QED
    BY <1>1, LeastNumber
<1>3. n - 1 \in a .. Len(text) /\ n - 1 \in 1 .. Len(text) /\ (n - 1) + 1 = n
  OBVIOUS
<1>4. \A k \in a + 1 .. n - 1 : k \notin B
  BY <1>2
<1>5. PICK b \in 1 .. Len(text) : b = n - 1
  BY <1>3
<1>6. b = Len(text) \/ b + 1 \in B
  BY <1>3, <1>5
<1>7. Reaches(text, B, a, b)
  BY <1>3, <1>4, <1>5, <1>6 DEF Reaches
<1> QED
  BY <1>7

LEMMA CountsStay ==
    ASSUME NEW text, NEW B \in SUBSET Nat, NEW p \in Nat, NEW r \in Nat, p <= r,
           \A q \in B : p <= q /\ q < r => Role(text, q) \notin {"BEGIN", "CASE", "END"}
    PROVE  Opened(text, B, r) = Opened(text, B, p) /\ Ended(text, B, r) = Ended(text, B, p)
<1>1. \A q \in B : Role(text, q) \in {"BEGIN", "CASE"} => (q < r <=> q < p)
  OBVIOUS
<1>2. \A q \in B : Role(text, q) = "END" => (q < r <=> q < p)
  OBVIOUS
<1>3. {q \in B : q < r /\ Role(text, q) \in {"BEGIN", "CASE"}}
        = {q \in B : q < p /\ Role(text, q) \in {"BEGIN", "CASE"}}
  BY <1>1
<1>4. {q \in B : q < r /\ Role(text, q) = "END"} = {q \in B : q < p /\ Role(text, q) = "END"}
  BY <1>2
<1> QED
  BY <1>3, <1>4 DEF Opened, Ended

LEMMA CountsGrow ==
    ASSUME NEW text \in Seq(Symbol), NEW B \in SUBSET (1 .. Len(text)), NEW p \in B
    PROVE  /\ Opened(text, B, p) \in Nat /\ Ended(text, B, p) \in Nat
           /\ Opened(text, B, p + 1)
                = Opened(text, B, p) + IF Role(text, p) \in {"BEGIN", "CASE"} THEN 1 ELSE 0
           /\ Ended(text, B, p + 1) = Ended(text, B, p) + IF Role(text, p) = "END" THEN 1 ELSE 0
<1> DEFINE O(r) == {q \in B : q < r /\ Role(text, q) \in {"BEGIN", "CASE"}}
           E(r) == {q \in B : q < r /\ Role(text, q) = "END"}
<1>1. IsFiniteSet(B)
  <2>1. IsFiniteSet(1 .. Len(text))
    BY FS_Interval
  <2> QED
    BY <2>1, FS_Subset
<1>2. IsFiniteSet(O(p)) /\ IsFiniteSet(E(p))
  <2>1. O(p) \subseteq B /\ E(p) \subseteq B
    OBVIOUS
  <2> HIDE DEF O, E
  <2> QED
    BY <1>1, <2>1, FS_Subset
<1>3. p \notin O(p) /\ p \notin E(p)
  OBVIOUS
<1>4. /\ Role(text, p) \in {"BEGIN", "CASE"} => O(p + 1) = O(p) \cup {p}
      /\ Role(text, p) \notin {"BEGIN", "CASE"} => O(p + 1) = O(p)
  <2>1. \A q \in B : q < p + 1 <=> q < p \/ q = p
    OBVIOUS
  <2> QED
    BY <2>1
<1>5. /\ Role(text, p) = "END" => E(p + 1) = E(p) \cup {p}
      /\ Role(text, p) # "END" => E(p + 1) = E(p)
  <2>1. \A q \in B : q < p + 1 <=> q < p \/ q = p
    OBVIOUS
  <2> QED
    BY <2>1
<1>6. /\ Opened(text, B, p) = Cardinality(O(p)) /\ Opened(text, B, p + 1) = Cardinality(O(p + 1))
      /\ Ended(text, B, p) = Cardinality(E(p)) /\ Ended(text, B, p + 1) = Cardinality(E(p + 1))
  BY DEF Opened, Ended
<1> HIDE DEF O, E
<1>7. /\ Cardinality(O(p)) \in Nat /\ Cardinality(O(p) \cup {p}) = Cardinality(O(p)) + 1
      /\ Cardinality(E(p)) \in Nat /\ Cardinality(E(p) \cup {p}) = Cardinality(E(p)) + 1
  BY <1>2, <1>3, FS_AddElement, FS_CardinalityType
<1>8. Opened(text, B, p + 1)
        = Opened(text, B, p) + IF Role(text, p) \in {"BEGIN", "CASE"} THEN 1 ELSE 0
  <2>1. CASE Role(text, p) \in {"BEGIN", "CASE"}
    BY <2>1, <1>4, <1>6, <1>7
  <2>2. CASE Role(text, p) \notin {"BEGIN", "CASE"}
    BY <2>2, <1>4, <1>6, <1>7
  <2> QED
    BY <2>1, <2>2
<1>9. Ended(text, B, p + 1) = Ended(text, B, p) + IF Role(text, p) = "END" THEN 1 ELSE 0
  <2>1. CASE Role(text, p) = "END"
    BY <2>1, <1>5, <1>6, <1>7
  <2>2. CASE Role(text, p) # "END"
    BY <2>2, <1>5, <1>6, <1>7
  <2> QED
    BY <2>1, <2>2
<1> QED
  BY <1>6, <1>7, <1>8, <1>9

-----------------------------------------------------------------------------
(***************************************************************************)
(* The scanner follows the reading: it stands between two lexemes, or      *)
(* inside one that is a quote or a comment; it has counted the blocks that *)
(* are open; content says that the statement has begun since the last cut. *)
(***************************************************************************)
Within(B, a, b) ==
    /\ Reaches(sql, B, a, b) /\ sql[a] \in Sign /\ mode = Inside(sql[a])
    /\ a < i
    /\ i <= b \/ (sql[a] \in Remark /\ b = Len(sql) /\ i = Len(sql) + 1)

Among(B) ==
    \/ mode = "Normal" /\ (i \in B \/ i = Len(sql) + 1)
    \/ \E a, b \in 1 .. Len(sql) : Within(B, a, b)

Counting(B) == depth = Opened(sql, B, i) - Ended(sql, B, i)

Collected(B) ==
    /\ content <=> \E p \in Solid(sql, B) : start <= p /\ p < i
    /\ start = 1 \/ start - 1 \in Cuts(sql, B)
    /\ \A p \in start .. i - 1 : p \notin Cuts(sql, B)

\* After a symbol that begins no quote, no comment and no longer word the next
\* lexeme begins; after a longer word the next one.
LEMMA NextLexeme ==
    ASSUME sql \in Seq(Symbol), NEW B, Lexed(sql, B), NEW p \in B, sql[p] \notin Sign,
           ~ (Begins(sql, p) /\ GoesOn(sql, p))
    PROVE  p + 1 \in B \/ p = Len(sql)
<1>1. B \in SUBSET (1 .. Len(sql))
  BY DEF Lexed
<1>2. PICK b \in 1 .. Len(sql) : Reaches(sql, B, p, b)
  BY <1>1, ReachesSome
<1>3. Lexeme(sql, p, b)
  BY <1>1, <1>2 DEF Lexed
<1>4. b = p
  <2>1. CASE Begins(sql, p)
    <3>1. \A k \in p + 1 .. b : sql[k] \in WordSign
      BY <1>3, <2>1 DEF Lexeme, Sign
    <3>2. p < b => p + 1 \in p + 1 .. b /\ p < Len(sql)
      BY <1>1, <1>2 DEF Reaches
    <3> QED
      BY <1>1, <1>2, <2>1, <3>1, <3>2 DEF Reaches, GoesOn
  <2>2. CASE ~ Begins(sql, p)
    BY <1>3, <2>2 DEF Lexeme, Sign
  <2> QED
    BY <2>1, <2>2
<1> QED
  BY <1>2, <1>4 DEF Reaches

LEMMA NextAfterWord ==
    ASSUME sql \in Seq(Symbol), NEW B, Lexed(sql, B), NEW p \in B,
           Begins(sql, p), GoesOn(sql, p)
    PROVE  LET e == After(p, WordSign)
           IN /\ e \in p + 1 .. Len(sql) + 1
              /\ e \in B \/ e = Len(sql) + 1
              /\ \A k \in p + 1 .. e - 1 : k \notin B
<1>1. B \in SUBSET (1 .. Len(sql)) /\ p \in 1 .. Len(sql) /\ sql[p] \in WordSign
  BY WordSigns DEF Lexed, Begins
<1>2. PICK b \in 1 .. Len(sql) : Reaches(sql, B, p, b)
  BY <1>1, ReachesSome
<1>3. /\ b \in p .. Len(sql) /\ (b = Len(sql) \/ b + 1 \in B)
      /\ \A k \in p + 1 .. b : k \notin B
  BY <1>2 DEF Reaches
<1>4. (\A k \in p + 1 .. b : sql[k] \in WordSign) /\ ~ GoesOn(sql, b)
  <2>1. Lexeme(sql, p, b)
    BY <1>1, <1>2 DEF Lexed
  <2>2. sql[p] \notin Quote \cup Remark
    BY <1>1, WordSigns DEF Sign
  <2> QED
    BY <2>1, <2>2 DEF Lexeme
<1> DEFINE e == After(p, WordSign)
<1>5. /\ e \in p .. Len(sql) + 1
      /\ e > Len(sql) \/ sql[e] \notin WordSign
      /\ \A h \in p .. e - 1 : sql[h] \in WordSign
  BY <1>1, AfterIs
<1> HIDE DEF e
<1>6. e > b
  <2>1. e \in p .. b => sql[e] \in WordSign /\ e <= Len(sql)
    BY <1>1, <1>3, <1>4
  <2> QED
    BY <1>3, <1>5, <2>1
<1>7. ~ (e > b + 1)
  <2>1. e > b + 1 => b + 1 \in p .. e - 1 /\ b < Len(sql)
    BY <1>1, <1>3, <1>5
  <2> QED
    BY <1>4, <1>5, <2>1 DEF GoesOn
<1>8. e = b + 1
  BY <1>1, <1>3, <1>5, <1>6, <1>7
<1>9. /\ e \in p + 1 .. Len(sql) + 1
      /\ e \in B \/ e = Len(sql) + 1
      /\ \A k \in p + 1 .. e - 1 : k \notin B
  BY <1>1, <1>3, <1>8
<1> QED
  BY <1>9 DEF e

LEMMA BlankRun ==
    ASSUME sql \in Seq(Symbol), NEW B, Lexed(sql, B), NEW j \in 1 .. Len(sql) + 1,
           j \in B \/ j = Len(sql) + 1
    PROVE  After(j, Blank) \in B \/ After(j, Blank) = Len(sql) + 1
<1> DEFINE e == After(j, Blank)
           Q == {h \in j .. e : h \notin B /\ h <= Len(sql)}
<1>1. e \in j .. Len(sql) + 1 /\ \A h \in j .. e - 1 : sql[h] \in Blank
  BY AfterIs
<1> HIDE DEF e
<1>2. SUFFICES ASSUME Q # {}
               PROVE  FALSE
  <2>1. e \in Q \/ e \in B \/ e > Len(sql)
    BY <1>1
  <2> QED
    BY <1>1, <1>2, <2>1 DEF e
<1>3. Q \in SUBSET Nat
  OBVIOUS
<1>4. PICK m \in Q : \A n \in Q : m <= n
  <2> HIDE DEF Q
  <2> QED
    BY <1>2, <1>3, LeastNumber
<1>5. m - 1 \in j .. e - 1 /\ m - 1 \in B /\ m - 1 < Len(sql)
  BY <1>1, <1>4
<1>6. sql[m - 1] \notin Sign /\ ~ Begins(sql, m - 1)
  BY <1>1, <1>5, Words, WordSigns DEF Begins
<1>7. m \in B
  <2>1. (m - 1) + 1 = m
    BY <1>4
  <2> QED
    BY <1>5, <1>6, <2>1, NextLexeme
<1> QED
  BY <1>4, <1>7

LEMMA NoDirectiveHere ==
    ASSUME SplitTypeOK, NEW B, Lexed(sql, B), NoDirective(sql, B), Collected(B), i \in B
    PROVE  ~ Directive
<1> SUFFICES ASSUME ~ content, AtSetTerm
             PROVE  FALSE
  BY DEF Directive
<1> DEFINE a == After(i, Blank)
           b == After(a + 1, Blank)
<1>1. sql \in Seq(Symbol) /\ i \in 1 .. Len(sql) /\ start \in 1 .. i
  BY DEF SplitTypeOK, Lexed
<1>2. /\ a \in B /\ a \in i .. Len(sql) /\ sql[a] = "SET" /\ ~ GoesOn(sql, a)
      /\ \A h \in i .. a - 1 : sql[h] \in Blank
  BY <1>1, AfterIs, BlankRun DEF AtSetTerm, IsWord, GoesOn
<1>3. /\ b <= Len(sql) /\ sql[b] = "TERM"
  BY DEF AtSetTerm, IsWord
<1> HIDE DEF a
<1>4. a + 1 \in B \/ a + 1 = Len(sql) + 1
  BY <1>1, <1>2, NextLexeme, Words
<1>5. a + 1 \in 1 .. Len(sql) + 1
  BY <1>1, <1>2
<1>6. /\ b \in B \/ b = Len(sql) + 1
      /\ b \in a + 1 .. Len(sql) + 1 /\ \A h \in a + 1 .. b - 1 : sql[h] \in Blank
  BY <1>1, <1>4, <1>5, AfterIs, BlankRun
<1> HIDE DEF b
<1>7. b \in B
  BY <1>3, <1>6
<1>8. PICK q \in Solid(sql, B), r \in Solid(sql, B) :
          q < r /\ r < b /\ \A k \in q .. b : k \notin Cuts(sql, B)
  BY <1>3, <1>7 DEF NoDirective
<1>9. q \in 1 .. Len(sql) /\ r \in 1 .. Len(sql) /\ sql[q] \notin Blank /\ sql[r] \notin Blank
  BY DEF Solid, Lexed
<1>10. q >= i
  <2>1. CASE start = 1
    BY <2>1, <1>1, <1>9 DEF Collected
  <2>2. CASE start # 1 /\ q < start
    <3>1. start - 1 \in Cuts(sql, B) /\ start - 1 \in q .. b
      BY <2>2, <1>1, <1>2, <1>6, <1>9 DEF Collected
    <3> QED
      BY <3>1, <1>8
  <2>3. CASE q >= start
    BY <2>3, <1>1, <1>9 DEF Collected
  <2> QED
    BY <1>1, <1>9, <2>1, <2>2, <2>3
<1>11. q = a /\ r = a
  BY <1>1, <1>2, <1>6, <1>8, <1>9, <1>10
<1> QED
  BY <1>8, <1>9, <1>11

LEMMA CutsAre ==
    ASSUME NEW B, NEW p
    PROVE  p \in Cuts(sql, B) <=> p \in B /\ Semicolon(p) /\ Opened(sql, B, p) = Ended(sql, B, p)
  BY Zenon DEF Cuts, Semicolon

LEMMA Semicolons ==
    ASSUME NEW p, Semicolon(p)
    PROVE  sql[p] \notin Sign \cup Blank \cup Remark \cup {"BEGIN", "CASE", "END"}
  BY Words, Zenon DEF Semicolon, Sign

\* A quote or comment that begins here reaches from here.
LEMMA SignReaches ==
    ASSUME SplitTypeOK, NEW B, Lexed(sql, B), NEW a \in B, sql[a] \in Sign
    PROVE  \E b \in 1 .. Len(sql) :
              /\ Reaches(sql, B, a, b) /\ a <= b
              /\ \A k \in a + 1 .. b - 1 : sql[k] # Closer(sql[a])
              /\ \/ a < b /\ sql[b] = Closer(sql[a])
                 \/ sql[a] \in Remark /\ b = Len(sql)
<1>1. sql \in Seq(Symbol) /\ B \in SUBSET (1 .. Len(sql))
  BY DEF SplitTypeOK, Lexed
<1>2. PICK b \in 1 .. Len(sql) : Reaches(sql, B, a, b)
  BY <1>1, ReachesSome
<1>3. Lexeme(sql, a, b)
  BY <1>1, <1>2 DEF Lexed
<1>4. a <= b
  BY <1>1, <1>2 DEF Reaches
<1> QED
  BY <1>2, <1>3, <1>4 DEF Lexeme, Sign

LEMMA SolidPlaces ==
    ASSUME SplitTypeOK, NEW B, Lexed(sql, B)
    PROVE  Solid(sql, B) \in SUBSET Nat
<1>1. \A p \in 1 .. Len(sql) : p \in Nat
  OBVIOUS
<1> QED
  BY <1>1, Zenon DEF Solid, Lexed

LEMMA OneMore ==
    ASSUME NEW S \in SUBSET Nat, NEW a \in Nat, NEW b \in Nat, a <= b
    PROVE  (\E p \in S : a <= p /\ p < b + 1) <=> (\E p \in S : a <= p /\ p < b) \/ b \in S
<1>1. \A p \in S : p < b + 1 <=> p < b \/ p = b
  OBVIOUS
<1> QED
  BY <1>1

\* What a turn in ordinary text does to the reading.
LEMMA SignTurnReads ==
    ASSUME SplitTypeOK, NEW B, Lexed(sql, B), Counting(B), Collected(B), i \in B,
           i' = i + 1, sql' = sql, SignTurn
    PROVE  Among(B)' /\ Counting(B)' /\ Collected(B)'
<1>1. sql \in Seq(Symbol) /\ B \in SUBSET (1 .. Len(sql)) /\ i \in 1 .. Len(sql) /\ start \in 1 .. i
  BY DEF SplitTypeOK, Lexed
<1>2. sql[i] \in Sign /\ sql[i] \notin {"BEGIN", "CASE", "END"} /\ sql[i] \notin Blank
      /\ ~ Semicolon(i)
  BY Quotes, Semicolons DEF SignTurn
<1>3. Among(B)'
  <2>1. PICK b \in 1 .. Len(sql) :
              /\ Reaches(sql, B, i, b) /\ i <= b
              /\ \/ i < b
                 \/ sql[i] \in Remark /\ b = Len(sql)
    BY <1>2, SignReaches
  <2>2. i' <= b \/ (sql[i] \in Remark /\ b = Len(sql) /\ i' = Len(sql) + 1)
    BY <1>1, <2>1
  <2>3. PICK a \in 1 .. Len(sql) : a = i
    BY <1>1
  <2>4. Within(B, a, b)'
    BY <1>1, <2>1, <2>2, <2>3 DEF Within, SignTurn
  <2> QED
    BY <2>4 DEF Among
<1>4. Counting(B)'
  <2>1. Opened(sql, B, i + 1) = Opened(sql, B, i) /\ Ended(sql, B, i + 1) = Ended(sql, B, i)
    BY <1>1, <1>2, RoleIs, CountsGrow
  <2> QED
    BY <2>1 DEF Counting, SignTurn
<1>5. Collected(B)'
  <2>1. i \in Solid(sql, B) <=> sql[i] \in Quote
    BY <1>2, Quotes DEF Solid, Sign
  <2>2. i \notin Cuts(sql, B)
    BY <1>2, CutsAre
  <2>5. content' <=> \E p \in Solid(sql, B) : start <= p /\ p < i + 1
    <3>1. Solid(sql, B) \in SUBSET Nat
      BY SolidPlaces
    <3>3. (\E p \in Solid(sql, B) : start <= p /\ p < i + 1)
            <=> (\E p \in Solid(sql, B) : start <= p /\ p < i) \/ i \in Solid(sql, B)
      BY <1>1, <3>1, OneMore
    <3>2. content' <=> content \/ sql[i] \in Quote
      BY Zenon DEF SignTurn
    <3> QED
      BY <2>1, <3>2, <3>3 DEF Collected
  <2> QED
    BY <1>1, <2>2, <2>5 DEF Collected, SignTurn
<1> QED
  BY <1>3, <1>4, <1>5

LEMMA CutTurnReads ==
    ASSUME SplitTypeOK, NEW B, Lexed(sql, B), Counting(B), Collected(B), i \in B,
           mode = "Normal", i' = i + 1, sql' = sql, CutTurn
    PROVE  /\ i \in Cuts(sql, B)
           /\ Among(B)' /\ Counting(B)' /\ Collected(B)'
<1>1. sql \in Seq(Symbol) /\ B \in SUBSET (1 .. Len(sql)) /\ i \in 1 .. Len(sql)
  BY DEF SplitTypeOK, Lexed
<1>2. sql[i] \notin Sign /\ sql[i] \notin {"BEGIN", "CASE", "END"} /\ Semicolon(i)
  BY Semicolons, Zenon DEF CutTurn
<1>3. Opened(sql, B, i) \in Nat /\ Ended(sql, B, i) \in Nat
  BY <1>1, CountsGrow
<1>4. i \in Cuts(sql, B)
  <2>1. Opened(sql, B, i) = Ended(sql, B, i)
    BY <1>3 DEF Counting, CutTurn
  <2> QED
    BY <1>2, <2>1, CutsAre
<1>5. Among(B)'
  <2>1. i + 1 \in B \/ i = Len(sql)
    <3>1. ~ Begins(sql, i)
      BY <1>2, WordSigns, Zenon DEF Begins, Semicolon
    <3> QED
      BY <1>1, <1>2, <3>1, NextLexeme
  <2> QED
    BY <1>1, <2>1 DEF Among, CutTurn
<1>6. Counting(B)'
  <2>1. Opened(sql, B, i + 1) = Opened(sql, B, i) /\ Ended(sql, B, i + 1) = Ended(sql, B, i)
    BY <1>1, <1>2, <1>3, RoleIs, CountsGrow
  <2> QED
    BY <2>1 DEF Counting, CutTurn
<1>7. Collected(B)'
  <2>1. start' = i' /\ content' = FALSE /\ start' - 1 = i
    BY <1>1 DEF CutTurn
  <2>2. \A p \in Solid(sql, B) : ~ (start' <= p /\ p < i')
    BY <1>1, <2>1, SolidPlaces
  <2>3. \A p \in start' .. i' - 1 : FALSE
    BY <1>1, <2>1
  <2> QED
    BY <1>4, <2>1, <2>2, <2>3 DEF Collected
<1> QED
  BY <1>4, <1>5, <1>6, <1>7

LEMMA OtherTurnReads ==
    ASSUME SplitTypeOK, NEW B, Lexed(sql, B), Balanced(sql, B), Counting(B), Collected(B),
           i \in B, mode = "Normal", i' = i + 1, sql' = sql, OtherTurn
    PROVE  Among(B)' /\ Counting(B)' /\ Collected(B)'
<1>1. sql \in Seq(Symbol) /\ B \in SUBSET (1 .. Len(sql)) /\ i \in 1 .. Len(sql) /\ start \in 1 .. i
  BY DEF SplitTypeOK, Lexed
<1>2. sql[i] \notin Sign /\ ~ (Begins(sql, i) /\ GoesOn(sql, i))
  BY DEF OtherTurn
<1>3. Opened(sql, B, i) \in Nat /\ Ended(sql, B, i) \in Nat
  BY <1>1, CountsGrow
<1>4. Among(B)'
  <2>1. i + 1 \in B \/ i = Len(sql)
    BY <1>1, <1>2, NextLexeme
  <2> QED
    BY <1>1, <2>1 DEF Among, OtherTurn
<1>5. Counting(B)'
  <2>1. /\ Opened(sql, B, i + 1)
             = Opened(sql, B, i) + IF Role(sql, i) \in {"BEGIN", "CASE"} THEN 1 ELSE 0
        /\ Ended(sql, B, i + 1) = Ended(sql, B, i) + IF Role(sql, i) = "END" THEN 1 ELSE 0
    BY <1>1, CountsGrow
  <2>2. Role(sql, i) = "END" => depth > 0
    BY <1>3 DEF Balanced, Counting
  <2>3. depth' = Nest(Role(sql, i))
    BY DEF OtherTurn
  <2> QED
    BY <1>3, <2>1, <2>2, <2>3 DEF Counting, Nest
<1>6. Collected(B)'
  <2>1. i \in Solid(sql, B) <=> sql[i] \notin Blank
    BY <1>2 DEF Solid, Sign
  <2>2. i \notin Cuts(sql, B)
    BY <1>3, CutsAre DEF OtherTurn, Counting
  <2>3. (\E p \in Solid(sql, B) : start <= p /\ p < i + 1)
            <=> (\E p \in Solid(sql, B) : start <= p /\ p < i) \/ i \in Solid(sql, B)
    BY <1>1, SolidPlaces, OneMore
  <2>4. content' <=> content \/ sql[i] \notin Blank
    BY Zenon DEF OtherTurn
  <2>5. content' <=> \E p \in Solid(sql, B) : start <= p /\ p < i + 1
    BY <2>1, <2>3, <2>4 DEF Collected
  <2> QED
    BY <1>1, <2>2, <2>5 DEF Collected, OtherTurn
<1> QED
  BY <1>4, <1>5, <1>6

LEMMA WordTurnReads ==
    ASSUME SplitTypeOK, NEW B, Lexed(sql, B), Counting(B), Collected(B),
           i \in B, mode = "Normal", sql' = sql, WordTurn
    PROVE  /\ Among(B)' /\ Counting(B)' /\ Collected(B)'
           /\ \A q \in B : q < i' => q <= i
<1>1. sql \in Seq(Symbol) /\ B \in SUBSET (1 .. Len(sql)) /\ i \in 1 .. Len(sql) /\ start \in 1 .. i
  BY DEF SplitTypeOK, Lexed
<1>2. /\ i' \in i + 1 .. Len(sql) + 1
      /\ i' \in B \/ i' = Len(sql) + 1
      /\ \A k \in i + 1 .. i' - 1 : k \notin B
  BY <1>1, NextAfterWord DEF WordTurn
<1>7. PICK e \in i + 1 .. Len(sql) + 1 : e = i'
  BY <1>2
<1>8. /\ \A q \in B : q < e => q <= i
      /\ \A k \in start .. e - 1 : k \in start .. i - 1 \/ k = i \/ k \in i + 1 .. e - 1
  <2>1. \A k \in i + 1 .. e - 1 : k \notin B
    BY <1>2, <1>7
  <2> QED
    BY <1>1, <2>1
<1>3. \A q \in B : q < i' => q <= i
  BY <1>7, <1>8
<1>4. Among(B)'
  BY <1>2 DEF Among, WordTurn
<1>5. Counting(B)'
  <2>1. \A q \in B : i <= q /\ q < i' => q = i
    BY <1>1, <1>3
  <2>2. Role(sql, i) \notin {"BEGIN", "CASE", "END"}
    BY RoleIs DEF WordTurn
  <2>3. B \in SUBSET Nat /\ i \in Nat /\ i' \in Nat /\ i <= i'
    BY <1>1, <1>2
  <2>4. Opened(sql, B, i') = Opened(sql, B, i) /\ Ended(sql, B, i') = Ended(sql, B, i)
    BY <2>1, <2>2, <2>3, CountsStay
  <2> QED
    BY <2>4 DEF Counting, WordTurn
<1>6. Collected(B)'
  <2>1. i \in Solid(sql, B)
    BY WordSigns DEF Solid, WordTurn, Begins
  <2>2. content' /\ \E p \in Solid(sql, B) : start <= p /\ p < i'
    BY <1>1, <1>2, <2>1 DEF WordTurn
  <2>3. i \notin Cuts(sql, B)
    <3>1. ~ Semicolon(i)
      BY WordSigns, Zenon DEF WordTurn, Begins, Semicolon
    <3> QED
      BY <3>1, CutsAre
  <2>4. \A p \in start .. i' - 1 : p \notin Cuts(sql, B)
    <3>1. \A p \in start .. i - 1 : p \notin Cuts(sql, B)
      BY DEF Collected
    <3>2. \A p \in i + 1 .. e - 1 : p \notin Cuts(sql, B)
      BY <1>2, <1>7, CutsAre
    <3>3. \A p \in start .. e - 1 : p \notin Cuts(sql, B)
      BY <1>8, <2>3, <3>1, <3>2
    <3> QED
      BY <1>7, <3>3
  <2> QED
    BY <2>2, <2>4 DEF Collected, WordTurn
<1> QED
  BY <1>3, <1>4, <1>5, <1>6

\* Inside a quote or a comment nothing is counted and nothing begins; from a quote
\* to one that touches it the scanner goes without leaving.
LEMMA InsideReads ==
    ASSUME SplitTypeOK, Scan, NEW B, Lexed(sql, B), Counting(B), Collected(B),
           NEW a \in 1 .. Len(sql), NEW b \in 1 .. Len(sql), Within(B, a, b)
    PROVE  /\ Among(B)' /\ Counting(B)' /\ Collected(B)'
           /\ UNCHANGED <<sql, start, content, term, depth, stmts>>
           /\ \A q \in B : i <= q /\ q < i' => sql[q] \in Quote /\ ~ Fresh(sql, B, q)
<1> DEFINE twice == /\ sql[a] \in Quote /\ i + 1 <= Len(sql)
                    /\ sql[i] = sql[a] /\ sql[i + 1] = sql[a]
<1>1. sql \in Seq(Symbol) /\ B \in SUBSET (1 .. Len(sql)) /\ start \in 1 .. i
  BY DEF SplitTypeOK, Lexed
<1>2. sql[a] \in Sign /\ mode = Inside(sql[a])
  BY DEF Within
<1>3. /\ i \in 1 .. Len(sql)
      /\ i' = i + IF twice THEN 2 ELSE 1
      /\ mode' = IF sql[i] = Closer(sql[a]) /\ ~ twice THEN "Normal" ELSE mode
      /\ UNCHANGED <<sql, start, content, term, depth, stmts>>
  BY <1>2, InsideStep
<1>4. /\ a \in B /\ a < i /\ i <= b /\ a <= b
      /\ b = Len(sql) \/ b + 1 \in B
      /\ \A k \in a + 1 .. b : k \notin B
      /\ \A k \in a + 1 .. b - 1 : sql[k] # Closer(sql[a])
      /\ sql[b] = Closer(sql[a]) \/ (sql[a] \in Remark /\ b = Len(sql))
  <2>1. a \in B /\ a < i /\ i <= b /\ Reaches(sql, B, a, b)
    BY <1>1, <1>3 DEF Within, Reaches
  <2>2. Lexeme(sql, a, b)
    BY <2>1 DEF Lexed
  <2> QED
    BY <1>2, <1>3, <2>1, <2>2 DEF Lexeme, Sign, Reaches
<1>5. sql[a] \in Quote => Closer(sql[a]) = sql[a] /\ sql[a] \notin Remark
  BY Quotes
<1>6. twice => i = b
  BY <1>3, <1>4, <1>5
<1>7. i \notin B
  BY <1>3, <1>4
<1>8. CASE twice
  <2>1. PICK c \in 1 .. Len(sql) : c = b + 1
    BY <1>6, <1>8
  <2>2. c \in B /\ sql[c] = sql[a] /\ i' = c + 1 /\ mode' = mode
    BY <1>3, <1>4, <1>6, <1>8, <2>1
  <2>3. /\ sql[c] \notin {"BEGIN", "CASE", "END"} /\ ~ Semicolon(c) /\ ~ Semicolon(a)
        /\ sql[a] \notin Blank \cup Remark
    BY <1>2, <1>5, <1>8, <2>2, Quotes, Semicolons
  <2>4. PICK d \in 1 .. Len(sql) : /\ Reaches(sql, B, c, d) /\ c < d
    BY <1>2, <1>5, <1>8, <2>2, SignReaches
  <2>5. Among(B)'
    <3>1. Within(B, c, d)'
      BY <1>2, <1>3, <2>1, <2>2, <2>4 DEF Within
    <3> QED
      BY <1>3, <3>1 DEF Among
  <2>6. Counting(B)'
    <3>1. \A q \in B : i <= q /\ q < i' => Role(sql, q) \notin {"BEGIN", "CASE", "END"}
      <4>1. \A q \in B : i <= q /\ q < i' => q = c
        BY <1>1, <1>3, <1>6, <1>7, <1>8, <2>1, <2>2
      <4> QED
        BY <4>1, <2>3, RoleIs
    <3>2. B \in SUBSET Nat /\ i \in Nat /\ i' \in Nat /\ i <= i'
      BY <1>1, <1>3, <2>1, <2>2
    <3>3. /\ Opened(sql, B, i') = Opened(sql, B, i)
          /\ Ended(sql, B, i') = Ended(sql, B, i)
      BY <3>1, <3>2, CountsStay
    <3> QED
      BY <1>3, <3>3 DEF Counting
  <2>7. start <= a
    <3>1. CASE start = 1
      BY <3>1
    <3>2. CASE start # 1
      <4>1. start - 1 \in Cuts(sql, B)
        BY <3>2 DEF Collected
      <4>2. start - 1 \in B /\ start - 1 # a
        BY <4>1, <2>3, CutsAre
      <4> QED
        BY <1>1, <1>3, <1>4, <4>2
    <3> QED
      BY <3>1, <3>2
  <2>8. a \in Solid(sql, B)
    BY <1>4, <2>3 DEF Solid
  <2>9. content /\ \E p \in Solid(sql, B) : start <= p /\ p < i'
    BY <1>3, <1>4, <2>1, <2>2, <2>7, <2>8 DEF Collected
  <2>10. \A p \in start .. i' - 1 : p \notin Cuts(sql, B)
    <3>1. i \notin Cuts(sql, B) /\ c \notin Cuts(sql, B)
      BY <1>7, <2>3, CutsAre
    <3>2. \A p \in start .. i' - 1 : p \in start .. i - 1 \/ p = i \/ p = c
      BY <1>1, <1>3, <1>6, <1>8, <2>1, <2>2
    <3> QED
      BY <3>1, <3>2 DEF Collected
  <2>11. Collected(B)'
    BY <1>3, <2>9, <2>10 DEF Collected
  <2>12. \A q \in B : i <= q /\ q < i' => sql[q] \in Quote /\ ~ Fresh(sql, B, q)
    <3>1. \A q \in B : i <= q /\ q < i' => q = c
      BY <1>1, <1>3, <1>6, <1>7, <1>8, <2>1, <2>2
    <3>2. \A p \in a .. c - 1 : p \notin Cuts(sql, B)
      BY <1>1, <1>3, <2>1, <2>2, <2>7, <2>10
    <3>3. ~ Fresh(sql, B, c)
      BY <1>4, <2>1, <2>8, <3>2 DEF Fresh
    <3> QED
      BY <1>8, <2>2, <3>1, <3>3
  <2> QED
    BY <1>3, <2>5, <2>6, <2>11, <2>12
<1>9. CASE ~ twice
  <2>1. i' = i + 1
    BY <1>3, <1>9
  <2>2. Among(B)'
    <3>1. CASE sql[i] = Closer(sql[a])
      <4>1. i = b /\ mode' = "Normal"
        BY <1>3, <1>4, <1>9, <3>1
      <4> QED
        BY <1>3, <1>4, <2>1, <4>1 DEF Among
    <3>2. CASE sql[i] # Closer(sql[a])
      <4>1. i' <= b \/ (sql[a] \in Remark /\ b = Len(sql) /\ i' = Len(sql) + 1)
        BY <1>3, <1>4, <2>1, <3>2
      <4>2. Within(B, a, b)'
        BY <1>3, <2>1, <3>2, <4>1 DEF Within
      <4> QED
        BY <1>3, <4>2 DEF Among
    <3> QED
      BY <3>1, <3>2
  <2>3. Counting(B)'
    <3>1. B \in SUBSET Nat /\ i \in Nat /\ i + 1 \in Nat /\ i <= i + 1
      BY <1>1, <1>3
    <3>2. \A q \in B : ~ (i <= q /\ q < i + 1)
      BY <1>1, <1>3, <1>7
    <3>3. /\ Opened(sql, B, i + 1) = Opened(sql, B, i)
          /\ Ended(sql, B, i + 1) = Ended(sql, B, i)
      BY <3>1, <3>2, CountsStay
    <3> QED
      BY <1>3, <2>1, <3>3 DEF Counting
  <2>4. Collected(B)'
    <3>1. i \notin Cuts(sql, B) /\ i \notin Solid(sql, B)
      BY <1>7, CutsAre DEF Solid
    <3>2. (\E p \in Solid(sql, B) : start <= p /\ p < i + 1)
            <=> (\E p \in Solid(sql, B) : start <= p /\ p < i) \/ i \in Solid(sql, B)
      BY <1>1, <1>3, SolidPlaces, OneMore
    <3>3. \A p \in start .. i' - 1 : p \in start .. i - 1 \/ p = i
      BY <1>1, <1>3, <2>1
    <3> QED
      BY <1>3, <2>1, <3>1, <3>2, <3>3 DEF Collected
  <2>5. \A q \in B : ~ (i <= q /\ q < i')
    BY <1>1, <1>3, <1>7, <2>1
  <2> QED
    BY <1>3, <2>2, <2>3, <2>4, <2>5
<1> QED
  BY <1>8, <1>9

-----------------------------------------------------------------------------
\* A statement has begun where something solid stands behind the last cut.
LEMMA ContentIs ==
    ASSUME SplitTypeOK, NEW B, Lexed(sql, B), Collected(B)
    PROVE  content <=> ~ Fresh(sql, B, i)
<1>1. start \in 1 .. i /\ Solid(sql, B) \in SUBSET Nat /\ i \in Nat
  BY SolidPlaces DEF SplitTypeOK
<1>2. ASSUME content
      PROVE  ~ Fresh(sql, B, i)
  <2>1. PICK p \in Solid(sql, B) : start <= p /\ p < i
    BY <1>2 DEF Collected
  <2>2. \A c \in p .. i - 1 : c \notin Cuts(sql, B)
    BY <1>1, <2>1 DEF Collected
  <2> QED
    BY <2>1, <2>2 DEF Fresh
<1>3. ASSUME ~ content, NEW q \in Solid(sql, B), q < i
      PROVE  \E c \in q .. i - 1 : c \in Cuts(sql, B)
  <2>1. q < start
    BY <1>1, <1>3 DEF Collected
  <2>2. start # 1
    <3>1. q >= 1
      BY DEF Solid, Lexed
    <3> QED
      BY <1>1, <2>1, <3>1
  <2>3. start - 1 \in Cuts(sql, B) /\ start - 1 \in q .. i - 1
    BY <1>1, <2>1, <2>2 DEF Collected
  <2> QED
    BY <2>3
<1> QED
  BY <1>2, <1>3 DEF Fresh

LEMMA AfterBlanksIs ==
    ASSUME sql \in Seq(Symbol), NEW p \in 1 .. Len(sql) + 1, NEW j \in p .. Len(sql) + 1
    PROVE  AfterBlanks(sql, p, j) <=> j = After(p, Blank)
<1> DEFINE e == After(p, Blank)
<1>1. /\ e \in p .. Len(sql) + 1
      /\ e > Len(sql) \/ sql[e] \notin Blank
      /\ \A h \in p .. e - 1 : sql[h] \in Blank
  BY AfterIs
<1> HIDE DEF e
<1>2. ASSUME AfterBlanks(sql, p, j)
      PROVE  j = e
  <2>1. ~ (e < j)
    BY <1>1, <1>2 DEF AfterBlanks
  <2>2. ~ (j < e)
    BY <1>1, <1>2 DEF AfterBlanks
  <2> QED
    BY <1>1, <2>1, <2>2
<1>3. AfterBlanks(sql, p, e)
  BY <1>1 DEF AfterBlanks
<1> QED
  BY <1>2, <1>3 DEF e

LEMMA WordSlicedIs ==
    ASSUME SplitTypeOK
    PROVE  SetTermPanics <=> WordSliced(sql, i)
<1>1. sql \in Seq(Symbol) /\ i \in 1 .. Len(sql) + 1
  BY DEF SplitTypeOK
<1>2. PICK a : a = After(i, Blank)
  OBVIOUS
<1>3. a \in i .. Len(sql) + 1
  BY <1>1, <1>2, AfterIs
<1>4. \A j, n : Midway(sql, j, n) <=> CutsChar(j, n)
  BY DEF Midway, CutsChar
<1>5. WordSliced(sql, i) <=>
        \/ CutsChar(a, 3)
        \/ /\ a <= Len(sql) /\ sql[a] = "SET" /\ ~ GoesOn(sql, a)
           /\ \E k \in a + 1 .. Len(sql) + 1 : AfterBlanks(sql, a + 1, k) /\ CutsChar(k, 4)
  BY <1>1, <1>2, <1>3, <1>4, AfterBlanksIs DEF WordSliced
<1>6. CASE a <= Len(sql)
  <2>1. PICK b : b = After(a + 1, Blank)
    OBVIOUS
  <2>2. a + 1 \in 1 .. Len(sql) + 1
    BY <1>1, <1>3, <1>6
  <2>3. b \in a + 1 .. Len(sql) + 1
    BY <1>1, <2>1, <2>2, AfterIs
  <2>4. (\E k \in a + 1 .. Len(sql) + 1 : AfterBlanks(sql, a + 1, k) /\ CutsChar(k, 4))
            <=> CutsChar(b, 4)
    BY <1>1, <2>1, <2>2, <2>3, AfterBlanksIs
  <2>5. IsWord(i, "SET") <=> sql[a] = "SET" /\ ~ GoesOn(sql, a)
    BY <1>2, <1>6 DEF IsWord, GoesOn
  <2> QED
    BY <1>2, <1>5, <1>6, <2>1, <2>4, <2>5 DEF SetTermPanics
<1>7. CASE ~ (a <= Len(sql))
  BY <1>2, <1>5, <1>7 DEF SetTermPanics, IsWord
<1> QED
  BY <1>6, <1>7

\* What a scan keeps of a reading: the lexemes behind it were none of those that
\* break it.
Following(B) ==
    /\ Plain /\ Among(B) /\ Counting(B) /\ Collected(B)
    /\ \A p \in B : p < i => ~ Sliced(sql, B, p)

\* In ordinary text the scanner panics where the reading has it sliced.
LEMMA PanicsWhereSliced ==
    ASSUME SplitTypeOK, NEW B, Parsed(sql, B), Following(B), Scanning, mode = "Normal"
    PROVE  i \in B /\ (PanicsHere <=> Sliced(sql, B, i))
<1>1. B \in SUBSET (1 .. Len(sql)) /\ i \in 1 .. Len(sql) /\ Lexed(sql, B)
  BY DEF Parsed, Lexed, SplitTypeOK, Scanning
<1>2. i \in B
  <2>1. \A a, b : ~ Within(B, a, b)
    BY Quotes DEF Within
  <2> QED
    BY <1>1, <2>1 DEF Following, Among
<1>3. content <=> ~ Fresh(sql, B, i)
  BY <1>1, ContentIs DEF Following
<1>4. depth = 0 <=> Opened(sql, B, i) = Ended(sql, B, i)
  <2>1. Opened(sql, B, i) \in Nat /\ Ended(sql, B, i) \in Nat
    BY <1>1, <1>2, CountsGrow DEF SplitTypeOK
  <2> QED
    BY <2>1 DEF Following, Counting
<1>5. PanicsHere <=> (~ content /\ SetTermPanics) \/ (depth = 0 /\ sql[i] = "wide")
  <2>1. LookingAt(i, term) => sql[i] = ";"
    BY LookOne, Zenon DEF Following, Plain
  <2>2. sql[i] = "wide" => ~ AtTerm
    BY <2>1, Zenon DEF AtTerm
  <2> QED
    BY <2>2 DEF PanicsHere, AtText, Here
<1> QED
  BY <1>2, <1>3, <1>4, <1>5, WordSlicedIs DEF Sliced

LEMMA FollowingBegins ==
    ASSUME NEW text \in Seq(Symbol), NEW B, Parsed(text, B), ScanNext(text)
    PROVE  Following(B)'
<1>1. /\ sql' = text /\ i' = 1 /\ mode' = "Normal" /\ start' = 1 /\ content' = FALSE
      /\ depth' = 0 /\ Plain'
  BY Zenon DEF ScanNext, Plain
<1>2. B \in SUBSET (1 .. Len(text)) /\ (text # <<>> => 1 \in B)
  BY DEF Parsed, Lexed
<1>3. Among(B)'
  <2>1. 1 \in B \/ 1 = Len(text) + 1
    BY <1>2
  <2> QED
    BY <1>1, <2>1 DEF Among
<1>4. \A q \in B : ~ (q < 1)
  BY <1>2
<1>5. Counting(B)'
  <2>1. {q \in B : q < 1 /\ Role(text, q) \in {"BEGIN", "CASE"}} = {}
    BY <1>4, Zenon
  <2>2. {q \in B : q < 1 /\ Role(text, q) = "END"} = {}
    BY <1>4, Zenon
  <2>3. Opened(text, B, 1) = 0 /\ Ended(text, B, 1) = 0
    BY <2>1, <2>2, FS_EmptySet DEF Opened, Ended
  <2> QED
    BY <1>1, <2>3 DEF Counting
<1>6. Collected(B)'
  <2>1. \A p \in Solid(text, B) : ~ (1 <= p /\ p < 1)
    BY <1>2 DEF Solid
  <2> QED
    BY <1>1, <2>1 DEF Collected
<1> QED
  BY <1>1, <1>3, <1>4, <1>5, <1>6 DEF Following

\* A turn of the loop under a reading.
Inner == UNCHANGED <<start, stmts>>
LEMMA FollowingStays ==
    ASSUME SplitTypeOK, NEW B, Parsed(sql, B), Following(B), Scan
    PROVE  /\ Following(B)' /\ sql' = sql
           /\ \/ Inner
              \/ i' = i + 1 /\ (SignTurn \/ OtherTurn \/ (CutTurn /\ i \in Cuts(sql, B)))
<1>1. Lexed(sql, B) /\ Balanced(sql, B) /\ NoDirective(sql, B)
  BY DEF Parsed
<1>2. Plain /\ Among(B) /\ Counting(B) /\ Collected(B)
  BY DEF Following
<1>3. i \in 1 .. Len(sql) /\ Scanning /\ B \in SUBSET (1 .. Len(sql))
  BY <1>1, ScanPlace DEF Lexed
<1>4. CASE mode = "Normal" /\ i \in B
  <2>1. ~ Directive
    BY <1>1, <1>2, <1>4, NoDirectiveHere
  <2>2. UNCHANGED <<sql, term>> /\ (Turn \/ WordTurn)
    BY <1>2, <1>4, <2>1, TextStep
  <2>3. Plain'
    BY <1>2, <2>2, Zenon DEF Plain
  <2>4. \A p \in B : p < i' => ~ Sliced(sql', B, p)
    <3>1. ~ PanicsHere
      BY <1>4, Quotes DEF Scan, SetTerm, OpenQuote, OpenComment, Enter, Terminate, Other, AtOther,
         InQuote, InComment, Leave
    <3>2. ~ Sliced(sql, B, i)
      BY <1>3, <1>4, <3>1, PanicsWhereSliced
    <3>3. \A p \in B : p < i' => p < i \/ p = i
      <4>1. CASE Turn
        BY <1>3, <4>1 DEF Turn
      <4>2. CASE WordTurn
        <5>1. \A p \in B : p < i' => p <= i
          BY <1>1, <1>2, <1>4, <2>2, <4>2, WordTurnReads
        <5> QED
          BY <1>3, <5>1
      <4> QED
        BY <2>2, <4>1, <4>2
    <3> QED
      BY <2>2, <3>2, <3>3 DEF Following
  <2>5. CASE i' = i + 1 /\ SignTurn
    BY <1>1, <1>2, <1>4, <2>2, <2>3, <2>4, <2>5, SignTurnReads DEF Following
  <2>6. CASE i' = i + 1 /\ CutTurn
    BY <1>1, <1>2, <1>4, <2>2, <2>3, <2>4, <2>6, CutTurnReads DEF Following
  <2>7. CASE i' = i + 1 /\ OtherTurn
    BY <1>1, <1>2, <1>4, <2>2, <2>3, <2>4, <2>7, OtherTurnReads DEF Following
  <2>8. CASE WordTurn
    BY <1>1, <1>2, <1>4, <2>2, <2>3, <2>4, <2>8, WordTurnReads DEF Following, WordTurn, Inner
  <2> QED
    BY <2>2, <2>5, <2>6, <2>7, <2>8 DEF Turn
<1>5. CASE \E a, b \in 1 .. Len(sql) : Within(B, a, b)
  <2>1. /\ Among(B)' /\ Counting(B)' /\ Collected(B)'
        /\ UNCHANGED <<sql, start, content, term, depth, stmts>>
        /\ \A q \in B : i <= q /\ q < i' => sql[q] \in Quote /\ ~ Fresh(sql, B, q)
    BY <1>1, <1>2, <1>5, InsideReads
  <2>2. ASSUME NEW q \in B, q < i'
        PROVE  ~ Sliced(sql, B, q)
    <3>1. CASE q < i
      BY <3>1 DEF Following
    <3>2. CASE i <= q
      <4>1. sql[q] # "wide"
        BY <2>1, <2>2, <3>2, Zenon DEF Quote
      <4> QED
        BY <2>1, <2>2, <3>2, <4>1 DEF Sliced
    <3> QED
      BY <1>3, <3>1, <3>2
  <2>3. Plain'
    BY <1>2, <2>1, Zenon DEF Plain
  <2> QED
    BY <2>1, <2>2, <2>3 DEF Following, Inner
<1> QED
  BY <1>2, <1>3, <1>4, <1>5 DEF Among

\* At the end nothing was sliced.
LEMMA FollowingEnds ==
    ASSUME SplitTypeOK, NEW B, Parsed(sql, B), Following(B), ~ Scanning
    PROVE  \A p \in B : ~ Sliced(sql, B, p)
<1>1. \A p \in B : p < i
  BY DEF SplitTypeOK, Scanning, Parsed, Lexed
<1> QED
  BY <1>1 DEF Following

-----------------------------------------------------------------------------
\* The statements found so far are the first of those meant; the others begin at
\* the place where the scanner looks for the next.
Gathered(meant, from, to) ==
    /\ Len(stmts) \in 0 .. Len(meant)
    /\ \A k \in 1 .. Len(stmts) : stmts[k] = meant[k] /\ to[k] < start
    /\ \A k \in Len(stmts) + 1 .. Len(meant) : from[k] >= start

\* Between the beginning and a cut, or the end of the script, stands the next
\* statement that is meant, or none.
LEMMA NextMeant ==
    ASSUME SplitTypeOK, NEW B, Lexed(sql, B), NEW meant \in Seq(Seq(Symbol)), NEW from, NEW to,
           Listing(sql, B, meant, from, to), Collected(B), Gathered(meant, from, to),
           i \in Cuts(sql, B) \/ i = Len(sql) + 1
    PROVE  LET m == Len(stmts)
           IN /\ content => /\ m + 1 <= Len(meant)
                            /\ from[m + 1] = start /\ to[m + 1] = i - 1
                            /\ \A k \in m + 2 .. Len(meant) : from[k] > i
              /\ ~ content => \A k \in m + 1 .. Len(meant) : from[k] > i
<1> DEFINE m == Len(stmts)
           n == Len(meant)
<1>1. /\ sql \in Seq(Symbol) /\ Len(sql) \in Nat /\ start \in 1 .. i /\ i \in 1 .. Len(sql) + 1
      /\ m \in Nat /\ n \in Nat /\ m <= n
  BY DEF SplitTypeOK, Gathered
<1>2. ASSUME NEW k \in 1 .. n
      PROVE  /\ from[k] \in 1 .. Len(sql) /\ to[k] \in from[k] .. Len(sql)
             /\ from[k] = 1 \/ from[k] - 1 \in Cuts(sql, B)
             /\ \A p \in from[k] .. to[k] : p \notin Cuts(sql, B)
             /\ \E p \in from[k] .. to[k] : p \in Solid(sql, B)
  BY DEF Listing, Statement
<1>3. \A j, k \in 1 .. n : j < k => to[j] < from[k]
  BY DEF Listing
<1>4. /\ \A k \in 1 .. m : to[k] < start
      /\ \A k \in m + 1 .. n : from[k] >= start
  BY DEF Gathered
<1> HIDE DEF m, n
<1>5. ASSUME NEW k \in 1 .. n
      PROVE  from[k] # i
  <2>1. from[k] \in 1 .. Len(sql) /\ from[k] \in from[k] .. to[k]
    BY <1>1, <1>2
  <2>2. from[k] \notin Cuts(sql, B)
    BY <1>2, <2>1
  <2> QED
    BY <1>1, <2>1, <2>2
<1>6. CASE content
  <2>1. PICK p \in Solid(sql, B) : start <= p /\ p < i
    BY <1>6 DEF Collected
  <2>2. p \in Nat
    BY SolidPlaces
  <2>3. /\ start \in 1 .. Len(sql) /\ i - 1 \in start .. Len(sql) /\ i - 1 \in 1 .. Len(sql)
        /\ (i - 1) + 1 = i /\ p \in start .. i - 1
    BY <1>1, <2>1, <2>2
  <2>4. i - 1 = Len(sql) \/ i \in Cuts(sql, B)
    BY <1>1
  <2>5. Statement(sql, B, start, i - 1)
    BY <2>3, <2>4 DEF Statement, Collected
  <2>6. PICK k \in 1 .. n : from[k] = start /\ to[k] = i - 1
    BY <2>3, <2>5 DEF Listing, n
  <2>7. k = m + 1
    <3>1. k > m
      BY <1>1, <1>4, <2>3, <2>6
    <3>2. CASE m + 1 < k
      <4>1. m + 1 \in 1 .. n /\ m + 1 \in m + 1 .. n
        BY <1>1, <3>2
      <4>2. to[m + 1] < start /\ from[m + 1] >= start /\ to[m + 1] \in from[m + 1] .. Len(sql)
            /\ from[m + 1] \in 1 .. Len(sql)
        BY <1>2, <1>3, <1>4, <2>6, <3>2, <4>1
      <4> QED
        BY <1>1, <4>2
    <3> QED
      BY <1>1, <3>1, <3>2
  <2>8. ASSUME NEW l \in m + 2 .. n
        PROVE  from[l] > i
    <3>1. l \in 1 .. n /\ m + 1 < l
      BY <1>1
    <3>2. i - 1 < from[l] /\ from[l] \in 1 .. Len(sql) /\ from[l] # i
      BY <1>2, <1>3, <1>5, <2>6, <2>7, <3>1
    <3> QED
      BY <1>1, <3>2
  <2> QED
    BY <1>1, <1>6, <2>6, <2>7, <2>8 DEF m, n
<1>7. CASE ~ content
  <2>1. ASSUME NEW k \in m + 1 .. n, from[k] <= i
        PROVE  FALSE
    <3>1. k \in 1 .. n /\ from[k] >= start /\ from[k] # i
      BY <1>1, <1>4, <1>5
    <3>2. from[k] = start
      <4>1. from[k] \in 1 .. Len(sql) /\ (from[k] = 1 \/ from[k] - 1 \in Cuts(sql, B))
        BY <1>2, <3>1
      <4>2. \A p \in start .. i - 1 : p \notin Cuts(sql, B)
        BY DEF Collected
      <4> QED
        BY <1>1, <2>1, <3>1, <4>1, <4>2
    <3>3. to[k] <= i - 1
      <4>1. i \notin from[k] .. to[k] \/ i = Len(sql) + 1
        BY <1>2, <3>1
      <4> QED
        BY <1>1, <1>2, <2>1, <3>1, <4>1
    <3>4. PICK p \in from[k] .. to[k] : p \in Solid(sql, B)
      BY <1>2, <3>1
    <3>5. start <= p /\ p < i
      BY <1>1, <1>2, <3>1, <3>2, <3>3
    <3> QED
      BY <1>7, <3>4, <3>5 DEF Collected
  <2>2. \A k \in m + 1 .. n : from[k] > i
    <3>1. \A k \in m + 1 .. n : from[k] \in Nat
      BY <1>1, <1>2
    <3> QED
      BY <1>1, <2>1, <3>1
  <2> QED
    BY <1>7, <2>2 DEF m, n
<1> QED
  BY <1>6, <1>7

LEMMA CutGathers ==
    ASSUME SplitTypeOK, NEW B, Lexed(sql, B), NEW meant \in Seq(Seq(Symbol)), NEW from, NEW to,
           Listing(sql, B, meant, from, to), Collected(B), Gathered(meant, from, to),
           i \in Cuts(sql, B), i' = i + 1, sql' = sql, CutTurn
    PROVE  Gathered(meant, from, to)'
<1> DEFINE m == Len(stmts)
           n == Len(meant)
<1>1. /\ stmts \in Seq(Seq(Symbol)) /\ m \in Nat /\ n \in Nat /\ m <= n /\ start \in 1 .. i
      /\ i \in Nat
  BY DEF SplitTypeOK, Gathered
<1>2. /\ content => /\ m + 1 <= n /\ from[m + 1] = start /\ to[m + 1] = i - 1
                    /\ \A k \in m + 2 .. n : from[k] > i
      /\ ~ content => \A k \in m + 1 .. n : from[k] > i
  BY NextMeant
<1>3. \A k \in 1 .. m : stmts[k] = meant[k] /\ to[k] < start
  BY DEF Gathered
<1>4. ASSUME NEW k \in 1 .. n
      PROVE  /\ from[k] \in 1 .. Len(sql) /\ to[k] \in from[k] .. Len(sql)
             /\ meant[k] = Trim(SubSeq(sql, from[k], to[k]))
  BY DEF Listing, Statement
<1>5. start' = i + 1
  BY DEF CutTurn
<1>6. CASE content
  <2> DEFINE s == Trim(SubSeq(sql, start, i - 1))
  <2>1. stmts' = Append(stmts, s)
    BY <1>6 DEF CutTurn
  <2>2. m + 1 \in 1 .. n /\ s = meant[m + 1] /\ s \in Seq(Symbol)
    BY <1>1, <1>2, <1>4, <1>6, ElementOfSeq
  <2> HIDE DEF s
  <2>3. /\ Len(stmts') = m + 1 /\ stmts'[m + 1] = s
        /\ \A k \in 1 .. m : stmts'[k] = stmts[k]
    BY <1>1, <2>1, <2>2
  <2>4. ASSUME NEW k \in 1 .. Len(stmts')
        PROVE  stmts'[k] = meant[k] /\ to[k] < start'
    <3>1. CASE k = m + 1
      BY <1>1, <1>2, <1>5, <1>6, <2>2, <2>3, <3>1
    <3>2. CASE k # m + 1
      <4>1. k \in 1 .. m /\ k \in 1 .. n
        BY <1>1, <2>3, <3>2
      <4>2. stmts'[k] = meant[k] /\ to[k] < start /\ to[k] \in Int
        BY <1>3, <1>4, <2>3, <4>1
      <4> QED
        BY <1>1, <1>5, <4>2
    <3> QED
      BY <3>1, <3>2
  <2>5. ASSUME NEW k \in Len(stmts') + 1 .. n
        PROVE  from[k] >= start'
    <3>1. k \in m + 2 .. n /\ k \in 1 .. n
      BY <1>1, <2>3
    <3>2. from[k] > i /\ from[k] \in Nat
      BY <1>2, <1>4, <1>6, <3>1
    <3> QED
      BY <1>1, <1>5, <3>2
  <2>6. Len(stmts') \in 0 .. n
    BY <1>1, <2>2, <2>3
  <2> QED
    BY <2>4, <2>5, <2>6 DEF Gathered
<1>7. CASE ~ content
  <2>1. stmts' = stmts
    BY <1>7 DEF CutTurn
  <2>2. ASSUME NEW k \in 1 .. m
        PROVE  stmts'[k] = meant[k] /\ to[k] < start'
    <3>1. k \in 1 .. n
      BY <1>1
    <3>2. stmts[k] = meant[k] /\ to[k] < start
      BY <1>3
    <3>3. to[k] \in from[k] .. Len(sql)
      BY <1>4, <3>1
    <3> QED
      BY <1>1, <1>5, <2>1, <3>2, <3>3
  <2>3. ASSUME NEW k \in m + 1 .. n
        PROVE  from[k] >= start'
    <3>1. k \in 1 .. n
      BY <1>1
    <3>2. from[k] > i /\ from[k] \in Nat
      BY <1>2, <1>4, <1>7, <3>1
    <3> QED
      BY <1>1, <1>5, <3>2
  <2> QED
    BY <1>1, <2>1, <2>2, <2>3 DEF Gathered
<1> QED
  BY <1>6, <1>7

\* With the statements that are meant.
Reading(B, meant, from, to) == Following(B) /\ Gathered(meant, from, to)

LEMMA ReadingBegins ==
    ASSUME NEW text \in Seq(Symbol), NEW B, NEW meant \in Seq(Seq(Symbol)), NEW from, NEW to,
           Reads(text, B, meant, from, to), ScanNext(text)
    PROVE  Reading(B, meant, from, to)'
<1>1. Following(B)'
  BY FollowingBegins DEF Reads
<1>2. sql' = text /\ start' = 1 /\ stmts' = <<>>
  BY Zenon DEF ScanNext
<1>3. Gathered(meant, from, to)'
  <2>1. Len(<<>>) = 0 /\ Len(meant) \in Nat
    OBVIOUS
  <2>2. \A k \in 1 .. Len(meant) : from[k] \in 1 .. Len(text)
    BY DEF Reads, Listing, Statement
  <2> QED
    BY <1>2, <2>1, <2>2 DEF Gathered
<1> QED
  BY <1>1, <1>3 DEF Reading

LEMMA ReadingStays ==
    ASSUME SplitTypeOK, NEW B, NEW meant \in Seq(Seq(Symbol)), NEW from, NEW to,
           Reads(sql, B, meant, from, to), Reading(B, meant, from, to), Scan
    PROVE  Reading(B, meant, from, to)' /\ sql' = sql
<1>1. Parsed(sql, B) /\ Lexed(sql, B) /\ Listing(sql, B, meant, from, to)
  BY DEF Reads, Parsed
<1>2. Following(B) /\ Collected(B) /\ Gathered(meant, from, to)
  BY DEF Reading, Following
<1>3. /\ Following(B)' /\ sql' = sql
      /\ \/ Inner
         \/ i' = i + 1 /\ (SignTurn \/ OtherTurn \/ (CutTurn /\ i \in Cuts(sql, B)))
  BY <1>1, <1>2, FollowingStays
<1>4. Gathered(meant, from, to)'
  <2>1. CASE Inner \/ SignTurn \/ OtherTurn
    BY <1>2, <2>1 DEF Inner, SignTurn, OtherTurn, Gathered
  <2>2. CASE i' = i + 1 /\ CutTurn /\ i \in Cuts(sql, B)
    BY <1>1, <1>2, <1>3, <2>2, CutGathers
  <2> QED
    BY <1>3, <2>1, <2>2
<1> QED
  BY <1>3, <1>4 DEF Reading

\* At the end of the script the statements found are those meant.
LEMMA ReadingEnds ==
    ASSUME SplitTypeOK, NEW B, NEW meant \in Seq(Seq(Symbol)), NEW from, NEW to,
           Reads(sql, B, meant, from, to), Reading(B, meant, from, to), ~ Scanning
    PROVE  Found = meant
<1> DEFINE m == Len(stmts)
           n == Len(meant)
<1>1. /\ stmts \in Seq(Seq(Symbol)) /\ m \in Nat /\ n \in Nat /\ m <= n
      /\ i = Len(sql) + 1 /\ Len(sql) \in Nat /\ i - 1 = Len(sql)
  <2>1. stmts \in Seq(Seq(Symbol)) /\ sql \in Seq(Symbol) /\ i \in 1 .. Len(sql) + 1
    BY Zenon DEF SplitTypeOK
  <2>2. m \in 0 .. n
    BY Zenon DEF Gathered, Reading
  <2>3. ~ (i <= Len(sql))
    BY Zenon DEF Scanning
  <2> QED
    BY <2>1, <2>2, <2>3
<1>2. /\ content => /\ m + 1 <= n /\ from[m + 1] = start /\ to[m + 1] = i - 1
                    /\ \A k \in m + 2 .. n : from[k] > i
      /\ ~ content => \A k \in m + 1 .. n : from[k] > i
  <2>1. Lexed(sql, B) /\ Listing(sql, B, meant, from, to) /\ Collected(B) /\ Gathered(meant, from, to)
    BY DEF Reads, Parsed, Reading, Following
  <2> QED
    BY <1>1, <2>1, NextMeant
<1>3. \A k \in 1 .. m : stmts[k] = meant[k]
  BY DEF Gathered, Reading
<1>4. ASSUME NEW k \in 1 .. n
      PROVE  /\ from[k] \in 1 .. Len(sql)
             /\ meant[k] = Trim(SubSeq(sql, from[k], to[k]))
  BY DEF Reads, Listing, Statement
<1>5. CASE content
  <2> DEFINE s == Trim(SubSeq(sql, start, Len(sql)))
  <2>1. Found = stmts \o <<s>>
    BY <1>5 DEF Found
  <2>2. n = m + 1
    <3>1. CASE m + 2 <= n
      <4>1. m + 2 \in m + 2 .. n /\ m + 2 \in 1 .. n
        BY <1>1, <3>1
      <4>2. from[m + 2] > i
        BY <1>2, <1>5, <4>1, Zenon
      <4>3. from[m + 2] \in 1 .. Len(sql)
        BY <1>4, <4>1
      <4> QED
        BY <1>1, <4>2, <4>3
    <3> QED
      BY <1>1, <1>2, <1>5, <3>1
  <2>3. m + 1 \in 1 .. n /\ s = meant[m + 1] /\ s \in Seq(Symbol)
    BY <1>1, <1>2, <1>4, <1>5, <2>2, ElementOfSeq
  <2> HIDE DEF s
  <2>4. /\ stmts \o <<s>> \in Seq(Seq(Symbol)) /\ Len(stmts \o <<s>>) = m + 1
        /\ (stmts \o <<s>>)[m + 1] = s
        /\ \A k \in 1 .. m : (stmts \o <<s>>)[k] = stmts[k]
    BY <1>1, <2>3
  <2>5. \A k \in 1 .. m + 1 : (stmts \o <<s>>)[k] = meant[k]
    BY <1>1, <1>3, <2>3, <2>4
  <2> QED
    BY <2>1, <2>2, <2>4, <2>5, SeqEqual
<1>6. CASE ~ content
  <2>1. Found = stmts \o <<>>
    BY <1>6 DEF Found
  <2>2. n = m
    <3>1. CASE m + 1 <= n
      <4>1. m + 1 \in m + 1 .. n /\ m + 1 \in 1 .. n
        BY <1>1, <3>1
      <4> QED
        BY <1>1, <1>2, <1>4, <1>6, <4>1
    <3> QED
      BY <1>1, <3>1
  <2>3. stmts = meant
    BY <1>1, <1>3, <2>2, SeqEqual
  <2> QED
    BY <1>1, <2>1, <2>3
<1> QED
  BY <1>5, <1>6

-----------------------------------------------------------------------------
\* The server.
Busy == {"split", "run", "reply"}
Message == [kind : {"message"}, id : Nat, method : Method, tool : Tool,
            database : Name \cup {None}, script : Script,
            shifts : BOOLEAN, waits : BOOLEAN]

\* While a message is in hand it is the next line; its answer is not written yet.
TInv ==
    /\ lines \in Seq(Line)
    /\ next \in Nat /\ next >= 1
    /\ replies \in Seq(Reply)
    /\ outcome \in Outcome
    /\ pc \in Busy => next <= Len(lines) /\ IsMessage(next)

\* The database a message asks for is none that is configured.
Missing(m) == m.database # None /\ \A d \in Databases : d[1] # m.database[1]

\* A server that reads lines has a configuration that validates.
DInv ==
    /\ pc \notin {"load", "stopped"} => validate
    /\ pc = "reply" /\ outcome = "no_database" => Missing(lines[next])
    /\ DatabaseFound

LEMMA MessageFields ==
    ASSUME TInv, NEW n \in 1 .. Len(lines), IsMessage(n)
    PROVE  lines[n] \in Message
<1>1. lines[n] \in Line
  BY DEF TInv
<1> QED
  BY <1>1 DEF Line, Message, IsMessage

LEMMA InitTInv == Init => TInv
  BY ServerAssumption DEF Init, TInv, Busy, Outcome

\* Steps that leave the lines, the place and the replies alone.
LEMMA StaysInHand ==
    ASSUME TInv, UNCHANGED <<lines, next, replies>>, outcome' \in Outcome,
           pc' \in Busy => pc \in Busy \/ (next <= Len(lines) /\ IsMessage(next))
    PROVE  TInv'
  BY DEF TInv, IsMessage

LEMMA AnswerKeeps ==
    ASSUME TInv, NEW kind \in Outcome, Answer(kind), next <= Len(lines), IsMessage(next)
    PROVE  TInv'
  BY StaysInHand DEF Answer

LEMMA AnswerAtTool ==
    ASSUME TInv, NEW tools, AtTool(tools)
    PROVE  next \in 1 .. Len(lines) /\ IsMessage(next)
  BY DEF AtTool, AtMessage, IsMessage, TInv

LEMMA StepTInv ==
    ASSUME TInv, [Next]_vars
    PROVE  TInv'
<1>1. CASE Load
  BY <1>1, StaysInHand DEF Load, Busy, TInv
<1>2. CASE Skip
  <2>1. pc' = "wait" /\ lines' = lines /\ replies' = replies /\ outcome' = outcome
    BY <1>2 DEF Skip
  <2>2. next' = next + 1
    BY <1>2 DEF Skip, AfterLine
  <2> QED
    BY <2>1, <2>2 DEF TInv, Busy
<1>3. CASE Stop
  BY <1>3, StaysInHand DEF Stop, Busy, TInv
<1>4. CASE Protocol
  BY <1>4, AnswerKeeps DEF Protocol, AtMessage, IsMessage, Outcome
<1>5. CASE Fixed
  BY <1>5, AnswerKeeps, AnswerAtTool DEF Fixed, Outcome
<1>6. CASE Opens
  BY <1>6, AnswerKeeps, AnswerAtTool DEF Opens, Outcome
<1>7. CASE CutPanic
  BY <1>7, StaysInHand DEF CutPanic, Panic, Busy, TInv
<1>19. CASE QueryRefused
  BY <1>19, AnswerKeeps, AnswerAtTool DEF QueryRefused, Outcome
<1>20. CASE QueryPanic
  BY <1>20, StaysInHand DEF QueryPanic, Panic, Busy, TInv
<1>21. CASE QueryBegin
  <2>1. next <= Len(lines) /\ IsMessage(next)
    BY <1>21, AnswerAtTool DEF QueryBegin, AtQuery
  <2> QED
    BY <1>21, <2>1, StaysInHand DEF QueryBegin, TInv
<1>8. CASE ScriptRefused
  BY <1>8, AnswerKeeps, AnswerAtTool DEF ScriptRefused, Outcome
<1>9. CASE ScriptBegin
  <2>1. next <= Len(lines) /\ IsMessage(next)
    BY <1>9, AnswerAtTool DEF ScriptBegin
  <2> QED
    BY <1>9, <2>1, StaysInHand DEF ScriptBegin, TInv
<1>10. CASE Split
  BY <1>10, StaysInHand DEF Split, serverVars, TInv
<1>11. CASE SplitPanic
  BY <1>11, StaysInHand DEF SplitPanic, Panic, Busy, TInv
<1>12. CASE SplitDone
  BY <1>12, StaysInHand DEF SplitDone, Busy, TInv
<1>13. CASE RunEnd
  <2>1. next <= Len(lines) /\ IsMessage(next)
    BY <1>13 DEF RunEnd, TInv, Busy
  <2>2. PICK kind \in {"result", "tool_error"} : Answer(kind)
    BY <1>13 DEF RunEnd
  <2> QED
    BY <2>1, <2>2, AnswerKeeps DEF Outcome
<1>14. CASE Write
  <2>1. next \in 1 .. Len(lines) /\ IsMessage(next)
    BY <1>14 DEF Write, TInv, Busy
  <2>2. lines[next].id \in Nat
    BY <2>1, MessageFields DEF Message
  <2>3. [line |-> next, id |-> lines[next].id, kind |-> outcome] \in Reply
    BY <2>2 DEF TInv, Reply
  <2>4. replies' \in Seq(Reply)
    BY <1>14, <2>3 DEF Write, TInv
  <2> QED
    BY <1>14, <2>4 DEF Write, TInv, Busy
<1>15. CASE WriteFails
  BY <1>15, StaysInHand DEF WriteFails, Busy, TInv
<1>16. CASE Leaves
  BY <1>16, StaysInHand DEF Leaves, TInv
<1>17. CASE OthersHold
  BY <1>17, StaysInHand DEF OthersHold, TInv
<1>18. CASE UNCHANGED vars
  BY <1>18, StaysInHand DEF vars, serverVars, TInv
<1> QED
  BY <1>1, <1>2, <1>3, <1>4, <1>5, <1>6, <1>7, <1>8, <1>9, <1>10, <1>11, <1>12, <1>13,
     <1>14, <1>15, <1>16, <1>17, <1>18, <1>19, <1>20, <1>21 DEF Next, Step

LEMMA TInvAlways == Spec => []TInv
  BY InitTInv, StepTInv, PTL DEF Spec

-----------------------------------------------------------------------------
\* Every step but Skip and Write leaves the lines, the place and the replies alone.
Still == UNCHANGED <<lines, next, replies>>

LEMMA StepIsStill ==
    ASSUME [Next]_vars, ~ Skip, ~ Write
    PROVE  Still
  BY DEF Next, Step, Load, Stop, Protocol, Fixed, Opens, CutPanic, Panic, QueryRefused, QueryPanic, QueryBegin, AtQuery, ScriptRefused,
         ScriptBegin, Split, SplitPanic, SplitDone, RunEnd, WriteFails, Leaves,
         OthersHold, Answer, vars, serverVars, Still

LEMMA SkipOrder ==
    ASSUME TInv, InOrder, Skip
    PROVE  InOrder'
<1>1. /\ lines' = lines /\ replies' = replies /\ next' = next + 1
      /\ next <= Len(lines) /\ ~ IsMessage(next)
  BY DEF Skip, AfterLine, IsMessage
<1>2. \A n \in 1 .. next' - 1 : n \in 1 .. next - 1 \/ n = next
  BY <1>1 DEF TInv
<1>3. \A n \in 1 .. next - 1 : n \in 1 .. next' - 1
  BY <1>1 DEF TInv
<1>4. ASSUME NEW k \in 1 .. Len(replies')
      PROVE  LET n == replies'[k].line
             IN n \in 1 .. next' - 1 /\ lines'[n].kind = "message" /\ replies'[k].id = lines'[n].id
  <2>1. k \in 1 .. Len(replies)
    BY <1>1
  <2> QED
    BY <2>1, <1>1, <1>3 DEF InOrder, IsMessage
<1>5. \A k, l \in 1 .. Len(replies') : k < l => replies'[k].line < replies'[l].line
  BY <1>1 DEF InOrder
<1>6. ASSUME NEW n \in 1 .. next' - 1, lines'[n].kind = "message"
      PROVE  \E k \in 1 .. Len(replies') : replies'[k].line = n
  <2>1. n \in 1 .. next - 1
    BY <1>1, <1>2, <1>6 DEF IsMessage
  <2> QED
    BY <2>1, <1>1, <1>6 DEF InOrder, IsMessage
<1> QED
  BY <1>4, <1>5, <1>6 DEF InOrder, IsMessage

\* The reply that is written is of a line after all lines answered before.
LEMMA WriteOrder ==
    ASSUME TInv, InOrder, Write
    PROVE  InOrder'
<1> DEFINE r == [line |-> next, id |-> lines[next].id, kind |-> outcome]
<1>1. /\ lines' = lines /\ replies' = Append(replies, r) /\ next' = next + 1
      /\ next <= Len(lines) /\ IsMessage(next)
  BY DEF Write, TInv, Busy
<1>3. /\ Len(replies) \in Nat
      /\ Len(replies') = Len(replies) + 1
      /\ \A k \in 1 .. Len(replies) : replies'[k] = replies[k]
      /\ replies'[Len(replies) + 1] = r
  <2>1. next \in 1 .. Len(lines)
    BY <1>1 DEF TInv
  <2>2. r \in Reply
    BY <2>1, <1>1, MessageFields DEF TInv, Message, Reply
  <2> QED
    BY <1>1, <2>2 DEF TInv
<1>4. r.line = next /\ r.id = lines[next].id
  OBVIOUS
<1> HIDE DEF r
<1>5. ASSUME NEW k \in 1 .. Len(replies')
      PROVE  LET n == replies'[k].line
             IN n \in 1 .. next' - 1 /\ lines'[n].kind = "message" /\ replies'[k].id = lines'[n].id
  <2>1. CASE k \in 1 .. Len(replies)
    BY <2>1, <1>1, <1>3 DEF InOrder, TInv, IsMessage
  <2>2. CASE k = Len(replies) + 1
    BY <2>2, <1>1, <1>3, <1>4 DEF TInv, IsMessage
  <2> QED
    BY <1>3, <2>1, <2>2
<1>6. ASSUME NEW k \in 1 .. Len(replies'), NEW l \in 1 .. Len(replies'), k < l
      PROVE  replies'[k].line < replies'[l].line
  <2>1. k \in 1 .. Len(replies)
    BY <1>3, <1>6
  <2>2. CASE l \in 1 .. Len(replies)
    BY <2>1, <2>2, <1>3, <1>6 DEF InOrder
  <2>3. CASE l = Len(replies) + 1
    BY <2>1, <2>3, <1>3, <1>4 DEF InOrder, TInv
  <2> QED
    BY <1>3, <2>2, <2>3
<1>7. ASSUME NEW n \in 1 .. next' - 1, lines'[n].kind = "message"
      PROVE  \E k \in 1 .. Len(replies') : replies'[k].line = n
  <2>1. CASE n \in 1 .. next - 1
    <3>1. PICK k \in 1 .. Len(replies) : replies[k].line = n
      BY <2>1, <1>1, <1>7 DEF InOrder, IsMessage
    <3> QED
      BY <3>1, <1>3
  <2>2. CASE n = next
    BY <2>2, <1>3, <1>4
  <2> QED
    BY <1>1, <2>1, <2>2 DEF TInv
<1> QED
  BY <1>5, <1>6, <1>7 DEF InOrder, IsMessage

LEMMA InitOrder == Init => InOrder
  BY DEF Init, InOrder

LEMMA StepOrder ==
    ASSUME TInv, InOrder, [Next]_vars
    PROVE  InOrder'
<1>1. CASE Skip
  BY <1>1, SkipOrder
<1>2. CASE Write
  BY <1>2, WriteOrder
<1>3. CASE ~ Skip /\ ~ Write
  BY <1>3, StepIsStill DEF Still, InOrder, IsMessage
<1> QED
  BY <1>1, <1>2, <1>3

\* The replies are the answers to the messages read so far, each message one, in
\* their order and with their ids (main.rs: the loop reads a line, answers it,
\* and passes over what is blank or broken), for every input of any length.
THEOREM RepliesInOrder == Spec => []InOrder
<1>1. TInv /\ InOrder /\ [Next]_vars => InOrder'
  BY StepOrder
<1> QED
  BY <1>1, InitOrder, TInvAlways, PTL DEF Spec

-----------------------------------------------------------------------------
LEMMA InitDInv == Init => DInv
  BY DEF Init, DInv, DatabaseFound

\* The configuration is never changed, and what it says of names neither.
LEMMA ConfigStays ==
    ASSUME [Next]_vars
    PROVE  config' = config /\ lines' = lines
  BY DEF Next, Step, Load, Skip, Stop, Protocol, Fixed, Opens, CutPanic, Panic, QueryRefused, QueryPanic, QueryBegin, AtQuery, ScriptRefused,
         ScriptBegin, Split, Scan, SplitPanic, SplitDone, RunEnd, Write, WriteFails,
         Leaves, OthersHold, Answer, vars, serverVars

LEMMA NamesStay ==
    ASSUME [Next]_vars
    PROVE  /\ validate' <=> validate
           /\ \A m : Missing(m)' <=> Missing(m)
  BY ConfigStays DEF validate, Missing, find_database, default_database, Databases

\* A lookup that fails is of a database that was named and is not configured:
\* the default one has been validated.
LEMMA LookupFails ==
    ASSUME validate, NEW m, ~ find_database(Asked(m))
    PROVE  Missing(m)
  BY DEF Asked, validate, find_database, SameName, Missing

\* A step to a reply that says so.
LEMMA SaysMissing ==
    ASSUME TInv, DInv, [Next]_vars, pc # "reply", (pc = "reply")', (outcome = "no_database")'
    PROVE  next' = next /\ lines' = lines /\ Missing(lines[next])
<1>1. ASSUME NEW kind, Answer(kind)
      PROVE  next' = next /\ lines' = lines /\ outcome' = kind
  BY <1>1 DEF Answer
<1>2. CASE Opens
  <2>1. pc = "wait"
    BY <1>2 DEF Opens, AtTool, AtMessage
  <2>2. ~ find_database(Asked(lines[next])) /\ Answer("no_database")
    BY <1>2, <1>1 DEF Opens
  <2> QED
    BY <2>1, <2>2, <1>1, LookupFails DEF DInv
<1>3. CASE ScriptRefused
  <2>1. /\ Answer("no_database")
        /\ lines[next].database # None /\ ~ find_database(lines[next].database)
    BY <1>3, <1>1 DEF ScriptRefused
  <2> QED
    BY <2>1, <1>1 DEF Missing, find_database, SameName
<1>6. CASE QueryRefused
  <2>1. pc = "wait"
    BY <1>6 DEF QueryRefused, AtTool, AtMessage
  <2>2. ~ find_database(Asked(lines[next])) /\ Answer("no_database")
    BY <1>6, <1>1 DEF QueryRefused
  <2> QED
    BY <2>1, <2>2, <1>1, LookupFails DEF DInv
<1>4. ~ Protocol /\ ~ Fixed
  BY <1>1 DEF Protocol, Fixed
<1>5. ~ RunEnd
  BY <1>1 DEF RunEnd
<1> QED
  BY <1>2, <1>3, <1>4, <1>5, <1>6
     DEF Next, Step, Load, Skip, Stop, CutPanic, Panic, QueryPanic, QueryBegin, ScriptBegin, Split, SplitPanic, SplitDone,
         Write, WriteFails, Leaves, OthersHold, vars, serverVars

LEMMA StillInHand ==
    ASSUME [Next]_vars, pc = "reply", (pc = "reply")'
    PROVE  next' = next /\ outcome' = outcome /\ lines' = lines
  BY DEF Next, Step, Load, Skip, Stop, Protocol, Fixed, Opens, CutPanic, Panic, QueryRefused, QueryPanic, QueryBegin, AtQuery, ScriptRefused,
         ScriptBegin, Split, SplitPanic, SplitDone, RunEnd, Write, WriteFails, Leaves,
         OthersHold, Answer, AtTool, AtMessage, vars, serverVars

LEMMA StepValid ==
    ASSUME DInv, [Next]_vars
    PROVE  (pc \notin {"load", "stopped"})' => validate
  BY DEF DInv, Next, Step, Load, Skip, Stop, Protocol, Fixed, Opens, CutPanic, Panic, QueryRefused, QueryPanic, QueryBegin, AtQuery,
         ScriptRefused, ScriptBegin, Split, SplitPanic, SplitDone, RunEnd, Write,
         WriteFails, Leaves, OthersHold, Answer, AtTool, AtMessage, vars, serverVars

LEMMA StepFound ==
    ASSUME TInv, DInv, [Next]_vars
    PROVE  DatabaseFound'
<1>1. DatabaseFound <=> \A k \in 1 .. Len(replies) :
                           replies[k].kind = "no_database" => Missing(lines[replies[k].line])
  BY DEF DatabaseFound, Missing
<1>2. DatabaseFound' <=> \A k \in 1 .. Len(replies') :
                           replies'[k].kind = "no_database" => Missing(lines'[replies'[k].line])
  BY ConfigStays DEF DatabaseFound, Missing, Databases
<1>3. CASE Write
  <2> DEFINE r == [line |-> next, id |-> lines[next].id, kind |-> outcome]
  <2>1. replies' = Append(replies, r) /\ pc = "reply" /\ lines' = lines
    BY <1>3 DEF Write
  <2>2. next \in 1 .. Len(lines) /\ IsMessage(next)
    BY <2>1 DEF TInv, Busy
  <2>3. r \in Reply
    BY <2>2, MessageFields DEF TInv, Message, Reply
  <2>4. /\ Len(replies) \in Nat
        /\ Len(replies') = Len(replies) + 1
        /\ \A k \in 1 .. Len(replies) : replies'[k] = replies[k]
        /\ replies'[Len(replies) + 1] = r
    BY <2>1, <2>3 DEF TInv
  <2>5. r.kind = "no_database" => Missing(lines[r.line])
    BY <2>1 DEF DInv
  <2> HIDE DEF r
  <2>6. ASSUME NEW k \in 1 .. Len(replies'), replies'[k].kind = "no_database"
        PROVE  Missing(lines'[replies'[k].line])
    <3>1. CASE k \in 1 .. Len(replies)
      BY <3>1, <2>1, <2>4, <2>6, <1>1 DEF DInv
    <3>2. CASE k = Len(replies) + 1
      BY <3>2, <2>1, <2>4, <2>5, <2>6
    <3> QED
      BY <2>4, <3>1, <3>2
  <2> QED
    BY <1>2, <2>6
<1>4. CASE ~ Write
  <2>1. replies' = replies /\ lines' = lines
    <3>1. CASE Skip
      BY <3>1 DEF Skip
    <3> QED
      BY <3>1, <1>4, StepIsStill DEF Still
  <2> QED
    BY <2>1, <1>1, <1>2 DEF DInv
<1> QED
  BY <1>3, <1>4

LEMMA StepDInv ==
    ASSUME TInv, DInv, [Next]_vars
    PROVE  DInv'
<1>1. ASSUME (pc = "reply")', (outcome = "no_database")'
      PROVE  Missing(lines[next])'
  <2>1. next' = next /\ lines' = lines /\ Missing(lines[next])
    <3>1. CASE pc = "reply"
      BY <3>1, <1>1, StillInHand DEF DInv
    <3> QED
      BY <3>1, <1>1, SaysMissing
  <2> QED
    BY <2>1, ConfigStays DEF Missing, Databases
<1> QED
  BY <1>1, StepValid, StepFound, NamesStay DEF DInv

\* A call that names no database, or a configured one in any spelling, is never
\* told that there is none: what Config::validate accepts, find_database finds,
\* for every configuration.
THEOREM NeverMissing == Spec => []DatabaseFound
<1>1. TInv /\ DInv /\ [Next]_vars => DInv'
  BY StepDInv
<1>2. DInv => DatabaseFound
  BY DEF DInv
<1> QED
  BY <1>1, <1>2, InitDInv, TInvAlways, PTL DEF Spec

-----------------------------------------------------------------------------
\* A script in hand, or none yet: what the scanner holds is well formed.
LEMMA InitTypeOK == Init => TypeOK
<1> SUFFICES ASSUME Init
             PROVE  TypeOK
  OBVIOUS
<1>1. config \in Config /\ lines \in Seq(Line)
  BY ServerAssumption DEF Init
<1>2. SplitTypeOK
  <2>1. <<>> \in Seq(Symbol)
    OBVIOUS
  <2> QED
    BY <2>1, ScanFromTypes DEF Init
<1>3. next \in 1 .. Len(lines) + 1
  BY <1>1 DEF Init
<1> QED
  BY <1>1, <1>2, <1>3, InitTInv, Zenon DEF Init, TypeOK, TInv

LEMMA SplitStays ==
    ASSUME SplitTypeOK, UNCHANGED splitVars
    PROVE  SplitTypeOK'
  BY DEF SplitTypeOK, splitVars, scanner

\* Only a script that begins and its scan change what the scanner holds.
LEMMA StepSplitTypes ==
    ASSUME TInv, SplitTypeOK, [Next]_vars
    PROVE  SplitTypeOK'
<1>1. CASE Split
  BY <1>1, ScanTypes DEF Split
<1>2. CASE ScriptBegin
  <2>1. next \in 1 .. Len(lines) /\ IsMessage(next)
    BY <1>2, AnswerAtTool DEF ScriptBegin
  <2>2. lines[next].script.text \in Seq(Symbol)
    BY <2>1, MessageFields DEF Message, Script
  <2> QED
    BY <1>2, <2>2, ScanNextTypes DEF ScriptBegin
<1>3. CASE ~ Split /\ ~ ScriptBegin
  <2>1. UNCHANGED splitVars
    BY <1>3 DEF Next, Step, Load, Skip, Stop, Protocol, Fixed, Opens, CutPanic, Panic, QueryRefused, QueryPanic, QueryBegin, AtQuery,
       ScriptRefused, SplitPanic, SplitDone, RunEnd, Write, WriteFails, Leaves,
       OthersHold, Answer, vars
  <2> QED
    BY <2>1, SplitStays
<1> QED
  BY <1>1, <1>2, <1>3

LEMMA StepPlaces ==
    ASSUME TypeOK, TInv, [Next]_vars
    PROVE  /\ next' \in 1 .. Len(lines') + 1
           /\ pc' \in {"load", "wait", "split", "run", "reply", "stopped", "aborted"}
           /\ held' \in BOOLEAN /\ closed' \in BOOLEAN /\ config' \in Config
<1>1. next' \in 1 .. Len(lines') + 1
  <2>1. CASE Skip
    BY <2>1 DEF Skip, AfterLine, TInv
  <2>2. CASE Write
    BY <2>2 DEF Write, TInv, Busy
  <2>3. CASE ~ Skip /\ ~ Write
    BY <2>3, StepIsStill DEF Still, TypeOK
  <2> QED
    BY <2>1, <2>2, <2>3
<1>2. pc' \in {"load", "wait", "split", "run", "reply", "stopped", "aborted"}
  BY DEF TypeOK, Next, Step, Load, Skip, Stop, Protocol, Fixed, Opens, CutPanic, Panic, QueryRefused, QueryPanic, QueryBegin, AtQuery,
     ScriptRefused, ScriptBegin, Split, SplitPanic, SplitDone, RunEnd, Write,
     WriteFails, Leaves, OthersHold, Answer, vars, serverVars
<1>3. held' \in BOOLEAN /\ closed' \in BOOLEAN
  BY DEF TypeOK, Next, Step, Load, Skip, Stop, Protocol, Fixed, Opens, CutPanic, Panic, QueryRefused, QueryPanic, QueryBegin, AtQuery,
     ScriptRefused, ScriptBegin, Split, SplitPanic, SplitDone, RunEnd, Write,
     WriteFails, Leaves, OthersHold, Answer, vars, serverVars
<1> QED
  BY <1>1, <1>2, <1>3, ConfigStays DEF TypeOK

\* Every variable keeps its type, for inputs and scripts of any length: the scanner
\* never leaves its script, a statement never begins behind it, a terminator is
\* never empty and the depth of blocks never negative (split.rs).
THEOREM ServerTypes == Spec => []TypeOK
<1>1. TInv /\ TypeOK /\ [Next]_vars => TypeOK'
  <2> SUFFICES ASSUME TInv, TypeOK, [Next]_vars
               PROVE  TypeOK'
    OBVIOUS
  <2>1. TInv'
    BY StepTInv
  <2>2. SplitTypeOK'
    BY StepSplitTypes DEF TypeOK
  <2> QED
    BY <2>1, <2>2, StepPlaces DEF TypeOK, TInv
<1> QED
  BY <1>1, InitTypeOK, TInvAlways, PTL DEF Spec

-----------------------------------------------------------------------------
\* While a script is split, until it runs, and where it broke the scanner, it is
\* the one of the next line, and the scanner follows every reading there is of it
\* (Following, Reading).
Writ == lines[next].script
Followed ==
    /\ next \in 1 .. Len(lines) /\ IsMessage(next)
    /\ sql = Writ.text
    /\ \A B : Parsed(Writ.text, B) => Following(B)
    /\ \A B, from, to : Reads(Writ.text, B, Writ.meant, from, to)
                           => Reading(B, Writ.meant, from, to)
SInv ==
    /\ pc = "split" => Followed /\ IsScript
    /\ pc = "run" => \/ Followed /\ IsScript /\ ~ Scanning
                     \/ lines[next].tool = "firebird_query" /\ ~ lines[next].shifts
    /\ pc = "aborted" => \/ lines[next].tool \in Cutting
                         \/ Shifting(lines[next])
                         \/ Followed /\ IsScript /\ PanicsHere

LEMMA InitSInv == Init => SInv
  BY DEF Init, SInv

LEMMA WritIs ==
    ASSUME TInv, next \in 1 .. Len(lines), IsMessage(next)
    PROVE  Writ.text \in Seq(Symbol) /\ Writ.meant \in Seq(Seq(Symbol))
  BY MessageFields DEF Message, Script, Writ

\* Steps that leave the script and its scan alone.
LEMMA FollowedStays ==
    ASSUME UNCHANGED <<lines, next, splitVars>>
    PROVE  /\ Followed' <=> Followed
           /\ Scanning' <=> Scanning
           /\ PanicsHere' <=> PanicsHere
<1>1. UNCHANGED <<sql, i, mode, start, content, term, depth, stmts>>
  BY DEF splitVars, scanner
<1>2. Writ' = Writ /\ IsMessage(next)' = IsMessage(next) /\ Scanning' = Scanning
  BY <1>1 DEF Writ, IsMessage, Scanning
<1>3. \A B : Following(B)' <=> Following(B)
  BY <1>1, Zenon DEF Following, Plain, Among, Counting, Collected, Within
<1>4. \A B, meant, from, to : Reading(B, meant, from, to)' <=> Reading(B, meant, from, to)
  BY <1>1, <1>3 DEF Reading, Gathered
<1>5. PanicsHere' <=> PanicsHere
  BY <1>1, <1>2 DEF PanicsHere, AtText, SetTermPanics, CutsChar, IsWord, After, Here,
     AtTerm, LookingAt
<1> QED
  BY <1>1, <1>2, <1>3, <1>4, <1>5 DEF Followed

LEMMA StepFollowed ==
    ASSUME TInv, SplitTypeOK, Followed, Scan, UNCHANGED <<lines, next>>
    PROVE  Followed'
<1>1. /\ next \in 1 .. Len(lines) /\ IsMessage(next) /\ sql = Writ.text
      /\ Writ.meant \in Seq(Seq(Symbol))
  BY WritIs DEF Followed
<1>2. Writ' = Writ /\ IsMessage(next)' = IsMessage(next) /\ sql' = sql
  <2>1. sql' = sql
    BY DEF Scan, SetTerm, OpenQuote, OpenComment, Enter, Terminate, Other,
       InQuote, InComment, Leave
  <2> QED
    BY <2>1 DEF Writ, IsMessage
<1>3. ASSUME NEW B, Parsed(Writ.text, B)
      PROVE  Following(B)'
  BY <1>1, <1>3, FollowingStays DEF Followed
<1>4. ASSUME NEW B, NEW from, NEW to, Reads(Writ.text, B, Writ.meant, from, to)
      PROVE  (Reading(B, Writ.meant, from, to))'
  <2>1. PICK meant : meant = Writ.meant
    OBVIOUS
  <2>2. Reading(B, meant, from, to) /\ Reads(sql, B, meant, from, to) /\ meant \in Seq(Seq(Symbol))
    BY <1>1, <1>4, <2>1 DEF Followed
  <2>3. Reading(B, meant, from, to)'
    BY <2>2, ReadingStays
  <2> QED
    BY <1>2, <2>1, <2>3
<1> QED
  BY <1>1, <1>2, <1>3, <1>4 DEF Followed

LEMMA BeginFollowed ==
    ASSUME TInv, ScriptBegin
    PROVE  Followed'
<1>1. /\ next \in 1 .. Len(lines) /\ IsMessage(next) /\ ScanNext(Writ.text)
      /\ UNCHANGED <<lines, next>>
  BY AnswerAtTool DEF ScriptBegin, Writ
<1>2. Writ' = Writ /\ IsMessage(next)' = IsMessage(next) /\ sql' = Writ.text
  BY <1>1 DEF Writ, IsMessage, ScanNext
<1>3. PICK meant, text : meant = Writ.meant /\ text = Writ.text
  OBVIOUS
<1>4. text \in Seq(Symbol) /\ meant \in Seq(Seq(Symbol)) /\ ScanNext(text)
  BY <1>1, <1>3, WritIs
<1>5. ASSUME NEW B, Parsed(Writ.text, B)
      PROVE  Following(B)'
  BY <1>3, <1>4, <1>5, FollowingBegins
<1>6. ASSUME NEW B, NEW from, NEW to, Reads(Writ.text, B, Writ.meant, from, to)
      PROVE  (Reading(B, Writ.meant, from, to))'
  <2>1. Reading(B, meant, from, to)'
    BY <1>3, <1>4, <1>6, ReadingBegins
  <2> QED
    BY <1>2, <1>3, <2>1
<1> QED
  BY <1>1, <1>2, <1>5, <1>6 DEF Followed

LEMMA StepSInv ==
    ASSUME TInv, TypeOK, SInv, [Next]_vars
    PROVE  SInv'
<1>1. CASE Split
  <2>1. Scan /\ UNCHANGED <<pc, lines, next>> /\ pc = "split" /\ SplitTypeOK
    BY <1>1 DEF Split, serverVars, TypeOK
  <2> QED
    BY <2>1, StepFollowed DEF SInv, IsScript
<1>2. CASE ScriptBegin
  <2>1. lines[next].tool = "firebird_run_script" /\ pc' = "split" /\ UNCHANGED <<lines, next>>
    BY <1>2 DEF ScriptBegin, AtTool
  <2> QED
    BY <1>2, <2>1, BeginFollowed DEF SInv, IsScript
<1>3. CASE SplitDone \/ SplitPanic
  <2>1. pc = "split" /\ UNCHANGED <<lines, next, splitVars>>
    BY <1>3 DEF SplitDone, SplitPanic, Panic
  <2> QED
    BY <1>3, <2>1, FollowedStays DEF SInv, SplitDone, SplitPanic, Panic, IsScript
<1>4. CASE CutPanic \/ QueryPanic
  BY <1>4 DEF SInv, CutPanic, QueryPanic, AtQuery, Panic, AtTool, Shifting
<1>7. CASE QueryBegin
  BY <1>7 DEF SInv, QueryBegin, AtQuery, AtTool
<1>5. CASE pc \in {"split", "run", "aborted"} /\ pc' = pc /\ ~ Split
  <2>1. UNCHANGED <<lines, next, splitVars>>
    BY <1>5 DEF Next, Step, Load, Skip, Stop, Protocol, Fixed, Opens, CutPanic, Panic, QueryRefused, QueryPanic, QueryBegin, AtQuery,
       ScriptRefused, ScriptBegin, SplitPanic, SplitDone, RunEnd, Write, WriteFails, Leaves,
       OthersHold, Answer, AtTool, AtMessage, vars, serverVars
  <2> QED
    BY <1>5, <2>1, FollowedStays DEF SInv, IsScript, Shifting
<1>6. CASE pc' \notin {"split", "run", "aborted"}
  BY <1>6 DEF SInv
<1> QED
  <2>1. pc' \in {"split", "run", "aborted"}
            => \/ Split \/ ScriptBegin \/ SplitDone \/ SplitPanic \/ CutPanic
               \/ QueryPanic \/ QueryBegin
               \/ pc \in {"split", "run", "aborted"} /\ pc' = pc
    BY DEF Next, Step, Load, Skip, Stop, Protocol, Fixed, Opens,
       QueryRefused, ScriptRefused, RunEnd, Write, WriteFails, Leaves,
       OthersHold, Answer, AtTool, AtMessage, vars, serverVars
  <2> QED
    BY <1>1, <1>2, <1>3, <1>4, <1>5, <1>6, <1>7, <2>1

LEMMA SInvAlways == Spec => []SInv
  BY StepSInv, InitSInv, ServerTypes, TInvAlways, PTL DEF Spec

\* A script without a directive that has a reading: its statements are those of
\* some division into lexemes with its blocks closed in their order.
Readable(script) == \E B, from, to : Reads(script.text, B, script.meant, from, to)

\* The statements run_script runs are those the writer of the script means, for
\* every script of any length that reads and changes no terminator: a semicolon in
\* a string, a quoted name, a comment or a block never cuts one, every other does
\* (split_statements).
THEOREM RunsWhatIsMeant == Spec => [](Readable(lines[next].script) => RoundTrip)
<1>1. TypeOK /\ TInv /\ SInv => (Readable(lines[next].script) => RoundTrip)
  <2> SUFFICES ASSUME TypeOK, TInv, SInv, Readable(lines[next].script), pc = "run", IsScript
               PROVE  Found = Writ.meant
    BY DEF RoundTrip, Writ
  <2>0. Followed /\ ~ Scanning
    BY Zenon DEF SInv, IsScript
  <2>1. next \in 1 .. Len(lines) /\ IsMessage(next) /\ sql = Writ.text /\ ~ Scanning /\ SplitTypeOK
    BY <2>0 DEF Followed, TypeOK
  <2>2. PICK B, from, to : Reads(Writ.text, B, Writ.meant, from, to)
    BY DEF Readable, Writ
  <2>3. Reading(B, Writ.meant, from, to) /\ Reads(sql, B, Writ.meant, from, to)
    BY <2>0, <2>1, <2>2 DEF Followed
  <2> QED
    BY <2>1, <2>3, WritIs, ReadingEnds
<1> QED
  BY <1>1, ServerTypes, TInvAlways, SInvAlways, PTL

\* A script is marked as one that breaks the scanner exactly if its reading has a
\* place that is sliced; or it has no character of two bytes and is not marked.
Marked(script) ==
    \/ \E B : /\ Parsed(script.text, B)
              /\ script.breaks <=> \E p \in B : Sliced(script.text, B, p)
    \/ ~ script.breaks /\ \A k \in 1 .. Len(script.text) : script.text[k] # "wide"

\* The scanner panics only in front of a character of two bytes.
LEMMA PanicsNearWide ==
    ASSUME SplitTypeOK, PanicsHere
    PROVE  \E k \in 1 .. Len(sql) : sql[k] = "wide"
<1>1. sql \in Seq(Symbol) /\ i \in 1 .. Len(sql)
  BY DEF SplitTypeOK, PanicsHere, AtText, Scanning
<1>2. CASE Here = "wide"
  BY <1>1, <1>2 DEF Here
<1>3. ASSUME NEW j \in 1 .. Len(sql) + 1, NEW n, CutsChar(j, n)
      PROVE  \E k \in 1 .. Len(sql) : sql[k] = "wide"
  BY <1>1, <1>3 DEF CutsChar
<1>4. CASE SetTermPanics
  <2>1. After(i, Blank) \in i .. Len(sql) + 1
    BY <1>1, AfterIs
  <2>2. IsWord(i, "SET") => After(After(i, Blank) + 1, Blank) \in 1 .. Len(sql) + 1
    <3>1. IsWord(i, "SET") => After(i, Blank) + 1 \in 1 .. Len(sql) + 1
      BY <1>1, <2>1 DEF IsWord
    <3>2. ASSUME NEW j \in 1 .. Len(sql) + 1
          PROVE  After(j, Blank) \in 1 .. Len(sql) + 1
      BY <1>1, AfterIs
    <3> QED
      BY <3>1, <3>2
  <2> QED
    BY <1>1, <1>3, <1>4, <2>1, <2>2 DEF SetTermPanics
<1> QED
  BY <1>2, <1>4 DEF PanicsHere

\* What brings the process down is a script with a character of two bytes at a
\* place the scanner slices; a query whose upper case shifts its SELECT into a
\* character; or a tool that cuts what it reads: nothing else does, and the first
\* two always. This holds of every script of any length that changes no terminator,
\* and of every script without such a character (split.rs, row_limit.rs,
\* stats_tools.rs, svelte.rs).
THEOREM AbortsWhereSliced == Spec => [](Marked(lines[next].script) => AbortsOnlySo)
<1>1. TypeOK /\ TInv /\ SInv => (Marked(lines[next].script) => AbortsOnlySo)
  <2> SUFFICES ASSUME TypeOK, TInv, SInv, Marked(Writ)
               PROVE  AbortsOnlySo
    BY DEF Writ
  <2>1. ASSUME Followed, IsScript, (pc = "run" /\ ~ Scanning) \/ (pc = "aborted" /\ PanicsHere)
        PROVE  Writ.breaks <=> pc = "aborted"
    <3>1. SplitTypeOK /\ sql = Writ.text /\ (pc = "run" => pc # "aborted")
      BY <2>1 DEF TypeOK, Followed
    <3>2. CASE ~ Writ.breaks /\ \A k \in 1 .. Len(Writ.text) : Writ.text[k] # "wide"
      <4>1. ~ PanicsHere
        BY <3>1, <3>2, PanicsNearWide
      <4> QED
        BY <2>1, <3>1, <3>2, <4>1
    <3>3. ASSUME NEW B, Parsed(Writ.text, B),
                 Writ.breaks <=> \E p \in B : Sliced(Writ.text, B, p)
          PROVE  Writ.breaks <=> pc = "aborted"
      <4>1. Parsed(sql, B) /\ Following(B)
        BY <2>1, <3>1, <3>3 DEF Followed
      <4>2. CASE pc = "run" /\ ~ Scanning
        BY <3>1, <3>3, <4>1, <4>2, FollowingEnds
      <4>3. CASE pc = "aborted" /\ PanicsHere
        <5>1. Scanning /\ mode = "Normal"
          BY <4>3 DEF PanicsHere, AtText
        <5> QED
          BY <3>1, <3>3, <4>1, <4>3, <5>1, PanicsWhereSliced
      <4> QED
        BY <2>1, <4>2, <4>3
    <3> QED
      BY <3>2, <3>3 DEF Marked
  <2>2. pc = "run" => ~ Breaking(lines[next]) /\ ~ Shifting(lines[next])
    <3>1. CASE pc = "run" /\ Followed /\ IsScript /\ ~ Scanning
      <4>1. ~ Writ.breaks
        BY <2>1, <3>1, Zenon
      <4> QED
        BY <3>1, <4>1, Zenon DEF Breaking, Shifting, IsScript, Writ
    <3>2. CASE lines[next].tool = "firebird_query" /\ ~ lines[next].shifts
      BY <3>2, Zenon DEF Breaking, Shifting
    <3> QED
      BY <3>1, <3>2, Zenon DEF SInv
  <2>3. pc = "aborted" => \/ Breaking(lines[next]) \/ Shifting(lines[next])
                          \/ lines[next].tool \in Cutting
    <3>1. CASE pc = "aborted" /\ Followed /\ IsScript /\ PanicsHere
      <4>1. Writ.breaks
        BY <2>1, <3>1, Zenon
      <4> QED
        BY <3>1, <4>1, Zenon DEF Breaking, IsScript, Writ
    <3> QED
      BY <3>1, Zenon DEF SInv
  <2> QED
    BY <2>2, <2>3, Zenon DEF AbortsOnlySo
<1> QED
  BY <1>1, ServerTypes, TInvAlways, SInvAlways, PTL
=============================================================================
