------------------------------ MODULE Scanner -------------------------------
(***************************************************************************)
(* The scanner (src/elox/lib/scanner.c): scanToken is called by the parser *)
(* until it returns TOKEN_EOF.  A source is a sequence of characters; an   *)
(* f-string is cut into tokens at the expressions it interpolates, and the *)
(* stack fStrings remembers what a closing brace continues.                *)
(*                                                                         *)
(* A token is kept as the stretch of source it was read from, [from, to).  *)
(* Characters are ASCII.                                                   *)
(***************************************************************************)
EXTENDS Integers, FiniteSets, SequencesExt, TLC

CONSTANTS
  Sources,          \* sequences of one-character strings
  MaxInterpDepth,   \* MAX_INTERP_DEPTH
  OpenAtStart       \* what openFStrings may hold at first: initScanner leaves it

ASSUME ScannerAssumption == MaxInterpDepth \in Nat \ {0} /\ OpenAtStart \subseteq 0..MaxInterpDepth

VARIABLES source, current, line, fStrings, tokens
vars == <<source, current, line, fStrings, tokens>>

Alpha == {"a", "b", "c", "d", "e", "f", "g", "h", "i", "j", "k", "l", "m", "n", "o", "p", "q",
          "r", "s", "t", "u", "v", "w", "x", "y", "z", "_"}
Digit == {"0", "1", "4"}
Hex == Digit \cup {"a", "b", "f"}
Quotes == {"\"", "'"}

End == Len(source) + 1
Char(i) == IF i < End THEN source[i] ELSE "end"
Text(i, j) == FoldLeft(LAMBDA a, b : a \o b, "", SubSeq(source, i, j - 1))

(* The first position from i on whose character is not in S.               *)
After(i, S) == Min({j \in i..End : Char(j) \notin S})

-----------------------------------------------------------------------------
(* skipWhitespace: where it stops, the lines it passes, and whether it     *)
(* ended every comment.  In a block comment a star is a state of its own.  *)

(* Mutant: a new line after a star is not counted.                         *)
NewLinesScan(c, mode) == IF c = "\n" /\ mode = "scan" THEN 1 ELSE 0
NewLines(c, mode) == IF c = "\n" THEN 1 ELSE 0

Comment[i \in 1..End, mode \in {"scan", "star"}] ==
  IF i = End THEN [at |-> End, lines |-> 0, ok |-> FALSE]
  ELSE IF mode = "star" /\ Char(i) = "#" THEN [at |-> i + 1, lines |-> 0, ok |-> TRUE]
  ELSE LET rest == Comment[i + 1, IF mode = "scan" /\ Char(i) = "*" THEN "star" ELSE "scan"]
       IN [rest EXCEPT !.lines = @ + NewLines(Char(i), mode)]

Blank[i \in 1..End] ==
  LET and(at, lines) == [Blank[at] EXCEPT !.lines = @ + lines]
      block == Comment[i + 1, "scan"]
  IN CASE Char(i) = " " -> Blank[i + 1]
       [] Char(i) = "\n" -> and(i + 1, 1)
       [] Char(i) = "#" /\ Char(i + 1) = "*" -> IF block.ok THEN and(block.at, block.lines) ELSE block
       [] Char(i) = "#" /\ Char(i + 1) # "*" -> Blank[Min({j \in i..End : Char(j) \in {"\n", "end"}})]
       [] OTHER -> [at |-> i, lines |-> 0, ok |-> TRUE]

-----------------------------------------------------------------------------
(* string: how a string that continues at i ends.  The mode is Scan,       *)
(* Escape, or the number of Unicode digits to come.                        *)
Scan == 0
Escape == 5
StringEnd(from, delimiter, isF) ==
  LET s[i \in from..End, mode \in Scan..Escape] ==
        LET c == Char(i)
            fail == [how |-> "error", at |-> i + 1]
        IN IF i = End THEN [how |-> "error", at |-> i]
           ELSE CASE mode = Escape ->
                       IF c \in Quotes \cup {"\\", "n", "r", "t"} THEN s[i + 1, Scan]
                       ELSE IF c = "u" THEN s[i + 1, 4] ELSE fail
                  [] mode \in 1..4 -> IF c \in Hex THEN s[i + 1, mode - 1] ELSE fail
                  [] mode = Scan ->
                       IF c = delimiter THEN [how |-> "end", at |-> i + 1]
                       ELSE IF c = "\\" THEN s[i + 1, Escape]
                       ELSE IF isF /\ c = "{" THEN [how |-> "expr", at |-> i + 1]
                       ELSE s[i + 1, Scan]
  IN s[from, Scan]

Token(type, from, to) ==
  /\ tokens' = Append(tokens, [type |-> type, from |-> from, to |-> to,
                               line |-> line + Blank[current].lines])
  /\ current' = to
  /\ line' = line + Blank[current].lines
  /\ UNCHANGED source

(* Mutant: the end of an f-string leaves it open.                          *)
StayOpen(open) == open
CloseFString(open) == Front(open)

(* The stretch of an f-string from i to its end or to an expression; open  *)
(* is the stack of f-strings, the last one being read.                     *)
FString(open, from, i, start) ==
  LET top == Last(open)
      e == StringEnd(i, top.delim, TRUE)
  IN CASE e.how = "error" -> Token("error", from, e.at) /\ fStrings' = open
       [] e.how = "expr" ->
            /\ Token(IF start THEN "fstart" ELSE "fmiddle", from, e.at)
            /\ fStrings' = Append(Front(open), [top EXCEPT !.hasExpr = TRUE, !.openBraces = @ + 1])
       [] e.how = "end" ->
            /\ Token(IF top.hasExpr THEN "fend" ELSE "string", from, e.at)
            /\ fStrings' = CloseFString(open)

-----------------------------------------------------------------------------
Start == Blank[current].at
First == Char(Start)
AtToken == Blank[current].ok /\ \A t \in Range(tokens) : t.type # "eof"

UnterminatedComment ==
  /\ ~Blank[current].ok
  /\ Token("error", current, End)
  /\ UNCHANGED fStrings

EndOfFile == AtToken /\ Start = End /\ Token("eof", End, End) /\ UNCHANGED fStrings

Prefixed(c) == First = c /\ Char(Start + 1) \in Quotes

(* What the nested switches of identifierType recognise. *)
Keywords == {"abstract", "and", "break", "catch", "class", "continue", "else", "extends", "false",
             "finally", "for", "foreach", "from", "function", "global", "if", "implements", "import",
             "in", "instanceof", "interface", "local", "nil", "or", "return", "super", "this",
             "throw", "true", "try", "while"}

Identifier ==
  /\ AtToken /\ First \in Alpha /\ ~Prefixed("r") /\ ~Prefixed("f")
  /\ LET to == After(Start, Alpha \cup Digit)
     IN Token(IF Text(Start, to) \in Keywords THEN "keyword" ELSE "identifier", Start, to)
  /\ UNCHANGED fStrings

RawString ==
  /\ AtToken /\ Prefixed("r")
  /\ LET ends == {j \in Start + 2..End - 1 : Char(j) = Char(Start + 1)}
     IN IF ends = {} THEN Token("error", Start + 1, End) ELSE Token("string", Start + 1, Min(ends) + 1)
  /\ UNCHANGED fStrings

LimitReached == Len(fStrings) >= MaxInterpDepth

StartFString ==
  /\ AtToken /\ Prefixed("f")
  /\ IF LimitReached
     THEN Token("error", Start + 1, Start + 2) /\ UNCHANGED fStrings
     ELSE FString(Append(fStrings, [delim |-> Char(Start + 1), hasExpr |-> FALSE, openBraces |-> 0]),
                  Start + 1, Start + 2, TRUE)

(* Mutant: a point ends a number whatever follows.                         *)
FractionAny(i) == IF Char(i) = "." THEN After(i + 1, Digit) ELSE i
Fraction(i) == IF Char(i) = "." /\ Char(i + 1) \in Digit THEN After(i + 1, Digit) ELSE i

Number ==
  /\ AtToken /\ First \in Digit
  /\ Token("number", Start, IF First = "0" /\ Char(Start + 1) = "x" THEN After(Start + 2, Hex)
                            ELSE Fraction(After(Start, Digit)))
  /\ UNCHANGED fStrings

(* A brace closes an expression of the f-string being read when one brace  *)
(* is open; openBraces is a uint16_t.                                      *)
RightBrace ==
  /\ AtToken /\ First = "}"
  /\ IF fStrings = <<>> THEN Token("}", Start, Start + 1) /\ UNCHANGED fStrings
     ELSE IF Last(fStrings).openBraces = 1
     THEN FString(Append(Front(fStrings), [Last(fStrings) EXCEPT !.openBraces = 0]),
                  Start, Start + 1, FALSE)
     ELSE /\ Token("}", Start, Start + 1)
          /\ fStrings' = Append(Front(fStrings), [Last(fStrings) EXCEPT !.openBraces = (@ - 1) % 65536])

PlainString ==
  /\ AtToken /\ First \in Quotes
  /\ LET e == StringEnd(Start + 1, First, FALSE)
     IN Token(IF e.how = "error" THEN "error" ELSE "string", Start, e.at)
  /\ UNCHANGED fStrings

(* What may follow the first character of an operator, longest first.      *)
Single == {"(", ")", "{", "[", "]", ";", ","}
Operator ==
  /\ AtToken
  /\ LET c == First
         d == Char(Start + 1)
     IN \/ c \in Single /\ Token("op", Start, Start + 1)
        \/ c = ":" /\ Token("op", Start, Start + (IF d \in {":", "="} THEN 2 ELSE 1))
        \/ c = "." /\ Token("op", Start, Start + (IF d = "." /\ Char(Start + 2) = "." THEN 3
                                                  ELSE IF d = "." THEN 2 ELSE 1))
        \/ c \in {"-", "+", "/", "%", "*", "!", "=", "<", ">"}
             /\ Token("op", Start, Start + (IF d = "=" THEN 2 ELSE 1))
  /\ UNCHANGED fStrings

Unexpected ==
  /\ AtToken /\ First \in {"\\", "?"}
  /\ Token("error", Start, Start + 1)
  /\ UNCHANGED fStrings

Init ==
  /\ source \in Sources
  /\ current = 1
  /\ line = 1
  /\ \E n \in OpenAtStart :
       fStrings = [i \in 1..n |-> [delim |-> "\"", hasExpr |-> FALSE, openBraces |-> 0]]
  /\ tokens = <<>>

ScanToken ==
  \/ UnterminatedComment
  \/ EndOfFile
  \/ Identifier
  \/ RawString
  \/ StartFString
  \/ Number
  \/ RightBrace
  \/ PlainString
  \/ Operator
  \/ Unexpected

Spec == Init /\ [][ScanToken]_vars

-----------------------------------------------------------------------------
(* The lexical grammar, as texts.                                          *)

All(i, j, S) == i <= j /\ \A k \in i..j - 1 : Char(k) \in S
IsIdentifier(i, j) == j > i /\ Char(i) \in Alpha /\ All(i + 1, j, Alpha \cup Digit)
IsNumber(i, j) ==
  \/ j > i /\ All(i, j, Digit)
  \/ \E p \in i + 1..j - 2 : All(i, p, Digit) /\ Char(p) = "." /\ All(p + 1, j, Digit)
  \/ j >= i + 2 /\ Char(i) = "0" /\ Char(i + 1) = "x" /\ All(i + 2, j, Hex)
Operators == {"::", ":=", ":", "...", "..", ".", "-=", "-", "+=", "+", "/=", "/", "%=", "%", "*=",
              "*", "!=", "!", "==", "=", "<=", "<", ">=", ">"} \cup Single \cup {"}"}
IsOperator(i, j) == j \in i + 1..i + 3 /\ Text(i, j) \in Operators

(* Blanks, line comments and block comments, up to the first star and hash. *)
IsBlank[i \in 1..End, j \in 1..End] ==
  LET eol == {k \in i..j - 1 : Char(k) = "\n"}
      close == {k \in i + 1..j - 2 : Char(k) = "*" /\ Char(k + 1) = "#"}
  IN \/ i = j
     \/ i < j /\ Char(i) \in {" ", "\n"} /\ IsBlank[i + 1, j]
     \/ i < j /\ Char(i) = "#" /\ Char(i + 1) # "*"
          /\ IF eol = {} THEN j = End ELSE IsBlank[Min(eol), j]
     \/ i < j /\ Char(i) = "#" /\ Char(i + 1) = "*" /\ close # {} /\ IsBlank[Min(close) + 2, j]

NewLinesTo(i) == Cardinality({k \in 1..i - 1 : Char(k) = "\n"})
NoError == \A t \in Range(tokens) : t.type # "error"

-----------------------------------------------------------------------------
(* Properties.                                                             *)

(* An identifier, a number or an operator is the longest text at its place *)
(* that the lexical grammar admits (identifier, number, advanceIfMatch2).  *)
MaximalMunch ==
  \A t \in Range(tokens) :
    LET longer(P(_, _)) == P(t.from, t.to) /\ \A j \in t.to + 1..End : ~P(t.from, j)
    IN /\ t.type \in {"identifier", "keyword"} => longer(IsIdentifier)
       /\ t.type = "number" => longer(IsNumber)
       /\ t.type \in {"op", "}"} => longer(IsOperator)

(* Between two tokens there are only blanks and comments, or the letter    *)
(* before a raw string or an f-string, and a token bears the line it is on *)
(* (skipWhitespace).                                                       *)
Tiling ==
  \A k \in DOMAIN tokens :
    LET t == tokens[k]
        gap == IF k = 1 THEN 1 ELSE tokens[k - 1].to
        prefix == t.type \in {"string", "fstart"} /\ t.from > gap /\ Char(t.from - 1) \in {"f", "r"}
    IN NoError => /\ gap <= t.from
                  /\ IsBlank[gap, IF prefix THEN t.from - 1 ELSE t.from]
                  /\ t.line = 1 + NewLinesTo(t.to)

(* The pieces of f-strings nest: a middle or an end continues the last one *)
(* still open, an end has the quote that its start has, no bracket pair    *)
(* reaches over one of them, and the stack holds those that are open and   *)
(* never more than it has room for (fString, string, scanToken).           *)
Read(acc, t) ==
  LET top == Last(acc.open)
      in == acc.open # <<>>
  IN CASE t.type = "fstart" -> [acc EXCEPT !.open = Append(@, [quote |-> Char(t.from), braces |-> 0])]
       [] t.type = "fmiddle" -> [acc EXCEPT !.ok = @ /\ in /\ top.braces = 0]
       [] t.type = "fend" ->
            [open |-> IF in THEN Front(acc.open) ELSE <<>>,
             ok |-> acc.ok /\ in /\ top.braces = 0 /\ Char(t.to - 1) = top.quote]
       [] t.type = "op" /\ Char(t.from) = "{" /\ in ->
            [acc EXCEPT !.open[Len(acc.open)].braces = @ + 1]
       [] t.type = "}" /\ in ->
            [acc EXCEPT !.open[Len(acc.open)].braces = @ - 1, !.ok = @ /\ top.braces > 0]
       [] OTHER -> acc

FStringNesting ==
  LET r == FoldLeft(Read, [open |-> <<>>, ok |-> TRUE], tokens)
  IN /\ Len(fStrings) <= MaxInterpDepth
     /\ NoError => r.ok /\ [i \in DOMAIN fStrings |-> fStrings[i].delim] = [i \in DOMAIN r.open |-> r.open[i].quote]
=============================================================================
