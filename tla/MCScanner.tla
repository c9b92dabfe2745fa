----------------------------- MODULE MCScanner ------------------------------
(* Sources for module Scanner.                                             *)
EXTENDS Scanner

Strings(S, n) == UNION {[1..k -> S] : k \in 0..n}
Flat(pieces) == FlattenSeq(pieces)
Combine(sketch) == FoldLeft(LAMBDA acc, alt : {p \o q : p \in acc, q \in alt}, {<<>>}, sketch)

F(q) == <<"f", q>>
DQ == "\""
SQ == "'"

(* Every sequence of few pieces of strings.                                *)
Pieces == {F(DQ), F(SQ), <<"r", DQ>>, <<DQ>>, <<SQ>>, <<"{">>, <<"}">>, <<"a">>, <<"\\", DQ>>}
Quoted == {Flat(p) : p \in Strings(Pieces, 5)}

(* f-strings inside f-strings, down to below the limit.                    *)
Inner == {<<"a">>, <<DQ, "}", DQ>>, F(SQ) \o <<SQ>>, F(SQ) \o <<"{", "b", "}", SQ>>,
          F(DQ) \o <<"a", "{", "f", SQ, "{", "1", "}", SQ, "}", "b", DQ>>}
Nested == Combine(<<{F(DQ), F(SQ)}, {<<>>, <<"a">>}, {<<"{">>}, Inner, {<<"}">>}, {<<>>, <<"a">>},
                    {<<>>, <<"{">> \o <<"b">> \o <<"}">>}, {<<DQ>>, <<SQ>>}, {<<>>, <<"}">>}>>)

(* ... and past it: the same f-string n times inside itself.               *)
Tower == {Flat([i \in 1..n |-> F(q) \o <<"{">>]) \o <<"1">> \o Flat([i \in 1..k |-> <<"}", q>>]) :
            q \in {DQ, SQ}, n \in 1..4, k \in 0..4}

(* Escapes.                                                                *)
Escaped == Combine(<<{<<DQ>>, F(DQ), F(SQ)}, {<<"\\", "u">>}, Strings({"4", "a", "x", DQ}, 4),
                     {<<>>, <<"\\", "n">>, <<"\\", "\\">>, <<"\\", "a">>, <<"\\">>}, {<<DQ>>}, {<<>>, <<"}">>}>>)

Lexemes == Strings({"0", "1", "x", "a", ".", "=", ":", "-", " "}, 4)
             \cup Strings({"i", "f", "n", "o", "r", "1", " "}, 4)

(* Comments without two stars in a row.                                    *)
Comments == {s \in Strings({"#", "*", "\n", "a", " "}, 6) :
               \A i \in 1..(Len(s) - 1) : s[i] # "*" \/ s[i + 1] # "*"}

(* Braces of a map in an interpolated expression are left out.             *)
Balanced(s) == ~\E i \in 1..(Len(s) - 1) : s[i] = "{" /\ s[i + 1] = "{"

MCSources == {s \in Quoted : Balanced(s)} \cup Nested \cup Tower \cup Escaped \cup Lexemes \cup Comments
=============================================================================
