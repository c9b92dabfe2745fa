----------------------------- MODULE MCMachine ------------------------------
(* Programs for module Machine: each sketch is a sequence of alternatives. *)
EXTENDS Machine

S(t, n) == [t |-> t, n |-> n, e |-> "nil", args |-> 0, params |-> <<>>, varargs |-> FALSE]
Local(n) == <<S("local", n)>>
SetTo(n) == <<S("assign", n)>>
Use(n) == <<S("expr", n)>>
Open == <<S("{", "")>>
Close == <<S("}", "")>>
Call(n, k) == <<[S("call", n) EXCEPT !.args = k]>>
Fun(t, n, ps, va) == <<[S(t, n) EXCEPT !.e = "fun", !.params = ps, !.varargs = va]>>
If == <<S("if", "")>>
Break == <<S("break", "")>>
Continue == <<S("continue", "")>>

Combine(sketch) == FoldLeft(LAMBDA acc, alt : {p \o q : p \in acc, q \in alt}, {<<>>}, sketch)

(* A closure made in a block, used in it and after it.                     *)
InBlock == Combine(<<
  {Local("f")}, {Open},
  {Local("x"), Local("y") \o Local("x"), Local("x") \o Local("y")},
  {Fun("assign", "f", ps, va) : ps \in {<<>>, <<"y">>}, va \in BOOLEAN},
  {<<>>, Local("x"), Local("z")},
  {Use("x"), SetTo("x"),
   Use("f") \o Use("x") \o Fun("local", "g", <<>>, FALSE) \o SetTo("x") \o Use("y") \o Close \o Call("g", 0) \o Use("x"),
   Open \o Local("y") \o Fun("local", "g", <<>>, FALSE) \o Use("y") \o SetTo("x") \o Close
     \o Close \o Use("x")},
  {Close},
  {<<>>, SetTo("x"), Fun("local", "h", <<>>, FALSE) \o SetTo("x") \o Close \o Call("h", 1)},
  {<<>>, Call("f", 1)}, {Use("x")}, {Close},
  {Call("f", 0), Call("f", 2) \o Call("f", 0)}>>)

(* Loops that make closures, and leave by break and continue.              *)
InLoop == Combine(<<
  {Local("f"), Local("f") \o Local("y")},
  {<<S("while", "")>>, <<S("for", "x")>>, <<S("foreach", "x")>>}, {Open},
  {<<>>, Local("y"), Local("x") \o Local("y")},
  {<<>>, If \o Break, If \o Open \o Local("z") \o Continue \o Close \o <<S("else", "")>> \o Use("f"),
   <<S("while", "")>> \o If \o Break \o <<S("else", "")>> \o Open \o Local("z") \o Break \o Close},
  {<<>>, Fun("assign", "f", <<>>, FALSE) \o SetTo("x") \o Close,
   Fun("assign", "f", <<>>, FALSE) \o SetTo("y") \o Close,
   Fun("assign", "f", <<>>, FALSE) \o If \o Break \o Close},
  {<<>>, If \o Break, SetTo("x"), SetTo("y")}, {Close}, {Use("f"), Call("f", 0)}>>)

(* A global function that calls itself, with closures over its locals.     *)
Recursive == Combine(<<
  {Fun("function", "r", <<"a">>, va) : va \in BOOLEAN},
  {Local("x"), Local("x") \o Local("y")},
  {<<>>, Fun("local", "g", <<>>, FALSE) \o SetTo("x") \o Use("a") \o Close,
   Fun("local", "g", <<>>, FALSE) \o SetTo("a") \o Close},
  {<<>>, If \o Call("r", 0), If \o Call("r", 2),
   <<S("while", "")>> \o If \o <<S("return", "x")>> \o <<S("else", "")>> \o Call("r", 1)},
  {<<>>, Call("g", 0)}, {Use("x") \o Use("a")}, {Close},
  {Local("x") \o Call("r", 1) \o Use("x"), Call("r", 3), Open \o Local("x") \o Call("r", 0) \o Close}>>)

MCPrograms == InBlock \cup InLoop \cup Recursive
=============================================================================
