---------------------------- MODULE MCExpansion -----------------------------
(* Argument lists and functions for TLC.                                   *)
EXTENDS Expansion, TLC

CONSTANTS v1, v2, t0, t2, src, main, fixed, variadic

MCElements == (t0 :> <<>>) @@ (t2 :> <<v1, v2>>) @@ (src :> <<v1, t2, v2>>)

MCShape ==
  (main :> [arity |-> 0, variadic |-> FALSE, defaults |-> <<>>])
  @@ (fixed :> [arity |-> 2, variadic |-> FALSE, defaults |-> <<Nil, v2>>])
  @@ (variadic :> [arity |-> 1, variadic |-> TRUE, defaults |-> <<v1>>])

A(kind, of, index) == [kind |-> kind, of |-> of, index |-> index]

V == A("value", v2, 0)
P == A("param", Nil, 1)
Extra == A("vararg", Nil, 2)
All == A("varargs", Nil, 0)
X(e) == A("expand", e, 0)

MCLists ==
  {<<>>, <<V>>, <<P, All>>, <<All, Extra>>, <<All, X(t0), V>>, <<All, V, All>>,
   <<X(src), P>>, <<X(t2), V, X(src)>>, <<V, X(v1), X(src), All>>, <<X(src), X(src), V, V>>}

MCTargets == {<<1>>, <<2, 1>>}
=============================================================================
