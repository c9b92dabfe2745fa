----------------------------- MODULE MCClasses ------------------------------
(* Runs for module Classes.                                                *)
EXTENDS Classes

Ref(this, kind, n) == [this |-> this, kind |-> kind, name |-> n]
This(kind, n) == Ref(TRUE, kind, n)
Super(n) == Ref(FALSE, "call", n)
Plain(kind, n, p, refs) ==
  [k |-> kind, name |-> n, params |-> p, varargs |-> FALSE, refs |-> refs]
Field(n) == Plain("field", n, 0, <<>>)
Method(n, p, refs) == Plain("method", n, p, refs)
Abstract(n, p) == Plain("abstract", n, p, <<>>)
Variadic(mb) == [mb EXCEPT !.varargs = TRUE]   \* with ... behind its parameters
Interface(ms) == [kind |-> "interface", abstract |-> FALSE, members |-> ms]
Class(ms) == [kind |-> "class", abstract |-> FALSE, members |-> ms]
AbstractClass(ms) == [Class(ms) EXCEPT !.abstract = TRUE]

(* A method implements a declaration that has one parameter more: that is  *)
(* what the arities recorded by the code require.  The methods n have      *)
(* variable arguments, but for that of the class with a method super:k.    *)
Library == <<
  Interface(<<Abstract("m", 1)>>),
  Interface(<<Variadic(Abstract("n", 2))>>),
  Class(<<Field("x"), Method("m", 0, <<This("set", "x")>>),
          Variadic(Method("n", 1, <<This("get", "x"), This("call", "m")>>))>>),
  Class(<<Method("m", 0, <<>>), Method("k", 0, <<This("call", "m"), This("get", "m")>>)>>),
  Class(<<Field("y"), Method("m", 0, <<This("get", "y"), This("call", "y"), This("call", "n"), Super("m")>>),
          Variadic(Method("n", 1, <<Super("n"), This("set", "y"), This("call", "m")>>))>>),
  Class(<<Method("n", 1, <<This("call", "n"), Super("k")>>)>>),
  AbstractClass(<<Abstract("m", 1), Method("k", 0, <<This("call", "m")>>)>>),
  AbstractClass(<<Field("z"), Variadic(Abstract("n", 2)),
                  Method("m", 0, <<This("call", "n"), This("get", "z")>>)>>),
  Class(<<>>), Interface(<<>>)>>

Classes == {t \in DOMAIN Library : Library[t].kind = "class"}
Run(t, s, impl) == [t |-> t, super |-> s, impl |-> impl]
Interfaces == <<Run(1, 0, <<>>), Run(2, 0, <<>>)>>

(* Both interfaces, then three classes that extend each other.             *)
Three ==
  {Interfaces \o <<Run(a, 0, i), Run(b, s, j), Run(c, r, <<>>)>> :
     a \in Classes, b \in Classes, c \in Classes, s \in {0, 3}, r \in {3, 4},
     i \in {<<>>, <<1>>, <<1, 2>>}, j \in {<<>>, <<1, 2>>}}

(* No class redeclares a field of its superclasses or is abstract below an *)
(* abstract one, and a template that runs twice extends the same class.    *)
Supers(r, k) == IF r[k].super = 0 THEN {}
                ELSE {r[k].super} \cup ({r[r[k].super].super} \ {0})
FieldNames(t) == {mb.name : mb \in {m \in Range(Library[t].members) : m.k = "field"}}
Admissible(r) ==
  \A k \in 3..Len(r) :
    /\ \A s \in Supers(r, k) :
         /\ FieldNames(r[k].t) \cap FieldNames(r[s].t) = {}
         /\ Library[r[k].t].abstract => ~Library[r[s].t].abstract
         /\ r[k].t # r[s].t
    /\ \A j \in 3..(k - 1) : r[j].t = r[k].t => r[j].super = r[k].super

(* Six empty classes, more than a display of two holds, with interfaces.   *)
Deep ==
  {<<Run(10, 0, <<>>), Run(10, 0, <<>>)>>
     \o [k \in 1..6 |-> Run(9, IF k = 1 THEN 0 ELSE k + 1,
                            (IF k \in at[1] THEN <<1>> ELSE <<>>) \o (IF k \in at[2] THEN <<2>> ELSE <<>>))] :
     at \in (SUBSET {1, 2, 3}) \X (SUBSET {2, 4, 5})}

MCRuns == Deep \cup {r \in Three : Admissible(r)}
=============================================================================
