----------------------------- MODULE MCModules ------------------------------
(* Instances of the module system for TLC.                                 *)
EXTENDS Modules

def(name, value) == [k |-> "define", name |-> name, value |-> value, guarded |-> FALSE]
set(mod, name, value) ==
  [k |-> "set", mod |-> mod, name |-> name, value |-> value, guarded |-> TRUE]
get(mod, name) == [k |-> "get", mod |-> mod, name |-> name, guarded |-> TRUE]
throw(guarded) == [k |-> "throw", guarded |-> guarded]
imp(mod, syms, guarded) ==
  [k |-> "import", mod |-> mod, syms |-> syms, guarded |-> guarded]

source(id, body) == [k |-> "source", id |-> id, body |-> body]
absent(kind) == [k |-> kind, id |-> kind, body |-> <<>>]
native(id, syms, value) ==
  [k |-> "native", id |-> id, syms |-> syms, value |-> value, raises |-> FALSE]
failing(id, syms, value) == [native(id, syms, value) EXCEPT !.raises = TRUE]

Loader(name) == [loader |-> name, options |-> {}]
Builtin == [loader |-> "builtin", options |-> {"ENABLE_SYS"}]
(* eloxInitConfig *)
DefaultLoaders == <<Loader("file"), Loader("native"), Builtin>>

(* Programs: two modules that import each other or not, fail or not.       *)
Statements(mod, other) ==
  {def("x", IF mod = "a" THEN 1 ELSE 2), def("y", IF mod = "a" THEN 3 ELSE 4),
   imp(other, <<"x", "y">>, FALSE), imp(other, <<"y">>, TRUE),
   throw(FALSE), throw(TRUE), set(other, "x", 5), get(other, "y")}
BodiesOf(mod, other) == UNION {[1 .. n -> Statements(mod, other)] : n \in 0 .. 2}
Mains ==
  {<<imp("a", <<"x", "y">>, TRUE), imp("a", <<"x">>, FALSE), imp("b", <<"y", "x">>, TRUE)>>,
   <<imp("b", <<>>, FALSE), get("b", "x"), imp("c", <<"z">>, TRUE)>>,
   <<imp("c", <<"z">>, TRUE), imp("d", <<>>, TRUE), imp("d", <<>>, FALSE)>>,
   <<imp("e", <<"z">>, TRUE), imp("a", <<"y">>, TRUE), imp("e", <<"w", "z">>, FALSE)>>}

P == <<"p">>
Q == <<"q">>
ProgramWorld(a, b, main) ==
  [loaders |-> DefaultLoaders, path |-> P, nativePath |-> Q,
   files |-> (<<P, "a">> :> source("a", a)) @@ (<<P, "b">> :> source("b", b))
             @@ (<<P, "d">> :> [k |-> "uncompilable", id |-> "d", body |-> a]),
   libraries |-> (<<Q, "c">> :> native("c", <<"z">>, 9))
                @@ (<<Q, "e">> :> failing("e", <<"z">>, 8)),
   main |-> main]

(* Search paths: what they hold and where the module is.  No element ends  *)
(* in white space (README, 3).                                             *)
Chars == {"p", "q", Blank, Separator}
Paths == {s \in UNION {[1 .. n -> Chars] : n \in 0 .. 5} :
            \A i \in 1 .. Len(s) : s[i] = Blank => i < Len(s) /\ s[i + 1] # Separator}
Files(places) ==
  [p \in {<<l, "a">> : l \in places} |->
     CASE p[1] = P -> source("a in p", <<def("x", 1)>>)
       [] p[1] = Q -> source("a in q", <<def("x", 2)>>)
       [] OTHER -> absent("directory")]
PathMain == <<imp("a", <<"x">>, TRUE), imp("sys", <<"clock">>, TRUE)>>
PathWorlds ==
  {[loaders |-> DefaultLoaders, path |-> path, nativePath |-> P, files |-> Files(places),
    libraries |-> (<<P, "a">> :> native("library a", <<"x">>, 7)), main |-> PathMain] :
     path \in Paths, places \in {{P}, {Q}, {P, Q}, {<<"p", "p">>, Q}}}
LoaderWorlds ==
  {[loaders |-> loaders, path |-> Q, nativePath |-> P, files |-> Files({Q}),
    libraries |-> (<<P, "a">> :> native("library a", <<"x">>, 7))
                  @@ (<<P, "sys">> :> absent("broken")), main |-> PathMain] :
     loaders \in UNION {[1 .. n -> {Loader("file"), Loader("native"), Loader("builtin"), Builtin}]
                        : n \in 0 .. 3}}

MCWorlds ==
  {ProgramWorld(a, b, main) :
     a \in BodiesOf("a", "b"), b \in BodiesOf("b", "a"), main \in Mains}
  \cup PathWorlds \cup LoaderWorlds
=============================================================================
