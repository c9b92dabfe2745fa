---------------------------- MODULE MCValueTable ----------------------------
(* An instance of the map of a program for TLC: three keys of one bucket,  *)
(* one of which parts from the others when the table grows.                *)
EXTENDS ValueTable, TLC

MCKey == {"a", "b", "c"}
MCHash == ("a" :> 0) @@ ("b" :> 1) @@ ("c" :> 3)
=============================================================================
