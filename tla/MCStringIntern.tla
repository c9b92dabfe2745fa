-------------------------- MODULE MCStringIntern --------------------------
(* Instances of the intern table for TLC.                                  *)
EXTENDS StringIntern

MCAddr == {"o1", "o2", "o3", "o4"}
MCText == {"x", "y", "z", "t"}

(* Three contents share the last slot of the table of capacity 4, their    *)
(* cluster wraps around to the slot of the fourth.                         *)
ClusteredHash == [t \in MCText |-> CASE t = "x" -> 14 [] t = "y" -> 15
                                     [] t = "z" -> 12 [] t = "t" -> 1]
=============================================================================
