------------------------------ MODULE MCTable ------------------------------
(* Instances of the hash table for TLC.                                    *)
EXTENDS Table

(* Five keys share the last two slots of a small table, so that clusters   *)
(* wrap around its end; two live where the wrapped ones land.              *)
MCKeys == 1 .. 7
MCHash == <<14, 15, 12, 15, 1, 14, 0>>
MCValues == {101, 102}

(* Bound: only one key is given the second value.                          *)
OneChanges == \A i \in Occupied(entries) : entries[i].value = 102 => entries[i].key = 1
=============================================================================
