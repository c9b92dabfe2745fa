---------------------------- MODULE AbstractMap ----------------------------
(***************************************************************************)
(* What a Table promises its users (globals, methods, fields, statics and  *)
(* modules are looked up in one): a map from keys to values.  A call that  *)
(* fails for lack of memory changes nothing.                               *)
(***************************************************************************)
CONSTANTS Key, Value, Missing

VARIABLE map

Init == map = [k \in Key |-> Missing]

Set(k, v) == map' = [map EXCEPT ![k] = v]

SetIfMissing(k, v) == map[k] = Missing /\ map' = [map EXCEPT ![k] = v]

Delete(k) == map' = [map EXCEPT ![k] = Missing]

Next ==
  \E k \in Key : Delete(k) \/ \E v \in Value : Set(k, v) \/ SetIfMissing(k, v)

Spec == Init /\ [][Next]_map
=============================================================================
