----------------------------- MODULE OrderedMap -----------------------------
(***************************************************************************)
(* What the Map of a program promises: its entries in the order in which   *)
(* their keys were put, whatever was removed between them, and an iterator *)
(* that returns each of them once and fails once a key has come or gone.   *)
(* The promise ends when next() is called with nothing left.               *)
(***************************************************************************)
EXTENDS Integers, Sequences

CONSTANTS Key, Value, Missing

VARIABLES
  map,   \* the entries in order, [key, value]
  iter,  \* how many entries the iterator has returned, or "none" or "stale"
  got    \* what the last call returned, Missing when it returns nothing

vars == <<map, iter, got>>

NoIter == -1
Stale == -2

Position(k) == {i \in DOMAIN map : map[i].key = k}
Invalidate == iter' = IF iter = NoIter THEN NoIter ELSE Stale

Without(i) == [j \in 1 .. Len(map) - 1 |-> map[IF j < i THEN j ELSE j + 1]]

Init == map = <<>> /\ iter = NoIter /\ got = Missing

PutNew(k, v) ==
  /\ Position(k) = {}
  /\ map' = Append(map, [key |-> k, value |-> v])
  /\ Invalidate /\ got' = Missing

PutOver(k, v) ==
  /\ \E i \in Position(k) : map' = [map EXCEPT ![i].value = v]
  /\ UNCHANGED iter /\ got' = Missing

(* Memory runs out: nothing is put, but iterators may stop.                *)
PutFails == Invalidate /\ got' = Missing /\ UNCHANGED map

Remove(k) ==
  IF Position(k) = {}
    THEN UNCHANGED <<map, iter>> /\ got' = Missing
    ELSE /\ \E i \in Position(k) : map' = Without(i)
         /\ Invalidate /\ got' = Missing

Get(k) ==
  /\ IF Position(k) = {} THEN got' = Missing
     ELSE \E i \in Position(k) : got' = map[i].value
  /\ UNCHANGED <<map, iter>>

Iterator == iter' = 0 /\ got' = Missing /\ UNCHANGED map

HasNext ==
  /\ iter # NoIter
  /\ \E b \in BOOLEAN : got' = [more |-> b] /\ (iter # Stale => b = (iter < Len(map)))
  /\ UNCHANGED <<map, iter>>

IterNext ==
  /\ iter \in 0 .. Len(map) - 1
  /\ got' = map[iter + 1] /\ iter' = iter + 1
  /\ UNCHANGED map

(* Memory runs out: the entry is not returned, nor ever will be.           *)
IterNextFails ==
  /\ iter \in 0 .. Len(map) - 1
  /\ got' = Missing /\ iter' = iter + 1
  /\ UNCHANGED map

IterRefuses == iter = Stale /\ got' = Missing /\ UNCHANGED <<map, iter>>

Next ==
  \/ \E k \in Key : Remove(k) \/ Get(k) \/ \E v \in Value : PutNew(k, v) \/ PutOver(k, v)
  \/ PutFails \/ Iterator \/ HasNext \/ IterNext \/ IterNextFails \/ IterRefuses

Spec == Init /\ [][Next]_vars
=============================================================================
