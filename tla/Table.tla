------------------------------- MODULE Table -------------------------------
(***************************************************************************)
(* The life of one Table of table.c: its entries array and its count under *)
(* tableSet, tableSetIfMissing and tableDelete, with allocations that may  *)
(* fail.  It implements AbstractMap.                                       *)
(***************************************************************************)
EXTENDS HashTable

CONSTANTS Key, Value,
          Hash  \* the multiplied hash of a key, see HashTable

ASSUME TableAssumption ==
  /\ Hash \in [Key -> 0 .. HashRange - 1]
  /\ NULL \notin Key \cup Value

VARIABLES entries, count

vars == <<entries, count>>

Init == entries = NoEntries /\ count = 0   \* initTable

(* The array and the count that an insertion works on: adjustCapacity      *)
(* counts the entries it moves.                                            *)
Grown ==
  IF NeedsGrow(count, CapacityOf(entries))
    THEN [e |-> Rehash(entries, Hash, GrowCapacity(CapacityOf(entries))),
          n |-> Cardinality(Occupied(entries))]
    ELSE [e |-> entries, n |-> count]

(* The array to grow into can be allocated: a capacity is an int, so that  *)
(* no array has more slots than there are hashes.                          *)
Fits ==
  NeedsGrow(count, CapacityOf(entries)) => GrowCapacity(CapacityOf(entries)) <= HashRange

Set(k, v) ==
  /\ Fits
  /\ entries' = Insert(Grown.e, Hash, k, v)
  /\ count' = IF Has(Grown.e, Hash, k) THEN Grown.n ELSE Grown.n + 1

(* An existing key keeps its value; the growth takes place all the same.   *)
SetIfMissing(k, v) ==
  /\ Fits
  /\ IF Has(Grown.e, Hash, k)
       THEN entries' = Grown.e /\ count' = Grown.n
       ELSE entries' = Insert(Grown.e, Hash, k, v) /\ count' = Grown.n + 1

(* Mutant of Delete: the count is not updated.                             *)
DeleteUncounted(k) ==
  /\ entries # NoEntries
  /\ entries' = DeleteKey(entries, Hash, k)
  /\ UNCHANGED count

Delete(k) ==
  /\ entries # NoEntries
  /\ entries' = DeleteKey(entries, Hash, k)
  /\ count' = IF Has(entries, Hash, k) THEN count - 1 ELSE count

(* tableSet raises OOM when the growth fails.                              *)
SetFails ==
  NeedsGrow(count, CapacityOf(entries)) /\ UNCHANGED vars

(* tableSetIfMissing goes on with the array it has when the growth fails,  *)
(* here until one slot is left: without one a probe for a missing key does *)
(* not end.  An array of capacity 0 would be a NULL pointer.               *)
SetIfMissingUngrown(k, v) ==
  /\ NeedsGrow(count, CapacityOf(entries)) /\ count + 1 < CapacityOf(entries)
  /\ ~Has(entries, Hash, k)
  /\ entries' = Insert(entries, Hash, k, v)
  /\ count' = count + 1

Next ==
  \/ \E k \in Key, v \in Value : Set(k, v) \/ SetIfMissing(k, v) \/ SetIfMissingUngrown(k, v)
  \/ \E k \in Key : Delete(k)
  \/ SetFails

Spec == Init /\ [][Next]_vars

-----------------------------------------------------------------------------
(* The array is a power of two of slots, and count is the number of stored *)
(* keys: it decides when the table grows and whether a lookup looks at all *)
(* (table.c:46, 85, 136; table.h:50).                                      *)
TypeOK ==
  /\ DOMAIN entries = 0 .. CapacityOf(entries) - 1
  /\ \A i \in DOMAIN entries :
        \/ entries[i] = EmptyEntry
        \/ entries[i].key \in Key /\ entries[i].value \in Value
  /\ count = Cardinality(Occupied(entries))

(* Every stored key is found where it is stored, whatever was inserted,    *)
(* deleted and moved before: a probe never stops early at a hole that a    *)
(* deletion left (table.c:123-147), so that no key is stored twice.        *)
Findable == \A i \in Occupied(entries) : FindEntry(entries, Hash, entries[i].key) = i

Missing == NULL
Map == INSTANCE AbstractMap
         WITH map <- [k \in Key |-> Get(entries, Hash, k)]

(* A lookup answers what a map would: growth, collision and shifting back  *)
(* are invisible.                                                          *)
ImplementsMap == Map!Spec
=============================================================================
