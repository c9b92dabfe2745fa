----------------------------- MODULE HashTable -----------------------------
(***************************************************************************)
(* The open-addressing hash table of table.c as operators on its entries   *)
(* array: linear probing, Fibonacci hashing, deletion by shifting back.    *)
(* An entries array of capacity c is a function on 0 .. c - 1.             *)
(*                                                                         *)
(* h[k] stands for key->hash * 2654435769u, a number below HashRange       *)
(* (2^32 in the code, a small power of two here): the multiplication is a  *)
(* bijection on hashes, only the top bits of its result matter.            *)
(***************************************************************************)
EXTENDS Integers, FiniteSets

CONSTANTS NULL,        \* the NULL key and NIL_VAL
          HashRange,
          MinCapacity  \* first capacity of a growing array (8 in GROW_CAPACITY)

(* Both are powers of two, as every capacity is.                           *)
ASSUME HashAssumption ==
  /\ HashRange \in Nat /\ MinCapacity \in 2 .. HashRange
  /\ HashRange % MinCapacity = 0
  /\ \A c \in 1 .. HashRange - 1 : HashRange % c = 0 => HashRange % (2 * c) = 0

EmptyEntry == [key |-> NULL, value |-> NULL]
NoEntries == [i \in {} |-> EmptyEntry]

CapacityOf(e) == Cardinality(DOMAIN e)
Occupied(e) == {i \in DOMAIN e : e[i].key # NULL}

GrowCapacity(c) == IF c < MinCapacity THEN MinCapacity ELSE 2 * c

(* The test of tableSet: count + 1 > capacity * TABLE_MAX_LOAD.            *)
NeedsGrow(count, cap) == 4 * (count + 1) > 3 * cap

(* (hash * 2654435769u) >> shift                                           *)
IndexFor(hash, cap) == hash \div (HashRange \div cap)

(* The slot that a probe from the natural slot of hash stops at: the first *)
(* one that is empty or holds one of the keys wanted.  The code loops for  *)
(* ever when there is none.                                                *)
ProbeStop(e, hash, wanted) ==
  LET cap == CapacityOf(e)
      At(n) == (IndexFor(hash, cap) + n) % cap
      Stops(n) == e[At(n)].key = NULL \/ e[At(n)].key \in wanted
  IN At(CHOOSE n \in 0 .. cap - 1 : Stops(n) /\ \A m \in 0 .. n - 1 : ~Stops(m))

FindEntry(e, h, k) == ProbeStop(e, h[k], {k})

Has(e, h, k) == DOMAIN e # {} /\ e[FindEntry(e, h, k)].key = k

(* tableGet                                                                *)
Get(e, h, k) == IF Has(e, h, k) THEN e[FindEntry(e, h, k)].value ELSE NULL

(* The end of tableSet, and of adjustCapacity for one entry.               *)
Insert(e, h, k, v) == [e EXCEPT ![FindEntry(e, h, k)] = [key |-> k, value |-> v]]

(* adjustCapacity: the entries move, slot by slot, to a larger array.      *)
Move(e, h, new, i) ==
  IF e[i].key = NULL THEN new ELSE Insert(new, h, e[i].key, e[i].value)

Blank(cap) == [i \in 0 .. cap - 1 |-> EmptyEntry]

Moved(e, h, newCap) ==
  LET new[n \in 0 .. CapacityOf(e)] ==
        IF n = 0 THEN Blank(newCap)
                 ELSE Move(e, h, new[n - 1], n - 1)
  IN new

Rehash(e, h, newCap) == Moved(e, h, newCap)[CapacityOf(e)]

(* Mutant of Distance: the arguments swapped.                              *)
DistanceBack(cap, i, j) == IF i >= j THEN i - j ELSE cap + i - j

(* MODULO_DISTANCE                                                         *)
Distance(cap, i, j) == IF j >= i THEN j - i ELSE cap + j - i

(* Mutant of DeleteAt: the slot is simply emptied.                         *)
DeleteAtClears(e, h, slot) == [e EXCEPT ![slot] = EmptyEntry]

(* tableDelete once the key is found at slot: every later entry of the     *)
(* cluster that may sit nearer to its natural slot moves back.  s.hole is  *)
(* the slot to fill or to empty, next the n-th slot after the first hole.  *)
Shift(h, slot, s, n) ==
  LET cap == CapacityOf(s.e)
      next == (slot + n) % cap
      natural == IndexFor(h[s.e[next].key], cap)
  IN IF s.done THEN s
     ELSE IF s.e[next].key = NULL
       THEN [e |-> [s.e EXCEPT ![s.hole] = EmptyEntry], hole |-> s.hole, done |-> TRUE]
     ELSE IF Distance(cap, natural, s.hole) < Distance(cap, natural, next)
       THEN [e |-> [s.e EXCEPT ![s.hole] = s.e[next]], hole |-> next, done |-> FALSE]
     ELSE s

Shifted(e, h, slot) ==
  LET s[n \in 0 .. CapacityOf(e)] ==
        IF n = 0 THEN [e |-> e, hole |-> slot, done |-> FALSE]
                 ELSE Shift(h, slot, s[n - 1], n)
  IN s

DeleteAt(e, h, slot) == Shifted(e, h, slot)[CapacityOf(e)].e

DeleteKey(e, h, k) ==
  IF Has(e, h, k) THEN DeleteAt(e, h, FindEntry(e, h, k)) ELSE e

(* tableRemoveWhite: slot by slot, the key found there is deleted when it  *)
(* is not marked; the entry that deletion moves into the slot is not       *)
(* looked at again.                                                        *)
RemoveAt(e, h, white, i) ==
  IF e[i].key \in white THEN DeleteKey(e, h, e[i].key) ELSE e

Swept(e, h, white) ==
  LET s[n \in 0 .. CapacityOf(e)] ==
        IF n = 0 THEN e ELSE RemoveAt(s[n - 1], h, white, n - 1)
  IN s

RemoveWhite(e, h, white) == Swept(e, h, white)[CapacityOf(e)]
=============================================================================
