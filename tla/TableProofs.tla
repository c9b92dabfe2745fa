---------------------------- MODULE TableProofs ----------------------------
(***************************************************************************)
(* A Table of table.c finds what it stores and answers as a map does, for  *)
(* every set of keys, every hash and every failing growth: theorems of     *)
(* Table.tla, from the lemmas of HashTableProofs.                          *)
(***************************************************************************)
EXTENDS Table, HashTableProofs

(* The inductive invariant: no array yet, or one in order whose number of  *)
(* entries is count and leaves a slot empty, so that every probe ends.     *)
InOrder(e, n) ==
  /\ Good(CapacityOf(e))
  /\ Sound(CapacityOf(e), Key, Value, Hash, e)
  /\ n = Cardinality(Occupied(e)) /\ n < CapacityOf(e)

IInv == (entries = NoEntries /\ count = 0) \/ InOrder(entries, count)

(* An array that a lookup may be made in.                                  *)
Usable(e) == e = NoEntries \/ \E n \in Nat : InOrder(e, n)

LEMMA HashesKeys == Hashes(Key, Hash)
  BY TableAssumption DEF Hashes

LEMMA NothingStored ==
  /\ DOMAIN NoEntries = {} /\ CapacityOf(NoEntries) = 0
  /\ Occupied(NoEntries) = {} /\ Content(NoEntries) = {}
<1>1. DOMAIN NoEntries = {}
  BY DEF NoEntries
<1>2. CapacityOf(NoEntries) = 0
  BY <1>1, FS_EmptySet DEF CapacityOf
<1> QED
  BY <1>1, <1>2 DEF Occupied, Content

LEMMA InOrderFacts ==
  ASSUME NEW e, NEW n, InOrder(e, n)
  PROVE  /\ Good(CapacityOf(e)) /\ Sound(CapacityOf(e), Key, Value, Hash, e)
         /\ HasEmpty(CapacityOf(e), e)
         /\ n \in Nat /\ IsFiniteSet(Occupied(e)) /\ n = Cardinality(Occupied(e))
         /\ n < CapacityOf(e)
<1>1. /\ Good(CapacityOf(e)) /\ Sound(CapacityOf(e), Key, Value, Hash, e)
      /\ n = Cardinality(Occupied(e)) /\ n < CapacityOf(e)
  BY DEF InOrder
<1>2. e \in Array(CapacityOf(e), Key, Value) /\ NULL \notin Key
  BY <1>1, TableAssumption DEF Sound
<1> QED
  BY <1>1, <1>2, RoomLeft

LEMMA IInvUsable == IInv => Usable(entries)
  BY InOrderFacts DEF IInv, Usable

LEMMA Stored ==
  ASSUME NEW e, Usable(e), NEW r \in Content(e)
  PROVE  Has(e, Hash, r.key) /\ Get(e, Hash, r.key) = r.value
<1>1. PICK n : InOrder(e, n)
  BY NothingStored DEF Usable
<1> QED
  BY <1>1, InOrderFacts, HashesKeys, GetPresent

LEMMA NotStored ==
  ASSUME NEW e, Usable(e), NEW k \in Key, Absent(e, k)
  PROVE  ~Has(e, Hash, k) /\ Get(e, Hash, k) = NULL
<1>1. CASE e = NoEntries
  BY <1>1, NothingStored DEF Has, Get
<1>2. CASE \E n \in Nat : InOrder(e, n)
  <2>1. PICK n : InOrder(e, n)
    BY <1>2
  <2> QED
    BY <2>1, InOrderFacts, HashesKeys, GetAbsent
<1> QED
  BY <1>1, <1>2 DEF Usable

(* Two arrays that store the same of a key give the same answer for it.    *)
LEMMA SameAnswer ==
  ASSUME NEW e, Usable(e), NEW f, Usable(f), NEW k \in Key,
         \A r \in Content(e) : r.key = k => r \in Content(f),
         \A r \in Content(f) : r.key = k => r \in Content(e)
  PROVE  Get(e, Hash, k) = Get(f, Hash, k)
<1>1. CASE Absent(e, k)
  <2>1. Absent(f, k)
    BY <1>1 DEF Absent
  <2> QED
    BY <1>1, <2>1, NotStored
<1>2. CASE ~Absent(e, k)
  <2>1. PICK r \in Content(e) : r.key = k
    BY <1>2 DEF Absent
  <2>2. r \in Content(f)
    BY <2>1
  <2> QED
    BY <2>1, <2>2, Stored
<1> QED
  BY <1>1, <1>2

-----------------------------------------------------------------------------
(* What an insertion works on: the array, grown or not, is in order, holds *)
(* what was there and has room for one more.                               *)
LEMMA GrownInOrder ==
  ASSUME IInv, Fits
  PROVE  /\ InOrder(Grown.e, Grown.n) /\ Grown.n + 1 < CapacityOf(Grown.e)
         /\ Content(Grown.e) = Content(entries)
<1> DEFINE c == CapacityOf(entries)
           d == GrowCapacity(c)
<1>1. CASE ~NeedsGrow(count, c)
  <2>1. Grown.e = entries /\ Grown.n = count
    BY <1>1 DEF Grown
  <2>2. InOrder(entries, count)
    BY <1>1, NothingStored DEF IInv, NeedsGrow
  <2>3. count \in Nat /\ c \in Nat
    BY <2>2, InOrderFacts DEF Good
  <2>4. count + 1 < c
    BY <1>1, <2>2, <2>3, InOrderFacts DEF NeedsGrow
  <2> QED
    BY <2>1, <2>2, <2>4
<1>2. CASE NeedsGrow(count, c)
  <2>1. Grown.e = Rehash(entries, Hash, d) /\ Grown.n = Cardinality(Occupied(entries))
    BY <1>2 DEF Grown
  <2>2. d <= HashRange
    BY <1>2 DEF Fits
  <2>3. CASE entries = NoEntries
    <3>1. d = MinCapacity
      BY <2>3, NothingStored, HashAssumption DEF GrowCapacity
    <3>2. Good(MinCapacity) /\ MinCapacity >= 2
      BY HashAssumption DEF Good
    <3>3. Grown.e = Blank(MinCapacity)
      BY <2>1, <2>3, <3>1, NothingStored, MovedDef DEF Rehash
    <3>4. Grown.n = 0
      BY <2>1, <2>3, NothingStored, FS_EmptySet
    <3>5. /\ Sound(MinCapacity, Key, Value, Hash, Grown.e)
          /\ Occupied(Grown.e) = {} /\ Content(Grown.e) = {}
      BY <3>2, <3>3, HashesKeys, BlankSound
    <3>6. DOMAIN Grown.e = 0 .. MinCapacity - 1 /\ MinCapacity \in Nat
      BY <3>2, <3>3 DEF Blank, Good
    <3>7. CapacityOf(Grown.e) = MinCapacity
      BY <3>6, Capacity
    <3> QED
      BY <2>3, <3>2, <3>4, <3>5, <3>6, <3>7, FS_EmptySet, NothingStored DEF InOrder
  <2>4. CASE InOrder(entries, count)
    <3>1. /\ Good(c) /\ Sound(c, Key, Value, Hash, entries) /\ c \in Nat \ {0}
          /\ count \in Nat /\ count = Cardinality(Occupied(entries)) /\ count < c
      BY <2>4, InOrderFacts DEF Good
    <3>2. Good(d) /\ c < d /\ d \in Nat
      <4>1. CASE c < MinCapacity
        BY <3>1, <4>1, HashAssumption DEF GrowCapacity, Good
      <4>2. CASE ~(c < MinCapacity)
        <5>1. d = 2 * c
          BY <4>2 DEF GrowCapacity
        <5>2. c \in 1 .. HashRange - 1 /\ HashRange % c = 0
          BY <2>2, <3>1, <5>1, HashAssumption DEF Good
        <5>3. HashRange % (2 * c) = 0
          BY <5>2, HashAssumption
        <5> QED
          BY <3>1, <5>1, <5>3 DEF Good
      <4> QED
        BY <4>1, <4>2
    <3> HIDE DEF c, d
    <3>3. /\ Sound(d, Key, Value, Hash, Grown.e) /\ Content(Grown.e) = Content(entries)
          /\ Cardinality(Occupied(Grown.e)) = Cardinality(Occupied(entries))
      BY <2>1, <3>1, <3>2, HashesKeys, RehashSound
    <3>4. CapacityOf(Grown.e) = d
      BY <3>2, <3>3, HashesKeys, ArrayType DEF Sound, Hashes
    <3> QED
      BY <2>1, <3>1, <3>2, <3>3, <3>4 DEF InOrder
  <2> QED
    BY <2>3, <2>4 DEF IInv
<1> QED
  BY <1>1, <1>2

(* InsertNew and InsertOld for these keys and values.                      *)
LEMMA InsertedNew ==
  ASSUME NEW c, Good(c), NEW e, Sound(c, Key, Value, Hash, e), HasEmpty(c, e),
         NEW k \in Key, NEW v \in Value, Absent(e, k),
         NEW new, new = Insert(e, Hash, k, v)
  PROVE  /\ Sound(c, Key, Value, Hash, new)
         /\ Content(new) = Content(e) \cup {[key |-> k, value |-> v]}
         /\ \E f \in 0 .. c - 1 : f \notin Occupied(e) /\ Occupied(new) = Occupied(e) \cup {f}
  BY HashesKeys, InsertNew

LEMMA InsertedOld ==
  ASSUME NEW c, Good(c), NEW e, Sound(c, Key, Value, Hash, e),
         NEW k \in Key, NEW v \in Value, NEW r \in Content(e), r.key = k,
         NEW new, new = Insert(e, Hash, k, v)
  PROVE  /\ Sound(c, Key, Value, Hash, new)
         /\ Content(new) = {q \in Content(e) : q.key # k} \cup {[key |-> k, value |-> v]}
         /\ Occupied(new) = Occupied(e)
  BY HashesKeys, InsertOld

(* The array after an insertion into e, which has room for one more, or    *)
(* holds the key already.                                                  *)
LEMMA InsertInOrder ==
  ASSUME NEW e, NEW n, InOrder(e, n), NEW k \in Key, NEW v \in Value,
         Has(e, Hash, k) \/ n + 1 < CapacityOf(e),
         NEW new, new = Insert(e, Hash, k, v)
  PROVE  /\ InOrder(new, IF Has(e, Hash, k) THEN n ELSE n + 1)
         /\ Content(new) = {q \in Content(e) : q.key # k} \cup {[key |-> k, value |-> v]}
<1> DEFINE c == CapacityOf(e)
<1>1. /\ Good(c) /\ Sound(c, Key, Value, Hash, e) /\ HasEmpty(c, e) /\ c \in Nat
      /\ n \in Nat /\ IsFiniteSet(Occupied(e)) /\ n = Cardinality(Occupied(e)) /\ n < c
      /\ Usable(e)
  BY InOrderFacts DEF Good, Usable
<1>2. \A f : Sound(c, Key, Value, Hash, f) => CapacityOf(f) = c
  BY <1>1, HashesKeys, ArrayType DEF Sound, Hashes
<1> HIDE DEF c
<1>3. CASE Absent(e, k)
  <2>1. ~Has(e, Hash, k)
    BY <1>1, <1>3, NotStored
  <2>2. /\ Sound(c, Key, Value, Hash, new)
        /\ Content(new) = Content(e) \cup {[key |-> k, value |-> v]}
        /\ \E f \in 0 .. c - 1 : f \notin Occupied(e) /\ Occupied(new) = Occupied(e) \cup {f}
    BY <1>1, <1>3, InsertedNew
  <2>3. Cardinality(Occupied(new)) = n + 1
    BY <1>1, <2>2, FS_AddElement
  <2>4. Content(e) = {q \in Content(e) : q.key # k}
    BY <1>3 DEF Absent
  <2>5. InOrder(new, n + 1)
    BY <1>1, <1>2, <2>1, <2>2, <2>3 DEF InOrder, c
  <2> QED
    BY <2>1, <2>2, <2>4, <2>5
<1>4. CASE ~Absent(e, k)
  <2>1. PICK r \in Content(e) : r.key = k
    BY <1>4 DEF Absent
  <2>2. Has(e, Hash, k)
    BY <1>1, <2>1, Stored
  <2>3. /\ Sound(c, Key, Value, Hash, new) /\ Occupied(new) = Occupied(e)
        /\ Content(new) = {q \in Content(e) : q.key # k} \cup {[key |-> k, value |-> v]}
    BY <1>1, <2>1, InsertedOld
  <2>4. InOrder(new, n)
    BY <1>1, <1>2, <2>3 DEF InOrder
  <2> QED
    BY <2>2, <2>3, <2>4
<1> QED
  BY <1>3, <1>4

LEMMA DeleteInOrder ==
  ASSUME NEW e, NEW n, InOrder(e, n), NEW k \in Key,
         NEW new, new = DeleteKey(e, Hash, k)
  PROVE  /\ InOrder(new, IF Has(e, Hash, k) THEN n - 1 ELSE n)
         /\ Content(new) = {q \in Content(e) : q.key # k}
<1> DEFINE c == CapacityOf(e)
<1>1. /\ Good(c) /\ Sound(c, Key, Value, Hash, e) /\ HasEmpty(c, e) /\ c \in Nat
      /\ n \in Nat /\ IsFiniteSet(Occupied(e)) /\ n = Cardinality(Occupied(e)) /\ n < c
      /\ Usable(e)
  BY InOrderFacts DEF Good, Usable
<1>2. \A f : Sound(c, Key, Value, Hash, f) => CapacityOf(f) = c
  BY <1>1, HashesKeys, ArrayType DEF Sound, Hashes
<1> HIDE DEF c
<1>3. CASE Absent(e, k)
  <2>1. ~Has(e, Hash, k) /\ new = e
    BY <1>1, <1>3, NotStored, HashesKeys, DeleteAbsent
  <2>2. Content(e) = {q \in Content(e) : q.key # k}
    BY <1>3 DEF Absent
  <2> QED
    BY <2>1, <2>2
<1>4. CASE ~Absent(e, k)
  <2>1. PICK r \in Content(e) : r.key = k
    BY <1>4 DEF Absent
  <2>2. Has(e, Hash, k)
    BY <1>1, <2>1, Stored
  <2>3. /\ Sound(c, Key, Value, Hash, new) /\ Content(new) = {q \in Content(e) : q.key # k}
        /\ \E f \in Occupied(e) : Occupied(new) = Occupied(e) \ {f}
    BY <1>1, <2>1, HashesKeys, DeletePresent
  <2>4. Cardinality(Occupied(new)) = n - 1
    BY <1>1, <2>3, FS_RemoveElement
  <2>5. InOrder(new, n - 1)
    BY <1>1, <1>2, <2>3, <2>4 DEF InOrder
  <2> QED
    BY <2>2, <2>3, <2>5
<1> QED
  BY <1>3, <1>4

(* What a lookup answers after an insertion and after a deletion.          *)
LEMMA AnswerInserted ==
  ASSUME NEW e, Usable(e), NEW f, Usable(f), NEW k \in Key, NEW v \in Value,
         Content(f) = {q \in Content(e) : q.key # k} \cup {[key |-> k, value |-> v]},
         NEW j \in Key
  PROVE  Get(f, Hash, j) = IF j = k THEN v ELSE Get(e, Hash, j)
<1>1. CASE j = k
  <2> DEFINE r == [key |-> k, value |-> v]
  <2>1. r \in Content(f) /\ r.key = k /\ r.value = v
    OBVIOUS
  <2> HIDE DEF r
  <2>2. Get(f, Hash, r.key) = r.value
    BY <2>1, Stored
  <2> QED
    BY <1>1, <2>1, <2>2
<1>2. CASE j # k
  <2>1. \A r \in Content(e) : r.key = j => r \in Content(f)
    BY <1>2
  <2>2. \A r \in Content(f) : r.key = j => r \in Content(e)
    BY <1>2
  <2> QED
    BY <1>2, <2>1, <2>2, SameAnswer
<1> QED
  BY <1>1, <1>2

LEMMA AnswerDeleted ==
  ASSUME NEW e, Usable(e), NEW f, Usable(f), NEW k \in Key,
         Content(f) = {q \in Content(e) : q.key # k},
         NEW j \in Key
  PROVE  Get(f, Hash, j) = IF j = k THEN NULL ELSE Get(e, Hash, j)
<1>1. CASE j = k
  <2>1. Absent(f, k)
    BY DEF Absent
  <2> QED
    BY <1>1, <2>1, NotStored
<1>2. CASE j # k
  <2>1. \A r \in Content(e) : r.key = j => r \in Content(f)
    BY <1>2
  <2>2. \A r \in Content(f) : r.key = j => r \in Content(e)
    BY <1>2
  <2> QED
    BY <1>2, <2>1, <2>2, SameAnswer
<1> QED
  BY <1>1, <1>2

-----------------------------------------------------------------------------
(* What each operation leaves, in the terms of the map: the invariant and  *)
(* the answers.                                                            *)
Answers(e) == [k \in Key |-> Get(e, Hash, k)]

LEMMA SetStep ==
  ASSUME IInv, NEW k \in Key, NEW v \in Value, Set(k, v)
  PROVE  InOrder(entries', count') /\ Answers(entries') = [Answers(entries) EXCEPT ![k] = v]
<1> DEFINE e == Grown.e
           n == Grown.n
<1>1. InOrder(e, n) /\ n + 1 < CapacityOf(e) /\ Content(e) = Content(entries)
  BY GrownInOrder DEF Set
<1>2. entries' = Insert(e, Hash, k, v) /\ count' = IF Has(e, Hash, k) THEN n ELSE n + 1
  BY DEF Set
<1> HIDE DEF e, n
<1>3. /\ InOrder(entries', count')
      /\ Content(entries') = {q \in Content(entries) : q.key # k} \cup {[key |-> k, value |-> v]}
  BY <1>1, <1>2, InsertInOrder
<1>4. Usable(entries) /\ Usable(entries')
  BY <1>3, IInvUsable, InOrderFacts DEF Usable
<1>5. \A j \in Key : Get(entries', Hash, j) = IF j = k THEN v ELSE Get(entries, Hash, j)
  BY <1>3, <1>4, AnswerInserted
<1> QED
  BY <1>3, <1>5 DEF Answers

LEMMA DeleteStep ==
  ASSUME IInv, NEW k \in Key, Delete(k)
  PROVE  InOrder(entries', count') /\ Answers(entries') = [Answers(entries) EXCEPT ![k] = NULL]
<1>1. InOrder(entries, count)
  BY DEF IInv, Delete
<1>2. /\ entries' = DeleteKey(entries, Hash, k)
      /\ count' = IF Has(entries, Hash, k) THEN count - 1 ELSE count
  BY DEF Delete
<1>3. InOrder(entries', count') /\ Content(entries') = {q \in Content(entries) : q.key # k}
  BY <1>1, <1>2, DeleteInOrder
<1>4. Usable(entries) /\ Usable(entries')
  BY <1>3, IInvUsable, InOrderFacts DEF Usable
<1>5. \A j \in Key : Get(entries', Hash, j) = IF j = k THEN NULL ELSE Get(entries, Hash, j)
  BY <1>3, <1>4, AnswerDeleted
<1> QED
  BY <1>3, <1>5 DEF Answers

LEMMA SetIfMissingStep ==
  ASSUME IInv, NEW k \in Key, NEW v \in Value, SetIfMissing(k, v)
  PROVE  /\ InOrder(entries', count')
         /\ \/ Answers(entries') = Answers(entries)
            \/ Answers(entries') = [Answers(entries) EXCEPT ![k] = v]
<1> DEFINE e == Grown.e
           n == Grown.n
<1>1. InOrder(e, n) /\ n + 1 < CapacityOf(e) /\ Content(e) = Content(entries)
  BY GrownInOrder DEF SetIfMissing
<1>2. CASE Has(e, Hash, k)
  <2>1. entries' = e /\ count' = n
    BY <1>2 DEF SetIfMissing
  <2>2. Usable(entries) /\ Usable(entries')
    BY <1>1, <2>1, IInvUsable, InOrderFacts DEF Usable
  <2>3. \A j \in Key : Get(entries', Hash, j) = Get(entries, Hash, j)
    BY <1>1, <2>1, <2>2, SameAnswer
  <2> QED
    BY <1>1, <2>1, <2>3 DEF Answers
<1>3. CASE ~Has(e, Hash, k)
  <2>1. Set(k, v)
    BY <1>3 DEF SetIfMissing, Set
  <2> QED
    BY <2>1, SetStep
<1> QED
  BY <1>2, <1>3

LEMMA UngrownStep ==
  ASSUME IInv, NEW k \in Key, NEW v \in Value, SetIfMissingUngrown(k, v)
  PROVE  InOrder(entries', count') /\ Answers(entries') = [Answers(entries) EXCEPT ![k] = v]
<1>1. /\ count + 1 < CapacityOf(entries) /\ ~Has(entries, Hash, k)
      /\ entries' = Insert(entries, Hash, k, v) /\ count' = count + 1
  BY DEF SetIfMissingUngrown
<1>2. InOrder(entries, count)
  BY <1>1, NothingStored DEF IInv
<1>3. /\ InOrder(entries', count')
      /\ Content(entries') = {q \in Content(entries) : q.key # k} \cup {[key |-> k, value |-> v]}
  BY <1>1, <1>2, InsertInOrder
<1>4. Usable(entries) /\ Usable(entries')
  BY <1>3, IInvUsable, InOrderFacts DEF Usable
<1>5. \A j \in Key : Get(entries', Hash, j) = IF j = k THEN v ELSE Get(entries, Hash, j)
  BY <1>3, <1>4, AnswerInserted
<1> QED
  BY <1>3, <1>5 DEF Answers

-----------------------------------------------------------------------------
(* The invariant is inductive.                                             *)
LEMMA InitIInv == Init => IInv
  BY DEF Init, IInv

LEMMA NextIInv == IInv /\ [Next]_vars => IInv'
<1> SUFFICES ASSUME IInv, [Next]_vars PROVE IInv'
  OBVIOUS
<1>1. ASSUME NEW k \in Key, NEW v \in Value, Set(k, v) PROVE IInv'
  BY <1>1, SetStep DEF IInv
<1>2. ASSUME NEW k \in Key, NEW v \in Value, SetIfMissing(k, v) PROVE IInv'
  BY <1>2, SetIfMissingStep DEF IInv
<1>3. ASSUME NEW k \in Key, NEW v \in Value, SetIfMissingUngrown(k, v) PROVE IInv'
  BY <1>3, UngrownStep DEF IInv
<1>4. ASSUME NEW k \in Key, Delete(k) PROVE IInv'
  BY <1>4, DeleteStep DEF IInv
<1>5. CASE UNCHANGED vars
  BY <1>5 DEF IInv, vars
<1> QED
  BY <1>1, <1>2, <1>3, <1>4, <1>5 DEF Next, SetFails

LEMMA IInvHolds == Spec => []IInv
<1> QED
  BY InitIInv, NextIInv, PTL DEF Spec

(* The array keeps its shape, and count is the number of stored keys: the  *)
(* test for growth (table.c:46, 85) and the early return of a lookup in an *)
(* empty table (table.h:50) rest on it.                                    *)
THEOREM TableTypes == Spec => []TypeOK
<1>1. IInv => TypeOK
  <2>1. CASE entries = NoEntries /\ count = 0
    BY <2>1, NothingStored, FS_EmptySet DEF TypeOK
  <2>2. CASE InOrder(entries, count)
    <3>1. /\ Good(CapacityOf(entries)) /\ count = Cardinality(Occupied(entries))
          /\ entries \in Array(CapacityOf(entries), Key, Value)
      BY <2>2 DEF InOrder, Sound
    <3> DEFINE c == CapacityOf(entries)
    <3> HIDE DEF c
    <3>2. Good(c) /\ entries \in Array(c, Key, Value) /\ NULL \notin Key
      BY <3>1, TableAssumption DEF c
    <3>3. /\ DOMAIN entries = 0 .. c - 1
          /\ \A i \in 0 .. c - 1 : i \notin Occupied(entries) => entries[i] = EmptyEntry
          /\ \A i \in Occupied(entries) : entries[i].key \in Key /\ entries[i].value \in Value
      <4>1. DOMAIN entries = 0 .. c - 1
        BY <3>2, ArrayType
      <4>2. \A i \in 0 .. c - 1 : i \notin Occupied(entries) => entries[i] = EmptyEntry
        BY <3>2, ArrayType
      <4>3. \A i \in Occupied(entries) : entries[i].key \in Key /\ entries[i].value \in Value
        BY <3>2, ArrayType
      <4> QED
        BY <4>1, <4>2, <4>3
    <3>4. /\ DOMAIN entries = 0 .. CapacityOf(entries) - 1
          /\ \A i \in DOMAIN entries : i \notin Occupied(entries) => entries[i] = EmptyEntry
          /\ \A i \in Occupied(entries) : entries[i].key \in Key /\ entries[i].value \in Value
      BY <3>3 DEF c
    <3> QED
      BY <3>1, <3>4 DEF TypeOK
  <2> QED
    BY <2>1, <2>2 DEF IInv
<1> QED
  BY <1>1, IInvHolds, PTL

(* Every stored key is found where it is stored, so that no key is stored  *)
(* twice: whatever holes deletions left and whatever growth moved, a probe *)
(* never stops early (table.c:15-28, 123-147).                             *)
THEOREM AlwaysFindable == Spec => []Findable
<1>1. IInv => Findable
  <2>1. CASE entries = NoEntries /\ count = 0
    BY <2>1, NothingStored DEF Findable
  <2>2. CASE InOrder(entries, count)
    BY <2>2, InOrderFacts, HashesKeys, FindPresent DEF Findable
  <2> QED
    BY <2>1, <2>2 DEF IInv
<1> QED
  BY <1>1, IInvHolds, PTL

(* A Table implements a map: each operation maps to the abstract operation *)
(* or to a stutter, for every hash function, every collision, every growth *)
(* and every growth that fails (table.c:30-156).                           *)
THEOREM Refinement == Spec => ImplementsMap
<1>1. Init => Map!Init
  <2> SUFFICES ASSUME Init PROVE Map!Init
    OBVIOUS
  <2>1. Content(entries) = {} /\ Usable(entries)
    BY NothingStored DEF Init, Usable
  <2>2. \A k \in Key : Get(entries, Hash, k) = NULL
    BY <2>1, NotStored DEF Absent
  <2> QED
    BY <2>2 DEF Map!Init, Missing
<1>2. IInv /\ [Next]_vars => [Map!Next]_(Answers(entries))
  <2> SUFFICES ASSUME IInv, [Next]_vars PROVE [Map!Next]_(Answers(entries))
    OBVIOUS
  <2>1. ASSUME NEW k \in Key, NEW v \in Value, Set(k, v) PROVE Map!Next
    BY <2>1, SetStep DEF Answers, Map!Next, Map!Set
  <2>2. ASSUME NEW k \in Key, NEW v \in Value, SetIfMissing(k, v)
        PROVE  [Map!Next]_(Answers(entries))
    BY <2>2, SetIfMissingStep DEF Answers, Map!Next, Map!Set
  <2>3. ASSUME NEW k \in Key, NEW v \in Value, SetIfMissingUngrown(k, v) PROVE Map!Next
    BY <2>3, UngrownStep DEF Answers, Map!Next, Map!Set
  <2>4. ASSUME NEW k \in Key, Delete(k) PROVE Map!Next
    BY <2>4, DeleteStep DEF Answers, Map!Next, Map!Delete, Missing
  <2>5. CASE UNCHANGED vars
    BY <2>5 DEF Answers, vars
  <2> QED
    BY <2>1, <2>2, <2>3, <2>4, <2>5 DEF Next, SetFails
<1> QED
  BY <1>1, <1>2, IInvHolds, PTL DEF Spec, ImplementsMap, Map!Spec, Answers
=============================================================================
