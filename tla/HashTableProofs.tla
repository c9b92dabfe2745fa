-------------------------- MODULE HashTableProofs --------------------------
(***************************************************************************)
(* What the operations of table.c do to an entries array, for every        *)
(* capacity, every set of keys and every hash: the lemmas that TableProofs *)
(* rests on.  The argument is the classical one for linear probing: every  *)
(* slot between the natural slot of an entry and the entry is occupied.    *)
(***************************************************************************)
EXTENDS HashTable, FiniteSetTheorems, NaturalsInduction, WellFoundedInduction, TLAPS

(* Induction over the naturals for a set of them.                          *)

(* The least element of a set.                                             *)
LEMMA NatMin ==
  ASSUME NEW T, T \subseteq Nat, T # {}
  PROVE  \E x \in T : \A y \in T : x <= y
<1>1. PICK x \in T : \A y \in T : ~(<<y, x>> \in OpToRel(<, Nat))
  BY NatLessThanWellFounded, WFMin
<1>2. ASSUME NEW y \in T, y < x PROVE FALSE
  <2>1. <<y, x>> \in Nat \X Nat
    OBVIOUS
  <2>2. <<y, x>> \in OpToRel(<, Nat)
    BY <2>1, <1>2 DEF OpToRel
  <2> QED
    BY <2>2, <1>1
<1>3. \A y \in T : x <= y
  BY <1>2
<1> QED
  BY <1>3

(* A set that holds 0 and every successor of its elements holds them all.  *)
LEMMA NatInd ==
  ASSUME NEW S, 0 \in S, \A n \in Nat : n \in S => n + 1 \in S
  PROVE  Nat \subseteq S
<1> DEFINE T == Nat \ S
<1>1. SUFFICES ASSUME T # {} PROVE FALSE
  OBVIOUS
<1>2. PICK x \in T : \A y \in T : x <= y
  BY <1>1, NatMin
<1>3. x # 0 /\ x - 1 \in Nat /\ x - 1 \notin T
  BY <1>2
<1> QED
  BY <1>3

-----------------------------------------------------------------------------

(* The arrays of capacity c, with keys of K and values of V.               *)
Array(c, K, V) == [0 .. c - 1 -> {EmptyEntry} \cup [key : K, value : V]]

(* A capacity the table may have.                                          *)
Good(c) == c \in Nat \ {0} /\ HashRange % c = 0

(* The natural slot of the entry at i.                                     *)
Home(c, h, e, i) == IndexFor(h[e[i].key], c)

(* The entries at S are reached by a probe: nothing on the way is empty.   *)
Placed(c, h, e, S) ==
  \A i \in S : \A j \in 0 .. c - 1 :
     Distance(c, Home(c, h, e, i), j) < Distance(c, Home(c, h, e, i), i)
       => e[j].key # NULL

Unique(e, S) == \A i, j \in S : e[i].key = e[j].key => i = j

HasEmpty(c, e) == \E i \in 0 .. c - 1 : e[i].key = NULL

-----------------------------------------------------------------------------
(* Numbers: the ring of slots.                                             *)
LEMMA Wrap ==
  ASSUME NEW c \in Nat \ {0}, NEW a \in 0 .. 2 * c - 1
  PROVE  a % c = IF a < c THEN a ELSE a - c
  OBVIOUS

LEMMA Ring ==
  ASSUME NEW c \in Nat \ {0}, NEW s \in 0 .. c - 1
  PROVE  /\ \A n \in 0 .. c : (s + n) % c = IF s + n < c THEN s + n ELSE s + n - c
         /\ \A n \in 0 .. c - 1 : /\ (s + n) % c \in 0 .. c - 1
                                  /\ Distance(c, s, (s + n) % c) = n
         /\ \A j \in 0 .. c - 1 : /\ Distance(c, s, j) \in 0 .. c - 1
                                  /\ (s + Distance(c, s, j)) % c = j
<1>1. ASSUME NEW n \in 0 .. c
      PROVE  (s + n) % c = IF s + n < c THEN s + n ELSE s + n - c
  <2> DEFINE a == s + n
  <2>1. a \in 0 .. 2 * c - 1
    OBVIOUS
  <2> HIDE DEF a
  <2>2. a % c = IF a < c THEN a ELSE a - c
    BY <2>1, Wrap
  <2> QED
    BY <2>2 DEF a
<1>2. \A n \in 0 .. c : (s + n) % c = IF s + n < c THEN s + n ELSE s + n - c
  BY <1>1
<1>3. \A n \in 0 .. c - 1 : /\ (s + n) % c \in 0 .. c - 1
                            /\ Distance(c, s, (s + n) % c) = n
  BY <1>2 DEF Distance
<1>4. \A j \in 0 .. c - 1 : Distance(c, s, j) \in 0 .. c - 1
  BY DEF Distance
<1>5. \A j \in 0 .. c - 1 : (s + Distance(c, s, j)) % c = j
  BY <1>2, <1>4 DEF Distance
<1> QED
  BY <1>2, <1>3, <1>4, <1>5

LEMMA DivBound ==
  ASSUME NEW x \in Nat, NEW q \in Nat \ {0}, NEW c \in Nat, x < q * c
  PROVE  x \div q \in Nat /\ x \div q < c
  OBVIOUS

LEMMA DivRest ==
  ASSUME NEW a \in Nat, NEW c \in Nat \ {0}
  PROVE  a = (a \div c) * c + (a % c)
  OBVIOUS

LEMMA DivExact ==
  ASSUME NEW a \in Nat, NEW c \in Nat \ {0}, a % c = 0
  PROVE  a \div c \in Nat /\ a = (a \div c) * c
  BY DivRest

LEMMA IndexRange ==
  ASSUME NEW c, Good(c), NEW x \in 0 .. HashRange - 1
  PROVE  IndexFor(x, c) \in 0 .. c - 1
<1> DEFINE q == HashRange \div c
<1>1. HashRange \in Nat /\ HashRange > 0
  BY HashAssumption
<1>2. q \in Nat /\ HashRange = q * c
  BY <1>1, DivExact DEF Good
<1>3. q # 0
  BY <1>1, <1>2 DEF Good
<1> HIDE DEF q
<1>4. x \div q \in Nat /\ x \div q < c
  BY <1>1, <1>2, <1>3, DivBound DEF Good
<1> QED
  BY <1>4 DEF IndexFor, q, Good

LEMMA Capacity ==
  ASSUME NEW c \in Nat, NEW e, DOMAIN e = 0 .. c - 1
  PROVE  CapacityOf(e) = c
  BY FS_Interval DEF CapacityOf

-----------------------------------------------------------------------------
(* Probing.                                                                *)
LEMMA ProbeFinds ==
  ASSUME NEW c, Good(c), NEW e, DOMAIN e = 0 .. c - 1,
         NEW x \in 0 .. HashRange - 1, NEW wanted, NEW t \in 0 .. c - 1,
         e[t].key = NULL \/ e[t].key \in wanted,
         \A j \in 0 .. c - 1 :
            Distance(c, IndexFor(x, c), j) < Distance(c, IndexFor(x, c), t)
              => e[j].key # NULL /\ e[j].key \notin wanted
  PROVE  ProbeStop(e, x, wanted) = t
<1> DEFINE s == IndexFor(x, c)
           At(n) == (s + n) % c
           Stops(n) == e[At(n)].key = NULL \/ e[At(n)].key \in wanted
           First(n) == Stops(n) /\ \A m \in 0 .. n - 1 : ~Stops(m)
           d == Distance(c, s, t)
           n0 == CHOOSE n \in 0 .. c - 1 : First(n)
<1>1. s \in 0 .. c - 1 /\ c \in Nat \ {0}
  BY IndexRange DEF Good
<1>2. /\ d \in 0 .. c - 1 /\ At(d) = t
      /\ \A n \in 0 .. c - 1 : At(n) \in 0 .. c - 1 /\ Distance(c, s, At(n)) = n
  BY <1>1, Ring
<1>3. \A m \in 0 .. c - 1 : m < d => ~Stops(m)
  BY <1>2
<1>4. Stops(d)
  BY <1>2
<1>5. First(d)
  <2> HIDE DEF Stops, d
  <2> QED  BY <1>1, <1>2, <1>3, <1>4
<1>6. \A n \in 0 .. c - 1 : First(n) => n = d
  <2> HIDE DEF Stops, d
  <2> QED  BY <1>2, <1>3, <1>4
<1>7. n0 = d
  <2> HIDE DEF First, d
  <2> QED  BY <1>2, <1>5, <1>6
<1>8. ProbeStop(e, x, wanted) = At(n0)
  BY <1>1, Capacity DEF ProbeStop
<1> QED
  BY <1>2, <1>7, <1>8

LEMMA Nearest ==
  ASSUME NEW c \in Nat \ {0}, NEW s \in 0 .. c - 1,
         NEW T \in SUBSET (0 .. c - 1), T # {}
  PROVE  \E t \in T : \A j \in 0 .. c - 1 :
            Distance(c, s, j) < Distance(c, s, t) => j \notin T
<1> DEFINE N == {n \in 0 .. c - 1 : (s + n) % c \in T}
<1>1. PICK j \in T : TRUE
  OBVIOUS
<1>2. Distance(c, s, j) \in N
  BY Ring
<1>3. N \subseteq Nat /\ N # {}
  BY <1>2
<1>4. PICK n \in N : \A m \in N : n <= m
  BY <1>3, NatMin
<1> DEFINE t == (s + n) % c
<1>5. n \in 0 .. c - 1 /\ t \in T /\ Distance(c, s, t) = n
  BY Ring
<1>6. \A i \in T : Distance(c, s, i) \in N
  BY Ring
<1>7. \A i \in 0 .. c - 1 : Distance(c, s, i) \in 0 .. c - 1
  BY Ring
<1> HIDE DEF t
<1>8. \A i \in 0 .. c - 1 : Distance(c, s, i) < Distance(c, s, t) => i \notin T
  <2> HIDE DEF N
  <2> QED
    BY <1>4, <1>5, <1>6, <1>7
<1> QED
  BY <1>5, <1>8

-----------------------------------------------------------------------------
(* Arrays that are in order.                                               *)
Hashes(K, h) == NULL \notin K /\ \A k \in K : h[k] \in 0 .. HashRange - 1

Sound(c, K, V, h, e) ==
  /\ e \in Array(c, K, V)
  /\ Placed(c, h, e, Occupied(e))
  /\ Unique(e, Occupied(e))

(* What an array stores, whatever the slots.                               *)
Content(e) == {e[i] : i \in Occupied(e)}

Absent(e, k) == \A r \in Content(e) : r.key # k

(* The first empty slot for a hash.                                        *)
FirstHole(c, e, x, f) ==
  /\ f \in 0 .. c - 1 /\ e[f].key = NULL
  /\ \A j \in 0 .. c - 1 :
        Distance(c, IndexFor(x, c), j) < Distance(c, IndexFor(x, c), f)
          => e[j].key # NULL

LEMMA ArrayType ==
  ASSUME NEW c, Good(c), NEW K, NEW V, NULL \notin K, NEW e \in Array(c, K, V)
  PROVE  /\ DOMAIN e = 0 .. c - 1 /\ CapacityOf(e) = c
         /\ Occupied(e) \subseteq 0 .. c - 1
         /\ \A i \in 0 .. c - 1 : i \notin Occupied(e) => e[i] = EmptyEntry
         /\ \A i \in Occupied(e) : /\ e[i].key \in K /\ e[i].value \in V
                                   /\ e[i] = [key |-> e[i].key, value |-> e[i].value]
<1>1. DOMAIN e = 0 .. c - 1
  BY DEF Array
<1>2. CapacityOf(e) = c
  BY <1>1, Capacity DEF Good
<1>3. \A i \in 0 .. c - 1 : e[i] \in {EmptyEntry} \cup [key : K, value : V]
  BY DEF Array
<1>4. EmptyEntry.key = NULL
  BY DEF EmptyEntry
<1> QED
  BY <1>1, <1>2, <1>3, <1>4 DEF Occupied

LEMMA FindPresent ==
  ASSUME NEW c, Good(c), NEW K, NEW V, NEW h, Hashes(K, h),
         NEW e, Sound(c, K, V, h, e), NEW i \in Occupied(e)
  PROVE  FindEntry(e, h, e[i].key) = i
<1>1. /\ DOMAIN e = 0 .. c - 1 /\ i \in 0 .. c - 1 /\ e[i].key \in K
      /\ Occupied(e) \subseteq 0 .. c - 1
  BY ArrayType DEF Sound, Hashes
<1> DEFINE k == e[i].key
<1>2. h[k] \in 0 .. HashRange - 1
  BY <1>1 DEF Hashes
<1>3. ASSUME NEW j \in 0 .. c - 1,
             Distance(c, IndexFor(h[k], c), j) < Distance(c, IndexFor(h[k], c), i)
      PROVE  e[j].key # NULL /\ e[j].key \notin {k}
  <2>1. e[j].key # NULL
    BY <1>3 DEF Sound, Placed, Home
  <2>2. j # i
    <3>1. IndexFor(h[k], c) \in 0 .. c - 1
      BY <1>2, IndexRange
    <3>2. Distance(c, IndexFor(h[k], c), i) \in 0 .. c - 1
      BY <1>1, <3>1, Ring DEF Good
    <3> QED  BY <1>3, <3>2
  <2>3. j \in Occupied(e)
    BY <1>1, <2>1 DEF Occupied
  <2> QED
    BY <2>1, <2>2, <2>3 DEF Sound, Unique
<1>4. ProbeStop(e, h[k], {k}) = i
  <2> HIDE DEF k
  <2>1. e[i].key \in {k}
    BY DEF k
  <2> QED
    BY <1>1, <1>2, <1>3, <2>1, ProbeFinds
<1> QED
  BY <1>4 DEF FindEntry

LEMMA FindAbsent ==
  ASSUME NEW c, Good(c), NEW K, NEW V, NEW h, Hashes(K, h),
         NEW e, Sound(c, K, V, h, e), HasEmpty(c, e),
         NEW k \in K, Absent(e, k)
  PROVE  FirstHole(c, e, h[k], FindEntry(e, h, k))
<1>1. DOMAIN e = 0 .. c - 1 /\ h[k] \in 0 .. HashRange - 1
  BY ArrayType DEF Sound, Hashes
<1> DEFINE s == IndexFor(h[k], c)
           T == {i \in 0 .. c - 1 : e[i].key = NULL}
<1>2. s \in 0 .. c - 1 /\ c \in Nat \ {0} /\ T # {}
  BY <1>1, IndexRange DEF Good, HasEmpty
<1>3. PICK t \in T : \A j \in 0 .. c - 1 :
                        Distance(c, s, j) < Distance(c, s, t) => j \notin T
  <2> HIDE DEF s, T
  <2>1. T \in SUBSET (0 .. c - 1)
    BY DEF T
  <2> QED
    BY <1>2, <2>1, Nearest
<1>4. t \in 0 .. c - 1 /\ e[t].key = NULL
  OBVIOUS
<1>5. \A j \in 0 .. c - 1 : Distance(c, s, j) < Distance(c, s, t)
                              => e[j].key # NULL /\ e[j].key \notin {k}
  BY <1>1, <1>3 DEF Occupied, Absent, Content
<1>6. ProbeStop(e, h[k], {k}) = t
  BY <1>1, <1>4, <1>5, ProbeFinds
<1> QED
  BY <1>4, <1>5, <1>6 DEF FindEntry, FirstHole

(* tableGet answers from the content.                                      *)
LEMMA GetPresent ==
  ASSUME NEW c, Good(c), NEW K, NEW V, NEW h, Hashes(K, h),
         NEW e, Sound(c, K, V, h, e), NEW r \in Content(e)
  PROVE  Has(e, h, r.key) /\ Get(e, h, r.key) = r.value
<1>1. PICK i \in Occupied(e) : r = e[i]
  BY DEF Content
<1>2. FindEntry(e, h, r.key) = i
  BY <1>1, FindPresent
<1>3. i \in DOMAIN e
  BY DEF Occupied
<1> QED
  BY <1>1, <1>2, <1>3 DEF Has, Get

LEMMA GetAbsent ==
  ASSUME NEW c, Good(c), NEW K, NEW V, NEW h, Hashes(K, h),
         NEW e, Sound(c, K, V, h, e), HasEmpty(c, e),
         NEW k \in K, Absent(e, k)
  PROVE  ~Has(e, h, k) /\ Get(e, h, k) = NULL
<1>1. FirstHole(c, e, h[k], FindEntry(e, h, k))
  BY FindAbsent
<1>2. e[FindEntry(e, h, k)].key = NULL
  BY <1>1 DEF FirstHole
<1>3. k # NULL
  BY DEF Hashes
<1> QED
  BY <1>2, <1>3 DEF Has, Get

(* An insertion.                                                           *)
LEMMA InsertNew ==
  ASSUME NEW c, Good(c), NEW K, NEW V, NEW h, Hashes(K, h),
         NEW e, Sound(c, K, V, h, e), HasEmpty(c, e),
         NEW k \in K, NEW v \in V, Absent(e, k),
         NEW new, new = Insert(e, h, k, v)
  PROVE  /\ Sound(c, K, V, h, new)
         /\ Content(new) = Content(e) \cup {[key |-> k, value |-> v]}
         /\ \E f \in 0 .. c - 1 : f \notin Occupied(e) /\ Occupied(new) = Occupied(e) \cup {f}
<1> DEFINE f == FindEntry(e, h, k)
           r0 == [key |-> k, value |-> v]
<1>1. \A i \in Occupied(e) : e[i].key # k
  BY DEF Absent, Content
<1>2. /\ f \in 0 .. c - 1 /\ e[f].key = NULL
      /\ \A j \in 0 .. c - 1 :
            Distance(c, IndexFor(h[k], c), j) < Distance(c, IndexFor(h[k], c), f)
              => e[j].key # NULL
  <2>1. FirstHole(c, e, h[k], f)
    BY FindAbsent
  <2> QED
    BY <2>1 DEF FirstHole
<1>3. /\ e \in Array(c, K, V) /\ DOMAIN e = 0 .. c - 1 /\ k # NULL
      /\ Occupied(e) \subseteq 0 .. c - 1
  BY ArrayType DEF Sound, Hashes
<1> HIDE DEF f
<1>4. new = [e EXCEPT ![f] = r0]
  BY DEF Insert, f
<1>5. new \in Array(c, K, V)
  <2>1. r0 \in {EmptyEntry} \cup [key : K, value : V]
    OBVIOUS
  <2> HIDE DEF r0
  <2> QED
    BY <1>3, <1>4, <2>1 DEF Array
<1>6. /\ DOMAIN new = 0 .. c - 1 /\ new[f] = r0 /\ r0.key = k
      /\ \A i \in 0 .. c - 1 : i # f => new[i] = e[i]
  BY <1>2, <1>3, <1>4
<1> HIDE DEF r0
<1>7. f \notin Occupied(e) /\ Occupied(new) = Occupied(e) \cup {f}
  BY <1>2, <1>3, <1>6 DEF Occupied
<1>8. Content(new) = Content(e) \cup {r0}
  BY <1>3, <1>6, <1>7 DEF Content
<1>9. Unique(new, Occupied(new))
  BY <1>1, <1>3, <1>6, <1>7 DEF Sound, Unique
<1>10. Placed(c, h, new, Occupied(new))
  <2>1. \A j \in 0 .. c - 1 : e[j].key # NULL => new[j].key # NULL
    BY <1>2, <1>6
  <2>2. ASSUME NEW i \in Occupied(new), NEW j \in 0 .. c - 1,
               Distance(c, Home(c, h, new, i), j) < Distance(c, Home(c, h, new, i), i)
        PROVE  new[j].key # NULL
    <3>1. CASE i = f
      <4>1. Home(c, h, new, i) = IndexFor(h[k], c)
        BY <1>6, <3>1 DEF Home
      <4> QED
        BY <1>2, <2>1, <2>2, <3>1, <4>1
    <3>2. CASE i \in Occupied(e)
      <4>1. Home(c, h, new, i) = Home(c, h, e, i)
        BY <1>3, <1>6, <1>7, <3>2 DEF Home
      <4> QED
        BY <2>1, <2>2, <3>2, <4>1 DEF Sound, Placed
    <3> QED
      BY <1>7, <3>1, <3>2
  <2> QED
    BY <2>2 DEF Placed
<1>11. Sound(c, K, V, h, new)
  BY <1>5, <1>9, <1>10 DEF Sound
<1> QED
  BY <1>2, <1>7, <1>8, <1>11 DEF r0

LEMMA InsertOld ==
  ASSUME NEW c, Good(c), NEW K, NEW V, NEW h, Hashes(K, h),
         NEW e, Sound(c, K, V, h, e),
         NEW k \in K, NEW v \in V, NEW r \in Content(e), r.key = k,
         NEW new, new = Insert(e, h, k, v)
  PROVE  /\ Sound(c, K, V, h, new)
         /\ Content(new) = {q \in Content(e) : q.key # k} \cup {[key |-> k, value |-> v]}
         /\ Occupied(new) = Occupied(e)
<1> DEFINE r0 == [key |-> k, value |-> v]
<1>1. PICK f \in Occupied(e) : r = e[f]
  BY DEF Content
<1>2. FindEntry(e, h, k) = f
  BY <1>1, FindPresent
<1>3. /\ e \in Array(c, K, V) /\ DOMAIN e = 0 .. c - 1 /\ k # NULL
      /\ Occupied(e) \subseteq 0 .. c - 1
  BY ArrayType DEF Sound, Hashes
<1>4. new = [e EXCEPT ![f] = r0]
  BY <1>2 DEF Insert
<1>5. new \in Array(c, K, V)
  <2>1. r0 \in {EmptyEntry} \cup [key : K, value : V]
    OBVIOUS
  <2> HIDE DEF r0
  <2> QED
    BY <1>3, <1>4, <2>1 DEF Array
<1>6. /\ DOMAIN new = 0 .. c - 1 /\ new[f] = r0 /\ r0.key = k
      /\ \A i \in 0 .. c - 1 : i # f => new[i] = e[i]
  BY <1>3, <1>4
<1> HIDE DEF r0
<1>7. Occupied(new) = Occupied(e) /\ \A i \in 0 .. c - 1 : new[i].key = e[i].key
  BY <1>1, <1>3, <1>6 DEF Occupied
<1>8. \A i \in Occupied(e) : e[i].key = k => i = f
  BY <1>1 DEF Sound, Unique
<1>9. Content(new) = {q \in Content(e) : q.key # k} \cup {r0}
  BY <1>1, <1>3, <1>6, <1>7, <1>8 DEF Content
<1>10. Unique(new, Occupied(new))
  BY <1>3, <1>7 DEF Sound, Unique
<1>11. Placed(c, h, new, Occupied(new))
  BY <1>3, <1>7 DEF Sound, Placed, Home
<1> QED
  BY <1>5, <1>7, <1>9, <1>10, <1>11 DEF Sound, r0

LEMMA SlotCount ==
  ASSUME NEW c \in Nat
  PROVE  IsFiniteSet(0 .. c - 1) /\ Cardinality(0 .. c - 1) = c
<1>1. /\ IsFiniteSet(0 .. c - 1)
      /\ Cardinality(0 .. c - 1) = IF 0 > c - 1 THEN 0 ELSE (c - 1) - 0 + 1
  BY FS_Interval
<1> QED
  BY <1>1

(* An array with fewer entries than slots has an empty slot.               *)
LEMMA RoomLeft ==
  ASSUME NEW c, Good(c), NEW K, NEW V, NULL \notin K, NEW e \in Array(c, K, V)
  PROVE  /\ IsFiniteSet(Occupied(e))
         /\ Cardinality(Occupied(e)) \in Nat /\ Cardinality(Occupied(e)) <= c
         /\ Cardinality(Occupied(e)) < c => HasEmpty(c, e)
<1>1. DOMAIN e = 0 .. c - 1 /\ Occupied(e) \in SUBSET (0 .. c - 1)
  BY ArrayType
<1>2. IsFiniteSet(0 .. c - 1) /\ Cardinality(0 .. c - 1) = c
  BY SlotCount DEF Good
<1>3. IsFiniteSet(Occupied(e)) /\ Cardinality(Occupied(e)) <= c
  BY <1>1, <1>2, FS_Subset
<1>4. Cardinality(Occupied(e)) \in Nat
  BY <1>3, FS_CardinalityType
<1>5. ~HasEmpty(c, e) => Occupied(e) = 0 .. c - 1
  BY <1>1 DEF HasEmpty, Occupied
<1> QED
  BY <1>2, <1>3, <1>4, <1>5 DEF Good

-----------------------------------------------------------------------------
(* Growth.                                                                 *)
LEMMA MovedDef ==
  ASSUME NEW e, NEW h, NEW d, CapacityOf(e) \in Nat
  PROVE  /\ Moved(e, h, d)[0] = Blank(d)
         /\ \A n \in 0 .. CapacityOf(e) - 1 :
              Moved(e, h, d)[n + 1] = Move(e, h, Moved(e, h, d)[n], n)
<1> DEFINE c == CapacityOf(e)
           new == Moved(e, h, d)
<1>1. FiniteNatInductiveDefHypothesis(new, Blank(d), LAMBDA v, n : Move(e, h, v, n - 1), 0, c)
  BY DEF FiniteNatInductiveDefHypothesis, Moved
<1> HIDE DEF new, c
<1>2. FiniteNatInductiveDefConclusion(new, Blank(d), LAMBDA v, n : Move(e, h, v, n - 1), 0, c)
  BY <1>1, FiniteNatInductiveDef DEF c
<1>3. new = [n \in 0 .. c |-> IF n = 0 THEN Blank(d) ELSE Move(e, h, new[n - 1], n - 1)]
  BY <1>2 DEF FiniteNatInductiveDefConclusion
<1>4. c \in Nat
  BY DEF c
<1>5. new[0] = Blank(d)
  BY <1>3, <1>4
<1>6. \A m \in 1 .. c : new[m] = Move(e, h, new[m - 1], m - 1)
  BY <1>3, <1>4
<1>7. ASSUME NEW n \in 0 .. c - 1 PROVE new[n + 1] = Move(e, h, new[n], n)
  <2>1. n + 1 \in 1 .. c /\ (n + 1) - 1 = n
    BY <1>4
  <2> QED
    BY <1>6, <2>1
<1> QED
  BY <1>5, <1>7 DEF new, c

LEMMA BlankSound ==
  ASSUME NEW d, Good(d), NEW K, NEW V, NEW h, Hashes(K, h),
         NEW e, e = Blank(d)
  PROVE  Sound(d, K, V, h, e) /\ Occupied(e) = {} /\ Content(e) = {}
<1>1. \A i \in 0 .. d - 1 : e[i] = EmptyEntry /\ e[i].key = NULL
  BY DEF Blank, EmptyEntry
<1>2. Occupied(e) = {}
  BY <1>1 DEF Blank, Occupied
<1>3. e \in Array(d, K, V)
  BY DEF Array, Blank
<1> QED
  BY <1>2, <1>3 DEF Sound, Placed, Unique, Content

(* What the first n slots of an array store.                               *)
Upto(e, n) == {i \in Occupied(e) : i < n}

MovedInv(c, d, K, V, h, e, n) ==
  LET new == Moved(e, h, d)[n] IN
  /\ Sound(d, K, V, h, new)
  /\ Content(new) = {e[i] : i \in Upto(e, n)}
  /\ Cardinality(Occupied(new)) = Cardinality(Upto(e, n))

LEMMA MovedStep ==
  ASSUME NEW c, Good(c), NEW d, Good(d), c < d,
         NEW K, NEW V, NEW h, Hashes(K, h), NEW e, Sound(c, K, V, h, e),
         NEW n \in 0 .. c - 1, MovedInv(c, d, K, V, h, e, n)
  PROVE  MovedInv(c, d, K, V, h, e, n + 1)
<1> DEFINE old == Moved(e, h, d)[n]
           new == Moved(e, h, d)[n + 1]
<1>0. c \in Nat /\ d \in Nat /\ NULL \notin K /\ n \in Nat
  BY DEF Good, Hashes
<1>1. /\ DOMAIN e = 0 .. c - 1 /\ CapacityOf(e) = c
      /\ Occupied(e) \subseteq 0 .. c - 1
      /\ \A i \in Occupied(e) : /\ e[i].key \in K /\ e[i].value \in V
                                /\ e[i] = [key |-> e[i].key, value |-> e[i].value]
  BY <1>0, ArrayType DEF Sound
<1>2. new = Move(e, h, old, n)
  BY <1>0, <1>1, MovedDef
<1>3. /\ Sound(d, K, V, h, old) /\ Content(old) = {e[i] : i \in Upto(e, n)}
      /\ Cardinality(Occupied(old)) = Cardinality(Upto(e, n))
  BY DEF MovedInv
<1> HIDE DEF old, new
<1>4. IsFiniteSet(Upto(e, n)) /\ Cardinality(Upto(e, n)) \in Nat /\ Cardinality(Upto(e, n)) <= c
  <2>1. IsFiniteSet(0 .. c - 1) /\ Cardinality(0 .. c - 1) = c
    BY <1>0, SlotCount
  <2>2. Upto(e, n) \in SUBSET (0 .. c - 1)
    BY <1>1 DEF Upto
  <2> QED
    BY <2>1, <2>2, FS_Subset, FS_CardinalityType
<1>5. CASE e[n].key = NULL
  <2>1. new = old
    BY <1>2, <1>5 DEF Move
  <2>2. Upto(e, n + 1) = Upto(e, n)
    BY <1>0, <1>1, <1>5 DEF Upto, Occupied
  <2> QED
    BY <1>3, <2>1, <2>2 DEF MovedInv, new
<1>6. CASE e[n].key # NULL
  <2>1. new = Insert(old, h, e[n].key, e[n].value)
    BY <1>2, <1>6 DEF Move
  <2>2. /\ n \in Occupied(e) /\ n \notin Upto(e, n)
        /\ Upto(e, n + 1) = Upto(e, n) \cup {n}
    BY <1>0, <1>1, <1>6 DEF Upto, Occupied
  <2>3. e[n].key \in K /\ e[n].value \in V
    BY <1>1, <2>2
  <2>4. Absent(old, e[n].key)
    BY <1>3, <2>2 DEF Absent, Upto, Sound, Unique
  <2>5. HasEmpty(d, old)
    <3>1. Cardinality(Occupied(old)) < d
      BY <1>0, <1>3, <1>4
    <3>2. old \in Array(d, K, V)
      BY <1>3 DEF Sound
    <3> QED
      BY <1>0, <3>1, <3>2, RoomLeft
  <2>6. /\ Sound(d, K, V, h, new)
        /\ Content(new) = Content(old) \cup {[key |-> e[n].key, value |-> e[n].value]}
        /\ \E f \in 0 .. d - 1 : f \notin Occupied(old) /\ Occupied(new) = Occupied(old) \cup {f}
    <3> DEFINE k == e[n].key
               v == e[n].value
    <3> HIDE DEF k, v
    <3>1. k \in K /\ v \in V /\ Absent(old, k) /\ new = Insert(old, h, k, v)
      BY <2>1, <2>3, <2>4 DEF k, v
    <3>2. /\ Sound(d, K, V, h, new)
          /\ Content(new) = Content(old) \cup {[key |-> k, value |-> v]}
          /\ \E f \in 0 .. d - 1 : f \notin Occupied(old) /\ Occupied(new) = Occupied(old) \cup {f}
      BY <1>3, <2>5, <3>1, InsertNew
    <3> QED
      BY <3>2 DEF k, v
  <2>7. Content(new) = {e[i] : i \in Upto(e, n + 1)}
    BY <1>1, <1>3, <2>2, <2>6
  <2>8. Cardinality(Occupied(new)) = Cardinality(Upto(e, n + 1))
    <3>1. PICK f : f \notin Occupied(old) /\ Occupied(new) = Occupied(old) \cup {f}
      BY <2>6
    <3>2. IsFiniteSet(Occupied(old))
      BY <1>0, <1>3, RoomLeft DEF Sound
    <3>3. Cardinality(Occupied(new)) = Cardinality(Occupied(old)) + 1
      BY <3>1, <3>2, FS_AddElement
    <3>4. Cardinality(Upto(e, n + 1)) = Cardinality(Upto(e, n)) + 1
      BY <1>4, <2>2, FS_AddElement
    <3> QED
      BY <1>3, <3>3, <3>4
  <2> QED
    BY <2>6, <2>7, <2>8 DEF MovedInv, new
<1> QED
  BY <1>5, <1>6

(* A larger array holds what the old one held, each entry once.            *)
LEMMA RehashSound ==
  ASSUME NEW c, Good(c), NEW d, Good(d), c < d,
         NEW K, NEW V, NEW h, Hashes(K, h), NEW e, Sound(c, K, V, h, e),
         NEW new, new = Rehash(e, h, d)
  PROVE  /\ Sound(d, K, V, h, new) /\ Content(new) = Content(e)
         /\ Cardinality(Occupied(new)) = Cardinality(Occupied(e))
<1>1. /\ c \in Nat /\ d \in Nat /\ NULL \notin K /\ CapacityOf(e) = c
      /\ Occupied(e) \subseteq 0 .. c - 1
  BY ArrayType DEF Good, Hashes, Sound
<1> DEFINE S == {n \in Nat : n <= c => MovedInv(c, d, K, V, h, e, n)}
<1>2. 0 \in S
  <2> DEFINE m == Moved(e, h, d)[0]
  <2>1. m = Blank(d)
    BY <1>1, MovedDef
  <2> HIDE DEF m
  <2>2. Sound(d, K, V, h, m) /\ Occupied(m) = {} /\ Content(m) = {}
    BY <2>1, BlankSound
  <2>3. Upto(e, 0) = {}
    BY <1>1 DEF Upto
  <2> QED
    BY <2>2, <2>3 DEF MovedInv, m
<1>3. ASSUME NEW n \in Nat, n \in S PROVE n + 1 \in S
  <2>1. ASSUME n + 1 <= c PROVE MovedInv(c, d, K, V, h, e, n + 1)
    <3>1. n \in 0 .. c - 1 /\ MovedInv(c, d, K, V, h, e, n)
      BY <1>1, <1>3, <2>1
    <3> QED
      BY <3>1, MovedStep
  <2> QED
    BY <2>1
<1>4. c \in S
  <2> HIDE DEF S
  <2> QED
    BY <1>1, <1>2, <1>3, NatInd
<1>5. MovedInv(c, d, K, V, h, e, c)
  BY <1>1, <1>4
<1>6. Upto(e, c) = Occupied(e)
  BY <1>1 DEF Upto
<1> QED
  BY <1>1, <1>5, <1>6 DEF MovedInv, Content, Rehash

-----------------------------------------------------------------------------
(* Deletion.  On the ring, what lies between the hole and the next slot as *)
(* seen from a natural slot lies there as seen from the first hole.        *)
LEMMA RingBetween ==
  ASSUME NEW c \in Nat \ {0}, NEW slot \in 0 .. c - 1, NEW home \in 0 .. c - 1,
         NEW hole \in 0 .. c - 1, NEW i \in 0 .. c - 1, NEW next \in 0 .. c - 1,
         Distance(c, home, hole) < Distance(c, home, i),
         Distance(c, home, i) < Distance(c, home, next),
         Distance(c, slot, hole) < Distance(c, slot, next)
  PROVE  /\ Distance(c, slot, hole) < Distance(c, slot, i)
         /\ Distance(c, slot, i) < Distance(c, slot, next)
  BY DEF Distance

LEMMA ShiftedDef ==
  ASSUME NEW e, NEW h, NEW slot, CapacityOf(e) \in Nat
  PROVE  /\ Shifted(e, h, slot)[0] = [e |-> e, hole |-> slot, done |-> FALSE]
         /\ \A n \in 0 .. CapacityOf(e) - 1 :
              Shifted(e, h, slot)[n + 1] = Shift(h, slot, Shifted(e, h, slot)[n], n + 1)
<1> DEFINE c == CapacityOf(e)
           s == Shifted(e, h, slot)
           s0 == [e |-> e, hole |-> slot, done |-> FALSE]
<1>1. FiniteNatInductiveDefHypothesis(s, s0, LAMBDA v, n : Shift(h, slot, v, n), 0, c)
  BY DEF FiniteNatInductiveDefHypothesis, Shifted
<1> HIDE DEF s, s0, c
<1>2. FiniteNatInductiveDefConclusion(s, s0, LAMBDA v, n : Shift(h, slot, v, n), 0, c)
  BY <1>1, FiniteNatInductiveDef DEF c
<1>3. s = [n \in 0 .. c |-> IF n = 0 THEN s0 ELSE Shift(h, slot, s[n - 1], n)]
  BY <1>2 DEF FiniteNatInductiveDefConclusion
<1>4. c \in Nat
  BY DEF c
<1>5. s[0] = s0
  BY <1>3, <1>4
<1>6. \A m \in 1 .. c : s[m] = Shift(h, slot, s[m - 1], m)
  BY <1>3, <1>4
<1>7. ASSUME NEW n \in 0 .. c - 1 PROVE s[n + 1] = Shift(h, slot, s[n], n + 1)
  <2>1. n + 1 \in 1 .. c /\ (n + 1) - 1 = n
    BY <1>4
  <2> QED
    BY <1>6, <2>1
<1> QED
  BY <1>5, <1>7 DEF s, c, s0

(* The loop of tableDelete after n slots: the entry at the hole has moved  *)
(* (or is the deleted one), the others are in order, the slots up to the   *)
(* n-th are occupied and what lies beyond the hole may not move into it.   *)
Shifting(c, K, V, h, e, slot, s, n) ==
  /\ s.done = FALSE
  /\ s.e \in Array(c, K, V)
  /\ Occupied(s.e) = Occupied(e) /\ s.hole \in Occupied(e)
  /\ {s.e[i] : i \in Occupied(e) \ {s.hole}} = Content(e) \ {e[slot]}
  /\ Placed(c, h, s.e, Occupied(e) \ {s.hole})
  /\ Unique(s.e, Occupied(e) \ {s.hole})
  /\ Distance(c, slot, s.hole) <= n
  /\ \A j \in 0 .. c - 1 : Distance(c, slot, j) <= n => j \in Occupied(e)
  /\ \A j \in 0 .. c - 1 :
        Distance(c, slot, s.hole) < Distance(c, slot, j) /\ Distance(c, slot, j) <= n
          => ~(Distance(c, Home(c, h, s.e, j), s.hole) < Distance(c, Home(c, h, s.e, j), j))

Settled(c, K, V, h, e, slot, s) ==
  /\ s.done = TRUE
  /\ Sound(c, K, V, h, s.e)
  /\ Content(s.e) = Content(e) \ {e[slot]}
  /\ \E f \in Occupied(e) : Occupied(s.e) = Occupied(e) \ {f}

(* The slot after those seen is not the first hole again.                  *)
LEMMA NextSlot ==
  ASSUME NEW c, Good(c), NEW K, NEW V, NEW h, NEW e, e \in Array(c, K, V), NULL \notin K,
         HasEmpty(c, e), NEW slot \in Occupied(e), NEW s, NEW n \in Nat,
         Shifting(c, K, V, h, e, slot, s, n)
  PROVE  /\ n + 1 < c
         /\ (slot + (n + 1)) % c \in 0 .. c - 1
         /\ Distance(c, slot, (slot + (n + 1)) % c) = n + 1
<1>1. c \in Nat \ {0} /\ slot \in 0 .. c - 1
  BY ArrayType DEF Good
<1>2. PICK j \in 0 .. c - 1 : e[j].key = NULL
  BY DEF HasEmpty
<1>3. j \notin Occupied(e)
  BY <1>2 DEF Occupied
<1>4. Distance(c, slot, j) \in 0 .. c - 1 /\ ~(Distance(c, slot, j) <= n)
  <2>1. Distance(c, slot, j) \in 0 .. c - 1
    BY <1>1, Ring
  <2>2. \A i \in 0 .. c - 1 : Distance(c, slot, i) <= n => i \in Occupied(e)
    BY DEF Shifting
  <2> QED
    BY <1>3, <2>1, <2>2
<1> DEFINE m == n + 1
<1>5. m \in 0 .. c - 1 /\ m < c
  BY <1>1, <1>4
<1> HIDE DEF m
<1>6. (slot + m) % c \in 0 .. c - 1 /\ Distance(c, slot, (slot + m) % c) = m
  BY <1>1, <1>5, Ring
<1> QED
  BY <1>5, <1>6 DEF m

LEMMA ShiftStep ==
  ASSUME NEW c, Good(c), NEW K, NEW V, NEW h, Hashes(K, h),
         NEW e, e \in Array(c, K, V), HasEmpty(c, e),
         NEW slot \in Occupied(e), NEW n \in Nat,
         NEW s, Shifting(c, K, V, h, e, slot, s, n),
         NEW t, t = Shift(h, slot, s, n + 1)
  PROVE  Shifting(c, K, V, h, e, slot, t, n + 1) \/ Settled(c, K, V, h, e, slot, t)
<1> DEFINE next == (slot + (n + 1)) % c
           home == IndexFor(h[s.e[next].key], c)
           Occ == Occupied(e)
<1>0. c \in Nat \ {0} /\ NULL \notin K
  BY DEF Good, Hashes
<1>1. /\ n + 1 < c /\ next \in 0 .. c - 1 /\ Distance(c, slot, next) = n + 1
  BY <1>0, NextSlot
<1>2. /\ s.done = FALSE /\ s.e \in Array(c, K, V) /\ Occupied(s.e) = Occ
      /\ s.hole \in Occ /\ Distance(c, slot, s.hole) <= n
  BY DEF Shifting
<1>3. {s.e[i] : i \in Occ \ {s.hole}} = Content(e) \ {e[slot]}
  BY DEF Shifting
<1>4. Placed(c, h, s.e, Occ \ {s.hole}) /\ Unique(s.e, Occ \ {s.hole})
  BY DEF Shifting
<1>5. \A j \in 0 .. c - 1 : Distance(c, slot, j) <= n => j \in Occ
  BY DEF Shifting
<1>6. \A j \in 0 .. c - 1 :
        Distance(c, slot, s.hole) < Distance(c, slot, j) /\ Distance(c, slot, j) <= n
          => ~(Distance(c, Home(c, h, s.e, j), s.hole) < Distance(c, Home(c, h, s.e, j), j))
  BY DEF Shifting
<1>7. /\ DOMAIN s.e = 0 .. c - 1 /\ CapacityOf(s.e) = c
      /\ Occ \subseteq 0 .. c - 1
      /\ \A i \in Occ : s.e[i].key \in K
  <2> DEFINE a == s.e
  <2> HIDE DEF a
  <2>1. a \in Array(c, K, V) /\ Occupied(a) = Occ
    BY <1>2 DEF a
  <2>2. /\ DOMAIN a = 0 .. c - 1 /\ CapacityOf(a) = c
        /\ Occupied(a) \subseteq 0 .. c - 1
        /\ \A i \in Occupied(a) : a[i].key \in K
    BY <1>0, <2>1, ArrayType
  <2> QED
    BY <2>1, <2>2 DEF a
<1>8. \A j \in 0 .. c - 1 : Distance(c, slot, j) \in 0 .. c - 1
  BY <1>0, <1>7, Ring
<1>15. s.hole \in 0 .. c - 1 /\ Distance(c, slot, s.hole) \in 0 .. c - 1
  BY <1>2, <1>7, <1>8
<1>9. t = IF s.e[next].key = NULL
            THEN [e |-> [s.e EXCEPT ![s.hole] = EmptyEntry], hole |-> s.hole, done |-> TRUE]
          ELSE IF Distance(c, home, s.hole) < Distance(c, home, next)
            THEN [e |-> [s.e EXCEPT ![s.hole] = s.e[next]], hole |-> next, done |-> FALSE]
          ELSE s
  BY <1>2, <1>7 DEF Shift
<1>10. \A j \in 0 .. c - 1 : s.e[j].key # NULL <=> j \in Occ
  BY <1>2, <1>7 DEF Occupied
<1>11. \A i \in Occ : Home(c, h, s.e, i) \in 0 .. c - 1
  BY <1>7, IndexRange DEF Home, Hashes
<1> HIDE DEF next, Occ
<1>12. CASE s.e[next].key = NULL
  <2>1. t.done = TRUE /\ t.e = [s.e EXCEPT ![s.hole] = EmptyEntry]
    BY <1>9, <1>12
  <2>2. /\ DOMAIN t.e = 0 .. c - 1 /\ t.e[s.hole] = EmptyEntry
        /\ \A i \in 0 .. c - 1 : i # s.hole => t.e[i] = s.e[i]
    BY <1>2, <1>7, <2>1
  <2>3. EmptyEntry.key = NULL
    BY DEF EmptyEntry
  <2>4. t.e \in Array(c, K, V)
    BY <1>2, <2>1 DEF Array
  <2>5. Occupied(t.e) = Occ \ {s.hole}
    <3>1. \A i \in 0 .. c - 1 : t.e[i].key # NULL <=> i \in Occ \ {s.hole}
      BY <1>10, <1>15, <2>2, <2>3
    <3>2. Occupied(t.e) = {i \in 0 .. c - 1 : t.e[i].key # NULL}
      BY <2>2 DEF Occupied
    <3> QED
      BY <1>7, <3>1, <3>2
  <2>6. Content(t.e) = Content(e) \ {e[slot]}
    BY <1>3, <1>7, <2>2, <2>5 DEF Content
  <2>7. Unique(t.e, Occupied(t.e))
    BY <1>4, <1>7, <2>2, <2>5 DEF Unique
  <2>8. ASSUME NEW i \in Occ \ {s.hole}, NEW j \in 0 .. c - 1,
               Distance(c, Home(c, h, t.e, i), j) < Distance(c, Home(c, h, t.e, i), i)
        PROVE  t.e[j].key # NULL
    <3> DEFINE H == Home(c, h, s.e, i)
    <3>1. i \in 0 .. c - 1 /\ H \in 0 .. c - 1 /\ Home(c, h, t.e, i) = H
      BY <1>7, <1>11, <2>2 DEF Home
    <3> HIDE DEF H
    <3>2. s.e[j].key # NULL
      BY <1>4, <2>8, <3>1 DEF Placed, H
    <3>3. ASSUME j = s.hole PROVE FALSE
      <4>1. next # i /\ next \notin Occ
        BY <1>1, <1>10, <1>12
      <4>2. ~(Distance(c, H, next) < Distance(c, H, i))
        BY <1>1, <1>4, <1>12 DEF Placed, H
      <4>3. Distance(c, H, i) < Distance(c, H, next)
        BY <1>0, <1>1, <3>1, <4>1, <4>2 DEF Distance
      <4>4. Distance(c, slot, s.hole) < Distance(c, slot, next)
        BY <1>0, <1>1, <1>2, <1>15
      <4>5. /\ Distance(c, slot, s.hole) < Distance(c, slot, i)
            /\ Distance(c, slot, i) < Distance(c, slot, next)
        <5>1. slot \in 0 .. c - 1 /\ s.hole \in 0 .. c - 1
          BY <1>2, <1>7 DEF Occ
        <5>2. Distance(c, H, s.hole) < Distance(c, H, i)
          BY <2>8, <3>1, <3>3
        <5> QED
          BY <1>0, <1>1, <3>1, <4>3, <4>4, <5>1, <5>2, RingBetween
      <4>6. Distance(c, slot, i) <= n
        BY <1>1, <1>8, <3>1, <4>5
      <4> QED
        BY <1>6, <2>8, <3>1, <3>3, <4>5, <4>6 DEF H
    <3> QED
      BY <2>2, <3>2, <3>3
  <2>9. Placed(c, h, t.e, Occupied(t.e))
    BY <2>5, <2>8 DEF Placed
  <2> QED
    BY <1>2, <2>1, <2>4, <2>5, <2>6, <2>7, <2>9 DEF Settled, Sound, Occ
<1>13. CASE s.e[next].key # NULL /\ Distance(c, home, s.hole) < Distance(c, home, next)
  <2>1. t.done = FALSE /\ t.hole = next /\ t.e = [s.e EXCEPT ![s.hole] = s.e[next]]
    BY <1>9, <1>13
  <2>2. next \in Occ /\ next # s.hole
    BY <1>0, <1>1, <1>2, <1>10, <1>13
  <2>3. /\ DOMAIN t.e = 0 .. c - 1 /\ t.e[s.hole] = s.e[next]
        /\ \A i \in 0 .. c - 1 : i # s.hole => t.e[i] = s.e[i]
    BY <1>2, <1>7, <2>1
  <2>4. t.e \in Array(c, K, V)
    <3> DEFINE slots == {EmptyEntry} \cup [key : K, value : V]
    <3>1. s.e[next] \in slots /\ s.e \in [0 .. c - 1 -> slots]
      BY <1>1, <1>2 DEF Array
    <3>2. Array(c, K, V) = [0 .. c - 1 -> slots]
      BY DEF Array
    <3> HIDE DEF slots
    <3> QED
      BY <2>1, <3>1, <3>2
  <2>5. \A j \in 0 .. c - 1 : t.e[j].key # NULL <=> s.e[j].key # NULL
    BY <1>2, <1>10, <1>13, <2>3
  <2>6. Occupied(t.e) = Occ
    BY <1>7, <1>10, <2>3, <2>5 DEF Occupied
  <2>7. {t.e[i] : i \in Occ \ {next}} = {s.e[i] : i \in Occ \ {s.hole}}
    <3>1. \A i \in Occ \ {next} : i # s.hole => t.e[i] = s.e[i]
      BY <1>7, <2>3
    <3> QED
      BY <1>2, <2>2, <2>3, <3>1
  <2>8. Unique(t.e, Occ \ {next})
    BY <1>4, <1>7, <2>2, <2>3 DEF Unique
  <2>9. ASSUME NEW i \in Occ \ {next}, NEW j \in 0 .. c - 1,
               Distance(c, Home(c, h, t.e, i), j) < Distance(c, Home(c, h, t.e, i), i)
        PROVE  t.e[j].key # NULL
    <3>1. CASE i = s.hole
      <4>1. Home(c, h, t.e, i) = home /\ Home(c, h, s.e, next) = home
        BY <2>3, <3>1 DEF Home
      <4>2. home \in 0 .. c - 1
        BY <1>11, <2>2, <4>1
      <4>3. Distance(c, home, j) < Distance(c, home, next)
        <5> HIDE DEF home
        <5>1. /\ Distance(c, home, j) \in 0 .. c - 1
              /\ Distance(c, home, s.hole) \in 0 .. c - 1
              /\ Distance(c, home, next) \in 0 .. c - 1
          BY <1>0, <1>1, <1>2, <1>7, <4>2, Ring
        <5> QED
          BY <1>13, <2>9, <3>1, <4>1, <5>1
      <4>4. s.e[j].key # NULL
        BY <1>4, <2>2, <4>1, <4>3 DEF Placed
      <4> QED
        BY <2>5, <4>4
    <3>2. CASE i # s.hole
      <4>1. Home(c, h, t.e, i) = Home(c, h, s.e, i)
        BY <1>7, <2>3, <3>2 DEF Home
      <4>2. s.e[j].key # NULL
        BY <1>4, <2>9, <3>2, <4>1 DEF Placed
      <4> QED
        BY <2>5, <4>2
    <3> QED
      BY <3>1, <3>2
  <2>10. Placed(c, h, t.e, Occ \ {next})
    BY <2>9 DEF Placed
  <2>11. \A j \in 0 .. c - 1 : Distance(c, slot, j) <= n + 1 => j \in Occ
    <3>1. slot \in 0 .. c - 1
      BY <1>7 DEF Occ
    <3>2. ASSUME NEW j \in 0 .. c - 1, Distance(c, slot, j) = n + 1 PROVE j = next
      BY <1>0, <1>1, <3>1, <3>2 DEF Distance
    <3> QED
      BY <1>5, <1>8, <2>2, <3>2
  <2>12. \A j \in 0 .. c - 1 : Distance(c, slot, j) <= n + 1
           => ~(Distance(c, slot, next) < Distance(c, slot, j))
    BY <1>1, <1>8
  <2>13. t.hole \in Occ /\ Distance(c, slot, t.hole) <= n + 1
    BY <1>1, <2>1, <2>2
  <2>14. {t.e[i] : i \in Occ \ {t.hole}} = Content(e) \ {e[slot]}
    BY <1>3, <2>1, <2>7
  <2>15. Placed(c, h, t.e, Occ \ {t.hole}) /\ Unique(t.e, Occ \ {t.hole})
    BY <2>1, <2>8, <2>10
  <2>16. \A j \in 0 .. c - 1 : Distance(c, slot, j) <= n + 1
           => ~(Distance(c, slot, t.hole) < Distance(c, slot, j))
    BY <2>1, <2>12
  <2> HIDE DEF home
  <2> QED
    BY <2>1, <2>4, <2>6, <2>11, <2>13, <2>14, <2>15, <2>16 DEF Shifting, Occ
<1>14. CASE s.e[next].key # NULL /\ ~(Distance(c, home, s.hole) < Distance(c, home, next))
  <2>1. t = s
    BY <1>9, <1>14
  <2>2. next \in Occ
    BY <1>1, <1>10, <1>14
  <2>3. ASSUME NEW j \in 0 .. c - 1, Distance(c, slot, j) = n + 1 PROVE j = next
    <3>1. slot \in 0 .. c - 1
      BY <1>7 DEF Occ
    <3> QED
      BY <1>0, <1>1, <2>3, <3>1 DEF Distance
  <2>4. \A j \in 0 .. c - 1 : Distance(c, slot, j) <= n + 1 => j \in Occ
    BY <1>5, <1>8, <2>2, <2>3
  <2>5. Home(c, h, s.e, next) = home
    BY DEF Home
  <2>6. ASSUME NEW j \in 0 .. c - 1,
               Distance(c, slot, s.hole) < Distance(c, slot, j),
               Distance(c, slot, j) <= n + 1
        PROVE  ~(Distance(c, Home(c, h, s.e, j), s.hole) < Distance(c, Home(c, h, s.e, j), j))
    <3>1. CASE j = next
      BY <1>14, <2>5, <3>1
    <3>2. CASE j # next
      <4>1. Distance(c, slot, j) <= n
        BY <1>8, <2>3, <2>6, <3>2
      <4> QED
        BY <1>6, <2>6, <4>1
    <3> QED
      BY <3>1, <3>2
  <2>7. Distance(c, slot, s.hole) <= n + 1
    BY <1>2, <1>15
  <2> QED
    BY <1>2, <1>3, <1>4, <2>1, <2>4, <2>6, <2>7 DEF Shifting, Occ
<1> QED
  BY <1>12, <1>13, <1>14

(* Emptying a slot leaves the other entries, all of them findable.         *)
LEMMA DeleteAtSound ==
  ASSUME NEW c, Good(c), NEW K, NEW V, NEW h, Hashes(K, h),
         NEW e, Sound(c, K, V, h, e), HasEmpty(c, e), NEW slot \in Occupied(e),
         NEW new, new = DeleteAt(e, h, slot)
  PROVE  /\ Sound(c, K, V, h, new)
         /\ Content(new) = Content(e) \ {e[slot]}
         /\ \E f \in Occupied(e) : Occupied(new) = Occupied(e) \ {f}
<1> DEFINE At(n) == Shifted(e, h, slot)[n]
           Ok(n) == \/ Shifting(c, K, V, h, e, slot, At(n), n)
                    \/ Settled(c, K, V, h, e, slot, At(n))
           S == {n \in Nat : n <= c => Ok(n)}
<1>0. /\ c \in Nat \ {0} /\ NULL \notin K /\ e \in Array(c, K, V)
      /\ Placed(c, h, e, Occupied(e)) /\ Unique(e, Occupied(e))
  BY DEF Good, Hashes, Sound
<1>1. CapacityOf(e) = c /\ DOMAIN e = 0 .. c - 1 /\ Occupied(e) \subseteq 0 .. c - 1
  BY <1>0, ArrayType
<1>2. /\ At(0) = [e |-> e, hole |-> slot, done |-> FALSE]
      /\ \A n \in 0 .. c - 1 : At(n + 1) = Shift(h, slot, At(n), n + 1)
  BY <1>0, <1>1, ShiftedDef
<1> HIDE DEF At
<1>3. 0 \in S
  <2>1. At(0).done = FALSE /\ At(0).e = e /\ At(0).hole = slot
    BY <1>2
  <2>2. Distance(c, slot, slot) = 0 /\ \A j \in 0 .. c - 1 : Distance(c, slot, j) <= 0 => j = slot
    BY <1>0, <1>1 DEF Distance
  <2>3. {e[i] : i \in Occupied(e) \ {slot}} = Content(e) \ {e[slot]}
    BY <1>0 DEF Content, Unique
  <2>4. Placed(c, h, e, Occupied(e) \ {slot}) /\ Unique(e, Occupied(e) \ {slot})
    BY <1>0 DEF Placed, Unique
  <2>5. \A j \in 0 .. c - 1 : Distance(c, slot, j) \in 0 .. c - 1
    BY <1>0, <1>1, Ring
  <2>6. \A j \in 0 .. c - 1 :
          ~(Distance(c, slot, slot) < Distance(c, slot, j) /\ Distance(c, slot, j) <= 0)
    BY <2>2, <2>5
  <2> QED
    BY <1>0, <2>1, <2>2, <2>3, <2>4, <2>6 DEF Shifting
<1>4. ASSUME NEW n \in Nat, n \in S PROVE n + 1 \in S
  <2> SUFFICES ASSUME n + 1 <= c PROVE Ok(n + 1)
    OBVIOUS
  <2>1. n \in 0 .. c - 1 /\ Ok(n)
    BY <1>0, <1>4
  <2>2. At(n + 1) = Shift(h, slot, At(n), n + 1)
    BY <1>2, <2>1
  <2>3. CASE Shifting(c, K, V, h, e, slot, At(n), n)
    BY <1>0, <2>2, <2>3, ShiftStep
  <2>4. CASE Settled(c, K, V, h, e, slot, At(n))
    <3>1. At(n + 1) = At(n)
      BY <2>2, <2>4 DEF Shift, Settled
    <3> QED
      BY <2>4, <3>1
  <2> QED
    BY <2>1, <2>3, <2>4
<1>5. c \in S
  <2> HIDE DEF S
  <2> QED
    BY <1>0, <1>3, <1>4, NatInd
<1>6. Ok(c)
  BY <1>0, <1>5
<1>7. ~Shifting(c, K, V, h, e, slot, At(c), c)
  <2> SUFFICES ASSUME Shifting(c, K, V, h, e, slot, At(c), c) PROVE FALSE
    OBVIOUS
  <2>1. c + 1 < c
    BY <1>0, NextSlot
  <2> QED
    BY <1>0, <2>1
<1>8. new = At(c).e
  BY <1>1 DEF DeleteAt, At
<1> QED
  BY <1>6, <1>7, <1>8 DEF Settled

LEMMA DeletePresent ==
  ASSUME NEW c, Good(c), NEW K, NEW V, NEW h, Hashes(K, h),
         NEW e, Sound(c, K, V, h, e), HasEmpty(c, e), NEW r \in Content(e),
         NEW new, new = DeleteKey(e, h, r.key)
  PROVE  /\ Sound(c, K, V, h, new)
         /\ Content(new) = {q \in Content(e) : q.key # r.key}
         /\ \E f \in Occupied(e) : Occupied(new) = Occupied(e) \ {f}
<1>1. PICK i \in Occupied(e) : r = e[i]
  BY DEF Content
<1>2. FindEntry(e, h, r.key) = i /\ Has(e, h, r.key)
  BY <1>1, FindPresent, GetPresent
<1>3. new = DeleteAt(e, h, i)
  BY <1>2 DEF DeleteKey
<1>4. /\ Sound(c, K, V, h, new)
      /\ Content(new) = Content(e) \ {e[i]}
      /\ \E f \in Occupied(e) : Occupied(new) = Occupied(e) \ {f}
  BY <1>3, DeleteAtSound
<1>5. Content(e) \ {e[i]} = {q \in Content(e) : q.key # r.key}
  BY <1>1 DEF Content, Sound, Unique
<1> QED
  BY <1>4, <1>5

LEMMA DeleteAbsent ==
  ASSUME NEW c, Good(c), NEW K, NEW V, NEW h, Hashes(K, h),
         NEW e, Sound(c, K, V, h, e), HasEmpty(c, e), NEW k \in K, Absent(e, k)
  PROVE  DeleteKey(e, h, k) = e
  BY GetAbsent DEF DeleteKey

-----------------------------------------------------------------------------
(* The removal of the unmarked keys.                                       *)
LEMMA SweptDef ==
  ASSUME NEW e, NEW h, NEW white, CapacityOf(e) \in Nat
  PROVE  /\ Swept(e, h, white)[0] = e
         /\ \A n \in 0 .. CapacityOf(e) - 1 :
              Swept(e, h, white)[n + 1] = RemoveAt(Swept(e, h, white)[n], h, white, n)
<1> DEFINE c == CapacityOf(e)
           s == Swept(e, h, white)
<1>1. FiniteNatInductiveDefHypothesis(s, e, LAMBDA v, n : RemoveAt(v, h, white, n - 1), 0, c)
  BY DEF FiniteNatInductiveDefHypothesis, Swept
<1> HIDE DEF s, c
<1>2. FiniteNatInductiveDefConclusion(s, e, LAMBDA v, n : RemoveAt(v, h, white, n - 1), 0, c)
  BY <1>1, FiniteNatInductiveDef DEF c
<1>3. s = [n \in 0 .. c |-> IF n = 0 THEN e ELSE RemoveAt(s[n - 1], h, white, n - 1)]
  BY <1>2 DEF FiniteNatInductiveDefConclusion
<1>4. c \in Nat
  BY DEF c
<1>5. s[0] = e
  BY <1>3, <1>4
<1>6. \A m \in 1 .. c : s[m] = RemoveAt(s[m - 1], h, white, m - 1)
  BY <1>3, <1>4
<1>7. ASSUME NEW n \in 0 .. c - 1 PROVE s[n + 1] = RemoveAt(s[n], h, white, n)
  <2>1. n + 1 \in 1 .. c /\ (n + 1) - 1 = n
    BY <1>4
  <2> QED
    BY <1>6, <2>1
<1> QED
  BY <1>5, <1>7 DEF s, c

(* What a removal leaves of e: an array in order, less some keys of white. *)
Thinned(c, K, V, h, e, white, s) ==
  /\ Sound(c, K, V, h, s)
  /\ Occupied(s) \subseteq Occupied(e) /\ Content(s) \subseteq Content(e)
  /\ \A r \in Content(e) : r.key \notin white => r \in Content(s)

LEMMA RemoveAtStep ==
  ASSUME NEW c, Good(c), NEW K, NEW V, NEW h, Hashes(K, h),
         NEW e, Sound(c, K, V, h, e), HasEmpty(c, e),
         NEW white, NULL \notin white, NEW n \in 0 .. c - 1,
         NEW s, Thinned(c, K, V, h, e, white, s), NEW t, t = RemoveAt(s, h, white, n)
  PROVE  Thinned(c, K, V, h, e, white, t)
<1>1. /\ Sound(c, K, V, h, s) /\ DOMAIN s = 0 .. c - 1 /\ DOMAIN e = 0 .. c - 1
      /\ Occupied(s) \subseteq Occupied(e)
  BY ArrayType DEF Thinned, Sound, Hashes
<1>2. HasEmpty(c, s)
  BY <1>1 DEF HasEmpty, Occupied
<1>3. CASE s[n].key \notin white
  BY <1>3 DEF RemoveAt
<1>4. CASE s[n].key \in white
  <2>1. n \in Occupied(s)
    BY <1>1, <1>4 DEF Occupied
  <2>2. s[n] \in Content(s)
    BY <2>1 DEF Content
  <2>3. t = DeleteKey(s, h, s[n].key)
    BY <1>4 DEF RemoveAt
  <2>4. /\ Sound(c, K, V, h, t)
        /\ Content(t) = {q \in Content(s) : q.key # s[n].key}
        /\ \E f \in Occupied(s) : Occupied(t) = Occupied(s) \ {f}
    BY <1>1, <1>2, <2>2, <2>3, DeletePresent
  <2> QED
    BY <1>4, <2>4 DEF Thinned
<1> QED
  BY <1>3, <1>4

(* tableRemoveWhite keeps every marked key and leaves the array in order:  *)
(* what is left is reached from its natural slot, whatever was deleted     *)
(* while the loop went through the array (table.c:202-208).                *)
LEMMA RemoveWhiteSound ==
  ASSUME NEW c, Good(c), NEW K, NEW V, NEW h, Hashes(K, h),
         NEW e, Sound(c, K, V, h, e), HasEmpty(c, e),
         NEW white, NULL \notin white, NEW new, new = RemoveWhite(e, h, white)
  PROVE  Thinned(c, K, V, h, e, white, new)
<1>1. c \in Nat /\ CapacityOf(e) = c
  BY ArrayType DEF Good, Hashes, Sound
<1> DEFINE s == Swept(e, h, white)
           S == {n \in Nat : n <= c => Thinned(c, K, V, h, e, white, s[n])}
<1>2. s[0] = e /\ \A n \in 0 .. c - 1 : s[n + 1] = RemoveAt(s[n], h, white, n)
  BY <1>1, SweptDef
<1>3. new = s[c]
  BY <1>1 DEF RemoveWhite
<1> HIDE DEF s
<1>4. 0 \in S
  BY <1>2 DEF Thinned
<1>5. ASSUME NEW n \in Nat, n \in S PROVE n + 1 \in S
  <2>1. ASSUME n + 1 <= c PROVE Thinned(c, K, V, h, e, white, s[n + 1])
    <3>1. n \in 0 .. c - 1 /\ Thinned(c, K, V, h, e, white, s[n])
      BY <1>1, <1>5, <2>1
    <3>2. s[n + 1] = RemoveAt(s[n], h, white, n)
      BY <1>2, <3>1
    <3> QED
      BY <3>1, <3>2, RemoveAtStep
  <2> QED
    BY <2>1
<1>6. c \in S
  <2> HIDE DEF S
  <2> QED
    BY <1>1, <1>4, <1>5, NatInd
<1> QED
  BY <1>1, <1>3, <1>6
=============================================================================
