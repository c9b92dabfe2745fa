---------------------------- MODULE ArraysProofs ----------------------------
(***************************************************************************)
(* Arrays and their iterators implement lists, for every set of values,    *)
(* every number of arrays, iterators and changes: theorems of Arrays.tla,  *)
(* for programs that grow no array and slice none past its end.            *)
(***************************************************************************)
EXTENDS Arrays, SequenceTheorems, NaturalsInduction, WellFoundedInduction, TLAPS

(* Induction over the naturals for a set of them.                          *)

(* The least element of a set.                                             *)
LEMMA NatMin ==
  ASSUME NEW T, T \subseteq Nat, T # {}
  PROVE  \E x \in T : \A y \in T : x <= y
<1>1. PICK x \in T : \A y \in T : ~(<<y, x>> \in OpToRel(<, Nat))
  BY NatLessThanWellFounded, WFMin
<1>2. ASSUME NEW y \in T, y < x PROVE FALSE
  <2>1. <<y, x>> \in Nat \X Nat
    OBVIOUS
  <2>2. <<y, x>> \in OpToRel(<, Nat)
    BY <2>1, <1>2 DEF OpToRel
  <2> QED
    BY <2>2, <1>1
<1>3. \A y \in T : x <= y
  BY <1>2
<1> QED
  BY <1>3

(* A set that holds 0 and every successor of its elements holds them all.  *)
LEMMA NatInd ==
  ASSUME NEW S, 0 \in S, \A n \in Nat : n \in S => n + 1 \in S
  PROVE  Nat \subseteq S
<1> DEFINE T == Nat \ S
<1>1. SUFFICES ASSUME T # {} PROVE FALSE
  OBVIOUS
<1>2. PICK x \in T : \A y \in T : x <= y
  BY <1>1, NatMin
<1>3. x # 0 /\ x - 1 \in Nat /\ x - 1 \notin T
  BY <1>2
<1> QED
  BY <1>3

-----------------------------------------------------------------------------

(* A program that meets neither flaw of the blocks.                        *)
Careful == Avoid = {"growth", "longSlice"}

Cell == Value \cup {Garbage}

Record ==
  [type : {"array", "tuple"}, cells : Seq(Cell), size : Nat, capacity : Nat, modCount : Nat]

(* An array whose block is as long as it says, filled from below.          *)
Below(cells, size) == \A i \in 1 .. size : cells[i] \in Value

Filled ==
  {r \in Record : /\ Len(r.cells) = r.capacity /\ r.size <= r.capacity
                  /\ Below(r.cells, r.size)}

(* What an iterator of the array r knows of it.                            *)
Cursor == [array : Nat, cursor : Nat, lastRet : Nat \cup {-1}, modCount : Nat]

Follows(r, it) ==
  /\ it.modCount <= r.modCount
  /\ it.modCount = r.modCount =>
       it.cursor <= r.size /\ it.lastRet \in {-1, it.cursor - 1}

InStep(blocks, its) ==
  /\ blocks \in Seq(Filled)
  /\ its \in Seq(Cursor)
  /\ \A it \in DOMAIN its :
       its[it].array \in DOMAIN blocks /\ Follows(blocks[its[it].array], its[it])

IInv == intact = TRUE /\ InStep(arrays, iterators)

-----------------------------------------------------------------------------
(* An array is known by its fields.                                        *)
Rec(type, cells, size, capacity, modCount) ==
  [type |-> type, cells |-> cells, size |-> size, capacity |-> capacity, modCount |-> modCount]

LEMMA Make ==
  ASSUME NEW type \in {"array", "tuple"}, NEW cells \in Seq(Cell), NEW size \in Nat,
         NEW capacity \in Nat, NEW modCount \in Nat,
         Len(cells) = capacity, size <= capacity, Below(cells, size),
         NEW r, r = Rec(type, cells, size, capacity, modCount)
  PROVE  /\ r \in Filled /\ r.type = type /\ r.cells = cells /\ r.size = size
         /\ r.capacity = capacity /\ r.modCount = modCount
<1>1. /\ r \in Record /\ r.type = type /\ r.cells = cells /\ r.size = size
      /\ r.capacity = capacity /\ r.modCount = modCount
  BY DEF Rec, Record
<1> QED
  BY <1>1 DEF Filled

LEMMA FilledFacts ==
  ASSUME NEW r \in Filled
  PROVE  /\ r.type \in {"array", "tuple"} /\ r.modCount \in Nat
         /\ r.size \in Nat /\ r.capacity \in Nat /\ r.size <= r.capacity
         /\ r.cells \in Seq(Cell) /\ Len(r.cells) = r.capacity
         /\ Below(r.cells, r.size)
         /\ r = Rec(r.type, r.cells, r.size, r.capacity, r.modCount)
<1>1. r \in Record /\ Len(r.cells) = r.capacity /\ r.size <= r.capacity /\ Below(r.cells, r.size)
  BY DEF Filled
<1> QED
  BY <1>1 DEF Record, Rec

LEMMA ElementsFacts ==
  ASSUME NEW r \in Filled
  PROVE  /\ Elements(r) \in Seq(Value) /\ Len(Elements(r)) = r.size
         /\ \A i \in 1 .. r.size : Elements(r)[i] = r.cells[i] /\ Elements(r)[i] \in Value
<1>1. r.size \in Nat /\ \A i \in 1 .. r.size : r.cells[i] \in Value
  BY FilledFacts DEF Below
<1>2. /\ SubSeq(r.cells, 1, r.size) \in Seq(Value)
      /\ Len(SubSeq(r.cells, 1, r.size)) = IF 1 <= r.size THEN r.size - 1 + 1 ELSE 0
      /\ \A i \in 1 .. r.size - 1 + 1 : SubSeq(r.cells, 1, r.size)[i] = r.cells[1 + i - 1]
  BY <1>1, SubSeqProperties
<1> QED
  BY <1>1, <1>2 DEF Elements

(* What is known of a written cell.                                        *)
LEMMA Written ==
  ASSUME NEW S, NEW s \in Seq(S), NEW i \in 1 .. Len(s), NEW v \in S,
         NEW t, t = [s EXCEPT ![i] = v]
  PROVE  /\ t \in Seq(S) /\ Len(t) = Len(s) /\ t[i] = v
         /\ \A j \in 1 .. Len(s) : j # i => t[j] = s[j]
  BY ExceptSeq

LEMMA Added ==
  ASSUME NEW r \in Filled, ~Full(r), NEW v \in Value, NEW n, n = AppendToArray(r, v)
  PROVE  /\ n \in Filled /\ n.size = r.size + 1 /\ n.capacity = r.capacity
         /\ n.modCount = r.modCount + 1 /\ Elements(n) = Append(Elements(r), v)
         /\ n.type = r.type /\ r.size + 1 <= Len(r.cells)
<1> DEFINE i == r.size + 1
           m == r.modCount + 1
           cells == [r.cells EXCEPT ![i] = v]
<1>1. /\ r.type \in {"array", "tuple"} /\ r.modCount \in Nat /\ r.size \in Nat
      /\ r.capacity \in Nat /\ r.cells \in Seq(Cell) /\ Len(r.cells) = r.capacity
      /\ \A j \in 1 .. r.size : r.cells[j] \in Value
      /\ r = Rec(r.type, r.cells, r.size, r.capacity, r.modCount)
  BY FilledFacts DEF Below
<1>2. i <= r.capacity /\ i \in 1 .. Len(r.cells) /\ i \in Nat /\ m \in Nat
  BY <1>1 DEF Full
<1>3. n = Rec(r.type, cells, i, r.capacity, m)
  BY <1>1, <1>2 DEF AppendToArray, Write, Rec
<1>4. \A j \in 1 .. i : j = i \/ j \in 1 .. r.size
  BY <1>1
<1>5. \A j \in 1 .. r.size : j \in 1 .. Len(r.cells) /\ j # i
  BY <1>1, <1>2
<1>6. v \in Cell
  BY DEF Cell
<1>7. i = r.size + 1
  OBVIOUS
<1> HIDE DEF i, m
<1>8. /\ cells \in Seq(Cell) /\ Len(cells) = r.capacity /\ cells[i] = v
      /\ \A j \in 1 .. Len(r.cells) : j # i => cells[j] = r.cells[j]
  BY <1>1, <1>2, <1>6, Written
<1> HIDE DEF cells
<1>9. Below(cells, i)
  BY <1>1, <1>4, <1>5, <1>8 DEF Below
<1>10. /\ n \in Filled /\ n.type = r.type /\ n.cells = cells /\ n.size = i
       /\ n.capacity = r.capacity /\ n.modCount = m
  BY <1>1, <1>2, <1>3, <1>8, <1>9, Make
<1>11. Elements(n) = Append(Elements(r), v)
  <2>1. /\ Elements(r) \in Seq(Value) /\ Len(Elements(r)) = r.size
        /\ \A j \in 1 .. r.size : Elements(r)[j] = r.cells[j]
    BY ElementsFacts
  <2>2. /\ Elements(n) \in Seq(Value) /\ Len(Elements(n)) = i
        /\ \A j \in 1 .. i : Elements(n)[j] = cells[j]
    BY <1>10, ElementsFacts
  <2> DEFINE t == Append(Elements(r), v)
  <2>3. /\ t \in Seq(Value) /\ Len(t) = i
        /\ \A j \in 1 .. r.size : t[j] = r.cells[j]
        /\ t[i] = v
    BY <1>7, <2>1, AppendProperties
  <2> HIDE DEF t
  <2>4. \A j \in 1 .. i : Elements(n)[j] = t[j]
    BY <1>4, <1>5, <1>8, <2>2, <2>3
  <2>5. Elements(n) = t
    BY <2>2, <2>3, <2>4, SeqEqual
  <2> QED
    BY <2>5 DEF t
<1> QED
  BY <1>1, <1>2, <1>10, <1>11 DEF i, m

LEMMA Put ==
  ASSUME NEW r \in Filled, NEW i \in 1 .. r.size, NEW v \in Value,
         NEW n, n = Write(r, i, v)
  PROVE  /\ n \in Filled /\ n.size = r.size /\ n.modCount = r.modCount
         /\ Elements(n) = [Elements(r) EXCEPT ![i] = v]
<1> DEFINE cells == [r.cells EXCEPT ![i] = v]
<1>1. /\ r.type \in {"array", "tuple"} /\ r.modCount \in Nat /\ r.size \in Nat
      /\ r.capacity \in Nat /\ r.cells \in Seq(Cell) /\ Len(r.cells) = r.capacity
      /\ r.size <= r.capacity /\ \A j \in 1 .. r.size : r.cells[j] \in Value
      /\ r = Rec(r.type, r.cells, r.size, r.capacity, r.modCount)
  BY FilledFacts DEF Below
<1>2. i \in 1 .. Len(r.cells) /\ v \in Cell
  BY <1>1 DEF Cell
<1>3. n = Rec(r.type, cells, r.size, r.capacity, r.modCount)
  <2>1. i <= Len(r.cells)
    BY <1>2
  <2> QED
    BY <1>1, <2>1 DEF Write, Rec
<1>4. \A j \in 1 .. r.size : j \in 1 .. Len(r.cells)
  BY <1>1
<1>5. /\ cells \in Seq(Cell) /\ Len(cells) = r.capacity /\ cells[i] = v
      /\ \A j \in 1 .. Len(r.cells) : j # i => cells[j] = r.cells[j]
  BY <1>1, <1>2, Written
<1> HIDE DEF cells
<1>6. Below(cells, r.size)
  BY <1>1, <1>4, <1>5 DEF Below
<1>7. /\ n \in Filled /\ n.cells = cells /\ n.size = r.size /\ n.modCount = r.modCount
  BY <1>1, <1>3, <1>5, <1>6, Make
<1>8. Elements(n) = [Elements(r) EXCEPT ![i] = v]
  <2>1. /\ Elements(r) \in Seq(Value) /\ Len(Elements(r)) = r.size
        /\ \A j \in 1 .. r.size : Elements(r)[j] = r.cells[j]
    BY ElementsFacts
  <2>2. /\ Elements(n) \in Seq(Value) /\ Len(Elements(n)) = r.size
        /\ \A j \in 1 .. r.size : Elements(n)[j] = cells[j]
    BY <1>7, ElementsFacts
  <2> DEFINE t == [Elements(r) EXCEPT ![i] = v]
  <2>3. /\ t \in Seq(Value) /\ Len(t) = r.size /\ t[i] = v
        /\ \A j \in 1 .. r.size : j # i => t[j] = r.cells[j]
    BY <2>1, Written
  <2> HIDE DEF t
  <2>4. \A j \in 1 .. r.size : Elements(n)[j] = t[j]
    BY <1>4, <1>5, <2>2, <2>3
  <2>5. Elements(n) = t
    BY <2>2, <2>3, <2>4, SeqEqual
  <2> QED
    BY <2>5 DEF t
<1> QED
  BY <1>7, <1>8

LEMMA Taken ==
  ASSUME NEW S, NEW s \in Seq(S), NEW i \in 1 .. Len(s), NEW t, t = RemoveAt(s, i)
  PROVE  /\ t \in Seq(S) /\ Len(t) = Len(s) - 1
         /\ \A j \in 1 .. Len(s) - 1 : t[j] = IF j < i THEN s[j] ELSE s[j + 1]
<1> DEFINE a == SubSeq(s, 1, i - 1)
           b == SubSeq(s, i + 1, Len(s))
<1>1. Len(s) \in Nat /\ \A j \in 1 .. Len(s) : s[j] \in S
  BY LenProperties, ElementOfSeq
<1>2. /\ a \in Seq(S) /\ Len(a) = i - 1 /\ \A j \in 1 .. i - 1 : a[j] = s[j]
  <2>1. /\ a \in Seq(S) /\ Len(a) = IF 1 <= i - 1 THEN i - 1 - 1 + 1 ELSE 0
        /\ \A j \in 1 .. i - 1 - 1 + 1 : a[j] = s[1 + j - 1]
    BY <1>1, SubSeqProperties
  <2> QED
    BY <2>1
<1>3. /\ b \in Seq(S) /\ Len(b) = Len(s) - i /\ \A j \in 1 .. Len(s) - i : b[j] = s[i + j]
  <2>1. /\ b \in Seq(S)
        /\ Len(b) = IF i + 1 <= Len(s) THEN Len(s) - (i + 1) + 1 ELSE 0
        /\ \A j \in 1 .. Len(s) - (i + 1) + 1 : b[j] = s[(i + 1) + j - 1]
    BY <1>1, SubSeqProperties
  <2> QED
    BY <1>1, <2>1
<1>4. t = a \o b
  BY DEF RemoveAt
<1> HIDE DEF a, b
<1>5. /\ t \in Seq(S) /\ Len(t) = Len(s) - 1
      /\ \A j \in 1 .. Len(s) - 1 : t[j] = IF j <= i - 1 THEN a[j] ELSE b[j - (i - 1)]
  <2>1. /\ a \o b \in Seq(S) /\ Len(a \o b) = Len(a) + Len(b)
        /\ \A j \in 1 .. Len(a) + Len(b) :
              (a \o b)[j] = IF j <= Len(a) THEN a[j] ELSE b[j - Len(a)]
    BY <1>2, <1>3, ConcatProperties
  <2>2. Len(a) + Len(b) = Len(s) - 1
    BY <1>1, <1>2, <1>3
  <2> QED
    BY <1>2, <1>4, <2>1, <2>2
<1>6. ASSUME NEW j \in 1 .. Len(s) - 1 PROVE t[j] = IF j < i THEN s[j] ELSE s[j + 1]
  <2>1. CASE j < i
    <3>1. j <= i - 1 /\ j \in 1 .. i - 1
      BY <2>1
    <3> QED
      BY <1>2, <1>5, <2>1, <3>1
  <2>2. CASE ~(j < i)
    <3>1. ~(j <= i - 1) /\ j - (i - 1) \in 1 .. Len(s) - i /\ i + (j - (i - 1)) = j + 1
      BY <1>1, <2>2
    <3> QED
      BY <1>3, <1>5, <2>2, <3>1
  <2> QED
    BY <2>1, <2>2
<1> QED
  BY <1>5, <1>6

LEMMA MakeSeq ==
  ASSUME NEW S, NEW n \in Nat, NEW f \in [1 .. n -> S]
  PROVE  f \in Seq(S) /\ Len(f) = n
<1>1. f \in Seq(S)
  BY SeqDef
<1>2. DOMAIN f = 1 .. n /\ DOMAIN f = 1 .. Len(f) /\ Len(f) \in Nat
  BY <1>1, LenProperties
<1> QED
  BY <1>1, <1>2

LEMMA Removed ==
  ASSUME NEW r \in Filled, NEW i \in 1 .. r.size, NEW n, n = RemoveFrom(r, i)
  PROVE  /\ n \in Filled /\ n.size = r.size - 1 /\ n.modCount = r.modCount + 1
         /\ Elements(n) = RemoveAt(Elements(r), i)
<1> DEFINE cells == [j \in 1 .. Len(r.cells) |->
                       IF j >= i /\ j < r.size THEN r.cells[j + 1] ELSE r.cells[j]]
           m == r.modCount + 1
           z == r.size - 1
<1>1. /\ r.type \in {"array", "tuple"} /\ r.modCount \in Nat /\ r.size \in Nat
      /\ r.capacity \in Nat /\ r.cells \in Seq(Cell) /\ Len(r.cells) = r.capacity
      /\ r.size <= r.capacity /\ \A j \in 1 .. r.size : r.cells[j] \in Value
      /\ r = Rec(r.type, r.cells, r.size, r.capacity, r.modCount)
  BY FilledFacts DEF Below
<1>2. n = Rec(r.type, cells, z, r.capacity, m)
  BY <1>1 DEF RemoveFrom, Rec
<1>3. m \in Nat /\ z \in Nat /\ z <= r.capacity
  BY <1>1
<1>4. \A j \in 1 .. Len(r.cells) : r.cells[j] \in Cell
  BY <1>1, ElementOfSeq
<1>5. cells \in Seq(Cell) /\ Len(cells) = r.capacity
  <2>1. \A j \in 1 .. Len(r.cells) : j < r.size => j + 1 \in 1 .. Len(r.cells)
    BY <1>1
  <2>2. cells \in [1 .. Len(r.cells) -> Cell]
    BY <1>4, <2>1
  <2> HIDE DEF cells
  <2> QED
    BY <1>1, <2>2, MakeSeq
<1>6. \A j \in 1 .. z : cells[j] = IF j < i THEN r.cells[j] ELSE r.cells[j + 1]
  <2>1. \A j \in 1 .. z : j \in 1 .. Len(r.cells) /\ j < r.size
    BY <1>1
  <2> QED
    BY <1>1, <2>1
<1>7. Below(cells, z)
  <2>1. \A j \in 1 .. z : j \in 1 .. r.size /\ j + 1 \in 1 .. r.size
    BY <1>1
  <2> HIDE DEF cells, z
  <2> QED
    BY <1>1, <1>6, <2>1 DEF Below
<1> HIDE DEF cells
<1>8. /\ n \in Filled /\ n.cells = cells /\ n.size = z /\ n.modCount = m
  <2> HIDE DEF m, z
  <2> QED
    BY <1>1, <1>2, <1>3, <1>5, <1>7, Make
<1>9. Elements(n) = RemoveAt(Elements(r), i)
  <2>1. /\ Elements(r) \in Seq(Value) /\ Len(Elements(r)) = r.size
        /\ \A j \in 1 .. r.size : Elements(r)[j] = r.cells[j]
    BY ElementsFacts
  <2>2. /\ Elements(n) \in Seq(Value) /\ Len(Elements(n)) = z
        /\ \A j \in 1 .. z : Elements(n)[j] = cells[j]
    BY <1>8, ElementsFacts
  <2> DEFINE t == RemoveAt(Elements(r), i)
  <2>3. /\ t \in Seq(Value) /\ Len(t) = z
        /\ \A j \in 1 .. z : t[j] = IF j < i THEN Elements(r)[j] ELSE Elements(r)[j + 1]
    <3>1. i \in 1 .. Len(Elements(r))
      BY <2>1
    <3> HIDE DEF t
    <3>2. /\ t \in Seq(Value) /\ Len(t) = Len(Elements(r)) - 1
          /\ \A j \in 1 .. Len(Elements(r)) - 1 :
                t[j] = IF j < i THEN Elements(r)[j] ELSE Elements(r)[j + 1]
      <4> DEFINE l == Elements(r)
      <4>1. l \in Seq(Value) /\ i \in 1 .. Len(l) /\ t = RemoveAt(l, i)
        BY <2>1, <3>1 DEF t
      <4>2. /\ t \in Seq(Value) /\ Len(t) = Len(l) - 1
            /\ \A j \in 1 .. Len(l) - 1 : t[j] = IF j < i THEN l[j] ELSE l[j + 1]
        <5> HIDE DEF l
        <5> QED
          BY ONLY <4>1, Taken, SMTT(30)
      <4> QED
        BY <4>2
    <3> QED
      BY <2>1, <3>2
  <2>4. \A j \in 1 .. z : j \in 1 .. r.size /\ j + 1 \in 1 .. r.size
    BY <1>1
  <2> HIDE DEF t, z
  <2>5. \A j \in 1 .. z : Elements(n)[j] = t[j]
    BY <1>6, <2>1, <2>2, <2>3, <2>4
  <2>6. Elements(n) = t
    BY <2>2, <2>3, <2>5, SeqEqual
  <2> QED
    BY <2>6 DEF t
<1> QED
  BY <1>8, <1>9

-----------------------------------------------------------------------------
(* The arrays that ARRAY_BUILD and a slice make.                           *)
LEMMA New ==
  ASSUME NEW type \in {"array", "tuple"}, NEW n \in Nat, NEW r, r = NewArray(type, n)
  PROVE  /\ r \in Filled /\ r.size = 0 /\ r.capacity = n /\ r.modCount = 0 /\ r.type = type
         /\ Elements(r) = <<>>
<1> DEFINE cells == [i \in 1 .. n |-> Garbage]
<1>1. r = Rec(type, cells, 0, n, 0)
  BY DEF NewArray, Rec
<1>2. cells \in [1 .. n -> Cell]
  BY DEF Cell
<1> HIDE DEF cells
<1>3. cells \in Seq(Cell) /\ Len(cells) = n
  BY <1>2, MakeSeq
<1>4. Below(cells, 0) /\ 0 \in Nat /\ 0 <= n
  BY DEF Below
<1>5. r \in Filled /\ r.size = 0 /\ r.capacity = n /\ r.modCount = 0 /\ r.type = type
  BY <1>1, <1>3, <1>4, Make
<1>6. Elements(r) = <<>>
  BY <1>5, ElementsFacts, EmptySeq
<1> QED
  BY <1>5, <1>6

LEMMA BuildingDef ==
  ASSUME NEW type, NEW values, Len(values) \in Nat
  PROVE  /\ Building(type, values)[0] = NewArray(type, Len(values))
         /\ \A n \in 0 .. Len(values) - 1 :
              Building(type, values)[n + 1] = AppendToArray(Building(type, values)[n], values[n + 1])
<1> DEFINE c == Len(values)
           f == Building(type, values)
           f0 == NewArray(type, Len(values))
<1>1. FiniteNatInductiveDefHypothesis(f, f0, LAMBDA r, n : AppendToArray(r, values[n]), 0, c)
  BY DEF FiniteNatInductiveDefHypothesis, Building
<1> HIDE DEF f, c, f0
<1>2. FiniteNatInductiveDefConclusion(f, f0, LAMBDA r, n : AppendToArray(r, values[n]), 0, c)
  BY <1>1, FiniteNatInductiveDef DEF c
<1>3. f = [n \in 0 .. c |-> IF n = 0 THEN f0 ELSE AppendToArray(f[n - 1], values[n])]
  BY <1>2 DEF FiniteNatInductiveDefConclusion
<1>4. c \in Nat
  BY DEF c
<1>5. f[0] = f0
  BY <1>3, <1>4
<1>6. \A m \in 1 .. c : f[m] = AppendToArray(f[m - 1], values[m])
  BY <1>3, <1>4
<1>7. ASSUME NEW n \in 0 .. c - 1 PROVE f[n + 1] = AppendToArray(f[n], values[n + 1])
  <2>1. n + 1 \in 1 .. c /\ (n + 1) - 1 = n
    BY <1>4
  <2> QED
    BY <1>6, <2>1
<1> QED
  BY <1>5, <1>7 DEF f, c, f0

(* After n values the array holds them and has room for the others.        *)
BuiltUpTo(r, values, n) ==
  /\ r \in Filled /\ r.size = n /\ r.capacity = Len(values)
  /\ \A i \in 1 .. n : Elements(r)[i] = values[i]

LEMMA BuiltStep ==
  ASSUME NEW values \in Seq(Value), NEW n \in Nat, n + 1 <= Len(values),
         NEW r, BuiltUpTo(r, values, n), NEW q, q = AppendToArray(r, values[n + 1])
  PROVE  BuiltUpTo(q, values, n + 1)
<1>1. /\ r \in Filled /\ r.size = n /\ r.capacity = Len(values) /\ Len(values) \in Nat
      /\ \A i \in 1 .. n : Elements(r)[i] = values[i]
  BY LenProperties DEF BuiltUpTo
<1>2. values[n + 1] \in Value
  BY <1>1, ElementOfSeq
<1>3. ~Full(r)
  BY <1>1 DEF Full
<1>4. /\ q \in Filled /\ q.size = n + 1 /\ q.capacity = Len(values)
      /\ Elements(q) = Append(Elements(r), values[n + 1])
  BY <1>1, <1>2, <1>3, Added
<1>5. Elements(r) \in Seq(Value) /\ Len(Elements(r)) = n
  BY <1>1, ElementsFacts
<1>6. /\ \A i \in 1 .. n : Elements(q)[i] = Elements(r)[i]
      /\ Elements(q)[n + 1] = values[n + 1]
  BY <1>2, <1>4, <1>5, AppendProperties
<1>7. \A i \in 1 .. n + 1 : i \in 1 .. n \/ i = n + 1
  OBVIOUS
<1>8. \A i \in 1 .. n + 1 : Elements(q)[i] = values[i]
  BY <1>1, <1>6, <1>7
<1> QED
  BY <1>4, <1>8 DEF BuiltUpTo

LEMMA BuiltHolds ==
  ASSUME NEW type \in {"array", "tuple"}, NEW values \in Seq(Value),
         NEW r, r = Built(type, values)
  PROVE  r \in Filled /\ Elements(r) = values
<1> DEFINE At(n) == Building(type, values)[n]
           c == Len(values)
           S == {n \in Nat : n <= c => BuiltUpTo(At(n), values, n)}
<1>1. c \in Nat
  BY LenProperties
<1>2. 0 \in S
  <2> DEFINE a == At(0)
  <2>1. a = NewArray(type, c)
    BY <1>1, BuildingDef
  <2> HIDE DEF a
  <2>2. a \in Filled /\ a.size = 0 /\ a.capacity = c
    BY <1>1, <2>1, New
  <2> QED
    BY <2>2 DEF BuiltUpTo, a
<1>3. ASSUME NEW n \in Nat, n \in S PROVE n + 1 \in S
  <2>1. ASSUME n + 1 <= c PROVE BuiltUpTo(At(n + 1), values, n + 1)
    <3>1. n \in 0 .. c - 1 /\ BuiltUpTo(At(n), values, n)
      BY <1>1, <1>3, <2>1
    <3>2. At(n + 1) = AppendToArray(At(n), values[n + 1])
      BY <1>1, <3>1, BuildingDef
    <3> HIDE DEF At
    <3> QED
      BY <2>1, <3>1, <3>2, BuiltStep
  <2> QED
    BY <2>1
<1>4. c \in S
  <2> HIDE DEF S
  <2> QED
    BY <1>1, <1>2, <1>3, NatInd
<1>5. BuiltUpTo(r, values, c)
  BY <1>1, <1>4 DEF Built
<1>6. r \in Filled /\ r.size = c /\ \A i \in 1 .. c : Elements(r)[i] = values[i]
  BY <1>5 DEF BuiltUpTo
<1>7. Elements(r) \in Seq(Value) /\ Len(Elements(r)) = c
  BY <1>6, ElementsFacts
<1>8. Elements(r) = values
  BY <1>6, <1>7, SeqEqual
<1> QED
  BY <1>6, <1>8

LEMMA SlicedHolds ==
  ASSUME NEW r \in Filled, NEW a \in 0 .. r.size, NEW b \in a .. r.size,
         NEW n, n = Sliced(r, a, b)
  PROVE  n \in Filled /\ Elements(n) = SubSeq(Elements(r), a + 1, b)
<1> DEFINE z == b - a
           cells == [i \in 1 .. z |-> IF a + i <= Len(r.cells) THEN r.cells[a + i] ELSE Garbage]
<1>1. /\ r.type \in {"array", "tuple"} /\ r.size \in Nat /\ r.capacity \in Nat
      /\ Len(r.cells) = r.capacity /\ r.size <= r.capacity
      /\ \A j \in 1 .. r.size : r.cells[j] \in Value
  BY FilledFacts DEF Below
<1>2. z \in Nat /\ 0 \in Nat /\ z <= z
  BY <1>1
<1>3. n = Rec(r.type, cells, z, z, 0)
  <2> DEFINE q == NewArray(r.type, z)
  <2>1. n = [q EXCEPT !.cells = cells, !.size = z]
    BY DEF Sliced
  <2>2. \E blank : q = Rec(r.type, blank, 0, z, 0)
    <3> HIDE DEF z
    <3>1. q = Rec(r.type, [i \in 1 .. z |-> Garbage], 0, z, 0)
      BY <1>2 DEF NewArray, Rec
    <3> QED
      BY <3>1
  <2> HIDE DEF q, cells, z
  <2>3. PICK blank : q = Rec(r.type, blank, 0, z, 0)
    BY <2>2
  <2>4. n = [Rec(r.type, blank, 0, z, 0) EXCEPT !.cells = cells, !.size = z]
    BY <2>1, <2>3
  <2> QED
    BY <2>4 DEF Rec
<1>4. \A i \in 1 .. z : /\ a + i \in 1 .. r.size /\ a + i <= Len(r.cells)
                        /\ (a + 1) + i - 1 = a + i
  BY <1>1
<1>5. \A i \in 1 .. z : cells[i] = r.cells[a + i] /\ cells[i] \in Value
  BY <1>1, <1>4
<1>6. cells \in [1 .. z -> Cell]
  BY <1>5 DEF Cell
<1> HIDE DEF cells, z
<1>7. cells \in Seq(Cell) /\ Len(cells) = z
  BY <1>2, <1>6, MakeSeq
<1>8. Below(cells, z)
  BY <1>5 DEF Below
<1>9. n \in Filled /\ n.size = z /\ n.cells = cells
  BY <1>1, <1>2, <1>3, <1>7, <1>8, Make
<1>10. /\ Elements(n) \in Seq(Value) /\ Len(Elements(n)) = z
       /\ \A j \in 1 .. z : Elements(n)[j] = cells[j]
  BY <1>9, ElementsFacts
<1>11. /\ Elements(r) \in Seq(Value) /\ \A j \in 1 .. r.size : Elements(r)[j] = r.cells[j]
       /\ \A j \in 1 .. r.size : Elements(r)[j] \in Value
  BY ElementsFacts
<1> DEFINE t == SubSeq(Elements(r), a + 1, b)
<1>12. /\ t \in Seq(Value) /\ Len(t) = z
       /\ \A i \in 1 .. z : t[i] = Elements(r)[a + i]
  <2>1. a + 1 \in Int /\ b \in Int /\ \A i \in a + 1 .. b : Elements(r)[i] \in Value
    BY <1>1, <1>11
  <2>2. /\ t \in Seq(Value) /\ Len(t) = IF a + 1 <= b THEN b - (a + 1) + 1 ELSE 0
        /\ \A i \in 1 .. b - (a + 1) + 1 : t[i] = Elements(r)[(a + 1) + i - 1]
    BY <2>1, SubSeqProperties
  <2> HIDE DEF t
  <2>3. b - (a + 1) + 1 = z /\ Len(t) = z
    BY <1>1, <2>2 DEF z
  <2> QED
    BY <1>4, <2>2, <2>3
<1> HIDE DEF t
<1>13. \A j \in 1 .. z : Elements(n)[j] = t[j]
  BY <1>4, <1>5, <1>10, <1>11, <1>12
<1>14. Elements(n) = t
  BY <1>10, <1>12, <1>13, SeqEqual
<1> QED
  BY <1>9, <1>14 DEF t

-----------------------------------------------------------------------------
(* What the lists and the iterators' views are after a step.               *)
View == [list : Nat, todo : Seq(Value), last : BOOLEAN, stale : BOOLEAN]

StaleView(l) == [list |-> l, todo |-> <<>>, last |-> FALSE, stale |-> TRUE]

LEMMA CursorFacts ==
  ASSUME NEW it \in Cursor
  PROVE  /\ it.array \in Nat /\ it.cursor \in Nat /\ it.modCount \in Nat /\ it.lastRet \in Int
         /\ it.lastRet \in Nat \cup {-1}
  BY DEF Cursor

ViewOf(it, todo) ==
  [list |-> it.array, todo |-> todo, last |-> it.lastRet >= 0, stale |-> FALSE]

Rest(r, c, todo) ==
  /\ todo \in Seq(Value) /\ Len(todo) = r.size - c
  /\ \A i \in 1 .. r.size - c : todo[i] = Elements(r)[c + i]

LEMMA FreshView ==
  ASSUME NEW r \in Filled, NEW it \in Cursor, Follows(r, it), it.modCount = r.modCount,
         NEW R, R = Remaining(r, it)
  PROVE  /\ R \in View /\ R.list = it.array /\ R.stale = FALSE /\ R.last = (it.lastRet >= 0)
         /\ R = ViewOf(it, R.todo) /\ Rest(r, it.cursor, R.todo)
<1> DEFINE todo == SubSeq(Elements(r), it.cursor + 1, r.size)
<1>1. /\ it.array \in Nat /\ it.cursor \in Nat /\ it.cursor <= r.size /\ it.lastRet \in Int
      /\ r.size \in Nat
  BY CursorFacts, FilledFacts DEF Follows
<1>2. \A i \in 1 .. r.size : Elements(r)[i] \in Value
  BY ElementsFacts
<1>3. /\ todo \in Seq(Value) /\ Len(todo) = r.size - it.cursor
      /\ \A i \in 1 .. r.size - it.cursor : todo[i] = Elements(r)[it.cursor + i]
  <2>1. \A i \in it.cursor + 1 .. r.size : Elements(r)[i] \in Value
    BY <1>1, <1>2
  <2>2. /\ todo \in Seq(Value)
        /\ Len(todo) = IF it.cursor + 1 <= r.size THEN r.size - (it.cursor + 1) + 1 ELSE 0
        /\ \A i \in 1 .. r.size - (it.cursor + 1) + 1 :
              todo[i] = Elements(r)[(it.cursor + 1) + i - 1]
    BY <1>1, <2>1, SubSeqProperties
  <2> HIDE DEF todo
  <2>3. r.size - (it.cursor + 1) + 1 = r.size - it.cursor
    BY <1>1
  <2>4. \A i \in 1 .. r.size - it.cursor : (it.cursor + 1) + i - 1 = it.cursor + i
    BY <1>1
  <2>5. Len(todo) = r.size - it.cursor
    BY <1>1, <2>2
  <2> QED
    BY <2>2, <2>3, <2>4, <2>5
<1>4. R = [list |-> it.array, todo |-> todo, last |-> it.lastRet >= 0, stale |-> FALSE]
  BY DEF Remaining
<1> HIDE DEF todo
<1>5. (it.lastRet >= 0) \in BOOLEAN
  OBVIOUS
<1>6. R \in View
  BY <1>1, <1>3, <1>4, <1>5 DEF View
<1>7. R.todo = todo
  BY <1>4
<1> QED
  BY <1>3, <1>4, <1>6, <1>7 DEF ViewOf, Rest

LEMMA OldView ==
  ASSUME NEW r \in Filled, NEW it \in Cursor, it.modCount # r.modCount
  PROVE  /\ Remaining(r, it) = StaleView(it.array) /\ StaleView(it.array) \in View
         /\ StaleView(it.array).list = it.array
<1>1. it.array \in Nat /\ <<>> \in Seq(Value)
  BY CursorFacts, EmptySeq
<1>2. Remaining(r, it) = StaleView(it.array)
  BY DEF Remaining, StaleView
<1> DEFINE e == <<>>
           l == it.array
<1>3. l \in Nat /\ e \in Seq(Value)
  BY <1>1
<1> HIDE DEF e, l
<1>4. [list |-> l, todo |-> e, last |-> FALSE, stale |-> TRUE] \in View
  BY <1>3 DEF View
<1>5. StaleView(l) \in View
  BY <1>4 DEF StaleView, e
<1>6. StaleView(l).list = l
  BY DEF StaleView
<1> QED
  BY <1>2, <1>5, <1>6 DEF l

LEMMA AnyView ==
  ASSUME NEW r \in Filled, NEW it \in Cursor, Follows(r, it)
  PROVE  Remaining(r, it) \in View /\ Remaining(r, it).list = it.array
<1>1. CASE it.modCount = r.modCount
  BY <1>1, FreshView
<1>2. CASE it.modCount # r.modCount
  BY <1>2, OldView
<1> QED
  BY <1>1, <1>2

LEMMA ListsFacts ==
  ASSUME NEW s \in Seq(Filled)
  PROVE  /\ Len(s) \in Nat /\ DOMAIN s = 1 .. Len(s) /\ \A a \in DOMAIN s : s[a] \in Filled
         /\ ListsOf(s) \in Seq(Seq(Value)) /\ Len(ListsOf(s)) = Len(s)
         /\ DOMAIN ListsOf(s) = DOMAIN s
         /\ \A a \in DOMAIN s : ListsOf(s)[a] = Elements(s[a])
<1> DEFINE L == ListsOf(s)
<1>1. Len(s) \in Nat /\ DOMAIN s = 1 .. Len(s) /\ \A a \in DOMAIN s : s[a] \in Filled
  BY LenProperties, ElementOfSeq
<1>2. DOMAIN L = DOMAIN s /\ \A a \in DOMAIN s : L[a] = Elements(s[a])
  BY DEF ListsOf
<1>3. L \in [1 .. Len(s) -> Seq(Value)]
  BY <1>1, ElementsFacts DEF ListsOf
<1> HIDE DEF L
<1>4. L \in Seq(Seq(Value)) /\ Len(L) = Len(s)
  BY <1>1, <1>3, MakeSeq
<1> QED
  BY <1>1, <1>2, <1>4 DEF L

LEMMA ViewsFacts ==
  ASSUME NEW s, NEW its, InStep(s, its)
  PROVE  /\ Len(its) \in Nat /\ DOMAIN its = 1 .. Len(its)
         /\ \A i \in DOMAIN its : /\ its[i] \in Cursor /\ its[i].array \in DOMAIN s
                                  /\ s[its[i].array] \in Filled
                                  /\ Follows(s[its[i].array], its[i])
         /\ ViewsOf(s, its) \in Seq(View) /\ Len(ViewsOf(s, its)) = Len(its)
         /\ DOMAIN ViewsOf(s, its) = DOMAIN its
         /\ \A i \in DOMAIN its : /\ ViewsOf(s, its)[i] = Remaining(s[its[i].array], its[i])
                                  /\ ViewsOf(s, its)[i].list = its[i].array
<1> DEFINE V == ViewsOf(s, its)
<1>1. /\ Len(its) \in Nat /\ DOMAIN its = 1 .. Len(its)
      /\ \A i \in DOMAIN its : its[i] \in Cursor /\ its[i].array \in DOMAIN s
  BY LenProperties, ElementOfSeq DEF InStep
<1>2. \A i \in DOMAIN its : s[its[i].array] \in Filled /\ Follows(s[its[i].array], its[i])
  BY <1>1, ListsFacts DEF InStep
<1>3. DOMAIN V = DOMAIN its /\ \A i \in DOMAIN its : V[i] = Remaining(s[its[i].array], its[i])
  BY DEF ViewsOf
<1>4. \A i \in DOMAIN its : V[i] \in View /\ V[i].list = its[i].array
  BY <1>1, <1>2, <1>3, AnyView
<1>5. V = [i \in DOMAIN its |-> V[i]]
  BY DEF ViewsOf
<1> HIDE DEF V
<1>6. V \in [1 .. Len(its) -> View]
  BY <1>1, <1>4, <1>5
<1>7. V \in Seq(View) /\ Len(V) = Len(its)
  BY <1>1, <1>6, MakeSeq
<1> QED
  BY <1>1, <1>2, <1>3, <1>4, <1>7 DEF V

LEMMA AppendedList ==
  ASSUME NEW s, NEW its, InStep(s, its), NEW r \in Filled, NEW q, q = Append(s, r)
  PROVE  /\ InStep(q, its) /\ Len(q) = Len(s) + 1 /\ Len(s) \in Nat
         /\ ListsOf(q) = Append(ListsOf(s), Elements(r))
         /\ ViewsOf(q, its) = ViewsOf(s, its)
<1>1. s \in Seq(Filled)
  BY DEF InStep
<1>2. /\ q \in Seq(Filled) /\ Len(q) = Len(s) + 1 /\ q[Len(s) + 1] = r
      /\ \A a \in 1 .. Len(s) : q[a] = s[a]
  BY <1>1, AppendProperties
<1>3. Len(s) \in Nat /\ DOMAIN s = 1 .. Len(s) /\ DOMAIN q = 1 .. Len(s) + 1
  BY <1>1, <1>2, ListsFacts
<1>4. \A a \in DOMAIN s : a \in DOMAIN q /\ q[a] = s[a]
  BY <1>2, <1>3
<1>5. \A i \in DOMAIN its : its[i].array \in DOMAIN s
  BY ViewsFacts
<1>6. InStep(q, its)
  BY <1>2, <1>4, <1>5 DEF InStep
<1>7. ListsOf(q) = Append(ListsOf(s), Elements(r))
  <2> DEFINE L == ListsOf(s)
             M == ListsOf(q)
             E == Elements(r)
             A == Append(L, E)
  <2>1. /\ L \in Seq(Seq(Value)) /\ Len(L) = Len(s) /\ \A a \in DOMAIN s : L[a] = Elements(s[a])
    BY <1>1, ListsFacts
  <2>2. /\ M \in Seq(Seq(Value)) /\ Len(M) = Len(s) + 1
        /\ \A a \in DOMAIN q : M[a] = Elements(q[a])
    BY <1>2, ListsFacts
  <2>3. E \in Seq(Value)
    BY ElementsFacts
  <2> HIDE DEF L, M
  <2>4. /\ A \in Seq(Seq(Value)) /\ Len(A) = Len(L) + 1 /\ A[Len(L) + 1] = E
        /\ \A a \in 1 .. Len(L) : A[a] = L[a]
    <3> HIDE DEF E
    <3> QED
      BY <2>1, <2>3, AppendProperties
  <2> HIDE DEF A
  <2>5. ASSUME NEW a \in 1 .. Len(s) + 1 PROVE M[a] = A[a]
    <3>1. CASE a = Len(s) + 1
      BY <1>2, <1>3, <2>1, <2>2, <2>4, <3>1
    <3>2. CASE a \in 1 .. Len(s)
      BY <1>3, <1>4, <2>1, <2>2, <2>4, <3>2
    <3> QED
      BY <1>3, <3>1, <3>2
  <2>6. M = A
    BY <2>1, <2>2, <2>4, <2>5, SeqEqual
  <2> QED
    BY <2>6 DEF L, M, A, E
<1>8. ViewsOf(q, its) = ViewsOf(s, its)
  BY <1>4, <1>5 DEF ViewsOf
<1> QED
  BY <1>2, <1>3, <1>6, <1>7, <1>8

Replaced(f, a, x) == [f EXCEPT ![a] = x]

LEMMA ReplacedList ==
  ASSUME NEW s \in Seq(Filled), NEW a \in DOMAIN s, NEW r \in Filled, NEW q, q = Replaced(s, a, r)
  PROVE  /\ q \in Seq(Filled) /\ DOMAIN q = DOMAIN s /\ q[a] = r
         /\ \A b \in DOMAIN s : b # a => q[b] = s[b]
         /\ ListsOf(q) = Replaced(ListsOf(s), a, Elements(r))
<1>1. a \in 1 .. Len(s) /\ DOMAIN s = 1 .. Len(s)
  BY ListsFacts
<1>2. q \in Seq(Filled)
  BY <1>1, Written DEF Replaced
<1>3. DOMAIN q = DOMAIN s /\ q[a] = r /\ \A b \in DOMAIN s : b # a => q[b] = s[b]
  BY DEF Replaced
<1> QED
  BY <1>2, <1>3 DEF ListsOf, Replaced

(* The views when the list a changed: those of a are stale.                *)
Stopped(V, a) == [i \in DOMAIN V |-> IF V[i].list = a THEN StaleView(a) ELSE V[i]]

Newer(r, old) == r.modCount = old.modCount + 1

LEMMA ChangedList ==
  ASSUME NEW s, NEW its, InStep(s, its), NEW a \in DOMAIN s, NEW r \in Filled,
         Newer(r, s[a]), NEW q, q = Replaced(s, a, r)
  PROVE  /\ InStep(q, its)
         /\ ListsOf(q) = Replaced(ListsOf(s), a, Elements(r))
         /\ ViewsOf(q, its) = Stopped(ViewsOf(s, its), a)
<1>1. s \in Seq(Filled) /\ its \in Seq(Cursor)
  BY DEF InStep
<1>2. /\ q \in Seq(Filled) /\ DOMAIN q = DOMAIN s /\ q[a] = r
      /\ \A b \in DOMAIN s : b # a => q[b] = s[b]
      /\ ListsOf(q) = Replaced(ListsOf(s), a, Elements(r))
  BY <1>1, ReplacedList
<1> DEFINE V == ViewsOf(s, its)
<1>3. ASSUME NEW i \in DOMAIN its
      PROVE  /\ its[i].array \in DOMAIN q /\ Follows(q[its[i].array], its[i])
             /\ Remaining(q[its[i].array], its[i]) = IF V[i].list = a THEN StaleView(a) ELSE V[i]
  <2>1. /\ its[i] \in Cursor /\ its[i].array \in DOMAIN s
        /\ Follows(s[its[i].array], its[i]) /\ V[i].list = its[i].array
        /\ V[i] = Remaining(s[its[i].array], its[i])
    BY ViewsFacts
  <2>2. its[i].modCount \in Nat /\ s[a].modCount \in Nat /\ r.modCount \in Nat
    BY <1>1, <2>1, CursorFacts, ListsFacts, FilledFacts
  <2> HIDE DEF V
  <2>3. CASE its[i].array = a
    <3>1. its[i].modCount <= s[a].modCount
      BY <2>1, <2>3 DEF Follows
    <3>2. its[i].modCount < r.modCount
      BY <2>2, <3>1 DEF Newer
    <3>3. its[i].modCount # r.modCount /\ its[i].modCount <= r.modCount
      BY <2>2, <3>2
    <3>4. Remaining(r, its[i]) = StaleView(a)
      BY <2>1, <2>3, <3>3, OldView
    <3>5. Follows(r, its[i])
      BY <3>3 DEF Follows
    <3> QED
      BY <1>2, <2>1, <2>3, <3>4, <3>5
  <2>4. CASE its[i].array # a
    BY <1>2, <2>1, <2>4
  <2> QED
    BY <2>3, <2>4
<1>4. InStep(q, its)
  BY <1>1, <1>2, <1>3 DEF InStep
<1>5. DOMAIN V = DOMAIN its
  BY DEF ViewsOf
<1> HIDE DEF V
<1>6. ViewsOf(q, its) = Stopped(V, a)
  BY <1>3, <1>5 DEF ViewsOf, Stopped
<1> QED
  BY <1>2, <1>4, <1>6 DEF V

LEMMA AppendedIterator ==
  ASSUME NEW s, NEW its, InStep(s, its), NEW x \in Cursor, x.array \in DOMAIN s,
         Follows(s[x.array], x), NEW j, j = Append(its, x)
  PROVE  /\ InStep(s, j) /\ Len(j) = Len(ViewsOf(s, its)) + 1
         /\ ViewsOf(s, j) = Append(ViewsOf(s, its), Remaining(s[x.array], x))
<1>1. s \in Seq(Filled) /\ its \in Seq(Cursor)
  BY DEF InStep
<1>2. /\ j \in Seq(Cursor) /\ Len(j) = Len(its) + 1 /\ j[Len(its) + 1] = x
      /\ \A i \in 1 .. Len(its) : j[i] = its[i]
  BY <1>1, AppendProperties
<1>3. Len(its) \in Nat /\ DOMAIN its = 1 .. Len(its) /\ DOMAIN j = 1 .. Len(its) + 1
  BY <1>1, <1>2, LenProperties
<1>4. \A i \in DOMAIN j : i = Len(its) + 1 \/ i \in DOMAIN its
  BY <1>3
<1>5. \A i \in DOMAIN its : i \in DOMAIN j /\ j[i] = its[i]
  BY <1>2, <1>3
<1>6. InStep(s, j)
  BY <1>1, <1>2, <1>4, <1>5 DEF InStep
<1> DEFINE V == ViewsOf(s, its)
           W == ViewsOf(s, j)
           R == Remaining(s[x.array], x)
           A == Append(V, R)
<1>7. /\ V \in Seq(View) /\ Len(V) = Len(its)
      /\ \A i \in DOMAIN its : V[i] = Remaining(s[its[i].array], its[i])
  BY ViewsFacts
<1>8. /\ W \in Seq(View) /\ Len(W) = Len(its) + 1
      /\ \A i \in DOMAIN j : W[i] = Remaining(s[j[i].array], j[i])
  BY ZenonT(60), <1>2, <1>6, ViewsFacts
<1>9. R \in View
  BY <1>1, ListsFacts, AnyView
<1> HIDE DEF V, W
<1>10. /\ A \in Seq(View) /\ Len(A) = Len(its) + 1 /\ A[Len(its) + 1] = R
       /\ \A i \in 1 .. Len(its) : A[i] = V[i]
  <2> HIDE DEF R
  <2> QED
    BY <1>7, <1>9, AppendProperties
<1> HIDE DEF A
<1>11. ASSUME NEW i \in 1 .. Len(its) + 1 PROVE W[i] = A[i]
  <2>1. CASE i = Len(its) + 1
    BY <1>2, <1>3, <1>8, <1>10, <2>1
  <2>2. CASE i \in DOMAIN its
    BY <1>3, <1>5, <1>7, <1>8, <1>10, <2>2
  <2> QED
    BY <1>3, <1>4, <2>1, <2>2
<1>12. W = A
  BY <1>8, <1>10, <1>11, SeqEqual
<1> QED
  BY <1>2, <1>6, <1>7, <1>12 DEF V, W, A, R

LEMMA ChangedIterator ==
  ASSUME NEW s, NEW its, InStep(s, its), NEW i \in DOMAIN its, NEW x \in Cursor,
         x.array = its[i].array, Follows(s[x.array], x), NEW j, j = Replaced(its, i, x)
  PROVE  /\ InStep(s, j)
         /\ ViewsOf(s, j) = Replaced(ViewsOf(s, its), i, Remaining(s[x.array], x))
<1>1. s \in Seq(Filled) /\ its \in Seq(Cursor) /\ i \in 1 .. Len(its)
  BY LenProperties DEF InStep
<1>2. j \in Seq(Cursor)
  BY <1>1, Written DEF Replaced
<1>3. DOMAIN j = DOMAIN its /\ j[i] = x /\ \A k \in DOMAIN its : k # i => j[k] = its[k]
  BY DEF Replaced
<1>4. InStep(s, j)
  <2>1. ASSUME NEW k \in DOMAIN j
        PROVE  j[k].array \in DOMAIN s /\ Follows(s[j[k].array], j[k])
    <3>1. its[k].array \in DOMAIN s /\ Follows(s[its[k].array], its[k])
      BY <1>3 DEF InStep
    <3>2. its[i].array \in DOMAIN s
      BY DEF InStep
    <3> QED
      BY <1>3, <3>1, <3>2
  <2> QED
    BY <1>1, <1>2, <2>1 DEF InStep
<1>5. ViewsOf(s, j) = Replaced(ViewsOf(s, its), i, Remaining(s[x.array], x))
  BY <1>3 DEF ViewsOf, Replaced
<1> QED
  BY <1>4, <1>5

(* A store into a list changes what its iterators have still to visit.     *)
SameShape(r, old) == r.size = old.size /\ r.modCount = old.modCount

Stored(r, old, i, v) ==
  SameShape(r, old) /\ i \in 1 .. old.size /\ Elements(r) = [Elements(old) EXCEPT ![i] = v]

Wrote(R, j, v) == [R EXCEPT !.todo[j] = v]

(* A view before and after: R becomes Q.                                   *)
Seen(Q, R, size, c, i, v) ==
  /\ R.stale = FALSE /\ c \in Nat /\ size - Len(R.todo) = c
  /\ i > c => Q = Wrote(R, i - c, v)
  /\ i <= c => Q = R

LEMMA PutRemaining ==
  ASSUME NEW r \in Filled, NEW old \in Filled, NEW it \in Cursor,
         Follows(old, it), it.modCount = old.modCount, NEW i \in Nat, NEW v \in Value,
         Stored(r, old, i, v)
  PROVE  Seen(Remaining(r, it), Remaining(old, it), old.size, it.cursor, i, v)
<1> DEFINE R == Remaining(old, it)
           c == it.cursor
           Q == Remaining(r, it)
           z == old.size - c
<1>0. /\ i \in 1 .. old.size /\ Elements(r) = [Elements(old) EXCEPT ![i] = v]
  BY DEF Stored
<1>1. r.size = old.size /\ Follows(r, it) /\ it.modCount = r.modCount /\ old.size \in Nat
  BY FilledFacts DEF SameShape, Follows, Stored
<1>2. /\ c \in Nat /\ c <= old.size
  BY CursorFacts DEF Follows
<1>3. /\ R = ViewOf(it, R.todo) /\ R.todo \in Seq(Value) /\ Len(R.todo) = z
      /\ \A k \in 1 .. z : R.todo[k] = Elements(old)[c + k]
  <2>1. R = ViewOf(it, R.todo) /\ Rest(old, c, R.todo)
    BY FreshView
  <2> QED
    BY <2>1 DEF Rest
<1>4. /\ Q = ViewOf(it, Q.todo) /\ Q.todo \in Seq(Value) /\ Len(Q.todo) = z
      /\ \A k \in 1 .. z : Q.todo[k] = Elements(r)[c + k]
  <2> HIDE DEF Q
  <2>1. Q = ViewOf(it, Q.todo) /\ Rest(r, c, Q.todo)
    BY <1>1, FreshView DEF Q
  <2> QED
    BY <1>1, <2>1 DEF Rest
<1>5. \A k \in 1 .. old.size : Elements(r)[k] = IF k = i THEN v ELSE Elements(old)[k]
  BY <1>0, <1>1, ElementsFacts, LenProperties
<1>6. \A k \in 1 .. z : c + k \in 1 .. old.size
  BY <1>1, <1>2
<1> HIDE DEF Q
<1>7. ASSUME i > c PROVE Q = Wrote(R, i - c, v)
  <2> DEFINE j == i - c
             T == [R.todo EXCEPT ![j] = v]
  <2>1. j \in 1 .. Len(R.todo) /\ \A k \in 1 .. z : c + k = i <=> k = j
    BY <1>0, <1>1, <1>2, <1>3, <1>7
  <2> HIDE DEF j
  <2>2. /\ T \in Seq(Value) /\ Len(T) = Len(R.todo) /\ T[j] = v
        /\ \A k \in 1 .. Len(R.todo) : k # j => T[k] = R.todo[k]
    BY <1>3, <2>1, Written
  <2> HIDE DEF T
  <2>3. ASSUME NEW k \in 1 .. z PROVE Q.todo[k] = T[k]
    <3>1. Q.todo[k] = IF k = j THEN v ELSE Elements(old)[c + k]
      BY <1>4, <1>5, <1>6, <2>1
    <3> QED
      BY <1>3, <2>2, <3>1
  <2>4. Q.todo = T
    BY <1>3, <1>4, <2>2, <2>3, SeqEqual
  <2>5. [R EXCEPT !.todo[j] = v] = [R EXCEPT !.todo = T]
    BY DEF T
  <2>6. Q = [R EXCEPT !.todo = T]
    <3> DEFINE t == R.todo
    <3>1. R = ViewOf(it, t) /\ Q = ViewOf(it, T)
      BY <1>3, <1>4, <2>4
    <3> HIDE DEF t
    <3>2. [ViewOf(it, t) EXCEPT !.todo = T] = ViewOf(it, T)
      <4> DEFINE b == it.lastRet >= 0
                 l == it.array
                 no == FALSE
      <4>1. ViewOf(it, t) = [list |-> l, todo |-> t, last |-> b, stale |-> no]
        BY DEF ViewOf
      <4>2. ViewOf(it, T) = [list |-> l, todo |-> T, last |-> b, stale |-> no]
        BY DEF ViewOf
      <4> HIDE DEF b, l, no
      <4> QED
        BY <4>1, <4>2
    <3>3. [R EXCEPT !.todo = T] = [ViewOf(it, t) EXCEPT !.todo = T]
      BY <3>1
    <3> QED
      BY <3>1, <3>2, <3>3
  <2> QED
    BY <2>5, <2>6 DEF j, Wrote
<1>8. ASSUME i <= c PROVE Q = R
  <2>1. \A k \in 1 .. z : c + k # i
    BY <1>1, <1>2, <1>8
  <2>2. \A k \in 1 .. z : Q.todo[k] = R.todo[k]
    BY <1>3, <1>4, <1>5, <1>6, <2>1
  <2>3. Q.todo = R.todo
    BY <1>3, <1>4, <2>2, SeqEqual
  <2> QED
    BY <1>3, <1>4, <2>3
<1>9. R.stale = FALSE /\ old.size - Len(R.todo) = c
  <2>1. R.stale = FALSE
    BY FreshView
  <2> QED
    BY <1>1, <1>2, <1>3, <2>1
<1> QED
  BY <1>2, <1>7, <1>8, <1>9 DEF Q, Seen

Place(L, V, it) == Len(L[V[it].list]) - Len(V[it].todo)

Stores(L, V, l, i, v) ==
  [it \in DOMAIN V |->
     IF V[it].list = l /\ ~V[it].stale /\ i >= Place(L, V, it)
       THEN [V[it] EXCEPT !.todo[i + 1 - Place(L, V, it)] = v]
       ELSE V[it]]

LEMMA PutList ==
  ASSUME NEW s, NEW its, InStep(s, its), NEW a \in DOMAIN s, NEW r \in Filled,
         NEW p \in Nat, NEW i \in Nat, i = p + 1, NEW v \in Value, Stored(r, s[a], i, v),
         NEW q, q = Replaced(s, a, r)
  PROVE  /\ InStep(q, its)
         /\ ListsOf(q) = Replaced(ListsOf(s), a, Elements(r))
         /\ ViewsOf(q, its) = Stores(ListsOf(s), ViewsOf(s, its), a, p, v)
<1>1. s \in Seq(Filled) /\ its \in Seq(Cursor) /\ s[a] \in Filled /\ s[a].size \in Nat
  BY ListsFacts, FilledFacts DEF InStep
<1>2. /\ q \in Seq(Filled) /\ DOMAIN q = DOMAIN s /\ q[a] = r
      /\ \A b \in DOMAIN s : b # a => q[b] = s[b]
      /\ ListsOf(q) = Replaced(ListsOf(s), a, Elements(r))
  BY <1>1, ReplacedList
<1> DEFINE V == ViewsOf(s, its)
           L == ListsOf(s)
           Mended(k) == IF V[k].list = a /\ ~V[k].stale /\ p >= Place(L, V, k)
                        THEN [V[k] EXCEPT !.todo[p + 1 - Place(L, V, k)] = v] ELSE V[k]
<1>3. ASSUME NEW k \in DOMAIN its
      PROVE  /\ its[k].array \in DOMAIN q /\ Follows(q[its[k].array], its[k])
             /\ Remaining(q[its[k].array], its[k]) = Mended(k)
  <2> DEFINE x == its[k]
             R == V[k]
  <2>1. /\ x \in Cursor /\ x.array \in DOMAIN s /\ Follows(s[x.array], x)
        /\ R.list = x.array /\ R = Remaining(s[x.array], x)
    BY ViewsFacts
  <2>2. Len(L[a]) = s[a].size
    BY <1>1, ListsFacts, ElementsFacts
  <2>3. R.list = a => Place(L, V, k) = s[a].size - Len(R.todo)
    BY <2>2 DEF Place
  <2> HIDE DEF x, R, V, L
  <2>4. CASE x.array # a
    BY <1>2, <2>1, <2>4 DEF x, R
  <2>5. CASE x.array = a /\ x.modCount # s[a].modCount
    <3>1. R = StaleView(a) /\ Remaining(r, x) = StaleView(a)
      BY <1>1, <2>1, <2>5, OldView DEF SameShape, Stored
    <3>2. R.stale = TRUE
      BY <3>1 DEF StaleView
    <3>3. Follows(r, x)
      BY <2>1, <2>5 DEF Follows, SameShape, Stored
    <3> QED
      BY <1>2, <2>1, <2>5, <3>1, <3>2, <3>3 DEF x, R
  <2>6. CASE x.array = a /\ x.modCount = s[a].modCount
    <3>1. Follows(r, x) /\ Follows(s[a], x)
      BY <2>1, <2>6 DEF Follows, SameShape, Stored
    <3> DEFINE c == x.cursor
    <3>0. c = x.cursor
      OBVIOUS
    <3> HIDE DEF c
    <3>2. /\ R.stale = FALSE /\ c \in Nat /\ s[a].size - Len(R.todo) = c
          /\ i > c => Remaining(r, x) = Wrote(R, i - c, v)
          /\ i <= c => Remaining(r, x) = R
      <4>1. Seen(Remaining(r, x), Remaining(s[a], x), s[a].size, x.cursor, i, v)
        BY <1>1, <2>1, <2>6, <3>1, PutRemaining
      <4> QED
        BY <2>1, <2>6, <3>0, <4>1 DEF Seen
    <3>3. Place(L, V, k) = c /\ (p >= c <=> i > c) /\ (~(p >= c) <=> i <= c)
      BY <2>1, <2>3, <2>6, <3>2
    <3>4. Remaining(r, x) = Mended(k)
      BY <2>1, <2>6, <3>2, <3>3 DEF R, Wrote
    <3> QED
      BY <1>2, <2>1, <2>6, <3>1, <3>4 DEF x
  <2> QED
    BY <2>4, <2>5, <2>6
<1>4. InStep(q, its)
  BY <1>1, <1>2, <1>3 DEF InStep
<1>5. DOMAIN V = DOMAIN its
  BY DEF ViewsOf
<1> HIDE DEF V, L
<1>6. ViewsOf(q, its) = [k \in DOMAIN V |-> Mended(k)]
  <2> HIDE DEF Mended
  <2> QED
    BY <1>3, <1>5 DEF ViewsOf
<1> QED
  BY <1>2, <1>4, <1>6 DEF V, L, Stores

-----------------------------------------------------------------------------
(* Every operation keeps the invariant and does to the lists what it is    *)
(* supposed to.                                                            *)
Kept == IInv' /\ [Abstract!Next]_(Abstract!vars)

LEMMA ArrayFacts ==
  ASSUME IInv, NEW a \in DOMAIN arrays
  PROVE  /\ arrays[a] \in Filled /\ a \in DOMAIN ListsOf(arrays)
         /\ ListsOf(arrays)[a] = Elements(arrays[a])
         /\ arrays[a].size \in Nat /\ Len(ListsOf(arrays)[a]) = arrays[a].size
         /\ ListsOf(arrays)[a] \in Seq(Value)
         /\ \A i \in 1 .. arrays[a].size : ListsOf(arrays)[a][i] = arrays[a].cells[i]
<1>1. arrays \in Seq(Filled)
  BY DEF IInv, InStep
<1> QED
  BY <1>1, ListsFacts, ElementsFacts, FilledFacts

LEMMA BuildStep ==
  ASSUME IInv, NEW type \in {"array", "tuple"}, NEW n \in 0 .. MaxLength,
         NEW values \in [1 .. n -> Value], BuildArray(type, values)
  PROVE  Kept
<1> DEFINE r == Built(type, values)
<1>1. n \in Nat
  BY ArrayAssumption
<1>2. values \in Seq(Value)
  BY <1>1, MakeSeq
<1>3. r \in Filled /\ Elements(r) = values
  BY <1>2, BuiltHolds
<1>4. /\ arrays' = Append(arrays, r) /\ call' = <<"create", Len(arrays'), values, 0>>
      /\ iterators' = iterators /\ intact' = intact
  BY DEF BuildArray, Answer
<1> HIDE DEF r
<1>5. InStep(arrays, iterators) /\ intact = TRUE
  BY DEF IInv
<1>6. /\ InStep(arrays', iterators)
      /\ ListsOf(arrays') = Append(ListsOf(arrays), values)
      /\ ViewsOf(arrays', iterators) = ViewsOf(arrays, iterators)
  BY <1>3, <1>4, <1>5, AppendedList
<1>7. Len(ListsOf(arrays')) = Len(arrays')
  BY <1>6, ListsFacts DEF InStep
<1>8. IInv'
  BY <1>4, <1>5, <1>6 DEF IInv
<1>9. Abstract!Create(values)
  BY <1>4, <1>6, <1>7 DEF Abstract!Create
<1>10. Abstract!Next
  BY <1>9 DEF Abstract!Next
<1> QED
  BY <1>8, <1>10 DEF Kept

LEMMA SliceStep ==
  ASSUME Careful, IInv, NEW a \in DOMAIN arrays, NEW start \in Places, NEW end \in Places,
         ArraySlice(a, start, end)
  PROVE  Kept
<1> DEFINE size == arrays[a].size
           s == ComputeSlice(start, end, size)
           from == s[1]
           to == s[2]
           r == Sliced(arrays[a], from, to)
<1>1. start \in Int /\ end \in Int /\ end <= arrays[a].size
  BY ArrayAssumption DEF Careful, ArraySlice
<1>2. /\ arrays[a] \in Filled /\ arrays[a].size \in Nat
      /\ ListsOf(arrays)[a] = Elements(arrays[a])
      /\ Len(ListsOf(arrays)[a]) = arrays[a].size
  BY ArrayFacts
<1>3. /\ from \in 0 .. size /\ to \in from .. size
      /\ from = IF start < 0 THEN 0 ELSE IF start > size THEN size ELSE start
      /\ to = IF end < from THEN from ELSE end
  <2>1. size \in Nat /\ end <= size
    BY <1>1, <1>2
  <2> HIDE DEF size
  <2> QED
    BY <1>1, <2>1 DEF ComputeSlice
<1>4. /\ arrays' = Append(arrays, r) /\ call' = <<"slice", a, <<start, end>>, Len(arrays')>>
      /\ iterators' = iterators /\ intact' = (intact /\ to <= Len(arrays[a].cells))
  BY DEF ArraySlice, Answer
<1> HIDE DEF s
<1>5. r \in Filled /\ Elements(r) = SubSeq(Elements(arrays[a]), from + 1, to)
  BY ZenonT(60), <1>2, <1>3, SlicedHolds
<1> HIDE DEF r
<1>6. InStep(arrays, iterators) /\ intact = TRUE
  BY DEF IInv
<1>7. /\ InStep(arrays', iterators)
      /\ ListsOf(arrays') = Append(ListsOf(arrays), Elements(r))
      /\ ViewsOf(arrays', iterators) = ViewsOf(arrays, iterators)
  BY <1>4, <1>5, <1>6, AppendedList
<1>8. Len(ListsOf(arrays')) = Len(arrays')
  BY <1>7, ListsFacts DEF InStep
<1>9. IInv'
  <2>1. to <= Len(arrays[a].cells)
    BY <1>2, <1>3, FilledFacts
  <2> QED
    BY <1>4, <1>6, <1>7, <2>1 DEF IInv
<1>10. Elements(r) = Abstract!Cut(ListsOf(arrays)[a], start, end)
  <2> DEFINE l == ListsOf(arrays)[a]
             clamp(i) == IF i < 0 THEN 0 ELSE IF i > Len(l) THEN Len(l) ELSE i
  <2>1. from = clamp(start)
    BY <1>2, <1>3
  <2>2. SubSeq(l, from + 1, to) = SubSeq(l, from + 1, clamp(end))
    <3>1. CASE end >= from
      BY <1>1, <1>2, <1>3, <3>1
    <3>2. CASE ~(end >= from)
      <4>1. to = from /\ clamp(end) \in Int /\ clamp(end) <= from /\ from \in Int
        BY <1>1, <1>2, <1>3, <3>2
      <4> HIDE DEF clamp, from, to, l
      <4>2. SubSeq(l, from + 1, to) = <<>>
        BY <4>1, SubSeqEmpty
      <4>3. SubSeq(l, from + 1, clamp(end)) = <<>>
        BY <4>1, SubSeqEmpty
      <4> QED
        BY <4>2, <4>3
    <3> QED
      BY <3>1, <3>2
  <2>3. Abstract!Cut(l, start, end) = SubSeq(l, clamp(start) + 1, clamp(end))
    BY DEF Abstract!Cut
  <2> HIDE DEF clamp, from, to
  <2> QED
    BY <1>2, <1>5, <2>1, <2>2, <2>3
<1>11. Abstract!Slice(a, start, end)
  BY <1>4, <1>7, <1>8, <1>10 DEF Abstract!Slice
<1>12. Abstract!Next
  BY <1>2, <1>11, ArrayFacts DEF Abstract!Next
<1> QED
  BY <1>9, <1>12 DEF Kept

(* A changed array: its list is another one, its iterators are stale.      *)
LEMMA ChangeStep ==
  ASSUME IInv, NEW a \in DOMAIN arrays, NEW r \in Filled, Newer(r, arrays[a]),
         arrays' = Replaced(arrays, a, r), iterators' = iterators
  PROVE  /\ InStep(arrays', iterators')
         /\ ListsOf(arrays') = Replaced(ListsOf(arrays), a, Elements(r))
         /\ ViewsOf(arrays', iterators') = Abstract!Invalidate(a, {})
<1>1. InStep(arrays, iterators)
  BY DEF IInv
<1>2. /\ InStep(arrays', iterators)
      /\ ListsOf(arrays') = Replaced(ListsOf(arrays), a, Elements(r))
      /\ ViewsOf(arrays', iterators) = Stopped(ViewsOf(arrays, iterators), a)
  BY <1>1, ChangedList
<1>3. Abstract!Invalidate(a, {}) = Stopped(ViewsOf(arrays, iterators), a)
  BY DEF Abstract!Invalidate, Abstract!Stale, Stopped, StaleView
<1> QED
  BY <1>2, <1>3

LEMMA AddStep ==
  ASSUME Careful, IInv, NEW a \in DOMAIN arrays, NEW v \in Value, ArrayAdd(a, v)
  PROVE  Kept
<1>1. /\ arrays[a] \in Filled /\ a \in DOMAIN ListsOf(arrays)
      /\ ListsOf(arrays)[a] = Elements(arrays[a])
  BY ArrayFacts
<1>2. iterators' = iterators /\ intact = TRUE
  BY DEF ArrayAdd, IInv
<1>3. CASE GrowFails(arrays[a])
  <2> DEFINE r == [arrays[a] EXCEPT !.modCount = @ + 1]
             m == arrays[a].modCount + 1
  <2>1. /\ arrays' = Replaced(arrays, a, r) /\ call' = <<"add", a, v, Raised>>
        /\ intact' = intact
    BY <1>3 DEF ArrayAdd, Answer, Replaced
  <2>2. /\ arrays[a].type \in {"array", "tuple"} /\ arrays[a].modCount \in Nat
        /\ arrays[a].size \in Nat /\ arrays[a].capacity \in Nat
        /\ arrays[a].size <= arrays[a].capacity /\ arrays[a].cells \in Seq(Cell)
        /\ Len(arrays[a].cells) = arrays[a].capacity /\ Below(arrays[a].cells, arrays[a].size)
        /\ arrays[a] = Rec(arrays[a].type, arrays[a].cells, arrays[a].size, arrays[a].capacity,
                           arrays[a].modCount)
    BY <1>1, FilledFacts
  <2>3. m \in Nat /\ m = arrays[a].modCount + 1
    BY <2>2
  <2>4. r = [arrays[a] EXCEPT !.modCount = m]
    OBVIOUS
  <2> HIDE DEF r, m
  <2>5. r = Rec(arrays[a].type, arrays[a].cells, arrays[a].size, arrays[a].capacity, m)
    BY <2>2, <2>4 DEF Rec
  <2>6. /\ r \in Filled /\ r.modCount = m /\ r.cells = arrays[a].cells
        /\ r.size = arrays[a].size
    BY <2>2, <2>3, <2>5, Make
  <2>7. Newer(r, arrays[a]) /\ Elements(r) = Elements(arrays[a])
    BY <2>3, <2>6 DEF Newer, Elements
  <2>8. /\ InStep(arrays', iterators')
        /\ ListsOf(arrays') = Replaced(ListsOf(arrays), a, ListsOf(arrays)[a])
        /\ ViewsOf(arrays', iterators') = Abstract!Invalidate(a, {})
    BY <1>1, <1>2, <2>1, <2>6, <2>7, ChangeStep
  <2>9. ListsOf(arrays') = ListsOf(arrays)
    BY <2>8 DEF Replaced, ListsOf
  <2>10. IInv'
    BY <1>2, <2>1, <2>8 DEF IInv
  <2>11. Abstract!AddFails(a, v)
    BY <2>1, <2>8, <2>9 DEF Abstract!AddFails
  <2>12. Abstract!Next
    BY <1>1, <2>11 DEF Abstract!Next
  <2> QED
    BY <2>10, <2>12 DEF Kept
<1>4. CASE ~GrowFails(arrays[a])
  <2> DEFINE r == AppendToArray(arrays[a], v)
  <2>1. /\ arrays' = Replaced(arrays, a, r) /\ call' = <<"add", a, v, 0>>
        /\ intact' = (intact /\ arrays[a].size + 1 <= Len(arrays[a].cells))
    BY <1>4 DEF ArrayAdd, Answer, Replaced
  <2>2. ~Full(arrays[a])
    BY <1>4 DEF ArrayAdd, Careful
  <2> HIDE DEF r
  <2>3. /\ r \in Filled /\ Newer(r, arrays[a])
        /\ Elements(r) = Append(ListsOf(arrays)[a], v)
        /\ arrays[a].size + 1 <= Len(arrays[a].cells)
    BY <1>1, <2>2, Added DEF r, Newer
  <2>4. /\ InStep(arrays', iterators')
        /\ ListsOf(arrays') = Replaced(ListsOf(arrays), a, Append(ListsOf(arrays)[a], v))
        /\ ViewsOf(arrays', iterators') = Abstract!Invalidate(a, {})
    BY <1>2, <2>1, <2>3, ChangeStep
  <2>5. IInv'
    BY <1>2, <2>1, <2>3, <2>4 DEF IInv
  <2>6. Abstract!Add(a, v)
    BY <2>1, <2>4 DEF Abstract!Add, Replaced
  <2>7. Abstract!Next
    BY <1>1, <2>6 DEF Abstract!Next
  <2> QED
    BY <2>5, <2>7 DEF Kept
<1> QED
  BY <1>3, <1>4

(* A refused call leaves everything as it was.                             *)
LEMMA SameStep ==
  ASSUME IInv, UNCHANGED <<arrays, iterators, intact>>
  PROVE  /\ IInv' /\ ListsOf(arrays') = ListsOf(arrays)
         /\ ViewsOf(arrays', iterators') = ViewsOf(arrays, iterators)
  BY DEF IInv

LEMMA DeleteStep ==
  ASSUME IInv, NEW a \in DOMAIN arrays, NEW index \in Places, ArrayRemoveAt(a, index)
  PROVE  Kept
<1>1. /\ arrays[a] \in Filled /\ a \in DOMAIN ListsOf(arrays)
      /\ ListsOf(arrays)[a] = Elements(arrays[a]) /\ arrays[a].size \in Nat
      /\ Len(ListsOf(arrays)[a]) = arrays[a].size /\ index \in Int
  BY ArrayFacts, ArrayAssumption
<1>2. Abstract!Delete(a, index) => Abstract!Next
  BY <1>1 DEF Abstract!Next
<1>3. CASE index < 0 \/ index >= arrays[a].size
  <2>1. call' = <<"delete", a, index, Raised>> /\ UNCHANGED <<arrays, iterators, intact>>
    BY <1>3 DEF ArrayRemoveAt, Refuse, Answer
  <2>2. ~Abstract!Inside(ListsOf(arrays)[a], index)
    BY <1>1, <1>3 DEF Abstract!Inside
  <2>3. Abstract!Delete(a, index)
    BY <2>1, <2>2, SameStep DEF Abstract!Delete, Abstract!Refuse
  <2> QED
    BY <1>2, <2>1, <2>3, SameStep DEF Kept
<1>4. CASE ~(index < 0 \/ index >= arrays[a].size)
  <2> DEFINE i == index + 1
             r == RemoveFrom(arrays[a], i)
  <2>1. /\ arrays' = Replaced(arrays, a, r) /\ call' = <<"delete", a, index, 0>>
        /\ iterators' = iterators /\ intact' = intact
    BY <1>4 DEF ArrayRemoveAt, Answer, Replaced
  <2>2. i \in 1 .. arrays[a].size /\ Abstract!Inside(ListsOf(arrays)[a], index)
    BY <1>1, <1>4 DEF Abstract!Inside
  <2>3. i = index + 1 /\ r = RemoveFrom(arrays[a], i)
    OBVIOUS
  <2> HIDE DEF i, r
  <2>4. /\ r \in Filled /\ Newer(r, arrays[a])
        /\ Elements(r) = RemoveAt(ListsOf(arrays)[a], i)
    BY <1>1, <2>2, <2>3, Removed DEF Newer
  <2>5. /\ InStep(arrays', iterators')
        /\ ListsOf(arrays') = Replaced(ListsOf(arrays), a, RemoveAt(ListsOf(arrays)[a], i))
        /\ ViewsOf(arrays', iterators') = Abstract!Invalidate(a, {})
    BY <2>1, <2>4, ChangeStep
  <2>6. IInv'
    BY <2>1, <2>5 DEF IInv
  <2>7. Abstract!Delete(a, index)
    <3>1. Abstract!RemoveAt(ListsOf(arrays)[a], i) = RemoveAt(ListsOf(arrays)[a], i)
      BY DEF RemoveAt, Abstract!RemoveAt
    <3> QED
      BY <2>1, <2>2, <2>3, <2>5, <3>1 DEF Abstract!Delete, Replaced
  <2> QED
    BY <1>2, <2>6, <2>7 DEF Kept
<1> QED
  BY <1>3, <1>4

LEMMA AtStep ==
  ASSUME IInv, NEW a \in DOMAIN arrays, NEW index \in Places, IndexValue(a, index)
  PROVE  Kept
<1>1. /\ a \in DOMAIN ListsOf(arrays) /\ arrays[a].size \in Nat /\ index \in Int
      /\ Len(ListsOf(arrays)[a]) = arrays[a].size
      /\ \A i \in 1 .. arrays[a].size : ListsOf(arrays)[a][i] = arrays[a].cells[i]
  BY ArrayFacts, ArrayAssumption
<1> DEFINE place == IF index < 0 THEN arrays[a].size + index ELSE index
<1>2. place = (IF index < 0 THEN Len(ListsOf(arrays)[a]) + index ELSE index) /\ place \in Int
  BY <1>1
<1>3. UNCHANGED <<arrays, iterators, intact>>
  BY DEF IndexValue, Raise, Unchanged
<1>4. Abstract!At(a, index)
  <2>1. CASE place < 0 \/ place > arrays[a].size - 1
    <3>1. call' = <<"at", a, index, Raised>>
      BY <2>1 DEF IndexValue, Raise, Answer
    <3>2. ~Abstract!Inside(ListsOf(arrays)[a], place)
      BY <1>1, <1>2, <2>1 DEF Abstract!Inside
    <3> HIDE DEF place
    <3> QED
      BY <1>2, <1>3, <3>1, <3>2, SameStep DEF Abstract!At, Abstract!Refuse
  <2>2. CASE ~(place < 0 \/ place > arrays[a].size - 1)
    <3>1. call' = <<"at", a, index, arrays[a].cells[place + 1]>>
      BY <2>2 DEF IndexValue, Answer
    <3> HIDE DEF place
    <3>2. Abstract!Inside(ListsOf(arrays)[a], place) /\ place + 1 \in 1 .. arrays[a].size
      BY <1>1, <1>2, <2>2 DEF Abstract!Inside
    <3>3. arrays[a].cells[place + 1] = ListsOf(arrays)[a][place + 1]
      BY <1>1, <3>2
    <3> QED
      BY <1>2, <1>3, <3>1, <3>2, <3>3, SameStep DEF Abstract!At
  <2> QED
    BY <2>1, <2>2
<1>5. Abstract!Next
  BY <1>1, <1>4 DEF Abstract!Next
<1> QED
  BY <1>3, <1>5, SameStep DEF Kept

LEMMA ContainsStep ==
  ASSUME IInv, NEW a \in DOMAIN arrays, NEW v \in Value, ArrayContains(a, v)
  PROVE  Kept
<1>1. /\ a \in DOMAIN ListsOf(arrays) /\ arrays[a].size \in Nat
      /\ ListsOf(arrays)[a] \in Seq(Value) /\ Len(ListsOf(arrays)[a]) = arrays[a].size
      /\ \A i \in 1 .. arrays[a].size : ListsOf(arrays)[a][i] = arrays[a].cells[i]
  BY ArrayFacts
<1>2. UNCHANGED <<arrays, iterators, intact>>
  BY DEF ArrayContains, Unchanged
<1>3. v \in Abstract!Range(ListsOf(arrays)[a])
        <=> \E i \in 1 .. arrays[a].size : arrays[a].cells[i] = v
  <2>1. DOMAIN ListsOf(arrays)[a] = 1 .. arrays[a].size
    BY <1>1, LenProperties
  <2> QED
    BY <1>1, <2>1 DEF Abstract!Range
<1>4. Abstract!Includes(a, v)
  BY <1>2, <1>3, SameStep DEF Abstract!Includes, ArrayContains, Answer
<1>5. Abstract!Next
  BY <1>1, <1>4 DEF Abstract!Next
<1> QED
  BY <1>2, <1>5, SameStep DEF Kept

LEMMA PutStep ==
  ASSUME IInv, NEW a \in DOMAIN arrays, NEW index \in Places, NEW v \in Value,
         IndexStore(a, index, v)
  PROVE  Kept
<1>1. /\ arrays[a] \in Filled /\ a \in DOMAIN ListsOf(arrays)
      /\ ListsOf(arrays)[a] = Elements(arrays[a]) /\ arrays[a].size \in Nat
      /\ Len(ListsOf(arrays)[a]) = arrays[a].size /\ index \in Int
  BY ArrayFacts, ArrayAssumption
<1>2. Abstract!Put(a, index, v) => Abstract!Next
  BY <1>1 DEF Abstract!Next
<1>3. CASE index < 0 \/ index > arrays[a].size - 1
  <2>1. call' = <<"put", a, <<index, v>>, Raised>> /\ UNCHANGED <<arrays, iterators, intact>>
    BY <1>3 DEF IndexStore, Refuse, Answer
  <2>2. ~Abstract!Inside(ListsOf(arrays)[a], index)
    BY <1>1, <1>3 DEF Abstract!Inside
  <2>3. Abstract!Put(a, index, v)
    BY <2>1, <2>2, SameStep DEF Abstract!Put, Abstract!Refuse
  <2> QED
    BY <1>2, <2>1, <2>3, SameStep DEF Kept
<1>4. CASE ~(index < 0 \/ index > arrays[a].size - 1)
  <2> DEFINE i == index + 1
             r == Write(arrays[a], i, v)
  <2>1. /\ arrays' = Replaced(arrays, a, r) /\ call' = <<"put", a, <<index, v>>, v>>
        /\ iterators' = iterators /\ intact' = intact
    BY <1>4 DEF IndexStore, Answer, Replaced
  <2>2. /\ i \in 1 .. arrays[a].size /\ i \in Nat /\ index \in Nat
        /\ Abstract!Inside(ListsOf(arrays)[a], index)
    BY <1>1, <1>4 DEF Abstract!Inside
  <2>3. i = index + 1 /\ r = Write(arrays[a], i, v)
    OBVIOUS
  <2> HIDE DEF i, r
  <2>4. /\ r \in Filled /\ r.size = arrays[a].size /\ r.modCount = arrays[a].modCount
        /\ Elements(r) = [Elements(arrays[a]) EXCEPT ![i] = v]
    BY <1>1, <2>2, <2>3, Put
  <2>5. Stored(r, arrays[a], i, v)
    BY <2>2, <2>4 DEF Stored, SameShape
  <2>6. InStep(arrays, iterators) /\ intact = TRUE
    BY DEF IInv
  <2>7. /\ InStep(arrays', iterators)
        /\ ListsOf(arrays') = Replaced(ListsOf(arrays), a, Elements(r))
        /\ ViewsOf(arrays', iterators)
             = Stores(ListsOf(arrays), ViewsOf(arrays, iterators), a, index, v)
    <3>1. r \in Filled /\ i \in Nat /\ index \in Nat /\ i = index + 1
      BY <2>2, <2>3, <2>4
    <3>2. arrays' = Replaced(arrays, a, r)
      BY <2>1
    <3> QED
      BY <2>5, <2>6, <3>1, <3>2, PutList
  <2>8. IInv'
    BY <2>1, <2>6, <2>7 DEF IInv
  <2>9. Abstract!Put(a, index, v)
    <3>1. ListsOf(arrays') = [ListsOf(arrays) EXCEPT ![a][index + 1] = v]
      BY <1>1, <2>3, <2>4, <2>7 DEF Replaced
    <3>2. ViewsOf(arrays', iterators') =
            [it \in DOMAIN ViewsOf(arrays, iterators) |->
               IF /\ ViewsOf(arrays, iterators)[it].list = a
                  /\ ~ViewsOf(arrays, iterators)[it].stale /\ index >= Abstract!Position(it)
                 THEN [ViewsOf(arrays, iterators)[it]
                         EXCEPT !.todo[index + 1 - Abstract!Position(it)] = v]
                 ELSE ViewsOf(arrays, iterators)[it]]
      BY <2>1, <2>7 DEF Stores, Place, Abstract!Position
    <3> QED
      BY <2>1, <2>2, <3>1, <3>2 DEF Abstract!Put
  <2> QED
    BY <1>2, <2>8, <2>9 DEF Kept
<1> QED
  BY <1>3, <1>4

-----------------------------------------------------------------------------
(* The operations of iterators.                                            *)
LEMMA IteratorFacts ==
  ASSUME IInv, NEW it \in DOMAIN iterators
  PROVE  /\ iterators[it] \in Cursor /\ iterators[it].array \in DOMAIN arrays
         /\ Of(it) \in Filled /\ Follows(Of(it), iterators[it])
         /\ it \in DOMAIN ViewsOf(arrays, iterators)
         /\ ViewsOf(arrays, iterators)[it] = Remaining(Of(it), iterators[it])
         /\ ViewsOf(arrays, iterators)[it].list = iterators[it].array
  BY ViewsFacts DEF IInv, Of

(* What an iterator that may go on has still to visit.                     *)
LEMMA FreshFacts ==
  ASSUME IInv, NEW it \in DOMAIN iterators, Unmodified(it),
         NEW R, R = ViewsOf(arrays, iterators)[it], NEW c, c = iterators[it].cursor
  PROVE  /\ R = ViewOf(iterators[it], R.todo) /\ Rest(Of(it), c, R.todo)
         /\ R.stale = FALSE /\ R.last = (iterators[it].lastRet >= 0)
         /\ c \in Nat /\ c <= Of(it).size /\ Of(it).size \in Nat
         /\ Len(R.todo) = Of(it).size - c /\ R.todo \in Seq(Value)
<1> DEFINE x == iterators[it]
           r == Of(it)
<1>1. /\ x \in Cursor /\ r \in Filled /\ Follows(r, x) /\ x.modCount = r.modCount
      /\ R = Remaining(r, x) /\ c = x.cursor
  BY IteratorFacts DEF Unmodified
<1> HIDE DEF x, r
<1>2. /\ R = ViewOf(x, R.todo) /\ Rest(r, c, R.todo) /\ R.stale = FALSE
      /\ R.last = (x.lastRet >= 0)
  BY <1>1, FreshView
<1>3. c \in Nat /\ r.size \in Nat
  BY <1>1, CursorFacts, FilledFacts
<1>4. c <= r.size
  BY <1>1 DEF Follows
<1>5. Len(R.todo) = r.size - c /\ R.todo \in Seq(Value)
  BY <1>2 DEF Rest
<1> QED
  BY <1>2, <1>3, <1>4, <1>5 DEF x, r

(* An iterator whose array was changed refuses to go on.                   *)
LEMMA StaleFacts ==
  ASSUME IInv, NEW it \in DOMAIN iterators, ~Unmodified(it)
  PROVE  /\ ViewsOf(arrays, iterators)[it] = StaleView(iterators[it].array)
         /\ ViewsOf(arrays, iterators)[it].todo = <<>>
         /\ ViewsOf(arrays, iterators)[it].last = FALSE
         /\ ViewsOf(arrays, iterators)[it].stale = TRUE
<1>1. ViewsOf(arrays, iterators)[it] = StaleView(iterators[it].array)
  BY IteratorFacts, OldView DEF Unmodified
<1> QED
  BY <1>1 DEF StaleView

LEMMA IterateStep ==
  ASSUME IInv, NEW a \in DOMAIN arrays, ArrayIterator(a)
  PROVE  Kept
<1> DEFINE x == [array |-> a, cursor |-> 0, lastRet |-> -1, modCount |-> arrays[a].modCount]
<1>1. /\ arrays[a] \in Filled /\ a \in DOMAIN ListsOf(arrays)
      /\ ListsOf(arrays)[a] = Elements(arrays[a]) /\ arrays[a].size \in Nat
      /\ Len(ListsOf(arrays)[a]) = arrays[a].size /\ ListsOf(arrays)[a] \in Seq(Value)
  BY ArrayFacts
<1>2. /\ iterators' = Append(iterators, x) /\ call' = <<"iterate", a, 0, Len(iterators')>>
      /\ arrays' = arrays /\ intact' = intact
  BY DEF ArrayIterator, Answer
<1>3. InStep(arrays, iterators) /\ intact = TRUE
  BY DEF IInv
<1>4. a \in Nat /\ arrays[a].modCount \in Nat
  <2>1. a \in 1 .. Len(arrays) /\ Len(arrays) \in Nat
    BY <1>3, ListsFacts DEF InStep
  <2> QED
    BY <1>1, <2>1, FilledFacts
<1>5. /\ x \in Cursor /\ x.array = a /\ x.cursor = 0 /\ x.lastRet = -1
      /\ x.modCount = arrays[a].modCount
  BY <1>4 DEF Cursor
<1> HIDE DEF x
<1>6. Follows(arrays[a], x)
  BY <1>1, <1>4, <1>5 DEF Follows
<1>7. /\ InStep(arrays, iterators') /\ Len(iterators') = Len(ViewsOf(arrays, iterators)) + 1
      /\ ViewsOf(arrays, iterators') = Append(ViewsOf(arrays, iterators), Remaining(arrays[a], x))
  BY <1>2, <1>3, <1>5, <1>6, AppendedIterator
<1>8. Remaining(arrays[a], x)
        = [list |-> a, todo |-> ListsOf(arrays)[a], last |-> FALSE, stale |-> FALSE]
  <2> DEFINE E == ListsOf(arrays)[a]
             size == arrays[a].size
  <2>1. SubSeq(E, 1, size) = E
    BY <1>1, SubSeqFull
  <2>2. (x.lastRet >= 0) = FALSE /\ x.cursor + 1 = 1
    BY <1>5
  <2>3. Remaining(arrays[a], x) = [list |-> a, todo |-> SubSeq(E, x.cursor + 1, size),
                                   last |-> x.lastRet >= 0, stale |-> FALSE]
    BY <1>1, <1>5 DEF Remaining
  <2> HIDE DEF E, size
  <2> QED
    BY <2>1, <2>2, <2>3 DEF E
<1>9. IInv'
  BY <1>2, <1>3, <1>7 DEF IInv
<1>10. Len(ViewsOf(arrays, iterators')) = Len(iterators')
  BY <1>7, ViewsFacts
<1>11. Abstract!Iterate(a)
  BY <1>2, <1>7, <1>8, <1>10 DEF Abstract!Iterate
<1>12. Abstract!Next
  BY <1>1, <1>11 DEF Abstract!Next
<1> QED
  BY <1>9, <1>12 DEF Kept

LEMMA HasNextStep ==
  ASSUME IInv, NEW it \in DOMAIN iterators, HasNext(it)
  PROVE  Kept
<1> DEFINE yes == IF iterators[it].cursor # Of(it).size THEN 1 ELSE 0
           R == ViewsOf(arrays, iterators)[it]
<1>1. call' = <<"hasNext", it, 0, yes>> /\ UNCHANGED <<arrays, iterators, intact>>
  BY DEF HasNext, Answer, Unchanged
<1>2. ~R.stale => (yes = 1 <=> R.todo # <<>>)
  <2>1. CASE ~Unmodified(it)
    BY <2>1, StaleFacts
  <2>2. CASE Unmodified(it)
    <3> DEFINE c == iterators[it].cursor
               size == Of(it).size
    <3>1. c \in Nat /\ size \in Nat /\ Len(R.todo) = size - c /\ R.todo \in Seq(Value)
      BY <2>2, FreshFacts
    <3>2. yes = 1 <=> c # size
      OBVIOUS
    <3> HIDE DEF yes, c, size, R
    <3>3. R.todo = <<>> <=> Len(R.todo) = 0
      BY <3>1, EmptySeq
    <3> QED
      BY <3>1, <3>2, <3>3
  <2> QED
    BY <2>1, <2>2
<1>3. yes \in {0, 1}
  OBVIOUS
<1> HIDE DEF yes
<1>4. Abstract!HasNext(it)
  BY <1>1, <1>2, <1>3, SameStep DEF Abstract!HasNext
<1>5. Abstract!Next
  BY <1>4, IteratorFacts DEF Abstract!Next
<1> QED
  BY <1>1, <1>5, SameStep DEF Kept

(* Two views of one list that differ in what is still to be visited.       *)
Passed(R, todo) == [R EXCEPT !.todo = todo, !.last = TRUE]

LEMMA Visiting ==
  ASSUME NEW it, NEW x, NEW t, NEW u, x.array = it.array, x.lastRet >= 0,
         NEW R, R = ViewOf(it, t)
  PROVE  ViewOf(x, u) = Passed(R, u)
<1> DEFINE l == it.array
           b == it.lastRet >= 0
           yes == TRUE
           no == FALSE
<1>1. R = [list |-> l, todo |-> t, last |-> b, stale |-> no]
  BY DEF ViewOf
<1>2. ViewOf(x, u) = [list |-> l, todo |-> u, last |-> yes, stale |-> no]
  <2> DEFINE k == x.array
             d == x.lastRet >= 0
  <2>1. k = l /\ d = yes
    OBVIOUS
  <2>2. ViewOf(x, u) = [list |-> k, todo |-> u, last |-> d, stale |-> no]
    BY DEF ViewOf
  <2> HIDE DEF k, d
  <2> QED
    BY <2>1, <2>2
<1> DEFINE mid == [R EXCEPT !.todo = u]
           seen == [mid EXCEPT !.last = yes]
<1> HIDE DEF l, b, yes, no
<1>3. mid = [list |-> l, todo |-> u, last |-> b, stale |-> no]
  BY <1>1
<1> HIDE DEF mid
<1>4. seen = [list |-> l, todo |-> u, last |-> yes, stale |-> no]
  BY <1>3
<1> HIDE DEF seen
<1>5. ViewOf(x, u) = seen
  BY <1>2, <1>4
<1> QED
  BY <1>5 DEF seen, mid, yes, Passed

LEMMA VisitStep ==
  ASSUME IInv, NEW it \in DOMAIN iterators, IteratorNext(it)
  PROVE  Kept
<1> DEFINE R == ViewsOf(arrays, iterators)[it]
           c == iterators[it].cursor
           r == Of(it)
<1>1. it \in DOMAIN ViewsOf(arrays, iterators)
  BY IteratorFacts
<1>2. Abstract!Visit(it) => Abstract!Next
  BY <1>1 DEF Abstract!Next
<1>3. CASE ~Unmodified(it) \/ c >= r.size
  <2>1. call' = <<"next", it, 0, Raised>> /\ UNCHANGED <<arrays, iterators, intact>>
    BY <1>3 DEF IteratorNext, Raise, Answer, Unchanged
  <2>2. R.todo = <<>>
    <3>1. CASE ~Unmodified(it)
      BY <3>1, StaleFacts
    <3>2. CASE Unmodified(it)
      <4>1. c \in Nat /\ c <= r.size /\ r.size \in Nat /\ Len(R.todo) = r.size - c /\ R.todo \in Seq(Value)
        BY <3>2, FreshFacts
      <4>2. Len(R.todo) = 0
        BY <1>3, <3>2, <4>1
      <4> HIDE DEF R
      <4> QED
        BY <4>1, <4>2, EmptySeq
    <3> QED
      BY <3>1, <3>2
  <2>3. Abstract!Visit(it)
    BY <2>1, <2>2, SameStep DEF Abstract!Visit, Abstract!Refuse
  <2> QED
    BY <1>2, <2>1, <2>3, SameStep DEF Kept
<1>4. CASE Unmodified(it) /\ ~(c >= r.size)
  <2> DEFINE x == Visited(it)
             u == Tail(R.todo)
  <2>1. /\ iterators' = Replaced(iterators, it, x) /\ call' = <<"next", it, 0, r.cells[c + 1]>>
        /\ arrays' = arrays /\ intact' = intact
    BY <1>4 DEF IteratorNext, Answer, Replaced
  <2>2. /\ R = ViewOf(iterators[it], R.todo) /\ Rest(r, c, R.todo)
        /\ c \in Nat /\ c <= r.size /\ r.size \in Nat
        /\ Len(R.todo) = r.size - c /\ R.todo \in Seq(Value)
    BY <1>4, FreshFacts
  <2>3. c < r.size /\ c + 1 \in 1 .. r.size /\ c + 1 \in Nat
    BY <1>4, <2>2
  <2>4. /\ iterators[it] \in Cursor /\ r \in Filled /\ iterators[it].array \in DOMAIN arrays
        /\ r = arrays[iterators[it].array]
    BY IteratorFacts DEF Of
  <2>5. /\ x \in Cursor /\ x.array = iterators[it].array /\ x.cursor = c + 1 /\ x.lastRet = c
        /\ x.modCount = iterators[it].modCount
    BY <2>2, <2>3, <2>4 DEF Visited, Cursor
  <2>6. x.modCount = r.modCount
    BY <1>4, <2>5 DEF Unmodified
  <2>7. r.modCount \in Nat
    BY <2>4, FilledFacts
  <2> HIDE DEF x
  <2>8. Follows(r, x)
    BY <2>2, <2>3, <2>5, <2>6, <2>7 DEF Follows
  <2>9. InStep(arrays, iterators) /\ intact = TRUE
    BY DEF IInv
  <2> DEFINE Q == Remaining(r, x)
  <2>10. Q = ViewOf(x, Q.todo) /\ Rest(r, x.cursor, Q.todo)
    BY <2>4, <2>5, <2>6, <2>8, FreshView
  <2>11. /\ InStep(arrays, iterators')
         /\ ViewsOf(arrays, iterators') = Replaced(ViewsOf(arrays, iterators), it, Q)
    <3>1. /\ r = arrays[x.array] /\ x.array = iterators[it].array
          /\ iterators' = Replaced(iterators, it, x)
      BY <2>1, <2>4, <2>5
    <3> QED
      BY <2>5, <2>8, <2>9, <3>1, ChangedIterator
  <2> HIDE DEF R, r, c, Q
  <2>12. R.todo # <<>> /\ u \in Seq(Value) /\ Len(u) = r.size - c - 1 /\ Head(R.todo) = R.todo[1]
         /\ \A i \in 1 .. r.size - c - 1 : u[i] = R.todo[i + 1]
    <3>1. R.todo # <<>>
      <4>1. Len(R.todo) # 0
        BY <2>2, <2>3
      <4> QED
        BY <2>2, <4>1, EmptySeq
    <3>2. /\ u \in Seq(Value) /\ Len(u) = Len(R.todo) - 1
          /\ \A i \in 1 .. Len(u) : u[i] = R.todo[i + 1]
      BY <2>2, <3>1, HeadTailProperties
    <3>3. Head(R.todo) = R.todo[1]
      BY <2>2, <3>1
    <3> QED
      BY <2>2, <3>1, <3>2, <3>3
  <2>13. Head(R.todo) = r.cells[c + 1]
    <3>1. 1 \in 1 .. r.size - c
      BY <2>2, <2>3
    <3>2. R.todo[1] = Elements(r)[c + 1]
      BY <2>2, <3>1 DEF Rest
    <3>3. Elements(r)[c + 1] = r.cells[c + 1]
      BY <2>3, <2>4, ElementsFacts
    <3> QED
      BY <2>12, <3>2, <3>3
  <2>14. Q.todo = u
    <3>1. /\ Q.todo \in Seq(Value) /\ Len(Q.todo) = r.size - (c + 1)
          /\ \A i \in 1 .. r.size - (c + 1) : Q.todo[i] = Elements(r)[(c + 1) + i]
      BY <2>5, <2>10 DEF Rest
    <3>2. r.size - (c + 1) = r.size - c - 1
      BY <2>2
    <3>3. \A i \in 1 .. r.size - c - 1 : i + 1 \in 1 .. r.size - c /\ (c + 1) + i = c + (i + 1)
      BY <2>2
    <3>4. \A i \in 1 .. r.size - c : R.todo[i] = Elements(r)[c + i]
      BY <2>2 DEF Rest
    <3> HIDE DEF u
    <3>5. \A i \in 1 .. r.size - c - 1 : Q.todo[i] = u[i]
      BY <2>12, <3>1, <3>2, <3>3, <3>4
    <3> QED
      BY <2>12, <3>1, <3>2, <3>5, SeqEqual
  <2>15. Q = [R EXCEPT !.todo = u, !.last = TRUE]
    <3>1. x.lastRet >= 0
      BY <2>2, <2>5
    <3> HIDE DEF u
    <3>2. R = ViewOf(iterators[it], R.todo) /\ Q = ViewOf(x, u) /\ x.array = iterators[it].array
      BY <2>2, <2>5, <2>10, <2>14
    <3>3. ViewOf(x, u) = Passed(R, u)
      BY <3>1, <3>2, Visiting
    <3> QED
      BY <3>2, <3>3 DEF Passed
  <2>16. ViewsOf(arrays, iterators')
           = [ViewsOf(arrays, iterators) EXCEPT ![it].todo = Tail(@), ![it].last = TRUE]
    BY <1>1, <2>11, <2>15 DEF Replaced, R
  <2>17. IInv'
    BY <2>1, <2>9, <2>11 DEF IInv
  <2>18. Abstract!Visit(it)
    BY <2>1, <2>12, <2>13, <2>16 DEF Abstract!Visit, R
  <2> QED
    BY <1>2, <2>17, <2>18 DEF Kept
<1> QED
  BY <1>3, <1>4

(* The views of one list when its iterator it took an element out.         *)
LEMMA TakeOutStep ==
  ASSUME IInv, NEW it \in DOMAIN iterators, IteratorRemove(it)
  PROVE  Kept
<1> DEFINE R == ViewsOf(arrays, iterators)[it]
           c == iterators[it].cursor
           l == iterators[it].array
           r == Of(it)
<1>1. it \in DOMAIN ViewsOf(arrays, iterators) /\ R.list = l
  BY IteratorFacts
<1>2. Abstract!TakeOut(it) => Abstract!Next
  BY <1>1 DEF Abstract!Next
<1>3. CASE iterators[it].lastRet < 0 \/ ~Unmodified(it)
  <2>1. call' = <<"remove", it, 0, Raised>> /\ UNCHANGED <<arrays, iterators, intact>>
    BY <1>3 DEF IteratorRemove, Refuse, Answer
  <2>2. R.last = FALSE
    <3>1. CASE ~Unmodified(it)
      BY <3>1, StaleFacts
    <3>2. CASE Unmodified(it)
      <4>1. R.last = (iterators[it].lastRet >= 0) /\ iterators[it].lastRet \in Int
        BY <3>2, FreshFacts, IteratorFacts, CursorFacts
      <4>2. (iterators[it].lastRet >= 0) = FALSE
        BY <1>3, <3>2, <4>1
      <4> QED
        BY <4>1, <4>2
    <3> QED
      BY <3>1, <3>2
  <2>3. Abstract!TakeOut(it)
    BY <2>1, <2>2, SameStep DEF Abstract!TakeOut, Abstract!Refuse
  <2> QED
    BY <1>2, <2>1, <2>3, SameStep DEF Kept
<1>4. CASE ~(iterators[it].lastRet < 0 \/ ~Unmodified(it))
  <2> DEFINE x == TakenOut(it)
             k == iterators[it].lastRet
             q == RemoveFrom(r, k + 1)
  <2>1. /\ arrays' = Replaced(arrays, l, q) /\ iterators' = Replaced(iterators, it, x)
        /\ call' = <<"remove", it, 0, 0>> /\ intact' = intact
    BY <1>4 DEF IteratorRemove, Answer, Replaced, Of
  <2>2. /\ R = ViewOf(iterators[it], R.todo) /\ Rest(r, c, R.todo)
        /\ R.stale = FALSE /\ R.last = (k >= 0)
        /\ c \in Nat /\ c <= r.size /\ r.size \in Nat
        /\ Len(R.todo) = r.size - c /\ R.todo \in Seq(Value)
    BY <1>4, FreshFacts
  <2>3. /\ iterators[it] \in Cursor /\ r \in Filled /\ l \in DOMAIN arrays
        /\ r = arrays[l] /\ Follows(r, iterators[it]) /\ l \in Nat
    BY IteratorFacts, CursorFacts DEF Of
  <2>4. k = c - 1 /\ k \in Nat /\ k + 1 = c /\ c \in 1 .. r.size /\ R.last = TRUE
    <3>1. k \in {-1, c - 1} /\ k \in Int
      BY <1>4, <2>3, CursorFacts DEF Follows, Unmodified
    <3>2. k = c - 1 /\ k \in Nat /\ k + 1 = c /\ c \in 1 .. r.size
      BY <1>4, <2>2, <3>1
    <3>3. (k >= 0) = TRUE
      BY <3>2
    <3> QED
      BY <2>2, <3>2, <3>3
  <2>5. r.modCount \in Nat
    BY <2>3, FilledFacts
  <2>6. q = RemoveFrom(r, c)
    BY <2>4
  <2> HIDE DEF q
  <2>7. /\ q \in Filled /\ q.size = r.size - 1 /\ q.modCount = r.modCount + 1
        /\ Elements(q) = RemoveAt(Elements(r), c)
    BY <2>3, <2>4, <2>6, Removed
  <2>8. /\ x \in Cursor /\ x.array = l /\ x.cursor = k /\ x.lastRet = -1
        /\ x.modCount = q.modCount
    <3> DEFINE y == iterators[it]
               m == r.modCount + 1
    <3>1. m \in Nat /\ k \in Nat /\ -1 \in Nat \cup {-1} /\ m = q.modCount /\ y \in Cursor
      BY <2>3, <2>4, <2>5, <2>7
    <3>2. x = [y EXCEPT !.cursor = k, !.lastRet = -1, !.modCount = m]
      BY DEF TakenOut
    <3>3. y.array = l
      OBVIOUS
    <3> HIDE DEF x, y, m, k, l
    <3>4. y = [array |-> y.array, cursor |-> y.cursor, lastRet |-> y.lastRet,
               modCount |-> y.modCount] /\ y.array \in Nat
      BY <3>1 DEF Cursor
    <3>5. x = [array |-> l, cursor |-> k, lastRet |-> -1, modCount |-> m]
      BY <3>2, <3>3, <3>4
    <3> QED
      BY <3>1, <3>3, <3>4, <3>5 DEF Cursor
  <2> HIDE DEF x
  <2>9. Follows(q, x)
    <3>1. q.modCount \in Nat /\ q.size \in Nat
      BY <2>7, FilledFacts
    <3> QED
      BY <2>2, <2>4, <2>7, <2>8, <3>1 DEF Follows
  <2>10. InStep(arrays, iterators) /\ intact = TRUE
    BY DEF IInv
  <2>11. Newer(q, arrays[l])
    BY <2>3, <2>7 DEF Newer
  <2>12. /\ InStep(arrays', iterators)
         /\ ListsOf(arrays') = Replaced(ListsOf(arrays), l, Elements(q))
         /\ ViewsOf(arrays', iterators) = Stopped(ViewsOf(arrays, iterators), l)
    <3>1. arrays' = Replaced(arrays, l, q) /\ q \in Filled /\ l \in DOMAIN arrays
      BY <2>1, <2>3, <2>7
    <3> HIDE DEF l
    <3> QED
      BY <2>10, <2>11, <3>1, ChangedList
  <2>13. arrays'[l] = q
    BY <2>1, <2>3 DEF Replaced
  <2> DEFINE Q == Remaining(q, x)
  <2>14. /\ InStep(arrays', iterators')
         /\ ViewsOf(arrays', iterators') = Replaced(Stopped(ViewsOf(arrays, iterators), l), it, Q)
    <3>1. arrays'[x.array] = q /\ x.array = iterators[it].array
      BY <2>8, <2>13
    <3>2. /\ InStep(arrays', iterators')
          /\ ViewsOf(arrays', iterators') = Replaced(ViewsOf(arrays', iterators), it, Q)
      BY <2>1, <2>8, <2>9, <2>12, <3>1, ChangedIterator
    <3> QED
      BY <2>12, <3>2
  <2>15. Q = ViewOf(x, Q.todo) /\ Rest(q, k, Q.todo)
    BY <2>7, <2>8, <2>9, FreshView
  <2> HIDE DEF R, r, c, Q, k, l
  <2>16. Q.todo = R.todo
    <3>1. /\ Q.todo \in Seq(Value) /\ Len(Q.todo) = r.size - 1 - k
          /\ \A i \in 1 .. r.size - 1 - k : Q.todo[i] = Elements(q)[k + i]
      BY <2>7, <2>15 DEF Rest
    <3>2. r.size - 1 - k = r.size - c
      BY <2>2, <2>4
    <3>3. \A i \in 1 .. r.size - c : R.todo[i] = Elements(r)[c + i]
      BY <2>2 DEF Rest
    <3>4. \A i \in 1 .. r.size - c :
            k + i \in 1 .. r.size - 1 /\ ~(k + i < c) /\ (k + i) + 1 = c + i
      BY <2>2, <2>4
    <3>5. \A j \in 1 .. r.size - 1 :
            Elements(q)[j] = IF j < c THEN Elements(r)[j] ELSE Elements(r)[j + 1]
      <4> DEFINE E == Elements(r)
                 t == Elements(q)
      <4>1. E \in Seq(Value) /\ Len(E) = r.size /\ t = RemoveAt(E, c)
        BY <2>3, <2>7, ElementsFacts
      <4> HIDE DEF E, t
      <4>2. c \in 1 .. Len(E)
        BY <2>4, <4>1
      <4>3. \A j \in 1 .. Len(E) - 1 : t[j] = IF j < c THEN E[j] ELSE E[j + 1]
        BY <4>1, <4>2, Taken
      <4> QED
        BY <4>1, <4>3 DEF E, t
    <3>6. \A i \in 1 .. r.size - c : Q.todo[i] = R.todo[i]
      BY <3>1, <3>2, <3>3, <3>4, <3>5
    <3> QED
      BY ZenonT(60), <2>2, <3>1, <3>2, <3>6, SeqEqual
  <2>17. Q = [R EXCEPT !.last = FALSE]
    <3> DEFINE t == R.todo
               b == iterators[it].lastRet >= 0
               d == x.lastRet >= 0
               a == iterators[it].array
               no == FALSE
    <3>1. R = [list |-> a, todo |-> t, last |-> b, stale |-> no]
      BY <2>2 DEF ViewOf
    <3>2. Q = [list |-> x.array, todo |-> Q.todo, last |-> d, stale |-> no]
      BY <2>15 DEF ViewOf
    <3>3. x.array = a /\ Q.todo = t /\ d = no
      BY <2>8, <2>16 DEF l
    <3> HIDE DEF t, b, d, a, no
    <3>4. Q = [list |-> a, todo |-> t, last |-> no, stale |-> no]
      BY <3>2, <3>3
    <3>5. Q = [R EXCEPT !.last = no]
      BY <3>1, <3>4
    <3> QED
      BY <3>5 DEF no
  <2>18. ViewsOf(arrays', iterators')
           = [Abstract!Invalidate(l, {it}) EXCEPT ![it].last = FALSE]
    <3> DEFINE V == ViewsOf(arrays, iterators)
               S == Stopped(V, l)
               I == Abstract!Invalidate(l, {it})
    <3>1. /\ DOMAIN S = DOMAIN V /\ DOMAIN I = DOMAIN V /\ it \in DOMAIN V
          /\ \A i \in DOMAIN V : i # it => S[i] = I[i]
          /\ I[it] = R
      BY <1>1 DEF Stopped, StaleView, Abstract!Invalidate, Abstract!Stale, R
    <3>2. Replaced(S, it, Q) = [i \in DOMAIN S |-> IF i = it THEN Q ELSE S[i]]
      BY DEF Stopped, Replaced
    <3>3. [I EXCEPT ![it].last = FALSE]
            = [i \in DOMAIN I |-> IF i = it THEN [I[it] EXCEPT !.last = FALSE] ELSE I[i]]
      BY DEF Abstract!Invalidate
    <3> HIDE DEF V, S, I
    <3>4. Replaced(S, it, Q) = [I EXCEPT ![it].last = FALSE]
      BY <2>17, <3>1, <3>2, <3>3
    <3> QED
      BY <2>14, <3>4 DEF S, V, I
  <2>19. IInv'
    BY <2>1, <2>10, <2>14 DEF IInv
  <2>20. ListsOf(arrays') = [ListsOf(arrays) EXCEPT ![l] = Abstract!RemoveAt(@, c)]
    <3>1. ListsOf(arrays)[l] = Elements(r)
      BY <2>3, ArrayFacts
    <3>2. Abstract!RemoveAt(ListsOf(arrays)[l], c) = RemoveAt(ListsOf(arrays)[l], c)
      BY DEF RemoveAt, Abstract!RemoveAt
    <3> QED
      BY <2>7, <2>12, <3>1, <3>2 DEF Replaced
  <2>21. Abstract!Position(it) = c
    <3>1. Len(ListsOf(arrays)[l]) = r.size
      BY <2>3, ArrayFacts
    <3> QED
      BY <1>1, <2>2, <3>1 DEF Abstract!Position, R
  <2>22. Abstract!TakeOut(it)
    BY <1>1, <2>1, <2>4, <2>18, <2>20, <2>21 DEF Abstract!TakeOut, R
  <2> QED
    BY <1>2, <2>19, <2>22 DEF Kept
<1> QED
  BY <1>3, <1>4

-----------------------------------------------------------------------------
(* Every step of a careful program is one of these.                        *)
LEMMA InitIInv == Init => IInv
  BY EmptySeq DEF Init, IInv, InStep

LEMMA NextKept ==
  ASSUME Careful, IInv, Next
  PROVE  Kept
<1>1. ASSUME NEW type \in {"array", "tuple"}, NEW n \in 0 .. MaxLength,
             NEW values \in [1 .. n -> Value], BuildArray(type, values)
      PROVE  Kept
  BY <1>1, BuildStep
<1>2. ASSUME NEW a \in DOMAIN arrays,
             \/ ArrayIterator(a)
             \/ \E v \in Value : ArrayAdd(a, v) \/ ArrayContains(a, v)
             \/ \E i \in Places : ArrayRemoveAt(a, i) \/ IndexValue(a, i) \/ \E v \in Value : IndexStore(a, i, v)
             \/ \E start, end \in Places : ArraySlice(a, start, end)
      PROVE  Kept
  <2>1. CASE ArrayIterator(a)
    BY <2>1, IterateStep
  <2>2. ASSUME NEW v \in Value, ArrayAdd(a, v) PROVE Kept
    BY <2>2, AddStep
  <2>3. ASSUME NEW v \in Value, ArrayContains(a, v) PROVE Kept
    BY <2>3, ContainsStep
  <2>4. ASSUME NEW i \in Places, ArrayRemoveAt(a, i) PROVE Kept
    BY <2>4, DeleteStep
  <2>5. ASSUME NEW i \in Places, IndexValue(a, i) PROVE Kept
    BY <2>5, AtStep
  <2>6. ASSUME NEW i \in Places, NEW v \in Value, IndexStore(a, i, v) PROVE Kept
    BY <2>6, PutStep
  <2>7. ASSUME NEW start \in Places, NEW end \in Places, ArraySlice(a, start, end) PROVE Kept
    BY <2>7, SliceStep
  <2> QED
    BY <1>2, <2>1, <2>2, <2>3, <2>4, <2>5, <2>6, <2>7
<1>3. ASSUME NEW it \in DOMAIN iterators, HasNext(it) \/ IteratorNext(it) \/ IteratorRemove(it)
      PROVE  Kept
  BY <1>3, HasNextStep, VisitStep, TakeOutStep
<1> QED
  BY <1>1, <1>2, <1>3 DEF Next

LEMMA StutterKept ==
  ASSUME IInv, UNCHANGED vars
  PROVE  Kept
<1>1. UNCHANGED <<arrays, iterators, intact>> /\ call' = call
  BY DEF vars
<1> QED
  BY <1>1, SameStep DEF Kept, Abstract!vars

LEMMA IInvHolds ==
  ASSUME Careful
  PROVE  Spec => []IInv
<1>1. IInv /\ [Next]_vars => IInv'
  BY NextKept, StutterKept DEF Kept
<1> QED
  BY InitIInv, <1>1, PTL DEF Spec

(* A block is read and written inside itself only, and the elements below  *)
(* size are values: appendToArray (object.c:545-560), removeAt             *)
(* (object.c:580-590) and the copy of a slice keep to the room there is.   *)
THEOREM BlocksSound ==
  ASSUME Careful
  PROVE  Spec => []TypeOK
<1>1. IInv => TypeOK
  <2> SUFFICES ASSUME IInv PROVE TypeOK
    OBVIOUS
  <2>1. ASSUME NEW a \in DOMAIN arrays
        PROVE  /\ arrays[a].size \in 0 .. Len(arrays[a].cells)
               /\ \A i \in 1 .. arrays[a].size : arrays[a].cells[i] \in Value
    BY ArrayFacts, FilledFacts DEF Below
  <2> QED
    BY <2>1, IteratorFacts DEF TypeOK, IInv
<1> QED
  BY <1>1, IInvHolds, PTL

(* However the methods of an array and of its iterators interleave, an     *)
(* iterator that may go on has its cursor inside the array and removes     *)
(* what it visited last (array.c, CHECK_MOD_RET).                          *)
THEOREM CursorsInside ==
  ASSUME Careful
  PROVE  Spec => []CursorInside
<1>1. IInv => CursorInside
  <2> SUFFICES ASSUME IInv, NEW it \in DOMAIN iterators, Unmodified(it)
               PROVE  /\ iterators[it].cursor <= Of(it).size
                      /\ iterators[it].lastRet \in {-1, iterators[it].cursor - 1}
    BY DEF CursorInside
  <2> QED
    BY IteratorFacts DEF Follows, Unmodified
<1> QED
  BY <1>1, IInvHolds, PTL

(* Arrays and iterators implement lists: each operation maps to the one of *)
(* AbstractList with the same name, arguments and result.                  *)
THEOREM ArraysAreLists ==
  ASSUME Careful
  PROVE  Spec => IsList
<1>1. Init => Abstract!Init
  BY DEF Init, Abstract!Init, ListsOf, ViewsOf
<1>2. IInv /\ [Next]_vars => [Abstract!Next]_(Abstract!vars)
  BY NextKept, StutterKept DEF Kept
<1> QED
  BY <1>1, <1>2, IInvHolds, PTL DEF Spec, IsList, Abstract!Spec
=============================================================================
