-------------------------- MODULE ValueTableProofs --------------------------
(***************************************************************************)
(* Proofs about ValueTable: its chains partition its entries, lookup finds *)
(* a key whatever was deleted and rehashed, and the table with its         *)
(* iterator implements the ordered map that a program is promised.         *)
(***************************************************************************)
EXTENDS ValueTable, FiniteSetTheorems, NaturalsInduction, WellFoundedInduction,
        SequenceTheorems, TLAPS

-----------------------------------------------------------------------------
(* The inductive invariant.                                                *)
Sizes == {s \in 1 .. HashRange : HashRange % s = 0}

(* o tells the chain of each of n entries: it is the bucket of the key for *)
(* an entry that has one.  A chain starts at the last of its entries, each *)
(* links to the one before.                                                *)
Owned(s, n, c, e, o) ==
  /\ \A b \in 0 .. s - 1 : c[b] = -1 \/ (c[b] \in 0 .. n - 1 /\ o[c[b]] = b)
  /\ \A i \in 0 .. n - 1 : i <= c[o[i]]
  /\ \A i \in 0 .. n - 1 :
       e[i].next = -1 \/ (e[i].next \in 0 .. i - 1 /\ o[e[i].next] = o[i])
  /\ \A i \in 0 .. n - 1 : \A j \in 0 .. i - 1 : o[j] = o[i] => j <= e[i].next
  /\ \A i \in 0 .. n - 1 : e[i].key # Missing => o[i] = Bucket(e[i].key, s)

Entry == [key : Key \cup {Missing}, value : Value, next : Int]

Unique(e) == \A i, j \in Live(e) : e[i].key = e[j].key => i = j

Sound(s, n, c, e) ==
  /\ s \in Sizes \cup {0} /\ n \in Nat
  /\ c \in [0 .. s - 1 -> Int] /\ e \in [0 .. n - 1 -> Entry]
  /\ Unique(e)
  /\ \E o \in [0 .. n - 1 -> 0 .. s - 1] : Owned(s, n, c, e, o)

(* An iterator that is not stale stands at an entry of the table.          *)
IterSound ==
  iter = NoIter \/ /\ DOMAIN iter = {"current", "modCount"}
                   /\ iter.current \in Nat /\ iter.modCount \in 0 .. modCount
                   /\ iter.modCount = modCount => iter.current <= fullCount

IInv ==
  /\ Sound(indexSize, fullCount, chains, entries)
  /\ fullCount <= dataSize
  /\ liveCount = Cardinality(Live(entries))
  /\ modCount \in 0 .. MaxMod
  /\ IterSound

-----------------------------------------------------------------------------
(* Induction over the naturals for a set of them.                          *)

(* The least element of a set.                                             *)
LEMMA NatMin ==
  ASSUME NEW T, T \subseteq Nat, T # {}
  PROVE  \E x \in T : \A y \in T : x <= y
<1>1. PICK x \in T : \A y \in T : ~(<<y, x>> \in OpToRel(<, Nat))
  BY NatLessThanWellFounded, WFMin
<1>2. ASSUME NEW y \in T, y < x PROVE FALSE
  <2>1. <<y, x>> \in Nat \X Nat
    OBVIOUS
  <2>2. <<y, x>> \in OpToRel(<, Nat)
    BY <2>1, <1>2 DEF OpToRel
  <2> QED
    BY <2>2, <1>1
<1>3. \A y \in T : x <= y
  BY <1>2
<1> QED
  BY <1>3

(* A set that holds 0 and every successor of its elements holds them all.  *)
LEMMA NatInd ==
  ASSUME NEW S, 0 \in S, \A n \in Nat : n \in S => n + 1 \in S
  PROVE  Nat \subseteq S
<1> DEFINE T == Nat \ S
<1>1. SUFFICES ASSUME T # {} PROVE FALSE
  OBVIOUS
<1>2. PICK x \in T : \A y \in T : x <= y
  BY <1>1, NatMin
<1>3. x # 0 /\ x - 1 \in Nat /\ x - 1 \notin T
  BY <1>2
<1> QED
  BY <1>3

-----------------------------------------------------------------------------
(* Recursion along the chains goes down.                                   *)
Down(n) == {p \in (-1 .. n - 1) \X (-1 .. n - 1) : p[1] < p[2]}

LEMMA DownEnds == ASSUME NEW n \in Nat PROVE IsWellFoundedOn(Down(n), -1 .. n - 1)
<1> DEFINE S == -1 .. n - 1
<1>1. ASSUME NEW T \in SUBSET S, T # {}
      PROVE  \E x \in T : \A y \in T : ~(<<y, x>> \in Down(n))
  <2> DEFINE U == {t + 1 : t \in T}
  <2>0. \A t \in T : t \in Int /\ t + 1 \in Nat
    BY <1>1
  <2>1. U \subseteq Nat /\ U # {}
    BY ONLY <2>0, <1>1
  <2>2. PICK u \in U : \A y \in U : u <= y
    <3> HIDE DEF U
    <3> QED
      BY <2>1, NatMin
  <2>3. PICK x \in T : u = x + 1
    BY <2>2
  <2>4. \A y \in T : ~(y < x)
    <3>1. \A y \in T : u <= y + 1
      BY <2>2
    <3> QED
      BY ONLY <2>0, <2>3, <3>1
  <2> QED
    BY <2>4 DEF Down
<1> QED
  BY <1>1, MinWF

LEMMA SeekDef ==
  ASSUME NEW k, fullCount \in Nat,
         \A i \in 0 .. fullCount - 1 : entries[i].next \in -1 .. i - 1
  PROVE  /\ Seek(k)[-1] = -1
         /\ \A i \in 0 .. fullCount - 1 :
              Seek(k)[i] = IF entries[i].key = k THEN i ELSE Seek(k)[entries[i].next]
<1> DEFINE n == fullCount
           S == -1 .. n - 1
           f == Seek(k)
           Def(g, i) == IF i = -1 THEN -1 ELSE IF entries[i].key = k THEN i
                        ELSE g[entries[i].next]
<1>1. OpDefinesFcn(f, S, Def)
  BY DEF OpDefinesFcn, Seek
<1>2. WFDefOn(Down(n), S, Def)
  <2> SUFFICES ASSUME NEW g, NEW gg, NEW x \in S,
                      \A y \in SetLessThan(x, Down(n), S) : g[y] = gg[y]
               PROVE  Def(g, x) = Def(gg, x)
    BY DEF WFDefOn
  <2>1. CASE x = -1
    BY <2>1
  <2>2. CASE x # -1
    <3>1. x \in 0 .. n - 1
      BY <2>2
    <3>2. entries[x].next \in -1 .. x - 1
      BY <3>1
    <3>3. entries[x].next \in SetLessThan(x, Down(n), S)
      BY <3>1, <3>2 DEF SetLessThan, Down
    <3> QED
      BY <3>3
  <2> QED
    BY <2>1, <2>2
<1> HIDE DEF f
<1>3. WFInductiveDefines(f, S, Def)
  <2> HIDE DEF Def, S
  <2>1. IsWellFoundedOn(Down(n), S)
    BY DownEnds DEF S
  <2> QED
    BY <1>1, <1>2, <2>1, WFInductiveDef
<1>4. f = [i \in S |-> Def(f, i)]
  BY <1>3 DEF WFInductiveDefines
<1> HIDE DEF n
<1>5. n \in Nat
  BY DEF n
<1>6. \A i \in S : f[i] = Def(f, i)
  <2> HIDE DEF S, Def
  <2> QED
    BY <1>4
<1>7. -1 \in S /\ \A i \in 0 .. n - 1 : i \in S /\ i # -1
  BY <1>5
<1> QED
  BY <1>6, <1>7 DEF f, n

LEMMA LinkedDef ==
  ASSUME fullCount \in Nat,
         \A i \in 0 .. fullCount - 1 : entries[i].next \in -1 .. i - 1
  PROVE  /\ Linked[-1] = {}
         /\ \A i \in 0 .. fullCount - 1 : Linked[i] = {i} \cup Linked[entries[i].next]
<1> DEFINE n == fullCount
           S == -1 .. n - 1
           f == Linked
           Def(g, i) == IF i = -1 THEN {} ELSE {i} \cup g[entries[i].next]
<1>1. OpDefinesFcn(f, S, Def)
  BY DEF OpDefinesFcn, Linked
<1>2. WFDefOn(Down(n), S, Def)
  <2> SUFFICES ASSUME NEW g, NEW gg, NEW x \in S,
                      \A y \in SetLessThan(x, Down(n), S) : g[y] = gg[y]
               PROVE  Def(g, x) = Def(gg, x)
    BY DEF WFDefOn
  <2>1. CASE x = -1
    BY <2>1
  <2>2. CASE x # -1
    <3>1. x \in 0 .. n - 1
      BY <2>2
    <3>2. entries[x].next \in -1 .. x - 1
      BY <3>1
    <3>3. entries[x].next \in SetLessThan(x, Down(n), S)
      BY <3>1, <3>2 DEF SetLessThan, Down
    <3> QED
      BY <3>3
  <2> QED
    BY <2>1, <2>2
<1> HIDE DEF f
<1>3. WFInductiveDefines(f, S, Def)
  <2> HIDE DEF Def, S
  <2>1. IsWellFoundedOn(Down(n), S)
    BY DownEnds DEF S
  <2> QED
    BY <1>1, <1>2, <2>1, WFInductiveDef
<1>4. f = [i \in S |-> Def(f, i)]
  BY <1>3 DEF WFInductiveDefines
<1> HIDE DEF n
<1>5. n \in Nat
  BY DEF n
<1>6. \A i \in S : f[i] = Def(f, i)
  <2> HIDE DEF S, Def
  <2> QED
    BY <1>4
<1>7. -1 \in S /\ \A i \in 0 .. n - 1 : i \in S /\ i # -1
  BY <1>5
<1> QED
  BY <1>6, <1>7 DEF f, n

-----------------------------------------------------------------------------
(* Recursion over the entries goes from one to the next.                   *)
LEMMA ListedDef ==
  ASSUME NEW e, NEW c \in Nat, Cardinality(DOMAIN e) = c
  PROVE  /\ Listed(e)[0] = <<>>
         /\ \A n \in 0 .. c - 1 :
              Listed(e)[n + 1] =
                IF n \in Live(e)
                  THEN Append(Listed(e)[n], [key |-> e[n].key, value |-> e[n].value])
                  ELSE Listed(e)[n]
<1> DEFINE s == Listed(e)
           Def(v, n) == IF n - 1 \in Live(e)
                          THEN Append(v, [key |-> e[n - 1].key, value |-> e[n - 1].value])
                          ELSE v
<1>1. FiniteNatInductiveDefHypothesis(s, <<>>, Def, 0, c)
  BY DEF FiniteNatInductiveDefHypothesis, Listed
<1> HIDE DEF s, Def
<1>2. FiniteNatInductiveDefConclusion(s, <<>>, Def, 0, c)
  BY <1>1, FiniteNatInductiveDef
<1>3. s = [n \in 0 .. c |-> IF n = 0 THEN <<>> ELSE Def(s[n - 1], n)]
  BY <1>2 DEF FiniteNatInductiveDefConclusion
<1>4. s[0] = <<>>
  BY <1>3
<1>5. ASSUME NEW n \in 0 .. c - 1 PROVE s[n + 1] = Def(s[n], n + 1)
  <2>1. n + 1 \in 0 .. c /\ n + 1 # 0 /\ (n + 1) - 1 = n
    OBVIOUS
  <2> QED
    BY <1>3, <2>1
<1>6. \A n \in 0 .. c - 1 : (n + 1) - 1 = n
  OBVIOUS
<1> QED
  BY <1>4, <1>5, <1>6 DEF s, Def

LEMMA MovedDef ==
  ASSUME NEW size, fullCount \in Nat
  PROVE  /\ Moved(size)[0] = [chains |-> [b \in 0 .. size - 1 |-> -1], entries |-> <<>>]
         /\ \A n \in 0 .. fullCount - 1 : Moved(size)[n + 1] = Move(Moved(size)[n], n)
<1> DEFINE c == fullCount
           s == Moved(size)
           s0 == [chains |-> [b \in 0 .. size - 1 |-> -1], entries |-> <<>>]
           Def(v, n) == Move(v, n - 1)
<1>1. FiniteNatInductiveDefHypothesis(s, s0, Def, 0, c)
  BY DEF FiniteNatInductiveDefHypothesis, Moved
<1> HIDE DEF s, s0, c, Def
<1>2. FiniteNatInductiveDefConclusion(s, s0, Def, 0, c)
  BY <1>1, FiniteNatInductiveDef DEF c
<1>3. s = [n \in 0 .. c |-> IF n = 0 THEN s0 ELSE Def(s[n - 1], n)]
  BY <1>2 DEF FiniteNatInductiveDefConclusion
<1>4. c \in Nat
  BY DEF c
<1>5. s[0] = s0
  BY <1>3, <1>4
<1>6. ASSUME NEW n \in 0 .. c - 1 PROVE s[n + 1] = Def(s[n], n + 1)
  <2>1. n + 1 \in 0 .. c /\ n + 1 # 0 /\ (n + 1) - 1 = n
    BY <1>4
  <2> QED
    BY <1>3, <2>1
<1>7. \A n \in 0 .. c - 1 : (n + 1) - 1 = n
  BY <1>4
<1> QED
  BY <1>5, <1>6, <1>7 DEF s, s0, c, Def

-----------------------------------------------------------------------------
(* Numbers and sizes.                                                      *)
LEMMA DivBound ==
  ASSUME NEW x \in Nat, NEW q \in Nat \ {0}, NEW c \in Nat, x < q * c
  PROVE  x \div q \in Nat /\ x \div q < c
  OBVIOUS

LEMMA DivRest ==
  ASSUME NEW a \in Nat, NEW c \in Nat \ {0}
  PROVE  a \div c \in Nat /\ a = (a \div c) * c + (a % c)
  OBVIOUS

LEMMA BucketRange ==
  ASSUME NEW k \in Key, NEW s \in Sizes
  PROVE  Bucket(k, s) \in 0 .. s - 1
<1> DEFINE q == HashRange \div s
           x == h[k]
<1>1. /\ HashRange \in Nat /\ HashRange > 0 /\ s \in Nat \ {0} /\ HashRange % s = 0
      /\ x \in Nat /\ x < HashRange
  BY ValueTableAssumption DEF Sizes
<1>2. q \in Nat /\ HashRange = q * s
  BY <1>1, DivRest
<1>3. q # 0
  BY <1>1, <1>2
<1> HIDE DEF q, x
<1>4. x \div q \in Nat /\ x \div q < s
  BY <1>1, <1>2, <1>3, DivBound
<1> QED
  BY <1>1, <1>4 DEF Bucket, q, x

LEMMA Count ==
  ASSUME NEW c \in Nat
  PROVE  IsFiniteSet(0 .. c - 1) /\ Cardinality(0 .. c - 1) = c
<1>1. /\ IsFiniteSet(0 .. c - 1)
      /\ Cardinality(0 .. c - 1) = IF 0 > c - 1 THEN 0 ELSE (c - 1) - 0 + 1
  BY FS_Interval
<1> QED
  BY <1>1

(* What Sound says, with its owners at hand.                               *)
LEMMA SoundFacts ==
  ASSUME NEW s, NEW n, NEW c, NEW e, Sound(s, n, c, e)
  PROVE  /\ n \in Nat /\ s \in Nat /\ s \in Sizes \cup {0}
         /\ DOMAIN c = 0 .. s - 1 /\ DOMAIN e = 0 .. n - 1
         /\ Cardinality(DOMAIN c) = s /\ Cardinality(DOMAIN e) = n
         /\ \A i \in 0 .. n - 1 : e[i].next \in -1 .. i - 1
         /\ Live(e) \subseteq 0 .. n - 1
         /\ n # 0 => s \in Sizes
<1>1. n \in Nat /\ s \in Nat /\ s \in Sizes \cup {0}
  BY ValueTableAssumption DEF Sound, Sizes
<1>2. DOMAIN c = 0 .. s - 1 /\ DOMAIN e = 0 .. n - 1
  BY DEF Sound
<1>3. PICK o \in [0 .. n - 1 -> 0 .. s - 1] : Owned(s, n, c, e, o)
  BY DEF Sound
<1>4. \A i \in 0 .. n - 1 : e[i].next \in -1 .. i - 1
  BY <1>3 DEF Owned
<1>5. n # 0 => s # 0
  <2>1. ASSUME n # 0, s = 0 PROVE FALSE
    <3>1. 0 \in 0 .. n - 1 /\ o[0] \in 0 .. s - 1
      BY <1>1, <1>3, <2>1
    <3> QED
      BY <2>1, <3>1
  <2> QED
    BY <2>1
<1> QED
  BY <1>1, <1>2, <1>4, <1>5, Count DEF Live

(* A walk along a chain finds the entry of a key when one is left on it.   *)
LEMMA SeekExact ==
  ASSUME Sound(indexSize, fullCount, chains, entries), NEW k,
         NEW o, Owned(indexSize, fullCount, chains, entries, o),
         NEW i \in 0 .. fullCount - 1
  PROVE  \/ /\ Seek(k)[i] = -1
            /\ \A j \in 0 .. i : o[j] = o[i] => entries[j].key # k
         \/ /\ Seek(k)[i] \in 0 .. i /\ o[Seek(k)[i]] = o[i]
            /\ entries[Seek(k)[i]].key = k
<1> DEFINE n == fullCount
           F(x) == \/ /\ Seek(k)[x] = -1
                      /\ \A j \in 0 .. x : o[j] = o[x] => entries[j].key # k
                   \/ /\ Seek(k)[x] \in 0 .. x /\ o[Seek(k)[x]] = o[x]
                      /\ entries[Seek(k)[x]].key = k
           T == {x \in 0 .. n - 1 : ~F(x)}
<1>1. n \in Nat /\ \A x \in 0 .. n - 1 : entries[x].next \in -1 .. x - 1
  BY SoundFacts
<1>2. /\ Seek(k)[-1] = -1
      /\ \A x \in 0 .. n - 1 :
           Seek(k)[x] = IF entries[x].key = k THEN x ELSE Seek(k)[entries[x].next]
  BY <1>1, SeekDef
<1>3. SUFFICES ASSUME T # {} PROVE FALSE
  OBVIOUS
<1>4. PICK x \in T : \A y \in T : x <= y
  <2>1. T \subseteq Nat
    BY <1>1
  <2> HIDE DEF T
  <2> QED
    BY <1>3, <2>1, NatMin
<1> DEFINE p == entries[x].next
<1>5. x \in 0 .. n - 1 /\ ~F(x) /\ p \in -1 .. x - 1
  BY <1>1, <1>4
<1>6. entries[x].key # k /\ Seek(k)[x] = Seek(k)[p]
  BY <1>2, <1>5
<1>7. CASE p = -1
  <2>1. \A j \in 0 .. x - 1 : o[j] # o[x]
    BY <1>5, <1>7 DEF Owned
  <2> QED
    BY <1>2, <1>5, <1>6, <1>7, <2>1
<1>8. CASE p # -1
  <2>1. p \in 0 .. x - 1 /\ p \in 0 .. n - 1 /\ o[p] = o[x]
        /\ \A j \in 0 .. x - 1 : o[j] = o[x] => j <= p
    <3>1. p \in 0 .. x - 1 /\ p \in 0 .. n - 1
      BY ONLY <1>1, <1>5, <1>8
    <3>2. o[p] = o[x]
      BY <1>5, <1>8 DEF Owned
    <3>3. \A j \in 0 .. x - 1 : o[j] = o[x] => j <= p
      BY <1>5 DEF Owned
    <3> QED
      BY <3>1, <3>2, <3>3
  <2>2. F(p)
    BY <1>4, <2>1
  <2>3. \A j \in 0 .. x : o[j] = o[x] /\ j # x => j \in 0 .. p
    BY <1>5, <2>1
  <2> HIDE DEF p
  <2> QED
    BY <1>5, <1>6, <2>1, <2>2, <2>3
<1> QED
  BY <1>7, <1>8

(* A lookup finds the one entry of a key, and only misses a key that is    *)
(* not there: by the owners, it walks the only chain the key can be on.    *)
LEMMA LookupExact ==
  ASSUME Sound(indexSize, fullCount, chains, entries),
         liveCount = Cardinality(Live(entries)), NEW k \in Key
  PROVE  \/ /\ Lookup(k) = -1 /\ \A j \in 0 .. fullCount - 1 : entries[j].key # k
         \/ /\ Lookup(k) \in Live(entries) /\ Lookup(k) \in 0 .. fullCount - 1
            /\ entries[Lookup(k)].key = k
<1> DEFINE n == fullCount
           b == Bucket(k, indexSize)
<1>1. /\ n \in Nat /\ DOMAIN entries = 0 .. n - 1 /\ Live(entries) \subseteq 0 .. n - 1
      /\ n # 0 => indexSize \in Sizes
      /\ \A i \in 0 .. n - 1 : entries[i].next \in -1 .. i - 1
  BY SoundFacts
<1>2. k # Missing
  BY ValueTableAssumption
<1>3. CASE liveCount = 0
  <2>1. Live(entries) = {}
    <3>1. IsFiniteSet(Live(entries))
      BY <1>1, Count, FS_Subset
    <3> QED
      BY <1>3, <3>1, FS_EmptySet
  <2>2. \A j \in 0 .. n - 1 : entries[j].key # k
    BY <1>1, <1>2, <2>1 DEF Live
  <2> QED
    BY <1>3, <2>2 DEF Lookup
<1>4. CASE liveCount # 0
  <2>1. Live(entries) # {}
    BY <1>4, FS_EmptySet
  <2>2. n # 0 /\ indexSize \in Sizes
    BY <1>1, <2>1
  <2>3. PICK o \in [0 .. n - 1 -> 0 .. indexSize - 1] :
           Owned(indexSize, n, chains, entries, o)
    BY DEF Sound
  <2>4. b \in 0 .. indexSize - 1 /\ Lookup(k) = Seek(k)[chains[b]]
    BY <1>4, <2>2, BucketRange DEF Lookup
  <2>5. \A j \in 0 .. n - 1 : entries[j].key = k => o[j] = b
    BY <1>2, <2>3 DEF Owned
  <2> HIDE DEF b
  <2>6. CASE chains[b] = -1
    <3>1. Lookup(k) = -1
      BY <1>1, <2>4, <2>6, SeekDef
    <3>2. ASSUME NEW j \in 0 .. n - 1, entries[j].key = k PROVE FALSE
      <4>1. j <= chains[b] /\ j \in Nat
        BY <2>3, <2>5, <3>2 DEF Owned
      <4> QED
        BY <2>6, <4>1
    <3> QED
      BY <3>1, <3>2
  <2>7. CASE chains[b] # -1
    <3> DEFINE x == chains[b]
    <3>1. x \in 0 .. n - 1 /\ o[x] = b
      <4>1. \A y \in 0 .. indexSize - 1 :
              chains[y] = -1 \/ (chains[y] \in 0 .. n - 1 /\ o[chains[y]] = y)
        BY <2>3 DEF Owned
      <4>2. chains[b] = -1 \/ (chains[b] \in 0 .. n - 1 /\ o[chains[b]] = b)
        BY ONLY <2>4, <4>1
      <4> QED
        BY <2>7, <4>2
    <3>2. \A j \in 0 .. n - 1 : o[j] = b => j \in 0 .. x
      BY <2>3, <3>1 DEF Owned
    <3>3. \/ /\ Seek(k)[x] = -1
             /\ \A j \in 0 .. x : o[j] = o[x] => entries[j].key # k
          \/ /\ Seek(k)[x] \in 0 .. x /\ o[Seek(k)[x]] = o[x]
             /\ entries[Seek(k)[x]].key = k
      <4>1. \A i \in 0 .. n - 1 :
              \/ /\ Seek(k)[i] = -1
                 /\ \A j \in 0 .. i : o[j] = o[i] => entries[j].key # k
              \/ /\ Seek(k)[i] \in 0 .. i /\ o[Seek(k)[i]] = o[i]
                 /\ entries[Seek(k)[i]].key = k
        BY <2>3, SeekExact
      <4> HIDE DEF x, n
      <4> QED
        BY ONLY <3>1, <4>1
    <3> HIDE DEF x
    <3>4. Lookup(k) = Seek(k)[x]
      BY <2>4 DEF x
    <3>5. CASE Seek(k)[x] = -1
      <4>1. \A j \in 0 .. x : o[j] = o[x] => entries[j].key # k
        BY <3>1, <3>3, <3>5
      <4> QED
        BY <2>5, <3>1, <3>2, <3>4, <3>5, <4>1
    <3>6. CASE Seek(k)[x] # -1
      <4>1. Lookup(k) \in 0 .. x /\ entries[Lookup(k)].key = k
        BY <3>3, <3>4, <3>6
      <4>2. Lookup(k) \in 0 .. n - 1
        BY <1>1, <3>1, <4>1
      <4> QED
        BY <1>1, <1>2, <4>1, <4>2 DEF Live
    <3> QED
      BY <3>5, <3>6
  <2> QED
    BY <2>6, <2>7
<1> QED
  BY <1>3, <1>4

(* The entries on a chain are those that own it, up to where it starts.    *)
LEMMA LinkedExact ==
  ASSUME Sound(indexSize, fullCount, chains, entries),
         NEW o, Owned(indexSize, fullCount, chains, entries, o),
         NEW i \in 0 .. fullCount - 1
  PROVE  Linked[i] = {j \in 0 .. i : o[j] = o[i]}
<1> DEFINE n == fullCount
           F(x) == Linked[x] = {j \in 0 .. x : o[j] = o[x]}
           T == {x \in 0 .. n - 1 : ~F(x)}
<1>1. n \in Nat /\ \A x \in 0 .. n - 1 : entries[x].next \in -1 .. x - 1
  BY SoundFacts
<1>2. /\ Linked[-1] = {}
      /\ \A x \in 0 .. n - 1 : Linked[x] = {x} \cup Linked[entries[x].next]
  BY <1>1, LinkedDef
<1>3. SUFFICES ASSUME T # {} PROVE FALSE
  OBVIOUS
<1>4. PICK x \in T : \A y \in T : x <= y
  <2>1. T \subseteq Nat
    BY <1>1
  <2> HIDE DEF T
  <2> QED
    BY <1>3, <2>1, NatMin
<1> DEFINE p == entries[x].next
<1>5. x \in 0 .. n - 1 /\ ~F(x) /\ p \in -1 .. x - 1
  BY <1>1, <1>4
<1>6. Linked[x] = {x} \cup Linked[p]
  BY <1>2, <1>5
<1>7. CASE p = -1
  <2>1. \A j \in 0 .. x - 1 : o[j] # o[x]
    BY <1>5, <1>7 DEF Owned
  <2>2. {j \in 0 .. x : o[j] = o[x]} = {x}
    BY <1>5, <2>1
  <2> QED
    BY <1>2, <1>5, <1>6, <1>7, <2>2
<1>8. CASE p # -1
  <2>1. p \in 0 .. x - 1 /\ p \in 0 .. n - 1
    BY ONLY <1>1, <1>5, <1>8
  <2>2. o[p] = o[x]
    BY <1>5, <1>8 DEF Owned
  <2>3. \A j \in 0 .. x - 1 : o[j] = o[x] => j <= p
    BY <1>5 DEF Owned
  <2>4. F(p)
    BY <1>4, <2>1
  <2> HIDE DEF p
  <2>5. {j \in 0 .. x : o[j] = o[x]} = {x} \cup {j \in 0 .. p : o[j] = o[p]}
    BY <1>5, <2>1, <2>2, <2>3
  <2> QED
    BY <1>5, <1>6, <2>4, <2>5
<1> QED
  BY <1>7, <1>8

LEMMA OnOneChain ==
  ASSUME IInv
  PROVE  ChainsExact
<1> DEFINE n == fullCount
           s == indexSize
<1>1. /\ n \in Nat /\ s \in Nat /\ DOMAIN entries = 0 .. n - 1 /\ DOMAIN chains = 0 .. s - 1
      /\ Live(entries) \subseteq 0 .. n - 1
      /\ \A i \in 0 .. n - 1 : entries[i].next \in -1 .. i - 1
  BY SoundFacts DEF IInv
<1>2. PICK o \in [0 .. n - 1 -> 0 .. s - 1] : Owned(s, n, chains, entries, o)
  BY DEF IInv, Sound
<1>3. ASSUME NEW i \in 0 .. n - 1, NEW b \in 0 .. s - 1
      PROVE  i \in Linked[chains[b]] <=> o[i] = b
  <2>1. CASE chains[b] = -1
    <3>1. Linked[chains[b]] = {}
      BY <1>1, <2>1, LinkedDef
    <3>2. o[i] # b
      <4>1. ASSUME o[i] = b PROVE FALSE
        <5>1. i <= chains[b] /\ i \in Nat
          BY <1>2, <4>1 DEF Owned
        <5> QED
          BY <2>1, <5>1
      <4> QED
        BY <4>1
    <3> QED
      BY <3>1, <3>2
  <2>2. CASE chains[b] # -1
    <3> DEFINE x == chains[b]
    <3>1. x \in 0 .. n - 1 /\ o[x] = b
      BY <1>2, <2>2 DEF Owned
    <3>2. o[i] = b => i \in 0 .. x
      BY <1>2, <3>1 DEF Owned
    <3>3. Linked[x] = {j \in 0 .. x : o[j] = o[x]}
      <4>1. \A y \in 0 .. n - 1 : Linked[y] = {j \in 0 .. y : o[j] = o[y]}
        <5>1. Sound(s, n, chains, entries)
          BY DEF IInv
        <5> QED
          BY <1>2, <5>1, LinkedExact
      <4> QED
        BY <3>1, <4>1
    <3> HIDE DEF x
    <3>4. i \in Linked[x] <=> o[i] = b
      BY <3>1, <3>2, <3>3
    <3> QED
      BY <3>4 DEF x
  <2> QED
    BY <2>1, <2>2
<1>4. ASSUME NEW i \in 0 .. n - 1
      PROVE  Cardinality({b \in DOMAIN chains : i \in Linked[chains[b]]}) = 1
  <2>1. o[i] \in 0 .. s - 1
    BY <1>2
  <2>2. {b \in DOMAIN chains : i \in Linked[chains[b]]} = {o[i]}
    BY <1>1, <1>3, <2>1
  <2> QED
    BY <2>2, FS_Singleton
<1>5. ASSUME NEW i \in Live(entries)
      PROVE  i \in Linked[chains[Bucket(entries[i].key, s)]]
  <2>1. i \in 0 .. n - 1 /\ entries[i].key # Missing
    BY <1>1 DEF Live
  <2>2. o[i] = Bucket(entries[i].key, s) /\ o[i] \in 0 .. s - 1
    BY <1>2, <2>1 DEF Owned
  <2> QED
    BY <1>3, <2>1, <2>2
<1> QED
  BY <1>1, <1>4, <1>5 DEF ChainsExact

-----------------------------------------------------------------------------
(* A new entry becomes the head of the chain of its bucket.                *)
LEMMA InsertSound ==
  ASSUME NEW s \in Sizes, NEW n, NEW c, NEW e, Sound(s, n, c, e), NEW k \in Key, NEW v \in Value,
         \A i \in 0 .. n - 1 : e[i].key # k,
         NEW t, t = Insert(c, e, k, v)
  PROVE  /\ Sound(s, n + 1, t.chains, t.entries)
         /\ \A i \in 0 .. n - 1 : t.entries[i] = e[i]
         /\ t.entries[n].key = k /\ t.entries[n].value = v
         /\ Live(t.entries) = Live(e) \cup {n} /\ n \notin Live(e)
<1> DEFINE b == Bucket(k, s)
           new == [key |-> k, value |-> v, next |-> c[b]]
           f == [i \in 0 .. n |-> IF i = n THEN new ELSE e[i]]
           d == [c EXCEPT ![b] = n]
<1>1. /\ n \in Nat /\ s \in Nat /\ DOMAIN c = 0 .. s - 1 /\ DOMAIN e = 0 .. n - 1
      /\ Cardinality(DOMAIN c) = s /\ Cardinality(DOMAIN e) = n
      /\ \A i \in 0 .. n - 1 : e[i].next \in -1 .. i - 1
      /\ Live(e) \subseteq 0 .. n - 1
  BY SoundFacts
<1>2. t = [chains |-> d, entries |-> f]
  <2> SUFFICES Insert(c, e, k, v) = [chains |-> d, entries |-> f]
    OBVIOUS
  <2> QED
    BY <1>1 DEF Insert
<1>3. t.chains = d /\ t.entries = f
  BY <1>2
<1>4. b \in 0 .. s - 1 /\ k # Missing
  BY BucketRange, ValueTableAssumption
<1>5. c \in [0 .. s - 1 -> Int] /\ e \in [0 .. n - 1 -> Entry] /\ Unique(e)
  BY DEF Sound
<1>6. new \in Entry /\ new.key = k /\ new.value = v /\ new.next = c[b]
  BY <1>4, <1>5 DEF Entry
<1> HIDE DEF b, new
<1>7. d \in [0 .. s - 1 -> Int] /\ d[b] = n /\ \A x \in 0 .. s - 1 : x # b => d[x] = c[x]
  BY <1>1, <1>4, <1>5
<1>8. 0 .. (n + 1) - 1 = 0 .. n /\ \A i \in 0 .. n : i = n \/ i \in 0 .. n - 1
  BY <1>1
<1>9. /\ DOMAIN f = 0 .. n /\ f[n] = new /\ \A i \in 0 .. n - 1 : i \in 0 .. n /\ f[i] = e[i]
      /\ f \in [0 .. n -> Entry]
  <2>1. n \in 0 .. n /\ \A i \in 0 .. n - 1 : i \in 0 .. n /\ i # n
    BY <1>1
  <2> QED
    BY <1>5, <1>6, <1>8, <2>1
<1> HIDE DEF d, f
<1>10. Live(f) = Live(e) \cup {n} /\ n \notin Live(e)
  <2>1. n \in 0 .. n /\ n \notin 0 .. n - 1
    BY <1>1
  <2> QED
    BY <1>1, <1>4, <1>6, <1>8, <1>9, <2>1 DEF Live
<1>11. Unique(f)
  <2> SUFFICES ASSUME NEW i \in Live(f), NEW j \in Live(f), f[i].key = f[j].key PROVE i = j
    BY DEF Unique
  <2>1. CASE i = n /\ j = n
    BY <2>1
  <2>2. CASE i = n /\ j \in Live(e)
    BY <1>1, <1>6, <1>9, <2>2
  <2>3. CASE j = n /\ i \in Live(e)
    BY <1>1, <1>6, <1>9, <2>3
  <2>4. CASE i \in Live(e) /\ j \in Live(e)
    BY <1>1, <1>5, <1>9, <2>4 DEF Unique
  <2> QED
    BY <1>10, <2>1, <2>2, <2>3, <2>4
<1>12. PICK o \in [0 .. n - 1 -> 0 .. s - 1] : Owned(s, n, c, e, o)
  BY DEF Sound
<1> DEFINE p == [i \in 0 .. n |-> IF i = n THEN b ELSE o[i]]
<1>13. p \in [0 .. n -> 0 .. s - 1] /\ p[n] = b /\ \A i \in 0 .. n - 1 : p[i] = o[i]
  <2>1. n \in 0 .. n /\ \A i \in 0 .. n - 1 : i \in 0 .. n /\ i # n
    BY <1>1
  <2> QED
    BY <1>4, <1>8, <1>12, <2>1
<1> HIDE DEF p
<1>14. Owned(s, n + 1, d, f, p)
  <2>1. ASSUME NEW x \in 0 .. s - 1 PROVE d[x] = -1 \/ (d[x] \in 0 .. n /\ p[d[x]] = x)
    <3>1. CASE x = b
      BY <1>1, <1>7, <1>13, <3>1
    <3>2. CASE x # b
      <4>1. c[x] = -1 \/ (c[x] \in 0 .. n - 1 /\ o[c[x]] = x)
        BY <1>12 DEF Owned
      <4> QED
        BY <1>7, <1>9, <1>13, <3>2, <4>1
    <3> QED
      BY <3>1, <3>2
  <2>2. ASSUME NEW i \in 0 .. n PROVE i <= d[p[i]]
    <3>1. CASE p[i] = b
      BY <1>1, <1>7, <3>1
    <3>2. CASE p[i] # b
      <4>1. i \in 0 .. n - 1 /\ p[i] = o[i] /\ o[i] \in 0 .. s - 1
        BY <1>8, <1>12, <1>13, <3>2
      <4>2. i <= c[o[i]]
        BY <1>12, <4>1 DEF Owned
      <4> QED
        BY <1>7, <3>2, <4>1, <4>2
    <3> QED
      BY <3>1, <3>2
  <2>3. c[b] = -1 \/ (c[b] \in 0 .. n - 1 /\ o[c[b]] = b)
    BY <1>4, <1>12 DEF Owned
  <2>4. ASSUME NEW i \in 0 .. n
        PROVE  f[i].next = -1 \/ (f[i].next \in 0 .. i - 1 /\ p[f[i].next] = p[i])
    <3>1. CASE i = n
      BY <1>6, <1>9, <1>13, <2>3, <3>1
    <3>2. CASE i \in 0 .. n - 1
      <4>1. e[i].next = -1 \/ (e[i].next \in 0 .. i - 1 /\ o[e[i].next] = o[i])
        BY <1>12, <3>2 DEF Owned
      <4>2. e[i].next \in 0 .. i - 1 => e[i].next \in 0 .. n - 1
        BY <1>1, <3>2
      <4> QED
        BY <1>9, <1>13, <3>2, <4>1, <4>2
    <3> QED
      BY <1>8, <3>1, <3>2
  <2>5. ASSUME NEW i \in 0 .. n, NEW j \in 0 .. i - 1, p[j] = p[i] PROVE j <= f[i].next
    <3>1. j \in 0 .. n - 1 /\ p[j] = o[j]
      BY <1>1, <1>13, <2>5
    <3>2. CASE i = n
      <4>1. j <= c[o[j]]
        BY <1>12, <3>1 DEF Owned
      <4> QED
        BY <1>6, <1>9, <1>13, <2>5, <3>1, <3>2, <4>1
    <3>3. CASE i \in 0 .. n - 1
      <4>1. o[j] = o[i]
        BY <1>13, <2>5, <3>1, <3>3
      <4>2. j <= e[i].next
        BY <1>12, <3>3, <4>1 DEF Owned
      <4> QED
        BY <1>9, <3>3, <4>2
    <3> QED
      BY <1>8, <3>2, <3>3
  <2>6. ASSUME NEW i \in 0 .. n, f[i].key # Missing PROVE p[i] = Bucket(f[i].key, s)
    <3>1. CASE i = n
      BY <1>6, <1>9, <1>13, <3>1 DEF b
    <3>2. CASE i \in 0 .. n - 1
      BY <1>9, <1>12, <1>13, <2>6, <3>2 DEF Owned
    <3> QED
      BY <1>8, <3>1, <3>2
  <2> QED
    BY <1>8, <2>1, <2>2, <2>4, <2>5, <2>6 DEF Owned
<1>15. n + 1 \in Nat
  BY <1>1
<1>16. Sound(s, n + 1, d, f)
  BY <1>7, <1>8, <1>9, <1>11, <1>13, <1>14, <1>15 DEF Sound
<1> QED
  BY <1>3, <1>6, <1>9, <1>10, <1>16

(* Neither a new value nor a deletion touches the chains.                  *)
Changed(n, e, i, f) ==
  /\ f \in [0 .. n - 1 -> Entry] /\ i \in 0 .. n - 1
  /\ \A j \in 0 .. n - 1 : j # i => f[j] = e[j]
  /\ f[i].next = e[i].next /\ f[i].key \in {e[i].key, Missing}

(* Such a change keeps the table sound.                                    *)
LEMMA ChangeSound ==
  ASSUME NEW s, NEW n, NEW c, NEW e, Sound(s, n, c, e), NEW i, NEW f, Changed(n, e, i, f)
  PROVE  /\ Sound(s, n, c, f)
         /\ Live(f) = IF f[i].key = Missing THEN Live(e) \ {i} ELSE Live(e)
<1>1. /\ n \in Nat /\ s \in Sizes \cup {0} /\ DOMAIN e = 0 .. n - 1
      /\ c \in [0 .. s - 1 -> Int] /\ e \in [0 .. n - 1 -> Entry] /\ Unique(e)
  BY SoundFacts DEF Sound
<1>2. /\ f \in [0 .. n - 1 -> Entry] /\ i \in 0 .. n - 1
      /\ \A j \in 0 .. n - 1 : j # i => f[j] = e[j]
      /\ f[i].next = e[i].next /\ f[i].key \in {e[i].key, Missing}
  BY DEF Changed
<1>3. /\ \A j \in 0 .. n - 1 : f[j].next = e[j].next
      /\ \A j \in 0 .. n - 1 : f[j].key \in {e[j].key, Missing}
  BY <1>2
<1>4. Live(f) = IF f[i].key = Missing THEN Live(e) \ {i} ELSE Live(e)
  <2>1. DOMAIN f = DOMAIN e /\ i \in DOMAIN e
    BY <1>1, <1>2
  <2>2. \A j \in DOMAIN e : j # i => f[j] = e[j]
    BY <1>1, <1>2
  <2> QED
    BY <1>2, <2>1, <2>2 DEF Live
<1>5. Unique(f)
  <2> SUFFICES ASSUME NEW x \in Live(f), NEW y \in Live(f), f[x].key = f[y].key PROVE x = y
    BY DEF Unique
  <2>1. /\ x \in 0 .. n - 1 /\ y \in 0 .. n - 1
        /\ f[x].key # Missing /\ f[y].key # Missing
    BY <1>2 DEF Live
  <2>2. f[x].key = e[x].key /\ f[y].key = e[y].key
    BY <1>3, <2>1
  <2>3. x \in Live(e) /\ y \in Live(e)
    BY <1>1, <2>1, <2>2 DEF Live
  <2> QED
    BY <1>1, <2>2, <2>3 DEF Unique
<1>6. PICK o \in [0 .. n - 1 -> 0 .. s - 1] : Owned(s, n, c, e, o)
  BY DEF Sound
<1>7. Owned(s, n, c, f, o)
  <2>1. /\ \A b \in 0 .. s - 1 : c[b] = -1 \/ (c[b] \in 0 .. n - 1 /\ o[c[b]] = b)
        /\ \A j \in 0 .. n - 1 : j <= c[o[j]]
    BY <1>6 DEF Owned
  <2>2. \A j \in 0 .. n - 1 :
          f[j].next = -1 \/ (f[j].next \in 0 .. j - 1 /\ o[f[j].next] = o[j])
    BY <1>3, <1>6 DEF Owned
  <2>3. \A j \in 0 .. n - 1 : \A x \in 0 .. j - 1 : o[x] = o[j] => x <= f[j].next
    BY <1>3, <1>6 DEF Owned
  <2>4. ASSUME NEW j \in 0 .. n - 1, f[j].key # Missing PROVE o[j] = Bucket(f[j].key, s)
    <3>1. f[j].key = e[j].key
      BY <1>3, <2>4
    <3> QED
      BY <1>6, <2>4, <3>1 DEF Owned
  <2> QED
    BY <2>1, <2>2, <2>3, <2>4 DEF Owned
<1>8. Sound(s, n, c, f)
  BY <1>1, <1>2, <1>5, <1>6, <1>7 DEF Sound
<1> QED
  BY <1>2, <1>4, <1>8

-----------------------------------------------------------------------------
(* The entries as a list.                                                  *)
Pair == [key : Key, value : Value]
PairAt(e, i) == [key |-> e[i].key, value |-> e[i].value]

Entries(n, e) == n \in Nat /\ e \in [0 .. n - 1 -> Entry]

LEMMA EntriesFacts ==
  ASSUME NEW n, NEW e, Entries(n, e)
  PROVE  /\ n \in Nat /\ DOMAIN e = 0 .. n - 1 /\ Cardinality(DOMAIN e) = n
         /\ Live(e) \subseteq 0 .. n - 1
         /\ \A i \in Live(e) : PairAt(e, i) \in Pair
         /\ Listed(e)[0] = <<>>
         /\ \A m \in 0 .. n - 1 : Listed(e)[m + 1] = IF m \in Live(e)
                                                     THEN Append(Listed(e)[m], PairAt(e, m))
                                                     ELSE Listed(e)[m]
<1>1. n \in Nat /\ DOMAIN e = 0 .. n - 1 /\ Cardinality(DOMAIN e) = n
  BY Count DEF Entries
<1>2. Live(e) \subseteq 0 .. n - 1
  BY <1>1 DEF Live
<1>3. \A i \in Live(e) : PairAt(e, i) \in Pair
  BY <1>1 DEF Entries, Entry, Live, PairAt, Pair
<1> QED
  BY <1>1, <1>2, <1>3, ListedDef DEF PairAt

(* Each live entry is in the list once, after those before it.             *)
LEMMA ListedTypes ==
  ASSUME NEW n, NEW e, Entries(n, e), NEW m \in 0 .. n
  PROVE  Listed(e)[m] \in Seq(Pair) /\ Len(Listed(e)[m]) \in Nat
<1> DEFINE L == Listed(e)
           S == {x \in Nat : x <= n => L[x] \in Seq(Pair)}
<1> HIDE DEF L
<1>1. /\ n \in Nat /\ L[0] = <<>>
      /\ \A i \in Live(e) : PairAt(e, i) \in Pair
      /\ \A x \in 0 .. n - 1 :
           L[x + 1] = IF x \in Live(e) THEN Append(L[x], PairAt(e, x)) ELSE L[x]
  BY EntriesFacts DEF L
<1>2. 0 \in S
  <2>1. <<>> \in Seq(Pair)
    OBVIOUS
  <2> QED
    BY <1>1, <2>1
<1>3. ASSUME NEW x \in Nat, x \in S PROVE x + 1 \in S
  <2>1. CASE x + 1 <= n
    <3>1. x \in 0 .. n - 1 /\ L[x] \in Seq(Pair)
      BY <1>1, <1>3, <2>1
    <3>2. x \in Live(e) => Append(L[x], PairAt(e, x)) \in Seq(Pair)
      BY <1>1, <3>1, AppendProperties
    <3>3. L[x + 1] \in Seq(Pair)
      BY <1>1, <3>1, <3>2
    <3> QED
      BY <3>3
  <2> QED
    BY <2>1
<1>4. m \in S
  <2>1. m \in Nat
    BY <1>1
  <2> HIDE DEF S
  <2> QED
    BY <1>2, <1>3, <2>1, NatInd
<1>5. L[m] \in Seq(Pair)
  BY <1>1, <1>4
<1> QED
  BY <1>5, LenProperties DEF L

Numbered(e, m) ==
  /\ \A i \in Live(e) : i < m => /\ Len(Listed(e)[i]) + 1 \in 1 .. Len(Listed(e)[m])
                                 /\ Listed(e)[m][Len(Listed(e)[i]) + 1] = PairAt(e, i)
  /\ \A p \in 1 .. Len(Listed(e)[m]) :
       \E i \in Live(e) : i < m /\ p = Len(Listed(e)[i]) + 1

LEMMA ListedOrder ==
  ASSUME NEW n, NEW e, Entries(n, e), NEW m \in 0 .. n
  PROVE  Numbered(e, m)
<1> DEFINE L == Listed(e)
           S == {x \in Nat : x <= n => Numbered(e, x)}
<1>1. /\ n \in Nat /\ L[0] = <<>>
      /\ Live(e) \subseteq 0 .. n - 1
      /\ \A i \in Live(e) : PairAt(e, i) \in Pair
      /\ \A x \in 0 .. n - 1 :
           L[x + 1] = IF x \in Live(e) THEN Append(L[x], PairAt(e, x)) ELSE L[x]
  BY EntriesFacts
<1>2. \A x \in 0 .. n : L[x] \in Seq(Pair) /\ Len(L[x]) \in Nat
  BY ListedTypes
<1> HIDE DEF L
<1>3. 0 \in S
  <2>1. Len(L[0]) = 0 /\ \A i \in Live(e) : ~(i < 0)
    BY <1>1
  <2> QED
    BY <2>1 DEF Numbered, L
<1>4. ASSUME NEW x \in Nat, x \in S, x + 1 <= n PROVE Numbered(e, x + 1)
  <2>1. x \in 0 .. n - 1 /\ x \in 0 .. n /\ x + 1 \in 0 .. n /\ Numbered(e, x)
    BY <1>1, <1>4
  <2>2. \A i \in Live(e) : i \in Nat /\ (i < x + 1 => i = x \/ i < x)
    BY <1>1
  <2>3. /\ \A i \in Live(e) : i < x => /\ Len(L[i]) + 1 \in 1 .. Len(L[x])
                                       /\ L[x][Len(L[i]) + 1] = PairAt(e, i)
        /\ \A p \in 1 .. Len(L[x]) : \E i \in Live(e) : i < x /\ p = Len(L[i]) + 1
    BY <2>1 DEF Numbered, L
  <2>4. CASE x \notin Live(e)
    <3>1. L[x + 1] = L[x]
      BY <1>1, <2>1, <2>4
    <3>2. \A i \in Live(e) : i < x + 1 <=> i < x
      BY <2>1, <2>2, <2>4
    <3> QED
      BY <2>3, <3>1, <3>2 DEF Numbered, L
  <2>5. CASE x \in Live(e)
    <3> DEFINE a == PairAt(e, x)
               l == Len(L[x])
    <3>1. L[x + 1] = Append(L[x], a) /\ a \in Pair /\ L[x] \in Seq(Pair) /\ l \in Nat
      BY <1>1, <1>2, <2>1, <2>5
    <3>2. /\ Len(L[x + 1]) = l + 1 /\ L[x + 1][l + 1] = a
          /\ \A p \in 1 .. l : L[x + 1][p] = L[x][p]
      <4> HIDE DEF a
      <4> QED
        BY <3>1, AppendProperties
    <3> HIDE DEF a, l
    <3>3. ASSUME NEW i \in Live(e), i < x + 1
          PROVE  /\ Len(L[i]) + 1 \in 1 .. Len(L[x + 1])
                 /\ L[x + 1][Len(L[i]) + 1] = PairAt(e, i)
      <4>1. CASE i = x
        BY <3>1, <3>2, <4>1 DEF a, l
      <4>2. CASE i < x
        BY <2>3, <3>1, <3>2, <4>2 DEF l
      <4> QED
        BY <2>2, <3>3, <4>1, <4>2
    <3>4. ASSUME NEW p \in 1 .. Len(L[x + 1])
          PROVE  \E i \in Live(e) : i < x + 1 /\ p = Len(L[i]) + 1
      <4>1. CASE p = l + 1
        <5>1. x < x + 1 /\ p = Len(L[x]) + 1
          BY <2>1, <4>1 DEF l
        <5> QED
          BY <2>5, <5>1
      <4>2. CASE p \in 1 .. l
        <5>1. PICK i \in Live(e) : i < x /\ p = Len(L[i]) + 1
          BY <2>3, <4>2 DEF l
        <5>2. i < x + 1
          BY <2>1, <2>2, <5>1
        <5> QED
          BY <5>1, <5>2
      <4> QED
        BY <3>1, <3>2, <4>1, <4>2
    <3> QED
      BY <3>3, <3>4 DEF Numbered, L
  <2> QED
    BY <2>4, <2>5
<1>5. \A x \in Nat : x \in S => x + 1 \in S
  BY <1>4
<1>6. m \in S
  <2>1. m \in Nat
    BY <1>1
  <2> HIDE DEF S
  <2> QED
    BY <1>3, <1>5, <2>1, NatInd
<1> QED
  BY <1>1, <1>6

(* It has as many elements as there are live entries.                      *)
Before(e, m) == {i \in Live(e) : i < m}

LEMMA ListedLength ==
  ASSUME NEW n, NEW e, Entries(n, e), NEW m \in 0 .. n
  PROVE  /\ IsFiniteSet(Before(e, m)) /\ Len(Listed(e)[m]) = Cardinality(Before(e, m))
         /\ Cardinality(Before(e, m)) \in Nat
<1> DEFINE L == Listed(e)
           P(x) == IsFiniteSet(Before(e, x)) /\ Len(L[x]) = Cardinality(Before(e, x))
           S == {x \in Nat : x <= n => P(x)}
<1>1. /\ n \in Nat /\ L[0] = <<>>
      /\ Live(e) \subseteq 0 .. n - 1
      /\ \A i \in Live(e) : PairAt(e, i) \in Pair
      /\ \A x \in 0 .. n - 1 :
           L[x + 1] = IF x \in Live(e) THEN Append(L[x], PairAt(e, x)) ELSE L[x]
  BY EntriesFacts
<1>2. \A x \in 0 .. n : L[x] \in Seq(Pair) /\ Len(L[x]) \in Nat
  BY ListedTypes
<1> HIDE DEF L
<1>3. 0 \in S
  <2>1. Before(e, 0) = {} /\ Len(L[0]) = 0
    BY <1>1 DEF Before
  <2> QED
    BY <2>1, FS_EmptySet
<1>4. ASSUME NEW x \in Nat, x \in S, x + 1 <= n PROVE P(x + 1)
  <2>1. x \in 0 .. n - 1 /\ x \in 0 .. n /\ P(x)
    BY <1>1, <1>4
  <2>2. CASE x \notin Live(e)
    <3>1. Before(e, x + 1) = Before(e, x)
      BY <1>1, <2>1, <2>2 DEF Before
    <3> QED
      BY <1>1, <2>1, <2>2, <3>1
  <2>3. CASE x \in Live(e)
    <3>1. Before(e, x + 1) = Before(e, x) \cup {x} /\ x \notin Before(e, x)
      BY <1>1, <2>1, <2>3 DEF Before
    <3>2. /\ IsFiniteSet(Before(e, x + 1))
          /\ Cardinality(Before(e, x + 1)) = Cardinality(Before(e, x)) + 1
      BY <2>1, <3>1, FS_AddElement
    <3>3. Len(L[x + 1]) = Len(L[x]) + 1
      <4>1. L[x + 1] = Append(L[x], PairAt(e, x)) /\ L[x] \in Seq(Pair) /\ PairAt(e, x) \in Pair
        BY <1>1, <1>2, <2>1, <2>3
      <4> QED
        BY <4>1, AppendProperties
    <3> QED
      BY <2>1, <3>2, <3>3
  <2> QED
    BY <2>2, <2>3
<1>5. \A x \in Nat : x \in S => x + 1 \in S
  BY <1>4
<1>6. m \in S
  <2>1. m \in Nat
    BY <1>1
  <2> HIDE DEF S
  <2> QED
    BY <1>3, <1>5, <2>1, NatInd
<1> QED
  BY <1>1, <1>6, FS_CardinalityType DEF L

(* The list depends on nothing but the keys and values.                    *)
LEMMA ListedAgree ==
  ASSUME NEW n, NEW e, Entries(n, e), NEW n2, NEW f, Entries(n2, f), NEW m \in 0 .. n, m <= n2,
         \A i \in 0 .. m - 1 : e[i].key = f[i].key /\ e[i].value = f[i].value
  PROVE  Listed(e)[m] = Listed(f)[m]
<1> DEFINE L == Listed(e)
           M == Listed(f)
           S == {x \in Nat : x <= m => L[x] = M[x]}
<1>1. /\ n \in Nat /\ L[0] = <<>> /\ DOMAIN e = 0 .. n - 1
      /\ \A x \in 0 .. n - 1 :
           L[x + 1] = IF x \in Live(e) THEN Append(L[x], PairAt(e, x)) ELSE L[x]
  BY EntriesFacts
<1>2. /\ n2 \in Nat /\ M[0] = <<>> /\ DOMAIN f = 0 .. n2 - 1
      /\ \A x \in 0 .. n2 - 1 :
           M[x + 1] = IF x \in Live(f) THEN Append(M[x], PairAt(f, x)) ELSE M[x]
  BY EntriesFacts
<1> HIDE DEF L, M
<1>3. 0 \in S
  BY <1>1, <1>2
<1>4. ASSUME NEW x \in Nat, x \in S, x + 1 <= m PROVE L[x + 1] = M[x + 1]
  <2>1. /\ x \in 0 .. n - 1 /\ x \in 0 .. n2 - 1 /\ x \in 0 .. m - 1 /\ L[x] = M[x]
    BY <1>1, <1>2, <1>4
  <2>2. x \in Live(e) <=> x \in Live(f)
    BY <1>1, <1>2, <2>1 DEF Live
  <2>3. PairAt(e, x) = PairAt(f, x)
    BY <2>1 DEF PairAt
  <2> QED
    BY <1>1, <1>2, <2>1, <2>2, <2>3
<1>5. \A x \in Nat : x \in S => x + 1 \in S
  BY <1>4
<1>6. m \in S
  <2>1. m \in Nat
    BY <1>1
  <2> HIDE DEF S
  <2> QED
    BY <1>3, <1>5, <2>1, NatInd
<1> QED
  BY <1>1, <1>6 DEF L, M

(* A later part of the list begins with an earlier one.                    *)
LEMMA ListedGrows ==
  ASSUME NEW n, NEW e, Entries(n, e), NEW m \in 0 .. n, NEW x \in 0 .. m
  PROVE  /\ Len(Listed(e)[x]) <= Len(Listed(e)[m])
         /\ x \in Live(e) /\ x < m => Len(Listed(e)[x]) + 1 <= Len(Listed(e)[m])
<1>1. n \in Nat /\ x \in 0 .. n
  BY EntriesFacts
<1>2. /\ IsFiniteSet(Before(e, m)) /\ Len(Listed(e)[m]) = Cardinality(Before(e, m))
      /\ Len(Listed(e)[x]) = Cardinality(Before(e, x)) /\ IsFiniteSet(Before(e, x))
      /\ Cardinality(Before(e, m)) \in Nat /\ Cardinality(Before(e, x)) \in Nat
  BY <1>1, ListedLength
<1>3. \A i \in Live(e) : i \in Nat
  BY <1>1, EntriesFacts
<1>4. Before(e, x) \subseteq Before(e, m)
  BY <1>1, <1>3 DEF Before
<1>5. Cardinality(Before(e, x)) <= Cardinality(Before(e, m))
  BY <1>2, <1>4, FS_Subset
<1>6. ASSUME x \in Live(e), x < m
      PROVE  Cardinality(Before(e, x)) + 1 <= Cardinality(Before(e, m))
  <2> DEFINE B == Before(e, x) \cup {x}
  <2>1. x \notin Before(e, x) /\ B \subseteq Before(e, m)
    BY <1>3, <1>4, <1>6 DEF Before
  <2>2. Cardinality(B) = Cardinality(Before(e, x)) + 1
    BY <1>2, <2>1, FS_AddElement
  <2>3. Cardinality(B) <= Cardinality(Before(e, m))
    <3> HIDE DEF B
    <3> QED
      BY <1>2, <2>1, FS_Subset
  <2> QED
    BY <2>2, <2>3
<1> QED
  BY <1>2, <1>5, <1>6

(* PutNew: a new entry is the last of the list.                            *)
LEMMA ListedMore ==
  ASSUME NEW n, NEW e, Entries(n, e), NEW f, Entries(n + 1, f),
         \A i \in 0 .. n - 1 : f[i] = e[i], n \in Live(f)
  PROVE  Listed(f)[n + 1] = Append(Listed(e)[n], PairAt(f, n))
<1>1. n \in Nat /\ n \in 0 .. n /\ n <= n + 1 /\ n \in 0 .. (n + 1) - 1
  BY EntriesFacts
<1>2. Listed(e)[n] = Listed(f)[n]
  BY <1>1, ListedAgree
<1>3. Listed(f)[n + 1] = Append(Listed(f)[n], PairAt(f, n))
  BY <1>1, EntriesFacts
<1> QED
  BY <1>2, <1>3

(* PutOver: a new value stands where the old one did.                      *)
LEMMA ListedOver ==
  ASSUME NEW n, NEW e, Entries(n, e), NEW i \in Live(e), NEW f, Entries(n, f),
         Live(f) = Live(e), \A j \in Live(e) : j # i => f[j] = e[j],
         f[i].key = e[i].key,
         NEW p, p = Len(Listed(e)[i]) + 1
  PROVE  /\ p \in DOMAIN Listed(e)[n] /\ Listed(e)[n][p] = PairAt(e, i)
         /\ Listed(f)[n] = [Listed(e)[n] EXCEPT ![p].value = f[i].value]
         /\ \A x \in 0 .. n : Len(Listed(f)[x]) = Len(Listed(e)[x])
<1> DEFINE l == Listed(e)[n]
           k == Listed(f)[n]
<1>1. n \in Nat /\ n \in 0 .. n /\ Live(e) \subseteq 0 .. n - 1
  BY EntriesFacts
<1>2. \A x \in 0 .. n : Len(Listed(f)[x]) = Len(Listed(e)[x])
  <2>1. \A x \in 0 .. n : Before(f, x) = Before(e, x)
    BY DEF Before
  <2> QED
    BY <2>1, ListedLength
<1>3. Numbered(e, n) /\ Numbered(f, n)
  BY <1>1, ListedOrder
<1>4. l \in Seq(Pair) /\ k \in Seq(Pair) /\ Len(l) = Len(k) /\ Len(l) \in Nat
  BY <1>1, <1>2, ListedTypes
<1>5. \A j \in Live(e) : j \in 0 .. n /\ j < n /\ Len(Listed(f)[j]) = Len(Listed(e)[j])
  BY <1>1, <1>2
<1>6. p \in 1 .. Len(l) /\ l[p] = PairAt(e, i) /\ k[p] = PairAt(f, i)
  BY <1>3, <1>5 DEF Numbered
<1>7. ASSUME NEW q \in 1 .. Len(l), q # p PROVE k[q] = l[q]
  <2>1. PICK j \in Live(e) : q = Len(Listed(e)[j]) + 1
    BY <1>3 DEF Numbered
  <2>2. l[q] = PairAt(e, j) /\ k[q] = PairAt(f, j)
    BY <1>3, <1>5, <2>1 DEF Numbered
  <2>3. j # i
    BY <1>7, <2>1
  <2> QED
    BY <2>2, <2>3 DEF PairAt
<1> DEFINE r == [key |-> e[i].key, value |-> f[i].value]
           g == [l EXCEPT ![p] = r]
<1>8. l[p] \in Pair /\ [l[p] EXCEPT !.value = f[i].value] = r /\ k[p] = r
  BY <1>4, <1>6 DEF PairAt, Pair
<1>9. r \in Pair
  BY <1>4, <1>6, <1>8
<1>10. DOMAIN l = 1 .. Len(l)
  BY <1>4, LenProperties
<1>11. [l EXCEPT ![p].value = f[i].value] = g
  BY <1>6, <1>8, <1>10
<1> HIDE DEF l, k, r
<1>12. g \in Seq(Pair) /\ Len(g) = Len(l) /\ \A q \in 1 .. Len(l) : g[q] = IF q = p THEN r ELSE l[q]
  BY <1>4, <1>6, <1>9, ExceptSeq
<1> HIDE DEF g
<1>13. k = g
  <2>1. \A q \in 1 .. Len(k) : k[q] = g[q]
    BY <1>4, <1>7, <1>8, <1>12
  <2> QED
    BY <1>4, <1>12, <2>1, SeqEqual
<1> QED
  BY <1>2, <1>6, <1>10, <1>11, <1>13 DEF l, k

(* Remove: the others keep their order.                                    *)
LEMMA ListedWithout ==
  ASSUME NEW n, NEW e, Entries(n, e), NEW i \in Live(e), NEW f, Entries(n, f),
         Live(f) = Live(e) \ {i}, \A j \in Live(f) : f[j] = e[j],
         NEW p, p = Len(Listed(e)[i]) + 1, NEW l, l = Listed(e)[n]
  PROVE  /\ p \in DOMAIN l /\ l[p] = PairAt(e, i)
         /\ Listed(f)[n] = [q \in 1 .. Len(l) - 1 |-> l[IF q < p THEN q ELSE q + 1]]
<1> DEFINE k == Listed(f)[n]
<1>1. /\ n \in Nat /\ n \in 0 .. n /\ Live(e) \subseteq 0 .. n - 1
      /\ \A j \in Live(e) : j \in Nat /\ j \in 0 .. n /\ j < n
  BY EntriesFacts
<1>2. Numbered(e, n) /\ Numbered(f, n)
  BY <1>1, ListedOrder
<1>3. l \in Seq(Pair) /\ k \in Seq(Pair) /\ Len(l) \in Nat /\ Len(k) \in Nat
      /\ DOMAIN l = 1 .. Len(l)
  BY <1>1, ListedTypes, LenProperties
<1>4. p \in 1 .. Len(l) /\ l[p] = PairAt(e, i)
  BY <1>1, <1>2 DEF Numbered
<1>5. ASSUME NEW x \in 0 .. n
      PROVE  Len(Listed(f)[x]) = IF i < x THEN Len(Listed(e)[x]) - 1 ELSE Len(Listed(e)[x])
  <2>1. /\ IsFiniteSet(Before(e, x)) /\ Len(Listed(e)[x]) = Cardinality(Before(e, x))
        /\ Cardinality(Before(e, x)) \in Nat
        /\ Len(Listed(f)[x]) = Cardinality(Before(f, x))
    BY ListedLength
  <2>2. CASE i < x
    <3>1. Before(f, x) = Before(e, x) \ {i} /\ i \in Before(e, x)
      BY <2>2 DEF Before
    <3>2. Cardinality(Before(f, x)) = Cardinality(Before(e, x)) - 1
      BY <2>1, <3>1, FS_RemoveElement
    <3> QED
      BY <2>1, <2>2, <3>2
  <2>3. CASE ~(i < x)
    <3>1. Before(f, x) = Before(e, x)
      BY <2>3 DEF Before
    <3> QED
      BY <2>1, <2>3, <3>1
  <2> QED
    BY <2>2, <2>3
<1>6. Len(k) = Len(l) - 1
  BY <1>1, <1>5
<1>7. ASSUME NEW q \in 1 .. Len(k) PROVE k[q] = l[IF q < p THEN q ELSE q + 1]
  <2>1. PICK j \in Live(f) : q = Len(Listed(f)[j]) + 1
    BY <1>2 DEF Numbered
  <2>2. j \in Live(e) /\ j # i /\ j \in 0 .. n /\ j < n /\ j \in Nat /\ i \in Nat
    BY <1>1, <2>1
  <2>3. k[q] = PairAt(f, j) /\ f[j] = e[j]
    BY <1>2, <2>1, <2>2 DEF Numbered
  <2>4. l[Len(Listed(e)[j]) + 1] = PairAt(e, j) /\ Len(Listed(e)[j]) \in Nat
    BY <1>2, <2>2, ListedTypes DEF Numbered
  <2>5. k[q] = l[Len(Listed(e)[j]) + 1]
    BY <2>3, <2>4 DEF PairAt
  <2>6. Len(Listed(e)[i]) \in Nat
    BY <1>1, ListedTypes
  <2>7. CASE j < i
    <3>1. j \in 0 .. i /\ i \in 0 .. n
      BY <1>1, <2>2, <2>7
    <3>2. Len(Listed(e)[j]) + 1 <= Len(Listed(e)[i])
      BY <2>2, <2>7, <3>1, ListedGrows
    <3>3. q = Len(Listed(e)[j]) + 1
      BY <1>5, <2>1, <2>2, <2>7
    <3>4. q < p
      BY <2>4, <2>6, <3>2, <3>3
    <3> QED
      BY <2>5, <3>3, <3>4
  <2>8. CASE i < j
    <3>1. i \in 0 .. j
      BY <2>2, <2>8
    <3>2. Len(Listed(e)[i]) + 1 <= Len(Listed(e)[j])
      BY <2>2, <2>8, <3>1, ListedGrows
    <3>3. q = Len(Listed(e)[j]) - 1 + 1
      BY <1>5, <2>1, <2>2, <2>8
    <3>4. ~(q < p) /\ q + 1 = Len(Listed(e)[j]) + 1
      BY <2>4, <2>6, <3>2, <3>3
    <3> QED
      BY <2>5, <3>4
  <2> QED
    BY <2>2, <2>7, <2>8
<1> HIDE DEF k
<1>8. k = [q \in 1 .. Len(k) |-> k[q]]
  BY <1>3, SeqDef, LenProperties
<1>9. k = [q \in 1 .. Len(l) - 1 |-> l[IF q < p THEN q ELSE q + 1]]
  BY <1>6, <1>7, <1>8
<1> QED
  BY <1>3, <1>4, <1>9 DEF k

-----------------------------------------------------------------------------
(* rehash to another size.                                                 *)
MovedInv(size, n) ==
  LET t == Moved(size)[n]
      k == Len(Listed(entries)[n])
  IN /\ Sound(size, k, t.chains, t.entries)
     /\ Live(t.entries) = 0 .. k - 1
     /\ Listed(t.entries)[k] = Listed(entries)[n]
     /\ \A j \in 0 .. k - 1 : \E i \in Live(entries) : i < n /\ t.entries[j].key = entries[i].key

LEMMA NoEntriesSound ==
  ASSUME NEW s \in Sizes
  PROVE  /\ Sound(s, 0, [b \in 0 .. s - 1 |-> -1], <<>>)
         /\ Live(<<>>) = {} /\ Listed(<<>>)[0] = <<>>
<1> DEFINE c == [b \in 0 .. s - 1 |-> -1]
<1>1. DOMAIN <<>> = {} /\ 0 .. 0 - 1 = {}
  BY SMT
<1>2. <<>> \in [0 .. 0 - 1 -> Entry]
  <2>1. <<>> \in [{} -> Entry]
    BY SMT
  <2> QED
    BY <1>1, <2>1
<1>3. c \in [0 .. s - 1 -> Int] /\ \A b \in 0 .. s - 1 : c[b] = -1
  OBVIOUS
<1>4. Live(<<>>) = {} /\ Unique(<<>>)
  BY <1>1 DEF Live, Unique
<1> HIDE DEF c
<1>5. \E o \in [0 .. 0 - 1 -> 0 .. s - 1] : Owned(s, 0, c, <<>>, o)
  <2> DEFINE o == [i \in {} |-> 0]
  <2>1. o \in [0 .. 0 - 1 -> 0 .. s - 1]
    BY <1>1
  <2>2. \A i \in 0 .. 0 - 1 : FALSE
    BY <1>1
  <2> HIDE DEF o
  <2>3. Owned(s, 0, c, <<>>, o)
    BY <1>3, <2>2 DEF Owned
  <2> QED
    BY <2>1, <2>3
<1>6. Sound(s, 0, c, <<>>)
  BY <1>2, <1>3, <1>4, <1>5 DEF Sound
<1>7. Entries(0, <<>>)
  BY <1>2 DEF Entries
<1>8. Listed(<<>>)[0] = <<>>
  BY <1>7, EntriesFacts
<1> QED
  BY <1>4, <1>6, <1>8 DEF c

LEMMA MovedStep ==
  ASSUME Sound(indexSize, fullCount, chains, entries), NEW size \in Sizes,
         NEW n \in 0 .. fullCount - 1, MovedInv(size, n)
  PROVE  MovedInv(size, n + 1)
<1> DEFINE t == Moved(size)[n]
           u == Moved(size)[n + 1]
           L == Listed(entries)
           k == Len(L[n])
<1>1. /\ fullCount \in Nat /\ DOMAIN entries = 0 .. fullCount - 1
      /\ Live(entries) \subseteq 0 .. fullCount - 1
  BY SoundFacts
<1>2. Entries(fullCount, entries) /\ Unique(entries)
  BY <1>1 DEF Sound, Entries
<1>3. /\ L[n + 1] = IF n \in Live(entries) THEN Append(L[n], PairAt(entries, n)) ELSE L[n]
      /\ \A i \in Live(entries) : PairAt(entries, i) \in Pair
  BY <1>2, EntriesFacts
<1>4. u = Move(t, n)
  BY <1>1, MovedDef
<1>5. /\ Sound(size, k, t.chains, t.entries)
      /\ Live(t.entries) = 0 .. k - 1
      /\ Listed(t.entries)[k] = L[n]
      /\ \A j \in 0 .. k - 1 : \E i \in Live(entries) : i < n /\ t.entries[j].key = entries[i].key
  BY DEF MovedInv
<1>6. L[n] \in Seq(Pair) /\ k \in Nat /\ n \in 0 .. fullCount /\ n \in Nat
  BY <1>1, <1>2, ListedTypes
<1>7. CASE n \notin Live(entries)
  <2>1. u = t /\ L[n + 1] = L[n]
    BY <1>3, <1>4, <1>7 DEF Move
  <2>2. \A i \in Live(entries) : i < n => i < n + 1
    BY <1>1, <1>6
  <2> HIDE DEF t, u, L
  <2>3. \A j \in 0 .. k - 1 :
          \E i \in Live(entries) : i < n + 1 /\ u.entries[j].key = entries[i].key
    BY <1>5, <2>1, <2>2
  <2>4. /\ Sound(size, k, u.chains, u.entries)
        /\ Live(u.entries) = 0 .. k - 1
        /\ Listed(u.entries)[k] = L[n + 1] /\ k = Len(L[n + 1])
    BY <1>5, <2>1
  <2> QED
    BY <2>3, <2>4 DEF MovedInv, t, u, L
<1>8. CASE n \in Live(entries)
  <2> DEFINE x == entries[n].key
             v == entries[n].value
  <2>1. u = Insert(t.chains, t.entries, x, v)
    BY <1>4, <1>8 DEF Move
  <2>2. x \in Key /\ v \in Value
    BY <1>3, <1>8 DEF PairAt, Pair
  <2>3. \A j \in 0 .. k - 1 : t.entries[j].key # x
    <3>1. \A i \in Live(entries) : i < n => entries[i].key # x
      BY <1>1, <1>2, <1>8 DEF Unique
    <3> QED
      BY <1>5, <3>1
  <2>4. L[n + 1] = Append(L[n], PairAt(entries, n)) /\ PairAt(entries, n) = [key |-> x, value |-> v]
    BY <1>3, <1>8 DEF PairAt
  <2>5. Len(L[n + 1]) = k + 1
    BY <1>3, <1>6, <1>8, <2>4, AppendProperties
  <2> HIDE DEF t, u, L, k, x, v
  <2>6. /\ Sound(size, k + 1, u.chains, u.entries)
        /\ \A i \in 0 .. k - 1 : u.entries[i] = t.entries[i]
        /\ u.entries[k].key = x /\ u.entries[k].value = v
        /\ Live(u.entries) = Live(t.entries) \cup {k}
    <3> DEFINE c == t.chains
               e == t.entries
    <3>1. Sound(size, k, c, e) /\ u = Insert(c, e, x, v) /\ \A j \in 0 .. k - 1 : e[j].key # x
      BY <1>5, <2>1, <2>3
    <3>2. /\ Sound(size, k + 1, u.chains, u.entries)
          /\ \A i \in 0 .. k - 1 : u.entries[i] = e[i]
          /\ u.entries[k].key = x /\ u.entries[k].value = v
          /\ Live(u.entries) = Live(e) \cup {k}
      <4> HIDE DEF c, e
      <4> QED
        BY ONLY size \in Sizes, <2>2, <3>1, InsertSound
    <3> QED
      BY <3>2
  <2>7. Live(u.entries) = 0 .. (k + 1) - 1 /\ k \in Live(u.entries)
    BY <1>5, <1>6, <2>6
  <2>8. Listed(u.entries)[k + 1] = L[n + 1]
    <3>1. Entries(k, t.entries) /\ Entries(k + 1, u.entries)
      BY <1>5, <1>6, <2>6 DEF Sound, Entries
    <3>2. Listed(u.entries)[k + 1] = Append(Listed(t.entries)[k], PairAt(u.entries, k))
      BY <2>6, <2>7, <3>1, ListedMore
    <3>3. PairAt(u.entries, k) = [key |-> x, value |-> v]
      BY <2>6 DEF PairAt
    <3> QED
      BY <1>5, <2>4, <3>2, <3>3
  <2>9. ASSUME NEW j \in 0 .. (k + 1) - 1
        PROVE  \E i \in Live(entries) : i < n + 1 /\ u.entries[j].key = entries[i].key
    <3>1. CASE j = k
      <4>1. n < n + 1
        BY <1>6
      <4> QED
        BY <1>8, <2>6, <3>1, <4>1 DEF x
    <3>2. CASE j # k
      <4>1. j \in 0 .. k - 1
        BY <1>6, <3>2
      <4>2. PICK i \in Live(entries) : i < n /\ t.entries[j].key = entries[i].key
        BY <1>5, <4>1
      <4>3. i < n + 1
        BY <1>1, <1>6, <4>2
      <4> QED
        BY <2>6, <4>1, <4>2, <4>3
    <3> QED
      BY <3>1, <3>2
  <2> QED
    BY <2>5, <2>6, <2>7, <2>8, <2>9 DEF MovedInv, t, u, L
<1> QED
  BY <1>7, <1>8

(* The new table holds the live entries in their order.                    *)
LEMMA RehashSound ==
  ASSUME Sound(indexSize, fullCount, chains, entries), NEW size \in Sizes,
         liveCount = Cardinality(Live(entries)), NEW t, t = Rehash(size)
  PROVE  /\ Sound(size, liveCount, t.chains, t.entries) /\ liveCount \in 0 .. fullCount
         /\ Live(t.entries) = 0 .. liveCount - 1
         /\ Listed(t.entries)[liveCount] = Listed(entries)[fullCount]
         /\ \A j \in 0 .. liveCount - 1 : \E i \in Live(entries) :
              t.entries[j].key = entries[i].key
<1> DEFINE c == fullCount
           S == {n \in Nat : n <= c => MovedInv(size, n)}
<1>1. c \in Nat /\ Live(entries) \subseteq 0 .. c - 1
  BY SoundFacts
<1>2. Entries(c, entries)
  BY <1>1 DEF Sound, Entries
<1>3. 0 \in S
  <2>1. Moved(size)[0] = [chains |-> [b \in 0 .. size - 1 |-> -1], entries |-> <<>>]
    BY <1>1, MovedDef
  <2>2. Listed(entries)[0] = <<>>
    BY <1>2, EntriesFacts
  <2>3. Len(<<>>) = 0 /\ 0 .. 0 - 1 = {}
    OBVIOUS
  <2>4. MovedInv(size, 0)
    <3> DEFINE first == Moved(size)[0]
    <3>1. first.chains = [b \in 0 .. size - 1 |-> -1] /\ first.entries = <<>>
      BY <2>1
    <3> HIDE DEF first
    <3>2. /\ Sound(size, 0, first.chains, first.entries)
          /\ Live(first.entries) = {} /\ Listed(first.entries)[0] = <<>>
      BY <3>1, NoEntriesSound
    <3> QED
      BY <2>2, <2>3, <3>2 DEF MovedInv, first
  <2> QED
    BY <2>4
<1>4. ASSUME NEW n \in Nat, n \in S PROVE n + 1 \in S
  <2>1. ASSUME n + 1 <= c PROVE MovedInv(size, n + 1)
    <3>1. n \in 0 .. c - 1 /\ MovedInv(size, n)
      BY <1>1, <1>4, <2>1
    <3> QED
      BY <3>1, MovedStep
  <2> QED
    BY <2>1
<1>5. c \in S
  <2> HIDE DEF S
  <2> QED
    BY <1>1, <1>3, <1>4, NatInd
<1>6. MovedInv(size, c)
  BY <1>1, <1>5
<1>7. Len(Listed(entries)[c]) = liveCount /\ liveCount \in 0 .. c
  <2>1. Before(entries, c) = Live(entries)
    BY <1>1 DEF Before
  <2>2. c \in 0 .. c
    BY <1>1
  <2>3. Len(Listed(entries)[c]) = liveCount /\ liveCount \in Nat
    BY <1>2, <2>1, <2>2, ListedLength
  <2>4. liveCount <= c
    BY <1>1, Count, FS_Subset
  <2> QED
    BY <1>1, <2>3, <2>4
<1> QED
  BY <1>6, <1>7 DEF MovedInv, Rehash

-----------------------------------------------------------------------------
(* What IInv says of the table.                                            *)
LEMMA TableFacts ==
  ASSUME IInv
  PROVE  /\ fullCount \in Nat /\ indexSize \in Nat /\ indexSize \in Sizes \cup {0}
         /\ DOMAIN chains = 0 .. indexSize - 1 /\ DOMAIN entries = 0 .. fullCount - 1
         /\ Live(entries) \subseteq 0 .. fullCount - 1
         /\ Entries(fullCount, entries) /\ Unique(entries)
         /\ fullCount # 0 => indexSize \in Sizes
         /\ List \in Seq(Pair) /\ Len(List) \in Nat /\ DOMAIN List = 1 .. Len(List)
<1>1. Sound(indexSize, fullCount, chains, entries)
  BY DEF IInv
<1> DEFINE n == fullCount
           s == indexSize
<1>2. Sound(s, n, chains, entries)
  BY <1>1
<1> HIDE DEF n, s
<1>3. /\ n \in Nat /\ s \in Nat /\ s \in Sizes \cup {0}
      /\ DOMAIN chains = 0 .. s - 1 /\ DOMAIN entries = 0 .. n - 1
      /\ Live(entries) \subseteq 0 .. n - 1
      /\ n # 0 => s \in Sizes
  BY <1>2, SoundFacts
<1>4. Entries(n, entries) /\ Unique(entries)
  BY <1>2, <1>3 DEF Sound, Entries
<1>5. List \in Seq(Pair) /\ Len(List) \in Nat
  <2>1. n \in 0 .. n
    BY <1>3
  <2>2. Listed(entries)[n] \in Seq(Pair) /\ Len(Listed(entries)[n]) \in Nat
    BY <1>4, <2>1, ListedTypes
  <2> QED
    BY <2>2 DEF List, n
<1>6. DOMAIN List = 1 .. Len(List)
  BY <1>5, LenProperties
<1> QED
  BY <1>3, <1>4, <1>5, <1>6 DEF n, s

(* A lookup of a key and the place of the key in the list.                 *)
LEMMA LookupList ==
  ASSUME IInv, NEW k \in Key
  PROVE  \/ /\ Lookup(k) = -1
            /\ \A j \in 0 .. fullCount - 1 : entries[j].key # k
            /\ \A p \in DOMAIN List : List[p].key # k
         \/ /\ Lookup(k) \in Live(entries) /\ Lookup(k) \in 0 .. fullCount - 1
            /\ entries[Lookup(k)].key = k
            /\ Len(Listed(entries)[Lookup(k)]) + 1 \in DOMAIN List
            /\ List[Len(Listed(entries)[Lookup(k)]) + 1] = PairAt(entries, Lookup(k))
<1>1. /\ Sound(indexSize, fullCount, chains, entries)
      /\ liveCount = Cardinality(Live(entries))
  BY DEF IInv
<1>2. \/ /\ Lookup(k) = -1 /\ \A j \in 0 .. fullCount - 1 : entries[j].key # k
      \/ /\ Lookup(k) \in Live(entries) /\ Lookup(k) \in 0 .. fullCount - 1
         /\ entries[Lookup(k)].key = k
  BY <1>1, LookupExact
<1> DEFINE n == fullCount
           i == Lookup(k)
           b == indexSize
<1>3. /\ n \in Nat /\ Live(entries) \subseteq 0 .. n - 1 /\ Entries(n, entries)
      /\ DOMAIN List = 1 .. Len(List) /\ List = Listed(entries)[n]
  BY TableFacts DEF List
<1> HIDE DEF n, i
<1>4. Numbered(entries, n)
  <2>1. n \in 0 .. n
    BY <1>3
  <2> QED
    BY <1>3, <2>1, ListedOrder
<1>5. ASSUME i = -1, \A j \in 0 .. n - 1 : entries[j].key # k
      PROVE  \A p \in DOMAIN List : List[p].key # k
  <2> SUFFICES ASSUME NEW p \in DOMAIN List PROVE List[p].key # k
    OBVIOUS
  <2>1. PICK j \in Live(entries) : j < n /\ p = Len(Listed(entries)[j]) + 1
    BY <1>3, <1>4 DEF Numbered
  <2>2. List[p] = PairAt(entries, j)
    BY <1>3, <1>4, <2>1 DEF Numbered
  <2> QED
    BY <1>3, <1>5, <2>2 DEF PairAt
<1>6. ASSUME i \in Live(entries)
      PROVE  /\ Len(Listed(entries)[i]) + 1 \in DOMAIN List
             /\ List[Len(Listed(entries)[i]) + 1] = PairAt(entries, i)
  <2>1. i < n
    BY <1>3, <1>6
  <2> QED
    BY <1>3, <1>4, <1>6, <2>1 DEF Numbered
<1> QED
  BY <1>2, <1>5, <1>6 DEF n, i

(* What makes the next state sound.                                        *)
LEMMA SoundNext ==
  ASSUME NEW s, NEW n, Sound(s, n, chains', entries')
  PROVE  /\ indexSize' = s /\ fullCount' = n
         /\ Sound(indexSize, fullCount, chains, entries)'
<1>1. \A c, e : Sound(s, n, c, e) => Cardinality(DOMAIN c) = s /\ Cardinality(DOMAIN e) = n
  BY SoundFacts
<1>2. Cardinality(DOMAIN chains') = s /\ Cardinality(DOMAIN entries') = n
  BY <1>1
<1>3. indexSize' = s /\ fullCount' = n
  BY <1>2 DEF indexSize, fullCount
<1> QED
  BY <1>3

(* An iterator goes stale when a key comes or goes.                        *)
Stale == Stand' = (IF Stand = -1 THEN -1 ELSE -2)

LEMMA GoesStale ==
  ASSUME IInv, Modify, UNCHANGED iter
  PROVE  modCount' \in 0 .. MaxMod /\ IterSound' /\ Stale
<1>1. modCount \in Nat /\ modCount' = modCount + 1 /\ modCount' \in 0 .. MaxMod
  BY ValueTableAssumption DEF IInv, Modify
<1>2. CASE iter = NoIter
  <2>1. Stand = -1 /\ Stand' = -1
    BY <1>2 DEF Stand, NoIter
  <2> QED
    BY <1>1, <1>2, <2>1 DEF IterSound, Stale, NoIter
<1>3. CASE iter # NoIter
  <2>1. /\ DOMAIN iter = {"current", "modCount"}
        /\ iter.current \in Nat /\ iter.modCount \in 0 .. modCount
        /\ iter.modCount = modCount => iter.current <= fullCount
    BY <1>3 DEF IInv, IterSound
  <2>2. iter.modCount \in 0 .. modCount' /\ iter.modCount # modCount'
    BY <1>1, <2>1
  <2>3. Stand' = -2
    BY <1>3, <2>2 DEF Stand, NoIter
  <2>4. Stand # -1
    <3>1. ASSUME iter.modCount = modCount PROVE Len(Listed(entries)[iter.current]) \in Nat
      <4>1. iter.current \in 0 .. fullCount
        BY <2>1, <3>1, TableFacts
      <4> QED
        BY <4>1, TableFacts, ListedTypes
    <3> QED
      BY <1>3, <3>1 DEF Stand
  <2>5. IterSound'
    BY <2>1, <2>2 DEF IterSound
  <2> QED
    BY <1>1, <2>3, <2>4, <2>5 DEF Stale
<1> QED
  BY <1>2, <1>3

(* Otherwise it stays sound.                                               *)
LEMMA StaysSound ==
  ASSUME IInv, UNCHANGED <<iter, modCount, fullCount>>
  PROVE  modCount' \in 0 .. MaxMod /\ IterSound'
<1>1. modCount' \in 0 .. MaxMod
  BY DEF IInv
<1>2. IterSound'
  <2>1. IterSound
    BY DEF IInv
  <2> HIDE DEF fullCount
  <2>2. CASE iter = NoIter
    BY <2>2 DEF IterSound, NoIter
  <2>3. CASE iter # NoIter
    BY <2>1, <2>3 DEF IterSound
  <2> QED
    BY <2>2, <2>3
<1> QED
  BY <1>1, <1>2

-----------------------------------------------------------------------------
(* The operations on the table.                                            *)
LEMMA Kept ==
  ASSUME IInv, UNCHANGED <<table, iter>>
  PROVE  IInv' /\ List' = List /\ Stand' = Stand
<1>1. UNCHANGED <<chains, entries, liveCount, modCount, iter>>
  BY DEF table
<1>2. UNCHANGED <<indexSize, fullCount, dataSize>>
  BY <1>1 DEF indexSize, fullCount, dataSize
<1>3. List' = List /\ Stand' = Stand
  BY <1>1, <1>2 DEF List, Stand
<1>4. Sound(indexSize, fullCount, chains, entries)'
  BY <1>1, <1>2 DEF IInv
<1>5. fullCount' <= dataSize' /\ liveCount' = Cardinality(Live(entries'))
  BY <1>1, <1>2 DEF IInv
<1> QED
  BY <1>1, <1>2, <1>3, <1>4, <1>5, StaysSound DEF IInv

(* A value is put over another.                                            *)
Over(f, i, v) == [f EXCEPT ![i].value = v]

LEMMA OverStep ==
  ASSUME IInv, NEW k \in Key, NEW v \in Value, NEW i \in Live(entries), entries[i].key = k,
         entries' = Over(entries, i, v),
         UNCHANGED <<chains, liveCount, modCount, iter>>,
         NEW p, p = Len(Listed(entries)[i]) + 1
  PROVE  /\ IInv'
         /\ p \in DOMAIN List /\ List[p].key = k
         /\ List' = Over(List, p, v) /\ Stand' = Stand
<1> DEFINE n == fullCount
           s == indexSize
           r == [entries[i] EXCEPT !.value = v]
<1>1. /\ n \in Nat /\ DOMAIN entries = 0 .. n - 1 /\ Live(entries) \subseteq 0 .. n - 1
      /\ Entries(n, entries)
  BY TableFacts
<1>2. i \in 0 .. n - 1 /\ entries[i] \in Entry /\ entries[i].key # Missing
  BY <1>1 DEF Entries, Live
<1>3. /\ r \in Entry /\ r.next = entries[i].next /\ r.key = entries[i].key /\ r.value = v
  BY <1>2 DEF Entry
<1>4. entries' = [entries EXCEPT ![i] = r]
  BY <1>1, <1>2 DEF Over
<1>5. Sound(s, n, chains, entries)
  BY DEF IInv
<1> HIDE DEF r, n, s
<1>6. /\ Sound(s, n, chains, entries') /\ Live(entries') = Live(entries)
      /\ entries'[i] = r /\ \A j \in 0 .. n - 1 : j # i => entries'[j] = entries[j]
  <2>1. /\ entries' \in [0 .. n - 1 -> Entry]
        /\ entries'[i] = r /\ \A j \in 0 .. n - 1 : j # i => entries'[j] = entries[j]
    BY <1>1, <1>2, <1>3, <1>4 DEF Entries
  <2>2. Changed(n, entries, i, entries') /\ entries'[i].key # Missing
    BY <1>2, <1>3, <2>1 DEF Changed
  <2>3. \A f : Changed(n, entries, i, f) =>
          /\ Sound(s, n, chains, f)
          /\ Live(f) = IF f[i].key = Missing THEN Live(entries) \ {i} ELSE Live(entries)
    BY <1>5, ChangeSound
  <2> QED
    BY <2>1, <2>2, <2>3
<1>7. /\ indexSize' = s /\ fullCount' = n
      /\ Sound(indexSize, fullCount, chains, entries)'
  <2>1. chains' = chains
    OBVIOUS
  <2> QED
    BY <1>6, <2>1, SoundNext
<1>8. fullCount' = fullCount /\ dataSize' = dataSize
  BY <1>7 DEF n, s, dataSize
<1>9. Entries(n, entries')
  BY <1>1, <1>6 DEF Sound, Entries
<1>10. \A j \in Live(entries) : j # i => entries'[j] = entries[j]
  BY <1>1, <1>6
<1>11. entries'[i].key = entries[i].key /\ entries'[i].value = v
  BY <1>3, <1>6
<1>12. /\ p \in DOMAIN Listed(entries)[n] /\ Listed(entries)[n][p] = PairAt(entries, i)
       /\ Listed(entries')[n] = [Listed(entries)[n] EXCEPT ![p].value = v]
       /\ \A x \in 0 .. n : Len(Listed(entries')[x]) = Len(Listed(entries)[x])
  <2>1. ASSUME NEW f, Entries(n, f), Live(f) = Live(entries),
               \A j \in Live(entries) : j # i => f[j] = entries[j],
               f[i].key = entries[i].key, f[i].value = v
        PROVE  /\ p \in DOMAIN Listed(entries)[n] /\ Listed(entries)[n][p] = PairAt(entries, i)
               /\ Listed(f)[n] = [Listed(entries)[n] EXCEPT ![p].value = v]
               /\ \A x \in 0 .. n : Len(Listed(f)[x]) = Len(Listed(entries)[x])
    <3>1. /\ p \in DOMAIN Listed(entries)[n] /\ Listed(entries)[n][p] = PairAt(entries, i)
          /\ Listed(f)[n] = [Listed(entries)[n] EXCEPT ![p].value = f[i].value]
          /\ \A x \in 0 .. n : Len(Listed(f)[x]) = Len(Listed(entries)[x])
      BY <1>1, <2>1, ListedOver
    <3> QED
      BY <2>1, <3>1
  <2> QED
    BY <1>6, <1>9, <1>10, <1>11, <2>1
<1>13. List = Listed(entries)[n] /\ List' = Listed(entries')[n]
  BY <1>7 DEF List, n
<1>14. IInv'
  <2>1. modCount' \in 0 .. MaxMod /\ IterSound'
    BY <1>8, StaysSound
  <2>2. fullCount' <= dataSize' /\ liveCount' = Cardinality(Live(entries'))
    BY <1>6, <1>8 DEF IInv
  <2> QED
    BY <1>7, <2>1, <2>2 DEF IInv
<1>15. Stand' = Stand
  <2>1. CASE iter = NoIter
    BY <2>1 DEF Stand
  <2>2. CASE iter # NoIter /\ iter.modCount # modCount
    BY <2>2 DEF Stand
  <2>3. CASE iter # NoIter /\ iter.modCount = modCount
    <3>1. iter.current \in 0 .. n
      BY <1>1, <2>3 DEF IInv, IterSound, n
    <3>2. Len(Listed(entries')[iter.current]) = Len(Listed(entries)[iter.current])
      BY <1>12, <3>1
    <3> QED
      BY <2>3, <3>2 DEF Stand
  <2> QED
    BY <2>1, <2>2, <2>3
<1>16. List[p].key = k
  BY <1>12, <1>13 DEF PairAt
<1>17. List' = Over(List, p, v)
  BY <1>12, <1>13 DEF Over
<1> QED
  BY <1>12, <1>13, <1>14, <1>15, <1>16, <1>17

(* A key is removed.                                                       *)
Deleted(f, i) == [f EXCEPT ![i].key = Missing]

LEMMA RemoveStep ==
  ASSUME IInv, NEW k \in Key, NEW i \in Live(entries), entries[i].key = k,
         entries' = Deleted(entries, i), Modify, liveCount' = liveCount - 1,
         UNCHANGED <<chains, iter>>,
         NEW p, p = Len(Listed(entries)[i]) + 1
  PROVE  /\ IInv'
         /\ p \in DOMAIN List /\ List[p].key = k
         /\ List' = [q \in 1 .. Len(List) - 1 |-> List[IF q < p THEN q ELSE q + 1]]
         /\ Stale
<1> DEFINE n == fullCount
           s == indexSize
           r == [entries[i] EXCEPT !.key = Missing]
<1>1. /\ n \in Nat /\ DOMAIN entries = 0 .. n - 1 /\ Live(entries) \subseteq 0 .. n - 1
      /\ Entries(n, entries)
  BY TableFacts
<1>2. i \in 0 .. n - 1 /\ entries[i] \in Entry
  BY <1>1 DEF Entries
<1>3. /\ r \in Entry /\ r.next = entries[i].next /\ r.key = Missing
  BY <1>2 DEF Entry
<1>4. entries' = [entries EXCEPT ![i] = r]
  BY <1>1, <1>2 DEF Deleted
<1>5. Sound(s, n, chains, entries)
  BY DEF IInv
<1> HIDE DEF r, n, s
<1>6. /\ Sound(s, n, chains, entries') /\ Live(entries') = Live(entries) \ {i}
      /\ \A j \in 0 .. n - 1 : j # i => entries'[j] = entries[j]
  <2>1. /\ entries' \in [0 .. n - 1 -> Entry]
        /\ entries'[i] = r /\ \A j \in 0 .. n - 1 : j # i => entries'[j] = entries[j]
    BY <1>1, <1>2, <1>3, <1>4 DEF Entries
  <2>2. Changed(n, entries, i, entries') /\ entries'[i].key = Missing
    BY <1>2, <1>3, <2>1 DEF Changed
  <2>3. \A f : Changed(n, entries, i, f) =>
          /\ Sound(s, n, chains, f)
          /\ Live(f) = IF f[i].key = Missing THEN Live(entries) \ {i} ELSE Live(entries)
    BY <1>5, ChangeSound
  <2> QED
    BY <2>1, <2>2, <2>3
<1>7. /\ indexSize' = s /\ fullCount' = n
      /\ Sound(indexSize, fullCount, chains, entries)'
  <2>1. chains' = chains
    OBVIOUS
  <2> QED
    BY <1>6, <2>1, SoundNext
<1>8. fullCount' = fullCount /\ dataSize' = dataSize
  BY <1>7 DEF n, s, dataSize
<1>9. Entries(n, entries')
  BY <1>1, <1>6 DEF Sound, Entries
<1>10. \A j \in Live(entries') : entries'[j] = entries[j]
  BY <1>1, <1>6
<1>11. List = Listed(entries)[n] /\ List' = Listed(entries')[n]
  BY <1>7 DEF List, n
<1>12. /\ p \in DOMAIN List /\ List[p] = PairAt(entries, i)
       /\ List' = [q \in 1 .. Len(List) - 1 |-> List[IF q < p THEN q ELSE q + 1]]
  <2> DEFINE l == List
  <2>1. l = Listed(entries)[n]
    BY <1>11
  <2> HIDE DEF l
  <2>2. ASSUME NEW f, Entries(n, f), Live(f) = Live(entries) \ {i},
               \A j \in Live(f) : f[j] = entries[j]
        PROVE  /\ p \in DOMAIN l /\ l[p] = PairAt(entries, i)
               /\ Listed(f)[n] = [q \in 1 .. Len(l) - 1 |-> l[IF q < p THEN q ELSE q + 1]]
    <3>1. Entries(n, entries) /\ i \in Live(entries) /\ p = Len(Listed(entries)[i]) + 1
      BY <1>1
    <3> QED
      BY ONLY <2>1, <2>2, <3>1, ListedWithout, SMTT(30)
  <2>3. /\ p \in DOMAIN l /\ l[p] = PairAt(entries, i)
        /\ Listed(entries')[n] = [q \in 1 .. Len(l) - 1 |-> l[IF q < p THEN q ELSE q + 1]]
    BY <1>6, <1>9, <1>10, <2>2
  <2> QED
    BY <1>11, <2>3 DEF l
<1>13. IInv' /\ Stale
  <2>1. modCount' \in 0 .. MaxMod /\ IterSound' /\ Stale
    BY GoesStale
  <2>2. liveCount' = Cardinality(Live(entries'))
    <3>1. IsFiniteSet(Live(entries)) /\ liveCount = Cardinality(Live(entries))
      BY <1>1, Count, FS_Subset DEF IInv
    <3>2. Cardinality(Live(entries) \ {i}) = Cardinality(Live(entries)) - 1
      BY <3>1, FS_RemoveElement
    <3> QED
      BY <1>6, <3>1, <3>2
  <2>3. fullCount' <= dataSize'
    BY <1>8 DEF IInv
  <2> QED
    BY <1>7, <2>1, <2>2, <2>3 DEF IInv
<1>14. List[p].key = k
  BY <1>12 DEF PairAt
<1> QED
  BY <1>12, <1>13, <1>14

(* One more entry in the table and at the end of the list.                 *)
LEMMA InsertList ==
  ASSUME NEW s \in Sizes, NEW n, NEW c, NEW e, Sound(s, n, c, e), NEW k \in Key, NEW v \in Value,
         \A i \in 0 .. n - 1 : e[i].key # k,
         NEW t, t = Insert(c, e, k, v)
  PROVE  /\ Sound(s, n + 1, t.chains, t.entries)
         /\ Listed(t.entries)[n + 1] = Append(Listed(e)[n], [key |-> k, value |-> v])
         /\ Cardinality(Live(t.entries)) = Cardinality(Live(e)) + 1
<1> DEFINE f == t.entries
           d == t.chains
<1>1. /\ Sound(s, n + 1, d, f)
      /\ \A i \in 0 .. n - 1 : f[i] = e[i]
      /\ f[n].key = k /\ f[n].value = v
      /\ Live(f) = Live(e) \cup {n} /\ n \notin Live(e)
  BY InsertSound
<1> HIDE DEF f, d
<1>2. n \in Nat /\ Live(e) \subseteq 0 .. n - 1
  BY SoundFacts
<1>3. Entries(n, e) /\ Entries(n + 1, f)
  <2>1. n + 1 \in Nat
    BY <1>2
  <2> QED
    BY <1>1, <1>2, <2>1 DEF Sound, Entries
<1>4. Listed(f)[n + 1] = Append(Listed(e)[n], PairAt(f, n))
  <2>1. n \in Live(f)
    BY <1>1
  <2> QED
    BY <1>1, <1>3, <2>1, ListedMore
<1>5. PairAt(f, n) = [key |-> k, value |-> v]
  BY <1>1 DEF PairAt
<1>6. IsFiniteSet(Live(e))
  BY <1>2, Count, FS_Subset
<1>7. Cardinality(Live(f)) = Cardinality(Live(e)) + 1
  BY <1>1, <1>6, FS_AddElement
<1> QED
  BY <1>1, <1>4, <1>5, <1>7 DEF f, d

(* A larger index has room for one more than fills the old one.            *)
LEMMA NewSizeRoom ==
  ASSUME IInv, Fits, fullCount = dataSize, NewSize # indexSize
  PROVE  NewSize \in Sizes /\ dataSize + 1 <= (3 * NewSize) \div 4
<1>1. indexSize \in Nat /\ indexSize \in Sizes \cup {0}
  BY TableFacts
<1>2. NewSize <= HashRange /\ NewSize = IF indexSize = 0 THEN InitialSize ELSE 2 * indexSize
  BY DEF Fits, NewSize
<1>3. /\ HashRange \in Nat /\ InitialSize \in 2 .. HashRange /\ HashRange % InitialSize = 0
      /\ \A s \in 1 .. HashRange - 1 : HashRange % s = 0 => HashRange % (2 * s) = 0
  BY ValueTableAssumption
<1> DEFINE i == indexSize
           m == NewSize
<1>4. dataSize = (3 * i) \div 4
  BY DEF dataSize
<1> HIDE DEF i, m
<1>5. CASE i = 0
  <2>1. m = InitialSize
    BY <1>2, <1>5 DEF i, m
  <2>2. m \in Sizes
    BY <1>3, <2>1 DEF Sizes
  <2>3. (3 * i) \div 4 = 0
    BY <1>5
  <2>4. \A x \in Int : x >= 2 => 1 <= (3 * x) \div 4
    OBVIOUS
  <2>5. 1 <= (3 * m) \div 4
    BY <1>3, <2>1, <2>4
  <2> QED
    BY <1>4, <2>2, <2>3, <2>5 DEF m
<1>6. CASE i # 0
  <2>1. m = 2 * i /\ i \in 1 .. HashRange - 1 /\ HashRange % i = 0
    BY <1>1, <1>2, <1>3, <1>6 DEF Sizes, i, m
  <2>2. m \in Sizes
    <3>1. HashRange % m = 0
      BY <1>3, <2>1
    <3>2. m \in 1 .. HashRange
      <4>1. m <= HashRange
        BY <1>2 DEF m
      <4> QED
        BY <1>3, <2>1, <4>1
    <3> QED
      BY <3>1, <3>2 DEF Sizes
  <2>3. \A x \in Nat : x >= 1 => (3 * x) \div 4 + 1 <= (3 * (2 * x)) \div 4
    OBVIOUS
  <2>4. (3 * i) \div 4 + 1 <= (3 * m) \div 4
    BY <1>3, <2>1, <2>3
  <2> QED
    BY <1>4, <2>2, <2>4 DEF m
<1> QED
  BY <1>5, <1>6

(* A new key is put.                                                       *)
LEMMA NewStep ==
  ASSUME IInv, NEW k \in Key, NEW v \in Value, Lookup(k) = -1,
         ~(fullCount = dataSize /\ NewSize = indexSize), Fits, Modify,
         NEW t, t = (IF fullCount = dataSize THEN Rehash(NewSize)
                     ELSE [chains |-> chains, entries |-> entries]),
         NEW new, new = Insert(t.chains, t.entries, k, v),
         chains' = new.chains, entries' = new.entries,
         liveCount' = liveCount + 1, UNCHANGED iter
  PROVE  /\ IInv' /\ \A p \in DOMAIN List : List[p].key # k
         /\ List' = Append(List, [key |-> k, value |-> v]) /\ Stale
<1>1. /\ Sound(indexSize, fullCount, chains, entries) /\ fullCount <= dataSize
      /\ liveCount = Cardinality(Live(entries))
  BY DEF IInv
<1>2. /\ \A j \in 0 .. fullCount - 1 : entries[j].key # k
      /\ \A p \in DOMAIN List : List[p].key # k
  <2>1. Lookup(k) \notin 0 .. fullCount - 1
    BY SMT
  <2> QED
    BY <2>1, LookupList
<1>3. /\ fullCount \in Nat /\ indexSize \in Nat /\ indexSize \in Sizes \cup {0}
      /\ Live(entries) \subseteq 0 .. fullCount - 1 /\ DOMAIN entries = 0 .. fullCount - 1
  BY TableFacts
<1>4. \E s \in Sizes, n \in Nat :
         /\ Sound(s, n, t.chains, t.entries) /\ n + 1 <= (3 * s) \div 4
         /\ \A i \in 0 .. n - 1 : t.entries[i].key # k
         /\ Listed(t.entries)[n] = List /\ Cardinality(Live(t.entries)) = liveCount
  <2>1. CASE fullCount = dataSize
    <3> DEFINE m == NewSize
    <3>1. m \in Sizes /\ dataSize + 1 <= (3 * m) \div 4
      BY <2>1, NewSizeRoom
    <3>2. t = Rehash(m)
      BY <2>1
    <3> HIDE DEF m
    <3>3. /\ Sound(m, liveCount, t.chains, t.entries) /\ liveCount \in 0 .. fullCount
          /\ Live(t.entries) = 0 .. liveCount - 1
          /\ Listed(t.entries)[liveCount] = List
          /\ \A j \in 0 .. liveCount - 1 : \E i \in Live(entries) :
               t.entries[j].key = entries[i].key
      BY ONLY <1>1, <3>1, <3>2, RehashSound DEF List
    <3>4. liveCount + 1 <= (3 * m) \div 4
      <4>1. m \in Int /\ (3 * m) \div 4 \in Int
        BY <3>1, ValueTableAssumption DEF Sizes
      <4> QED
        BY <1>3, <2>1, <3>1, <3>3, <4>1
    <3>5. \A i \in 0 .. liveCount - 1 : t.entries[i].key # k
      BY <1>2, <1>3, <3>3
    <3>6. liveCount \in Nat /\ Cardinality(Live(t.entries)) = liveCount
      BY <1>3, <3>3, Count
    <3> QED
      BY <3>1, <3>3, <3>4, <3>5, <3>6
  <2>2. CASE fullCount # dataSize
    <3>1. t.chains = chains /\ t.entries = entries
      BY <2>2
    <3>2. dataSize = (3 * indexSize) \div 4
      BY DEF dataSize
    <3>3. indexSize # 0 /\ fullCount + 1 <= (3 * indexSize) \div 4
      BY <1>1, <1>3, <2>2, <3>2
    <3>4. indexSize \in Sizes
      BY <1>3, <3>3
    <3>5. /\ Sound(indexSize, fullCount, t.chains, t.entries)
          /\ \A i \in 0 .. fullCount - 1 : t.entries[i].key # k
          /\ Listed(t.entries)[fullCount] = List /\ Cardinality(Live(t.entries)) = liveCount
      BY <1>1, <1>2, <3>1 DEF List
    <3> QED
      BY <1>3, <3>3, <3>4, <3>5
  <2> QED
    BY <2>1, <2>2
<1>5. PICK s \in Sizes, n \in Nat :
         /\ Sound(s, n, t.chains, t.entries) /\ n + 1 <= (3 * s) \div 4
         /\ \A i \in 0 .. n - 1 : t.entries[i].key # k
         /\ Listed(t.entries)[n] = List /\ Cardinality(Live(t.entries)) = liveCount
  BY <1>4
<1>6. /\ Sound(s, n + 1, new.chains, new.entries)
      /\ Listed(new.entries)[n + 1] = Append(List, [key |-> k, value |-> v])
      /\ Cardinality(Live(new.entries)) = liveCount + 1
  <2> DEFINE c == t.chains
             e == t.entries
  <2>1. /\ Sound(s, n, c, e) /\ \A i \in 0 .. n - 1 : e[i].key # k
        /\ new = Insert(c, e, k, v)
    BY <1>5
  <2>2. /\ Sound(s, n + 1, new.chains, new.entries)
        /\ Listed(new.entries)[n + 1] = Append(Listed(e)[n], [key |-> k, value |-> v])
        /\ Cardinality(Live(new.entries)) = Cardinality(Live(e)) + 1
    <3> HIDE DEF c, e
    <3>1. s \in Sizes /\ k \in Key /\ v \in Value
      OBVIOUS
    <3> QED
      BY ONLY <3>1, <2>1, InsertList
  <2> QED
    BY <1>5, <2>2
<1>7. Sound(s, n + 1, chains', entries')
  BY <1>6
<1>8. /\ indexSize' = s /\ fullCount' = n + 1
      /\ Sound(indexSize, fullCount, chains, entries)'
  <2> DEFINE m == n + 1
  <2>1. Sound(s, m, chains', entries')
    BY <1>7
  <2> HIDE DEF m
  <2>2. /\ indexSize' = s /\ fullCount' = m
        /\ Sound(indexSize, fullCount, chains, entries)'
    BY <2>1, SoundNext
  <2> QED
    BY <2>2 DEF m
<1>9. fullCount' <= dataSize'
  BY <1>5, <1>8 DEF dataSize
<1>10. liveCount' = Cardinality(Live(entries'))
  BY <1>6
<1>11. List' = Append(List, [key |-> k, value |-> v])
  BY <1>6, <1>8 DEF List
<1>12. modCount' \in 0 .. MaxMod /\ IterSound' /\ Stale
  BY GoesStale
<1> QED
  BY <1>2, <1>8, <1>9, <1>10, <1>11, <1>12 DEF IInv

-----------------------------------------------------------------------------
(* The iterator.                                                           *)

(* The list does not grow over entries that hold no key.                   *)
LEMMA ListedStill ==
  ASSUME NEW n, NEW e, Entries(n, e), NEW x \in 0 .. n, NEW m \in 0 .. x,
         \A i \in Live(e) : ~(m <= i /\ i < x)
  PROVE  Len(Listed(e)[x]) = Len(Listed(e)[m])
<1>1. n \in Nat /\ m \in 0 .. n /\ Live(e) \subseteq 0 .. n - 1
  BY EntriesFacts
<1>2. Before(e, x) = Before(e, m)
  BY <1>1 DEF Before
<1> QED
  BY <1>1, <1>2, ListedLength

(* valueTableGetNext finds the entry that follows in the list.             *)
LEMMA GetNextFacts ==
  ASSUME IInv, NEW m \in 0 .. fullCount, NEW p, p = Len(Listed(entries)[m])
  PROVE  /\ p \in Nat
         /\ \/ GetNext(m) = -1 /\ p = Len(List)
            \/ /\ GetNext(m) \in 1 .. fullCount /\ p < Len(List)
               /\ List[p + 1] = PairAt(entries, GetNext(m) - 1)
               /\ Len(Listed(entries)[GetNext(m)]) = p + 1
<1> DEFINE n == fullCount
           L == Listed(entries)
           found == {i \in Live(entries) : i >= m}
           g == GetNext(m)
<1>1. /\ n \in Nat /\ Live(entries) \subseteq 0 .. n - 1 /\ Entries(n, entries)
      /\ List = L[n] /\ Len(List) \in Nat /\ DOMAIN List = 1 .. Len(List)
  BY TableFacts DEF List
<1>2. g = IF found = {} THEN -1 ELSE Min(found) + 1
  <2>1. ~(m < 0)
    BY <1>1
  <2> QED
    BY <2>1 DEF GetNext
<1> HIDE DEF g, n, L
<1>3. m \in Nat /\ m <= n /\ n \in 0 .. n /\ m \in 0 .. n
  BY <1>1 DEF n
<1>4. p \in Nat
  BY <1>1, <1>3, ListedTypes DEF L
<1>5. CASE found = {}
  <2>1. \A i \in Live(entries) : ~(m <= i /\ i < n)
    BY <1>1, <1>3, <1>5
  <2>2. Len(L[n]) = p
    BY <1>1, <1>3, <2>1, ListedStill DEF L
  <2> QED
    BY <1>1, <1>2, <1>4, <1>5, <2>2 DEF g
<1>6. CASE found # {}
  <2>1. PICK j \in found : \A y \in found : j <= y
    <3>1. found \subseteq Nat
      BY <1>1
    <3> HIDE DEF found
    <3> QED
      BY <1>6, <3>1, NatMin
  <2>2. Min(found) \in found /\ \A y \in found : Min(found) <= y
    <3> HIDE DEF found
    <3> QED
      BY <2>1 DEF Min
  <2> DEFINE x == Min(found)
  <2> HIDE DEF x
  <2>3. /\ x \in Live(entries) /\ x >= m /\ x \in 0 .. n - 1 /\ x \in 0 .. n /\ m \in 0 .. x
        /\ \A i \in Live(entries) : ~(m <= i /\ i < x)
    <3>1. x \in Live(entries) /\ x >= m /\ \A y \in found : x <= y
      BY <2>2 DEF x
    <3>2. x \in 0 .. n - 1
      BY <1>1, <3>1
    <3>3. x \in 0 .. n /\ m \in 0 .. x
      BY ONLY <1>1, <1>3, <3>1, <3>2
    <3>4. ASSUME NEW i \in Live(entries), m <= i, i < x PROVE FALSE
      <4>1. i \in Nat /\ i >= m
        BY <1>1, <1>3, <3>4
      <4>2. x <= i
        BY <3>1, <4>1
      <4> QED
        BY ONLY <3>2, <3>4, <4>1, <4>2, <1>1
    <3> QED
      BY <3>1, <3>2, <3>3, <3>4
  <2>4. g = x + 1 /\ g \in 1 .. n
    BY <1>1, <1>2, <1>6, <2>3 DEF x
  <2>5. Len(L[x]) = p
    BY <1>1, <2>3, ListedStill DEF L
  <2>6. p + 1 \in 1 .. Len(List) /\ List[p + 1] = PairAt(entries, x)
    <3>1. Numbered(entries, n)
      BY <1>1, <1>3, ListedOrder
    <3>2. x < n
      BY <1>1, <2>3
    <3> QED
      BY <1>1, <2>3, <2>5, <3>1, <3>2 DEF Numbered, L
  <2>7. Len(L[x + 1]) = p + 1
    <3>1. /\ L[x + 1] = Append(L[x], PairAt(entries, x)) /\ PairAt(entries, x) \in Pair
      BY <1>1, <2>3, EntriesFacts DEF L
    <3>2. L[x] \in Seq(Pair)
      BY <1>1, <2>3, ListedTypes DEF L
    <3> QED
      BY <2>5, <3>1, <3>2, AppendProperties
  <2>8. p < Len(List) /\ g - 1 = x
    BY <1>1, <1>4, <2>3, <2>4, <2>6
  <2> QED
    BY <1>4, <2>4, <2>6, <2>7, <2>8 DEF g, n, L
<1> QED
  BY <1>5, <1>6

(* Where an iterator stands.                                               *)
LEMMA StandFacts ==
  ASSUME IInv, iter # NoIter
  PROVE  /\ DOMAIN iter = {"current", "modCount"} /\ iter.current \in Nat
         /\ \/ iter.modCount # modCount /\ Stand = -2
            \/ /\ iter.modCount = modCount /\ iter.current \in 0 .. fullCount
               /\ Stand = Len(Listed(entries)[iter.current]) /\ Stand \in Nat
<1>1. /\ DOMAIN iter = {"current", "modCount"}
      /\ iter.current \in Nat /\ iter.modCount \in 0 .. modCount
      /\ iter.modCount = modCount => iter.current <= fullCount
  BY DEF IInv, IterSound
<1>2. CASE iter.modCount # modCount
  BY <1>1, <1>2 DEF Stand
<1>3. CASE iter.modCount = modCount
  <2>1. fullCount \in Nat
    BY TableFacts
  <2>2. iter.current \in 0 .. fullCount
    BY <1>1, <1>3, <2>1
  <2>3. Stand = Len(Listed(entries)[iter.current])
    BY <1>3 DEF Stand
  <2>4. Stand \in Nat
    BY <2>2, <2>3, GetNextFacts
  <2> QED
    BY <1>1, <1>3, <2>2, <2>3, <2>4
<1> QED
  BY <1>2, <1>3

(* The iterator moves on by one entry of the list.                         *)
LEMMA IterStep ==
  ASSUME IInv, iter # NoIter, iter.modCount = modCount, NEW g, g = GetNext(iter.current), g >= 0,
         iter' = [iter EXCEPT !.current = g], UNCHANGED table
  PROVE  /\ IInv' /\ List' = List
         /\ Stand \in 0 .. Len(List) - 1 /\ List[Stand + 1] = PairAt(entries, g - 1)
         /\ Stand' = Stand + 1
<1>1. UNCHANGED <<chains, entries, liveCount, modCount>>
  BY DEF table
<1>2. UNCHANGED <<indexSize, fullCount, dataSize, List>>
  BY <1>1 DEF indexSize, fullCount, dataSize, List
<1>3. /\ DOMAIN iter = {"current", "modCount"} /\ iter.current \in 0 .. fullCount
      /\ Stand = Len(Listed(entries)[iter.current]) /\ Stand \in Nat
  BY StandFacts
<1>4. /\ g \in 1 .. fullCount /\ Stand < Len(List)
      /\ List[Stand + 1] = PairAt(entries, g - 1)
      /\ Len(Listed(entries)[g]) = Stand + 1
  <2>1. g # -1
    OBVIOUS
  <2> QED
    BY <1>3, <2>1, GetNextFacts
<1>5. /\ DOMAIN iter' = {"current", "modCount"} /\ iter'.current = g
      /\ iter'.modCount = modCount /\ iter' # NoIter
  <2>1. /\ DOMAIN iter' = {"current", "modCount"} /\ iter'.current = g
        /\ iter'.modCount = modCount
    BY <1>3
  <2>2. g # -1 /\ NoIter.current = -1
    BY DEF NoIter
  <2> QED
    BY <2>1, <2>2
<1>6. fullCount \in Nat /\ Len(List) \in Nat /\ modCount \in Nat
  BY TableFacts DEF IInv
<1>7. IterSound'
  <2>1. /\ iter'.current \in Nat /\ iter'.modCount \in 0 .. modCount'
        /\ iter'.current <= fullCount'
    BY <1>1, <1>2, <1>4, <1>5, <1>6
  <2> QED
    BY <1>5, <2>1 DEF IterSound
<1>8. Stand' = Stand + 1
  <2>1. Stand' = Len(Listed(entries')[iter'.current])
    BY <1>1, <1>5 DEF Stand, NoIter
  <2> QED
    BY <1>1, <1>4, <1>5, <2>1
<1>9. IInv'
  <2>1. /\ Sound(indexSize, fullCount, chains, entries)'
        /\ liveCount' = Cardinality(Live(entries'))
        /\ modCount' \in 0 .. MaxMod
    BY <1>1, <1>2 DEF IInv
  <2>2. fullCount' <= dataSize'
    BY <1>2 DEF IInv
  <2> QED
    BY <1>7, <2>1, <2>2 DEF IInv
<1>10. Stand \in 0 .. Len(List) - 1
  BY <1>3, <1>4, <1>6
<1> QED
  BY <1>2, <1>4, <1>8, <1>9, <1>10

(* An iterator stands before the first entry.                              *)
LEMMA IteratorStep ==
  ASSUME IInv, iter' = [current |-> 0, modCount |-> modCount], UNCHANGED table
  PROVE  IInv' /\ List' = List /\ Stand' = 0
<1>1. UNCHANGED <<chains, entries, liveCount, modCount>>
  BY DEF table
<1>2. UNCHANGED <<indexSize, fullCount, dataSize, List>>
  BY <1>1 DEF indexSize, fullCount, dataSize, List
<1>3. /\ fullCount \in Nat /\ modCount \in Nat /\ Entries(fullCount, entries)
  BY TableFacts DEF IInv
<1>4. /\ DOMAIN iter' = {"current", "modCount"} /\ iter'.current = 0
      /\ iter'.modCount = modCount /\ iter' # NoIter
  BY DEF NoIter
<1>5. IterSound'
  <2>1. /\ iter'.current \in Nat /\ iter'.modCount \in 0 .. modCount'
        /\ iter'.current <= fullCount'
    BY <1>1, <1>2, <1>3, <1>4
  <2> QED
    BY <1>4, <2>1 DEF IterSound
<1>6. Stand' = 0
  <2>1. Stand' = Len(Listed(entries')[0])
    BY <1>1, <1>4 DEF Stand, NoIter
  <2>2. Listed(entries)[0] = <<>>
    BY <1>3, EntriesFacts
  <2> QED
    BY <1>1, <2>1, <2>2
<1>7. IInv'
  <2>1. /\ Sound(indexSize, fullCount, chains, entries)'
        /\ liveCount' = Cardinality(Live(entries'))
        /\ modCount' \in 0 .. MaxMod
    BY <1>1, <1>2 DEF IInv
  <2>2. fullCount' <= dataSize'
    BY <1>2 DEF IInv
  <2> QED
    BY <1>5, <2>1, <2>2 DEF IInv
<1> QED
  BY <1>2, <1>6, <1>7

(* The allocation of the new arrays fails: iterators go stale all the same. *)
LEMMA FailsStep ==
  ASSUME IInv, Modify, UNCHANGED <<chains, entries, liveCount, iter>>
  PROVE  IInv' /\ List' = List /\ Stale
<1>1. UNCHANGED <<indexSize, fullCount, dataSize, List>>
  BY DEF indexSize, fullCount, dataSize, List
<1>2. modCount' \in 0 .. MaxMod /\ IterSound' /\ Stale
  BY GoesStale
<1>3. Sound(indexSize, fullCount, chains, entries)' /\ liveCount' = Cardinality(Live(entries'))
  BY <1>1 DEF IInv
<1>4. fullCount' <= dataSize'
  BY <1>1 DEF IInv
<1> QED
  BY <1>1, <1>2, <1>3, <1>4 DEF IInv

-----------------------------------------------------------------------------
(* Each operation keeps the invariant and is one of the ordered map.       *)
Seen == <<List, Stand, got>>

LEMMA SetOperation ==
  ASSUME IInv, NEW k \in Key, NEW v \in Value, SetEntry(k, v)
  PROVE  IInv' /\ [OM!Next]_Seen
<1> DEFINE i == Lookup(k)
           full == fullCount = dataSize
           old == [chains |-> chains, entries |-> entries]
           t == IF full THEN Rehash(NewSize) ELSE old
           new == Insert(t.chains, t.entries, k, v)
<1>0. /\ fullCount \in Nat /\ IsFiniteSet(0 .. fullCount - 1)
      /\ (Lookup(k) = -1 \/ (Lookup(k) \in Live(entries) /\ Lookup(k) \in 0 .. fullCount - 1
                             /\ entries[Lookup(k)].key = k))
  BY TableFacts, LookupList, Count
<1>1. CASE i >= 0
  <2>1. /\ entries' = [entries EXCEPT ![i].value = v] /\ got' = Missing
        /\ UNCHANGED <<chains, liveCount, modCount, iter, undefined>>
    BY <1>1 DEF SetEntry
  <2>2. i \in Live(entries) /\ entries[i].key = k
    BY <1>0, <1>1
  <2> DEFINE p == Len(Listed(entries)[i]) + 1
  <2> HIDE DEF i
  <2>3. /\ IInv' /\ p \in DOMAIN List /\ List[p].key = k
        /\ List' = Over(List, p, v) /\ Stand' = Stand
    <3>1. entries' = Over(entries, i, v)
      BY <2>1 DEF Over
    <3> QED
      BY <2>1, <2>2, <3>1, OverStep
  <2> HIDE DEF p
  <2>4. OM!PutOver(k, v)
    BY <2>1, <2>3 DEF OM!PutOver, OM!Position, Over
  <2> QED
    BY <2>3, <2>4 DEF OM!Next
<1>2. CASE ~(i >= 0) /\ full /\ NewSize = indexSize
  <2>1. RehashInPlace
    BY <1>2 DEF SetEntry
  <2>2. UNCHANGED <<table, iter, got>>
    BY <2>1 DEF RehashInPlace, table
  <2> QED
    BY <2>2, Kept DEF Seen
<1>3. CASE ~(i >= 0) /\ ~(full /\ NewSize = indexSize)
  <2>1. /\ Fits /\ Modify
        /\ chains' = new.chains /\ entries' = new.entries
        /\ liveCount' = liveCount + 1 /\ got' = Missing /\ iter' = iter
    BY <1>3 DEF SetEntry
  <2>2. Lookup(k) = -1
    BY <1>0, <1>3
  <2>3. ~(fullCount = dataSize /\ NewSize = indexSize)
    BY <1>3
  <2>4. t = IF fullCount = dataSize THEN Rehash(NewSize)
            ELSE [chains |-> chains, entries |-> entries]
    OBVIOUS
  <2>5. new = Insert(t.chains, t.entries, k, v)
    OBVIOUS
  <2> HIDE DEF t, new, i, full
  <2>6. /\ IInv' /\ \A p \in DOMAIN List : List[p].key # k
        /\ List' = Append(List, [key |-> k, value |-> v]) /\ Stale
    BY <2>1, <2>2, <2>3, <2>4, <2>5, NewStep
  <2>7. OM!PutNew(k, v)
    BY <2>1, <2>6 DEF OM!PutNew, OM!Position, OM!Invalidate, OM!NoIter, OM!Stale, Stale
  <2> QED
    BY <2>6, <2>7 DEF OM!Next
<1> QED
  BY <1>1, <1>2, <1>3

LEMMA SetFailsOperation ==
  ASSUME IInv, NEW k \in Key, SetFails(k)
  PROVE  IInv' /\ [OM!Next]_Seen
<1>1. Modify /\ got' = Missing /\ UNCHANGED <<chains, entries, liveCount, iter>>
  BY DEF SetFails
<1>2. IInv' /\ List' = List /\ Stale
  BY <1>1, FailsStep
<1>3. OM!PutFails
  BY <1>1, <1>2 DEF OM!PutFails, OM!Invalidate, OM!NoIter, OM!Stale, Stale
<1> QED
  BY <1>2, <1>3 DEF OM!Next

LEMMA DeleteOperation ==
  ASSUME IInv, NEW k \in Key, DeleteEntry(k)
  PROVE  IInv' /\ [OM!Next]_Seen
<1> DEFINE i == Lookup(k)
<1>0. fullCount \in Nat
  BY TableFacts
<1>1. CASE i < 0
  <2>1. got' = Missing /\ UNCHANGED <<table, iter>>
    BY <1>1 DEF DeleteEntry, table
  <2>2. IInv' /\ List' = List /\ Stand' = Stand
    BY <2>1, Kept
  <2>3. \A p \in DOMAIN List : List[p].key # k
    <3>1. i \notin 0 .. fullCount - 1
      BY <1>0, <1>1
    <3> QED
      BY <3>1, LookupList
  <2>4. OM!Position(k) = {}
    BY <2>3 DEF OM!Position
  <2>5. OM!Remove(k)
    BY <2>1, <2>2, <2>4 DEF OM!Remove
  <2> QED
    BY <2>2, <2>5 DEF OM!Next
<1>2. CASE ~(i < 0)
  <2>1. /\ Modify /\ entries' = [entries EXCEPT ![i].key = Missing]
        /\ liveCount' = liveCount - 1 /\ got' = Missing /\ UNCHANGED <<chains, iter>>
    BY <1>2 DEF DeleteEntry
  <2>2. i \in Live(entries) /\ entries[i].key = k
    <3>1. i # -1
      BY <1>2
    <3> QED
      BY <3>1, LookupList
  <2> DEFINE p == Len(Listed(entries)[i]) + 1
  <2> HIDE DEF i
  <2>3. /\ IInv' /\ p \in DOMAIN List /\ List[p].key = k
        /\ List' = [q \in 1 .. Len(List) - 1 |-> List[IF q < p THEN q ELSE q + 1]]
        /\ Stale
    <3>1. entries' = Deleted(entries, i)
      BY <2>1 DEF Deleted
    <3> QED
      BY <2>1, <2>2, <3>1, RemoveStep
  <2> HIDE DEF p
  <2>4. p \in OM!Position(k) /\ List' = OM!Without(p)
    BY <2>3 DEF OM!Position, OM!Without
  <2>5. OM!Remove(k)
    <3>1. OM!Position(k) # {} /\ \E x \in OM!Position(k) : List' = OM!Without(x)
      BY <2>4
    <3>2. OM!Invalidate
      BY <2>3 DEF OM!Invalidate, OM!NoIter, OM!Stale, Stale
    <3> QED
      BY <2>1, <3>1, <3>2 DEF OM!Remove
  <2> QED
    BY <2>3, <2>5 DEF OM!Next
<1> QED
  BY <1>1, <1>2

LEMMA GetOperation ==
  ASSUME IInv, NEW k \in Key, Get(k)
  PROVE  IInv' /\ [OM!Next]_Seen
<1> DEFINE i == Lookup(k)
<1>1. /\ got' = IF i < 0 THEN Missing ELSE entries[i].value
      /\ UNCHANGED <<table, iter>>
  BY DEF Get
<1>2. IInv' /\ List' = List /\ Stand' = Stand
  BY <1>1, Kept
<1>3. CASE i = -1
  <2>1. got' = Missing
    BY <1>1, <1>3
  <2>2. \A p \in DOMAIN List : List[p].key # k
    <3>1. fullCount \in Nat /\ i \notin 0 .. fullCount - 1
      BY <1>3, TableFacts
    <3> QED
      BY <3>1, LookupList
  <2>3. OM!Position(k) = {}
    BY <2>2 DEF OM!Position
  <2> QED
    BY <1>2, <2>1, <2>3 DEF OM!Get, OM!Next
<1>4. CASE i # -1
  <2> DEFINE p == Len(Listed(entries)[i]) + 1
  <2>1. /\ i \in 0 .. fullCount - 1 /\ entries[i].key = k
        /\ p \in DOMAIN List /\ List[p] = PairAt(entries, i)
    BY <1>4, LookupList
  <2>2. fullCount \in Nat
    BY TableFacts
  <2>3. got' = entries[i].value
    BY <1>1, <2>1, <2>2
  <2> HIDE DEF i, p
  <2>4. List[p].key = k /\ List[p].value = got'
    BY <2>1, <2>3 DEF PairAt
  <2>5. p \in OM!Position(k)
    BY <2>1, <2>4 DEF OM!Position
  <2> QED
    BY <1>2, <2>4, <2>5 DEF OM!Get, OM!Next
<1> QED
  BY <1>3, <1>4

LEMMA IteratorOperation ==
  ASSUME IInv, Iterator
  PROVE  IInv' /\ [OM!Next]_Seen
<1>1. IInv' /\ List' = List /\ Stand' = 0
  BY IteratorStep DEF Iterator
<1> QED
  BY <1>1 DEF Iterator, OM!Iterator, OM!Next

LEMMA HasNextOperation ==
  ASSUME IInv, HasNext
  PROVE  IInv' /\ [OM!Next]_Seen
<1> DEFINE b == GetNext(iter.current) >= 0
<1>1. iter # NoIter /\ got' = [more |-> b] /\ UNCHANGED <<table, iter>>
  BY DEF HasNext
<1>2. IInv' /\ List' = List /\ Stand' = Stand
  BY <1>1, Kept
<1>3. Stand # -1 /\ (Stand # -2 => /\ iter.current \in 0 .. fullCount
                                   /\ Stand = Len(Listed(entries)[iter.current]))
  BY <1>1, StandFacts
<1>4. ASSUME Stand # -2 PROVE b = (Stand < Len(List))
  <2>1. \/ GetNext(iter.current) = -1 /\ Stand = Len(List)
        \/ GetNext(iter.current) \in 1 .. fullCount /\ Stand < Len(List)
    BY <1>3, <1>4, GetNextFacts
  <2>2. Len(List) \in Nat /\ fullCount \in Nat
    BY TableFacts
  <2> QED
    BY <2>1, <2>2
<1>5. b \in BOOLEAN
  OBVIOUS
<1> HIDE DEF b
<1>6. OM!HasNext
  BY <1>1, <1>2, <1>3, <1>4, <1>5 DEF OM!HasNext, OM!NoIter, OM!Stale
<1> QED
  BY <1>2, <1>6 DEF OM!Next

LEMMA IterRefusesOperation ==
  ASSUME IInv, IterRefuses
  PROVE  IInv' /\ [OM!Next]_Seen
<1>1. /\ iter # NoIter /\ iter.modCount # modCount /\ got' = Missing
      /\ UNCHANGED <<table, iter>>
  BY DEF IterRefuses
<1>2. IInv' /\ List' = List /\ Stand' = Stand
  BY <1>1, Kept
<1>3. Stand = -2
  BY <1>1 DEF Stand
<1> QED
  BY <1>1, <1>2, <1>3 DEF OM!IterRefuses, OM!Stale, OM!Next

LEMMA IterNextOperation ==
  ASSUME IInv, IterNext
  PROVE  IInv' /\ [OM!Next]_Seen
<1> DEFINE g == GetNext(iter.current)
<1>1. iter # NoIter /\ iter.modCount = modCount /\ UNCHANGED table
  BY DEF IterNext
<1>2. CASE g < 0
  <2>1. UNCHANGED <<table, iter, got>>
    BY <1>2 DEF IterNext
  <2> QED
    BY <2>1, Kept DEF Seen
<1>3. CASE ~(g < 0)
  <2>1. /\ iter' = [iter EXCEPT !.current = g]
        /\ got' \in {[key |-> entries[g - 1].key, value |-> entries[g - 1].value], Missing}
    BY <1>3 DEF IterNext
  <2>2. iter.current \in 0 .. fullCount
    BY <1>1, StandFacts
  <2>3. g >= 0
    <3>1. g = -1 \/ g \in 1 .. fullCount
      BY <2>2, GetNextFacts
    <3>2. fullCount \in Nat
      BY TableFacts
    <3> QED
      BY <1>3, <3>1, <3>2
  <2>4. g = GetNext(iter.current)
    OBVIOUS
  <2> HIDE DEF g
  <2>5. /\ IInv' /\ List' = List
        /\ Stand \in 0 .. Len(List) - 1 /\ List[Stand + 1] = PairAt(entries, g - 1)
        /\ Stand' = Stand + 1
    BY <1>1, <2>1, <2>3, <2>4, IterStep
  <2>6. CASE got' = Missing
    BY <2>5, <2>6 DEF OM!IterNextFails, OM!Next
  <2>7. CASE got' = PairAt(entries, g - 1)
    <3>1. OM!IterNext
      BY <2>5, <2>7 DEF OM!IterNext
    <3> QED
      BY <2>5, <3>1 DEF OM!Next
  <2> QED
    BY <2>1, <2>6, <2>7 DEF PairAt
<1> QED
  BY <1>2, <1>3

-----------------------------------------------------------------------------
(* The theorems.                                                           *)
LEMMA InitSound == Init => IInv
<1> SUFFICES ASSUME Init PROVE IInv
  OBVIOUS
<1>1. chains = <<>> /\ entries = <<>> /\ liveCount = 0 /\ modCount = 0 /\ iter = NoIter
  BY DEF Init
<1>2. DOMAIN <<>> = {} /\ 0 .. 0 - 1 = {}
  BY SMT
<1>3. indexSize = 0 /\ fullCount = 0 /\ dataSize = 0
  <2>1. Cardinality({}) = 0
    BY FS_EmptySet
  <2> QED
    BY <1>1, <1>2, <2>1 DEF indexSize, fullCount, dataSize
<1>4. Live(<<>>) = {} /\ Unique(<<>>)
  BY <1>2 DEF Live, Unique
<1>5. <<>> \in [0 .. 0 - 1 -> Int] /\ <<>> \in [0 .. 0 - 1 -> Entry]
      /\ <<>> \in [0 .. 0 - 1 -> 0 .. 0 - 1]
  <2>1. <<>> \in [{} -> Int] /\ <<>> \in [{} -> Entry] /\ <<>> \in [{} -> {}]
    BY SMT
  <2> QED
    BY <1>2, <2>1
<1>6. Owned(0, 0, <<>>, <<>>, <<>>)
  <2>1. \A i \in 0 .. 0 - 1 : FALSE
    BY <1>2
  <2> QED
    BY <2>1 DEF Owned
<1>7. Sound(0, 0, <<>>, <<>>)
  BY <1>4, <1>5, <1>6 DEF Sound
<1>8. liveCount = Cardinality(Live(entries))
  BY <1>1, <1>4, FS_EmptySet
<1>9. modCount \in 0 .. MaxMod
  BY <1>1, ValueTableAssumption
<1>10. Sound(indexSize, fullCount, chains, entries) /\ fullCount <= dataSize
  BY <1>1, <1>3, <1>7
<1> QED
  BY <1>1, <1>8, <1>9, <1>10 DEF IInv, IterSound

LEMMA StepSound == ASSUME IInv, [Next]_vars PROVE IInv' /\ [OM!Next]_Seen
<1>1. ASSUME NEW k \in Key, NEW v \in Value, SetEntry(k, v) PROVE IInv' /\ [OM!Next]_Seen
  BY <1>1, SetOperation
<1>2. ASSUME NEW k \in Key, SetFails(k) PROVE IInv' /\ [OM!Next]_Seen
  BY <1>2, SetFailsOperation
<1>3. ASSUME NEW k \in Key, DeleteEntry(k) PROVE IInv' /\ [OM!Next]_Seen
  BY <1>3, DeleteOperation
<1>4. ASSUME NEW k \in Key, Get(k) PROVE IInv' /\ [OM!Next]_Seen
  BY <1>4, GetOperation
<1>5. CASE UNCHANGED vars
  <2>1. UNCHANGED <<table, iter, got>>
    BY <1>5 DEF vars, table
  <2> QED
    BY <2>1, Kept DEF Seen
<1> QED
  BY <1>1, <1>2, <1>3, <1>4, <1>5, IteratorOperation, HasNextOperation, IterRefusesOperation,
     IterNextOperation DEF Next

LEMMA IInvHolds == Spec => []IInv
<1>1. IInv /\ [Next]_vars => IInv'
  BY StepSound
<1> QED
  BY <1>1, InitSound, PTL DEF Spec

(* The arrays are never written past their end, no key is in the table     *)
(* twice, and liveCount counts the keys, whatever was put, deleted and     *)
(* rehashed.                                                               *)
THEOREM ValueTableTypes == Spec => []TypeOK
<1>1. IInv => TypeOK
  <2> SUFFICES ASSUME IInv PROVE TypeOK
    OBVIOUS
  <2>1. Sound(indexSize, fullCount, chains, entries)
    BY DEF IInv
  <2>2. /\ DOMAIN chains = 0 .. indexSize - 1 /\ DOMAIN entries = 0 .. fullCount - 1
        /\ fullCount \in Nat /\ Unique(entries) /\ entries \in [0 .. fullCount - 1 -> Entry]
        /\ Live(entries) \subseteq 0 .. fullCount - 1
    BY TableFacts DEF Entries
  <2>3. \A i \in 0 .. fullCount - 1 : entries[i].next \in -1 .. i - 1
    BY <2>1, SoundFacts
  <2>4. \A b \in 0 .. indexSize - 1 : chains[b] \in -1 .. fullCount - 1
    BY <2>1, <2>2 DEF Sound, Owned
  <2>5. \A i \in 0 .. fullCount - 1 : /\ entries[i].key \in Key \cup {Missing}
                                      /\ entries[i].value \in Value
    BY <2>2 DEF Entry
  <2>6. \A i \in Live(entries), j \in DOMAIN entries : entries[i].key = entries[j].key => i = j
    <3> SUFFICES ASSUME NEW i \in Live(entries), NEW j \in DOMAIN entries,
                        entries[i].key = entries[j].key
                 PROVE  i = j
      OBVIOUS
    <3>1. j \in Live(entries)
      BY DEF Live
    <3> QED
      BY <2>2, <3>1 DEF Unique
  <2>7. /\ fullCount <= dataSize /\ modCount \in 0 .. MaxMod
        /\ liveCount = Cardinality(Live(entries))
    BY DEF IInv
  <2> QED
    BY <2>2, <2>3, <2>4, <2>5, <2>6, <2>7 DEF TypeOK
<1> QED
  BY <1>1, IInvHolds, PTL

(* Every entry stays on exactly one chain, a live one where lookup         *)
(* searches it: an entry that a deletion or a rehash lost or linked twice  *)
(* would be found no more, or for ever.                                    *)
THEOREM ChainsPartition == Spec => []ChainsExact
<1>1. IInv => ChainsExact
  BY OnOneChain
<1> QED
  BY <1>1, IInvHolds, PTL

(* The table with its iterator is the ordered map a program is promised:   *)
(* the entries stay in the order they were put through every rehash, and   *)
(* an iterator returns each of them once, or refuses.                      *)
THEOREM MapRefinement == Spec => ImplementsOrderedMap
<1>1. Init => OM!Init
  <2> SUFFICES ASSUME Init PROVE OM!Init
    OBVIOUS
  <2>1. IInv
    BY InitSound
  <2>2. fullCount = 0
    BY FS_EmptySet DEF fullCount, Init
  <2>3. List = <<>>
    BY <2>1, <2>2, TableFacts, EntriesFacts DEF List
  <2>4. Stand = -1
    BY DEF Init, Stand
  <2> QED
    BY <2>3, <2>4 DEF Init, OM!Init, OM!NoIter
<1>2. IInv /\ [Next]_vars => [OM!Next]_Seen
  BY StepSound
<1> QED
  BY <1>1, <1>2, IInvHolds, PTL DEF Spec, ImplementsOrderedMap, OM!Spec, OM!vars, Seen
=============================================================================
