------------------------- MODULE StringInternProofs -------------------------
(***************************************************************************)
(* Interning gives one live object per content, for every set of contents  *)
(* and addresses, every hash, and collections between any two steps:       *)
(* theorems of StringIntern.tla, from the lemmas of HashTableProofs.  They *)
(* speak of the behaviors in which tableRemoveWhite leaves no stale entry. *)
(***************************************************************************)
EXTENDS StringIntern, HashTableProofs

(* Interned strings have no value in the table.                            *)
Nil == {NULL}

(* The array is in order for the hashes that its strings have cached.      *)
InOrder(e, x, n) ==
  /\ Good(CapacityOf(e))
  /\ Sound(CapacityOf(e), Addr, Nil, x, e)
  /\ n = Cardinality(Occupied(e)) /\ n < CapacityOf(e)

KeysOf(e) == {e[i].key : i \in Occupied(e)}

Typed ==
  /\ heap \subseteq Addr /\ text \in [Addr -> Text] /\ held \subseteq Addr \X Text
  /\ pc \in {"idle", "object", "insert", "grow"}
  /\ want \in Text \cup {NULL} /\ temp \in Addr \cup {NULL}

Tabled == (entries = NoEntries /\ count = 0) \/ InOrder(entries, HashAt, count)

(* No two strings of the table have the same content.                      *)
Distinct == \A o, p \in KeysOf(entries) : text[o] = text[p] => o = p

(* What the program holds is live, intact and in the table.                *)
HeldKept == \A g \in held : g[1] \in heap /\ text[g[1]] = g[2] /\ g[1] \in KeysOf(entries)

(* The content that is being interned has not come into the table since    *)
(* it was looked up; the new object is protected until it is inserted.     *)
Pending ==
  /\ pc # "idle" => want \in Text /\ \A o \in KeysOf(entries) : text[o] # want
  /\ pc \in {"insert", "grow"} => temp \in heap /\ text[temp] = want

IInv == Typed /\ Tabled /\ Distinct /\ HeldKept /\ Pending

-----------------------------------------------------------------------------
(* Arrays of strings.                                                      *)
LEMMA HashesStrings ==
  ASSUME NEW b \in [Addr -> Text]
  PROVE  Hashes(Addr, [o \in Addr |-> HashOf[b[o]]])
  BY InternAssumption DEF Hashes

LEMMA NothingStored ==
  /\ DOMAIN NoEntries = {} /\ CapacityOf(NoEntries) = 0
  /\ Occupied(NoEntries) = {} /\ KeysOf(NoEntries) = {}
<1>1. DOMAIN NoEntries = {}
  BY DEF NoEntries
<1>2. CapacityOf(NoEntries) = 0
  BY <1>1, FS_EmptySet DEF CapacityOf
<1> QED
  BY <1>1, <1>2 DEF Occupied, KeysOf

LEMMA InOrderFacts ==
  ASSUME NEW e, NEW x, NEW n, InOrder(e, x, n)
  PROVE  /\ Good(CapacityOf(e)) /\ Sound(CapacityOf(e), Addr, Nil, x, e)
         /\ CapacityOf(e) \in Nat \ {0} /\ DOMAIN e = 0 .. CapacityOf(e) - 1
         /\ HasEmpty(CapacityOf(e), e)
         /\ n \in Nat /\ IsFiniteSet(Occupied(e)) /\ n = Cardinality(Occupied(e))
         /\ n < CapacityOf(e) /\ KeysOf(e) \subseteq Addr
<1>1. /\ Good(CapacityOf(e)) /\ Sound(CapacityOf(e), Addr, Nil, x, e)
      /\ n = Cardinality(Occupied(e)) /\ n < CapacityOf(e)
  BY DEF InOrder
<1>2. e \in Array(CapacityOf(e), Addr, Nil) /\ NULL \notin Addr
  BY <1>1, InternAssumption DEF Sound
<1>3. KeysOf(e) \subseteq Addr /\ DOMAIN e = 0 .. CapacityOf(e) - 1
  <2>1. DOMAIN e = 0 .. CapacityOf(e) - 1 /\ \A i \in Occupied(e) : e[i].key \in Addr
    BY <1>1, <1>2, ArrayType
  <2> QED
    BY <2>1 DEF KeysOf
<1>4. /\ IsFiniteSet(Occupied(e)) /\ Cardinality(Occupied(e)) \in Nat
      /\ Cardinality(Occupied(e)) < CapacityOf(e) => HasEmpty(CapacityOf(e), e)
  BY <1>1, <1>2, RoomLeft
<1>5. CapacityOf(e) \in Nat \ {0}
  BY <1>1 DEF Good
<1>6. HasEmpty(CapacityOf(e), e)
  BY <1>1, <1>4
<1> QED
  BY <1>1, <1>3, <1>4, <1>5, <1>6

(* Content and KeysOf say the same of arrays without values.               *)
LEMMA ContentKeys ==
  ASSUME NEW e, NEW o
  PROVE  /\ o \in KeysOf(e) <=> \E r \in Content(e) : r.key = o
         /\ o \notin KeysOf(e) <=> Absent(e, o)
  BY DEF KeysOf, Content, Absent

(* An array is in order as far as the hashes of its own keys go.           *)
LEMMA HashElsewhere ==
  ASSUME NEW e, NEW x, NEW y, NEW n, InOrder(e, x, n),
         \A o \in KeysOf(e) : y[o] = x[o]
  PROVE  InOrder(e, y, n)
<1> DEFINE c == CapacityOf(e)
<1>1. Sound(c, Addr, Nil, x, e) /\ Good(c) /\ n = Cardinality(Occupied(e)) /\ n < c
  BY DEF InOrder
<1>2. \A i \in Occupied(e) : Home(c, y, e, i) = Home(c, x, e, i)
  BY DEF Home, KeysOf
<1> HIDE DEF c
<1>3. Placed(c, y, e, Occupied(e))
  BY <1>1, <1>2 DEF Placed, Sound
<1>4. Sound(c, Addr, Nil, y, e)
  BY <1>1, <1>3 DEF Sound
<1> QED
  BY <1>1, <1>4 DEF InOrder, c

(* tableFindString: the probe by content stops at the string with that     *)
(* content, if the table has one.                                          *)
CachedHash(b) == [o \in Addr |-> HashOf[b[o]]]
With(b, t) == {o \in Addr : b[o] = t}
DistinctIn(b, e) == \A o, p \in KeysOf(e) : b[o] = b[p] => o = p

LEMMA ProbeContent ==
  ASSUME NEW b \in [Addr -> Text], NEW e, NEW n, InOrder(e, CachedHash(b), n),
         DistinctIn(b, e), NEW t \in Text,
         NEW f, f = e[ProbeStop(e, HashOf[t], With(b, t))].key
  PROVE  /\ \A o \in KeysOf(e) : b[o] = t => f = o
         /\ (\A o \in KeysOf(e) : b[o] # t) => f = NULL
<1> DEFINE c == CapacityOf(e)
           s == IndexFor(HashOf[t], c)
           x == CachedHash(b)
           wanted == With(b, t)
<1>1. /\ Good(c) /\ Sound(c, Addr, Nil, x, e) /\ DOMAIN e = 0 .. c - 1
      /\ HasEmpty(c, e) /\ KeysOf(e) \subseteq Addr /\ c \in Nat \ {0}
  BY InOrderFacts
<1>2. HashOf[t] \in 0 .. HashRange - 1
  BY InternAssumption
<1> HIDE DEF c, wanted, x
<1>3. s \in 0 .. c - 1
  BY <1>1, <1>2, IndexRange
<1>4. \A i \in 0 .. c - 1 : e[i].key \in wanted <=> i \in Occupied(e) /\ b[e[i].key] = t
  BY <1>1, InternAssumption DEF Occupied, KeysOf, With, wanted
<1>5. ASSUME NEW o \in KeysOf(e), b[o] = t PROVE f = o
  <2>1. PICK i \in Occupied(e) : e[i].key = o
    BY DEF KeysOf
  <2>2. i \in 0 .. c - 1 /\ o \in wanted /\ o \in Addr
    BY <1>1, <1>5, <2>1 DEF Occupied, With, wanted
  <2>3. Home(c, x, e, i) = s
    BY <1>5, <2>1, <2>2 DEF Home, CachedHash, x
  <2>4. \A j \in 0 .. c - 1 : Distance(c, s, j) < Distance(c, s, i) => e[j].key # NULL
    BY <1>1, <2>1, <2>3 DEF Sound, Placed
  <2>5. \A j \in 0 .. c - 1 : e[j].key \in wanted => j = i
    <3> SUFFICES ASSUME NEW j \in 0 .. c - 1, e[j].key \in wanted PROVE j = i
      OBVIOUS
    <3>1. j \in Occupied(e) /\ b[e[j].key] = t
      BY <1>4
    <3>2. e[j].key = o
      BY <1>5, <3>1 DEF KeysOf, DistinctIn
    <3> QED
      BY <1>1, <2>1, <3>1, <3>2 DEF Sound, Unique
  <2>6. Distance(c, s, i) \in 0 .. c - 1
    BY <1>1, <1>3, <2>2, Ring
  <2>7. \A j \in 0 .. c - 1 : Distance(c, s, j) < Distance(c, s, i)
                                => e[j].key # NULL /\ e[j].key \notin wanted
    BY <2>4, <2>5, <2>6
  <2>8. Good(c) /\ DOMAIN e = 0 .. c - 1 /\ e[i].key \in wanted
    BY <1>1, <2>1, <2>2
  <2>9. ProbeStop(e, HashOf[t], wanted) = i
    BY <1>2, <2>2, <2>7, <2>8, ProbeFinds
  <2> QED
    BY <2>1, <2>9 DEF wanted
<1>6. ASSUME \A o \in KeysOf(e) : b[o] # t PROVE f = NULL
  <2> DEFINE T == {i \in 0 .. c - 1 : e[i].key = NULL}
  <2>1. T # {} /\ T \in SUBSET (0 .. c - 1)
    BY <1>1 DEF HasEmpty
  <2>2. PICK i \in T : \A j \in 0 .. c - 1 :
                          Distance(c, s, j) < Distance(c, s, i) => j \notin T
    <3>1. c \in Nat \ {0}
      BY <1>1
    <3> HIDE DEF s, T
    <3> QED  BY <3>1, <1>3, <2>1, Nearest
  <2>3. \A j \in 0 .. c - 1 : e[j].key \notin wanted
    BY <1>4, <1>6 DEF KeysOf
  <2>4. i \in 0 .. c - 1 /\ e[i].key = NULL
    OBVIOUS
  <2>5. \A j \in 0 .. c - 1 : Distance(c, s, j) < Distance(c, s, i)
                                => e[j].key # NULL /\ e[j].key \notin wanted
    BY <2>2, <2>3
  <2>6. Good(c) /\ DOMAIN e = 0 .. c - 1
    BY <1>1
  <2>7. ProbeStop(e, HashOf[t], wanted) = i
    BY <1>2, <2>4, <2>5, <2>6, ProbeFinds
  <2> QED
    BY <2>4, <2>7 DEF wanted
<1> QED
  BY <1>5, <1>6

LEMMA Found ==
  ASSUME IInv, NEW t \in Text
  PROVE  /\ \A o \in KeysOf(entries) : text[o] = t => FindString(t) = o
         /\ (\A o \in KeysOf(entries) : text[o] # t) => FindString(t) = NULL
<1>1. CASE entries = NoEntries /\ count = 0
  BY <1>1, NothingStored DEF FindString
<1>2. CASE InOrder(entries, HashAt, count)
  <2>1. text \in [Addr -> Text] /\ HashAt = CachedHash(text) /\ DistinctIn(text, entries)
    BY DEF IInv, Typed, HashAt, CachedHash, Distinct, DistinctIn
  <2> DEFINE f == entries[ProbeStop(entries, HashOf[t], With(text, t))].key
  <2>2. InOrder(entries, CachedHash(text), count)
    BY <1>2, <2>1
  <2>3. /\ \A o \in KeysOf(entries) : text[o] = t => f = o
        /\ (\A o \in KeysOf(entries) : text[o] # t) => f = NULL
    BY <2>1, <2>2, ProbeContent
  <2>4. CASE count = 0
    <3>1. count = Cardinality(Occupied(entries)) /\ IsFiniteSet(Occupied(entries))
      BY <1>2, InOrderFacts
    <3>2. Occupied(entries) = {}
      BY <2>4, <3>1, FS_EmptySet
    <3> QED
      BY <2>4, <3>2 DEF FindString, KeysOf
  <2>5. CASE count # 0
    BY <2>3, <2>5 DEF FindString, With
  <2> QED
    BY <2>4, <2>5
<1> QED
  BY <1>1, <1>2 DEF IInv, Tabled

-----------------------------------------------------------------------------
(* One lemma per action.                                                   *)
LEMMA HashAtIs == HashAt = CachedHash(text)
  BY DEF HashAt, CachedHash

LEMMA LookupHolds ==
  ASSUME IInv, NoStaleEntry, NEW t \in Text, Lookup(t)
  PROVE  IInv'
<1>1. /\ \A o \in KeysOf(entries) : text[o] = t => FindString(t) = o
      /\ (\A o \in KeysOf(entries) : text[o] # t) => FindString(t) = NULL
  BY Found
<1>2. \A o \in KeysOf(entries) : o \in heap
  BY DEF NoStaleEntry, KeysOf
<1>3. Tabled' /\ Distinct'
  BY HashAtIs DEF Lookup, IInv, Tabled, Distinct, tabVars, HashAt
<1>4. heap \subseteq Addr /\ NULL \notin Addr
  BY InternAssumption DEF IInv, Typed
<1>5. CASE FindString(t) # NULL
  <2>1. PICK o \in KeysOf(entries) : text[o] = t
    BY <1>1, <1>5
  <2>2. FindString(t) = o /\ o \in heap /\ o \in Addr
    BY <1>1, <1>2, <1>4, <2>1
  <2>3. /\ held' = held \cup {<<o, t>>}
        /\ UNCHANGED <<heap, text, entries, count, pc, want, temp>>
    BY <1>5, <2>2 DEF Lookup, tabVars
  <2>4. Typed'
    BY <2>2, <2>3 DEF IInv, Typed
  <2>5. HeldKept'
    BY <2>1, <2>2, <2>3 DEF IInv, HeldKept
  <2>6. Pending'
    BY <2>3 DEF IInv, Pending
  <2> QED
    BY <1>3, <2>4, <2>5, <2>6 DEF IInv
<1>6. CASE FindString(t) = NULL
  <2>1. \A o \in KeysOf(entries) : text[o] # t
    BY <1>1, <1>2, <1>4, <1>6
  <2>2. /\ pc' = "object" /\ want' = t
        /\ UNCHANGED <<held, heap, text, entries, count, temp>>
    BY <1>6 DEF Lookup, tabVars
  <2>3. Typed' /\ HeldKept'
    BY <2>2 DEF IInv, Typed, HeldKept
  <2>4. Pending'
    BY <2>1, <2>2 DEF Pending
  <2> QED
    BY <1>3, <2>3, <2>4 DEF IInv
<1> QED
  BY <1>5, <1>6

(* What leaves the objects and the table alone and ends the call.          *)
LEMMA GivesUp ==
  ASSUME IInv, UNCHANGED <<heap, text, held, entries, count>>,
         pc' = "idle", want' = NULL, temp' \in Addr \cup {NULL}
  PROVE  IInv'
<1>1. Typed' /\ HeldKept' /\ Distinct' /\ Pending'
  BY DEF IInv, Typed, HeldKept, Distinct, Pending
<1>2. Tabled'
  BY DEF IInv, Tabled, HashAt
<1> QED
  BY <1>1, <1>2 DEF IInv

LEMMA AllocateFailsHolds ==
  ASSUME IInv, AllocateFails
  PROVE  IInv'
<1>1. temp' \in Addr \cup {NULL}
  BY DEF AllocateFails, IInv, Typed
<1> QED
  BY <1>1, GivesUp DEF AllocateFails, tabVars

LEMMA GrowFailsHolds ==
  ASSUME IInv, GrowFails
  PROVE  IInv'
<1>1. temp' \in Addr \cup {NULL}
  BY DEF GrowFails
<1> QED
  BY <1>1, GivesUp DEF GrowFails, tabVars

(* The new object takes an address that no entry has.                      *)
LEMMA AllocateObjectHolds ==
  ASSUME IInv, NoStaleEntry, AllocateObject
  PROVE  IInv'
<1>1. PICK o \in Addr \ heap :
        heap' = heap \cup {o} /\ text' = [text EXCEPT ![o] = want] /\ temp' = o
  BY DEF AllocateObject
<1>2. pc = "object" /\ pc' = "insert" /\ UNCHANGED <<held, entries, count, want>>
  BY DEF AllocateObject, tabVars
<1>3. want \in Text /\ \A p \in KeysOf(entries) : text[p] # want
  BY <1>2 DEF IInv, Pending
<1>4. \A p \in KeysOf(entries) : p \in heap
  BY DEF NoStaleEntry, KeysOf
<1>5. text \in [Addr -> Text] /\ heap \subseteq Addr
  BY DEF IInv, Typed
<1>6. text'[o] = want /\ \A p \in heap : text'[p] = text[p]
  BY <1>1, <1>5
<1>7. Typed'
  BY <1>1, <1>2, <1>3 DEF IInv, Typed
<1>8. Tabled'
  <2>1. CASE entries = NoEntries /\ count = 0
    BY <1>2, <2>1 DEF Tabled
  <2>2. CASE InOrder(entries, HashAt, count)
    <3>1. \A p \in KeysOf(entries) : HashAt'[p] = HashAt[p]
      BY <1>4, <1>5, <1>6 DEF HashAt
    <3>2. InOrder(entries, HashAt', count)
      BY <2>2, <3>1, HashElsewhere
    <3> QED
      BY <1>2, <3>2 DEF Tabled
  <2> QED
    BY <2>1, <2>2 DEF IInv, Tabled
<1>9. Distinct' /\ HeldKept'
  BY <1>1, <1>2, <1>4, <1>6 DEF IInv, Distinct, HeldKept
<1>10. Pending'
  BY <1>1, <1>2, <1>3, <1>4, <1>6 DEF Pending
<1> QED
  BY <1>7, <1>8, <1>9, <1>10 DEF IInv

(* InsertNew for strings.                                                  *)
LEMMA StringInserted ==
  ASSUME NEW c, Good(c), NEW x, Hashes(Addr, x),
         NEW e, Sound(c, Addr, Nil, x, e), HasEmpty(c, e),
         NEW k \in Addr, NEW v \in Nil, Absent(e, k), NEW new, new = Insert(e, x, k, v)
  PROVE  /\ Sound(c, Addr, Nil, x, new)
         /\ \E f \in 0 .. c - 1 : f \notin Occupied(e) /\ Occupied(new) = Occupied(e) \cup {f}
         /\ \A o : o \in KeysOf(new) <=> (o \in KeysOf(e) \/ o = k)
<1> DEFINE added == [key |-> k, value |-> v]
<1>2. added.key = k
  OBVIOUS
<1>3. /\ Sound(c, Addr, Nil, x, new)
      /\ Content(new) = Content(e) \cup {added}
      /\ \E f \in 0 .. c - 1 : f \notin Occupied(e) /\ Occupied(new) = Occupied(e) \cup {f}
  BY InsertNew
<1> HIDE DEF added
<1>4. ASSUME NEW o PROVE o \in KeysOf(new) <=> (o \in KeysOf(e) \/ o = k)
  <2>1. o \in KeysOf(new) <=> \E r \in Content(new) : r.key = o
    BY ContentKeys
  <2>2. o \in KeysOf(e) <=> \E r \in Content(e) : r.key = o
    BY ContentKeys
  <2> QED
    BY <1>2, <1>3, <2>1, <2>2
<1> QED
  BY <1>3, <1>4

(* An array that holds the strings of the table and has room takes the new *)
(* one.                                                                    *)
LEMMA InsertIntoHolds ==
  ASSUME IInv, pc \in {"insert", "grow"}, NEW e, NEW n,
         InOrder(e, CachedHash(text), n), KeysOf(e) = KeysOf(entries),
         n + 1 < CapacityOf(e), InsertInto(e, n)
  PROVE  IInv'
<1> DEFINE c == CapacityOf(e)
           x == CachedHash(text)
<1>1. /\ Good(c) /\ Sound(c, Addr, Nil, x, e) /\ HasEmpty(c, e) /\ n \in Nat
      /\ IsFiniteSet(Occupied(e)) /\ n = Cardinality(Occupied(e)) /\ n + 1 < c
      /\ DOMAIN e = 0 .. c - 1
  BY InOrderFacts
<1>2. /\ text \in [Addr -> Text] /\ want \in Text /\ temp \in heap /\ temp \in Addr
      /\ text[temp] = want /\ \A o \in KeysOf(entries) : text[o] # want
  BY DEF IInv, Typed, Pending
<1>3. Hashes(Addr, x)
  BY <1>2, HashesStrings DEF CachedHash
<1>4. temp \notin KeysOf(e) /\ Absent(e, temp)
  BY <1>2, ContentKeys
<1>5. /\ entries' = Insert(e, x, temp, NULL)
      /\ count' = IF e[FindEntry(e, x, temp)].key = NULL THEN n + 1 ELSE n
      /\ held' = held \cup {<<temp, want>>}
      /\ pc' = "idle" /\ want' = NULL /\ temp' = NULL
      /\ UNCHANGED <<heap, text>>
  BY HashAtIs DEF InsertInto
<1> HIDE DEF x, c
<1>6. FirstHole(c, e, x[temp], FindEntry(e, x, temp))
  BY <1>1, <1>2, <1>3, <1>4, FindAbsent
<1>7. count' = n + 1
  BY <1>5, <1>6 DEF FirstHole
<1>8. /\ Sound(c, Addr, Nil, x, entries')
      /\ \E f \in 0 .. c - 1 : f \notin Occupied(e) /\ Occupied(entries') = Occupied(e) \cup {f}
      /\ \A o : o \in KeysOf(entries') <=> (o \in KeysOf(e) \/ o = temp)
  <2>1. NULL \in Nil
    BY DEF Nil
  <2> QED
    BY <1>1, <1>2, <1>3, <1>4, <1>5, <2>1, StringInserted
<1>9. CapacityOf(entries') = c
  BY <1>1, <1>3, <1>8, ArrayType DEF Sound, Hashes
<1>10. Cardinality(Occupied(entries')) = n + 1
  BY <1>1, <1>8, FS_AddElement
<1>11. InOrder(entries', x, count')
  BY <1>1, <1>7, <1>8, <1>9, <1>10 DEF InOrder
<1>12. \A o : o \in KeysOf(entries') <=> (o \in KeysOf(entries) \/ o = temp)
  BY <1>8
<1>13. Tabled'
  BY <1>5, <1>11, HashAtIs DEF Tabled, x, CachedHash, HashAt
<1>14. Distinct'
  BY <1>2, <1>5, <1>12 DEF IInv, Distinct
<1>15. HeldKept'
  BY <1>2, <1>5, <1>12 DEF IInv, HeldKept
<1>16. Typed' /\ Pending'
  BY <1>2, <1>5 DEF IInv, Typed, Pending
<1> QED
  BY <1>13, <1>14, <1>15, <1>16 DEF IInv

LEMMA InsertStringHolds ==
  ASSUME IInv, InsertString
  PROVE  IInv'
<1>1. pc = "insert"
  BY DEF InsertString
<1>2. CASE NeedsGrow(count, CapacityOf(entries))
  <2>1. pc' = "grow" /\ UNCHANGED <<heap, text, held, entries, count, want, temp>>
    BY <1>2 DEF InsertString, tabVars
  <2>2. Typed' /\ HeldKept' /\ Distinct'
    BY <2>1 DEF IInv, Typed, HeldKept, Distinct
  <2>3. Pending'
    BY <1>1, <2>1 DEF IInv, Pending
  <2>4. Tabled'
    BY <2>1 DEF IInv, Tabled, HashAt
  <2> QED
    BY <2>2, <2>3, <2>4 DEF IInv
<1>3. CASE ~NeedsGrow(count, CapacityOf(entries))
  <2>1. InOrder(entries, CachedHash(text), count)
    BY <1>3, NothingStored, HashAtIs DEF IInv, Tabled, NeedsGrow
  <2>2. CapacityOf(entries) \in Nat /\ count \in Nat
    BY <2>1, InOrderFacts
  <2>3. count + 1 < CapacityOf(entries)
    <3>1. count < CapacityOf(entries) /\ ~(4 * (count + 1) > 3 * CapacityOf(entries))
      BY <1>3, <2>1, InOrderFacts DEF NeedsGrow
    <3> QED
      BY <2>2, <3>1
  <2>4. InsertInto(entries, count)
    BY <1>3 DEF InsertString
  <2> QED
    BY <1>1, <2>1, <2>3, <2>4, InsertIntoHolds
<1> QED
  BY <1>2, <1>3

(* The larger array has the strings of the old one.                        *)
LEMMA StringsMoved ==
  ASSUME NEW c, Good(c), NEW d, Good(d), c < d, NEW x, Hashes(Addr, x),
         NEW e, Sound(c, Addr, Nil, x, e), NEW new, new = Rehash(e, x, d)
  PROVE  /\ Sound(d, Addr, Nil, x, new) /\ Content(new) = Content(e)
         /\ Cardinality(Occupied(new)) = Cardinality(Occupied(e))
  BY RehashSound

LEMMA MovedInOrder ==
  ASSUME NEW x, Hashes(Addr, x), NEW e, NEW n, InOrder(e, x, n),
         GrowCapacity(CapacityOf(e)) <= HashRange,
         NEW new, new = Rehash(e, x, GrowCapacity(CapacityOf(e)))
  PROVE  InOrder(new, x, n) /\ KeysOf(new) = KeysOf(e) /\ n + 1 < CapacityOf(new)
<1> DEFINE c == CapacityOf(e)
           d == GrowCapacity(c)
<1>1. /\ Good(c) /\ Sound(c, Addr, Nil, x, e) /\ c \in Nat \ {0}
      /\ n \in Nat /\ n = Cardinality(Occupied(e)) /\ n < c
  BY InOrderFacts
<1>2. Good(d) /\ c < d /\ d \in Nat
  <2>1. CASE c < MinCapacity
    BY <1>1, <2>1, HashAssumption DEF GrowCapacity, Good
  <2>2. CASE ~(c < MinCapacity)
    <3>1. d = 2 * c
      BY <2>2 DEF GrowCapacity
    <3>2. c \in 1 .. HashRange - 1 /\ HashRange % c = 0
      BY <1>1, <3>1, HashAssumption DEF Good
    <3>3. HashRange % (2 * c) = 0
      BY <3>2, HashAssumption
    <3> QED
      BY <1>1, <3>1, <3>3 DEF Good
  <2> QED
    BY <2>1, <2>2
<1>3. new = Rehash(e, x, d)
  OBVIOUS
<1> HIDE DEF c, d
<1>4. /\ Sound(d, Addr, Nil, x, new) /\ Content(new) = Content(e)
      /\ Cardinality(Occupied(new)) = Cardinality(Occupied(e))
  BY <1>1, <1>2, <1>3, StringsMoved
<1>5. CapacityOf(new) = d
  BY <1>2, <1>4, ArrayType DEF Sound, Hashes
<1>6. KeysOf(new) = KeysOf(e)
  <2>1. \A o : o \in KeysOf(new) <=> \E r \in Content(new) : r.key = o
    BY ContentKeys
  <2>2. \A o : o \in KeysOf(e) <=> \E r \in Content(e) : r.key = o
    BY ContentKeys
  <2>3. \A o : o \in KeysOf(new) <=> o \in KeysOf(e)
    BY <1>4, <2>1, <2>2
  <2> QED
    BY <2>3
<1>7. n + 1 < d
  BY <1>1, <1>2
<1>8. n = Cardinality(Occupied(new)) /\ n < d
  BY <1>1, <1>2, <1>4
<1> QED
  BY <1>2, <1>4, <1>5, <1>6, <1>7, <1>8 DEF InOrder

LEMMA FirstArray ==
  ASSUME NEW x, Hashes(Addr, x), NEW e, e = Rehash(NoEntries, x, GrowCapacity(0))
  PROVE  InOrder(e, x, 0) /\ KeysOf(e) = {} /\ 1 < CapacityOf(e)
<1>1. MinCapacity \in Nat /\ MinCapacity >= 2 /\ Good(MinCapacity)
  BY HashAssumption DEF Good
<1>2. GrowCapacity(0) = MinCapacity
  BY <1>1 DEF GrowCapacity
<1>3. e = Blank(MinCapacity)
  BY <1>2, NothingStored, MovedDef DEF Rehash
<1>4. Sound(MinCapacity, Addr, Nil, x, e) /\ Occupied(e) = {}
  BY <1>1, <1>3, BlankSound
<1>5. CapacityOf(e) = MinCapacity
  BY <1>1, <1>4, ArrayType DEF Sound, Hashes
<1>6. KeysOf(e) = {}
  BY <1>4 DEF KeysOf
<1> QED
  BY <1>1, <1>4, <1>5, <1>6, FS_EmptySet DEF InOrder

LEMMA GrowTableHolds ==
  ASSUME IInv, GrowTable
  PROVE  IInv'
<1> DEFINE e == Rehash(entries, CachedHash(text), GrowCapacity(CapacityOf(entries)))
           n == Cardinality(Occupied(entries))
<1>1. pc = "grow" /\ GrowCapacity(CapacityOf(entries)) <= HashRange /\ InsertInto(e, n)
  BY HashAtIs DEF GrowTable
<1>2. Hashes(Addr, CachedHash(text))
  BY HashesStrings DEF IInv, Typed, CachedHash
<1>3. /\ InOrder(e, CachedHash(text), n) /\ KeysOf(e) = KeysOf(entries)
      /\ n + 1 < CapacityOf(e)
  <2>1. CASE entries = NoEntries /\ count = 0
    <3>1. n = 0
      BY <2>1, NothingStored, FS_EmptySet
    <3>2. e = Rehash(NoEntries, CachedHash(text), GrowCapacity(0))
      BY <2>1, NothingStored
    <3>3. KeysOf(entries) = {}
      BY <2>1, NothingStored
    <3> HIDE DEF e, n
    <3> QED
      BY <1>2, <3>1, <3>2, <3>3, FirstArray
  <2>2. CASE InOrder(entries, HashAt, count)
    <3>1. InOrder(entries, CachedHash(text), n)
      BY <2>2, HashAtIs DEF InOrder
    <3>2. e = Rehash(entries, CachedHash(text), GrowCapacity(CapacityOf(entries)))
      OBVIOUS
    <3> HIDE DEF e, n
    <3> QED
      BY <1>1, <1>2, <3>1, <3>2, MovedInOrder
  <2> QED
    BY <2>1, <2>2 DEF IInv, Tabled
<1> HIDE DEF e, n
<1> QED
  BY <1>1, <1>3, InsertIntoHolds

(* The collector keeps what the program holds and the new object, and the  *)
(* table keeps their entries.                                              *)
LEMMA CollectHolds ==
  ASSUME IInv, Collect
  PROVE  IInv'
<1> DEFINE x == CachedHash(text)
           c == CapacityOf(entries)
<1>1. /\ pc \in {"object", "grow"} /\ entries' = RemoveWhite(entries, x, White)
      /\ count' = count - (Cardinality(Occupied(entries)) - Cardinality(Occupied(entries')))
      /\ heap' = heap \ White
      /\ UNCHANGED <<text, held, pc, want, temp>>
  BY HashAtIs DEF Collect
<1>2. NULL \notin White /\ Hashes(Addr, x)
  BY InternAssumption, HashesStrings DEF White, IInv, Typed, CachedHash
<1>3. temp \notin White /\ \A g \in held : g[1] \notin White
  BY DEF White, Rooted
<1> HIDE DEF x
<1>4. /\ Tabled'
      /\ \A o \in KeysOf(entries') : o \in KeysOf(entries)
      /\ \A o \in KeysOf(entries) : o \notin White => o \in KeysOf(entries')
  <2>1. CASE entries = NoEntries /\ count = 0
    <3>1. entries' = entries
      BY <1>1, <2>1, NothingStored, SweptDef DEF RemoveWhite
    <3>2. Cardinality(Occupied(entries)) = 0
      BY <2>1, NothingStored, FS_EmptySet
    <3> QED
      BY <1>1, <2>1, <3>1, <3>2 DEF Tabled
  <2>2. CASE InOrder(entries, HashAt, count)
    <3>1. /\ Good(c) /\ Sound(c, Addr, Nil, x, entries) /\ HasEmpty(c, entries)
          /\ IsFiniteSet(Occupied(entries)) /\ count = Cardinality(Occupied(entries))
          /\ count \in Nat /\ count < c /\ c \in Nat
      BY <2>2, HashAtIs, InOrderFacts DEF x
    <3> HIDE DEF c
    <3>2. Thinned(c, Addr, Nil, x, entries, White, entries')
      BY <1>1, <1>2, <3>1, RemoveWhiteSound
    <3>3. /\ Sound(c, Addr, Nil, x, entries')
          /\ Occupied(entries') \subseteq Occupied(entries)
          /\ Content(entries') \subseteq Content(entries)
          /\ \A r \in Content(entries) : r.key \notin White => r \in Content(entries')
      BY <3>2 DEF Thinned
    <3>4. /\ IsFiniteSet(Occupied(entries'))
          /\ Cardinality(Occupied(entries')) <= Cardinality(Occupied(entries))
      BY <3>1, <3>3, FS_Subset
    <3>5. Cardinality(Occupied(entries')) \in Nat
      BY <3>4, FS_CardinalityType
    <3>6. count' = Cardinality(Occupied(entries')) /\ count' < c
      BY <1>1, <3>1, <3>4, <3>5
    <3>7. CapacityOf(entries') = c
      BY <1>2, <3>1, <3>3, ArrayType DEF Sound, Hashes
    <3>8. InOrder(entries', x, count')
      BY <3>1, <3>3, <3>6, <3>7 DEF InOrder
    <3>9. Tabled'
      BY <1>1, <3>8 DEF Tabled, x, CachedHash, HashAt
    <3>10. ASSUME NEW o \in KeysOf(entries') PROVE o \in KeysOf(entries)
      <4>1. PICK r \in Content(entries') : r.key = o
        BY ContentKeys
      <4> QED
        BY <3>3, <4>1, ContentKeys
    <3>11. ASSUME NEW o \in KeysOf(entries), o \notin White PROVE o \in KeysOf(entries')
      <4>1. PICK r \in Content(entries) : r.key = o
        BY ContentKeys
      <4>2. r \in Content(entries')
        BY <3>3, <3>11, <4>1
      <4> QED
        BY <4>1, <4>2, ContentKeys
    <3> QED
      BY <3>9, <3>10, <3>11
  <2> QED
    BY <2>1, <2>2 DEF IInv, Tabled
<1>5. Typed' /\ Distinct'
  BY <1>1, <1>4 DEF IInv, Typed, Distinct
<1>6. HeldKept'
  BY <1>1, <1>3, <1>4 DEF IInv, HeldKept
<1>7. Pending'
  BY <1>1, <1>3, <1>4 DEF IInv, Pending
<1> QED
  BY <1>4, <1>5, <1>6, <1>7 DEF IInv

LEMMA ReleaseHolds ==
  ASSUME IInv, Release
  PROVE  IInv'
<1>1. held' \subseteq held /\ UNCHANGED <<heap, text, entries, count, pc, want, temp>>
  BY DEF Release, tabVars
<1>2. Typed' /\ Distinct' /\ HeldKept' /\ Pending'
  BY <1>1 DEF IInv, Typed, Distinct, HeldKept, Pending
<1>3. Tabled'
  BY <1>1 DEF IInv, Tabled, HashAt
<1> QED
  BY <1>2, <1>3 DEF IInv

-----------------------------------------------------------------------------
(* The invariant is inductive as long as the table has no stale entry.     *)
LEMMA InitHolds == Init => IInv
<1> SUFFICES ASSUME Init PROVE IInv
  OBVIOUS
<1>1. Typed /\ Tabled
  BY InternAssumption DEF Init, Typed, Tabled
<1>2. KeysOf(entries) = {}
  BY NothingStored DEF Init
<1> QED
  BY <1>1, <1>2 DEF Init, IInv, Distinct, HeldKept, Pending

LEMMA NextHolds == IInv /\ NoStaleEntry /\ [Next]_vars => IInv'
<1> SUFFICES ASSUME IInv, NoStaleEntry, [Next]_vars PROVE IInv'
  OBVIOUS
<1>1. CASE \E t \in Text : Lookup(t)
  BY <1>1, LookupHolds
<1>2. CASE UNCHANGED vars
  <2>1. UNCHANGED <<heap, text, held, entries, count, pc, want, temp>>
    BY <1>2 DEF vars, tabVars
  <2>2. Typed' /\ Distinct' /\ HeldKept' /\ Pending'
    BY <2>1 DEF IInv, Typed, Distinct, HeldKept, Pending
  <2>3. Tabled'
    BY <2>1 DEF IInv, Tabled, HashAt
  <2> QED
    BY <2>2, <2>3 DEF IInv
<1> QED
  BY <1>1, <1>2, AllocateFailsHolds, AllocateObjectHolds, InsertStringHolds, GrowTableHolds,
     GrowFailsHolds, CollectHolds, ReleaseHolds DEF Next

LEMMA IInvHolds == Spec /\ []NoStaleEntry => []IInv
  BY InitHolds, NextHolds, PTL DEF Spec

(* The variables keep their types: the count of vm->strings never goes     *)
(* below zero, whatever is removed from it (table.c:202-208, 123-147).     *)
THEOREM InternTypes == Spec /\ []NoStaleEntry => []TypeOK
<1>1. IInv => TypeOK
  <2> SUFFICES ASSUME IInv PROVE TypeOK
    OBVIOUS
  <2>1. count \in Nat
    BY InOrderFacts DEF IInv, Tabled
  <2> QED
    BY <2>1 DEF IInv, Typed, TypeOK
<1> QED
  BY <1>1, IInvHolds, PTL

(* A string that the program holds stays alive and keeps the content it    *)
(* was obtained for, whatever collections come in the middle of a call     *)
(* (object.c:382-395, memory.c:376-388).                                   *)
THEOREM StringsIntact == Spec /\ []NoStaleEntry => []HeldIntact
<1>1. IInv => HeldIntact
  BY DEF IInv, HeldKept, HeldIntact
<1> QED
  BY <1>1, IInvHolds, PTL

(* A content has one object: the program finds by content the string that  *)
(* it holds, so that comparing strings by address is right (object.c:      *)
(* 397-430, table.c:165-200).                                              *)
THEOREM OneObjectPerText == Spec /\ []NoStaleEntry => []Interned
<1>1. ASSUME IInv PROVE Interned
  <2>1. \A g \in held : g[1] \in KeysOf(entries) /\ text[g[1]] = g[2] /\ g[2] \in Text
    BY <1>1 DEF IInv, HeldKept, Typed
  <2>2. \A g \in held : FindString(g[2]) = g[1]
    BY <1>1, <2>1, Found
  <2> QED
    BY <2>1, <2>2 DEF Interned
<1> QED
  BY <1>1, IInvHolds, PTL
=============================================================================
