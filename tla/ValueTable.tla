----------------------------- MODULE ValueTable -----------------------------
(***************************************************************************)
(* ValueTable.c: the deterministic hash table behind the HashMap class,    *)
(* with its iterator (builtins.c).  Entries are kept in insertion order in *)
(* a data array; chains[b] is the index of the last entry of bucket b, or  *)
(* -1, and next links an entry to the previous one of its bucket.          *)
(*                                                                         *)
(* h[k] stands for hashValue(k) times the Fibonacci constant, below        *)
(* HashRange (2^32 in the code).  Keys are compared by identity: an        *)
(* equals() or hashCode() written in the program is not modelled.          *)
(***************************************************************************)
EXTENDS Integers, FiniteSetsExt, Sequences

CONSTANTS Key, Value, h, HashRange,
          Missing,      \* UNDEFINED_VAL as a key; no result
          InitialSize,  \* 8 in rehash()
          MaxMod        \* bound of the model on modCount

(* HashRange and InitialSize are powers of two, as every size of the index *)
(* is.                                                                     *)
ASSUME ValueTableAssumption ==
  /\ h \in [Key -> 0 .. HashRange - 1]
  /\ Missing \notin Key \cup Value
  /\ HashRange \in Nat /\ InitialSize \in 2 .. HashRange /\ HashRange % InitialSize = 0
  /\ \A s \in 1 .. HashRange - 1 : HashRange % s = 0 => HashRange % (2 * s) = 0
  /\ MaxMod \in Nat

VARIABLES
  chains,     \* 0 .. indexSize - 1 -> index of an entry, or -1
  entries,    \* 0 .. fullCount - 1 -> entry, the deleted ones too
  liveCount,
  modCount,
  iter,       \* a HashMapIterator: its current and its modCount
  got,        \* what the last call returned
  undefined   \* what the C program has done whose effect is undefined

vars == <<chains, entries, liveCount, modCount, iter, got, undefined>>
table == <<chains, entries, liveCount, modCount>>

indexSize == Cardinality(DOMAIN chains)
fullCount == Cardinality(DOMAIN entries)
dataSize == (3 * indexSize) \div 4

NoIter == [current |-> -1, modCount |-> -1]

(* The entries that hold a key: a deleted one holds UNDEFINED_VAL.         *)
Live(e) == {i \in DOMAIN e : e[i].key # Missing}

(* indexFor *)
Bucket(k, size) == h[k] \div (HashRange \div size)

Init ==  \* initValueTable
  /\ chains = <<>> /\ entries = <<>> /\ liveCount = 0 /\ modCount = 0
  /\ iter = NoIter /\ got = Missing /\ undefined = "no"

-----------------------------------------------------------------------------
(* The end of the chain from i on that starts at an entry of key k, or its *)
(* end, -1.                                                                *)
Seek(k) ==
  LET at[i \in -1 .. fullCount - 1] ==
        IF i = -1 THEN -1 ELSE IF entries[i].key = k THEN i ELSE at[entries[i].next]
  IN at

(* lookup; -1 also when the callers do not even call it.                   *)
Lookup(k) == IF liveCount = 0 THEN -1 ELSE Seek(k)[chains[Bucket(k, indexSize)]]

(* Mutant of Insert: the entry is not linked to the others of its bucket.  *)
InsertUnlinked(c, e, k, v) ==
  LET n == Cardinality(DOMAIN e)
  IN [chains  |-> [c EXCEPT ![Bucket(k, Cardinality(DOMAIN c))] = n],
      entries |-> [i \in 0 .. n |-> IF i = n THEN [key |-> k, value |-> v, next |-> -1]
                                     ELSE e[i]]]

(* The end of valueTableSet, and of rehash for one entry: c and e are the  *)
(* chains and entries so far.                                              *)
Insert(c, e, k, v) ==
  LET b == Bucket(k, Cardinality(DOMAIN c))
      n == Cardinality(DOMAIN e)
  IN [chains  |-> [c EXCEPT ![b] = n],
      entries |-> [i \in 0 .. n |-> IF i = n THEN [key |-> k, value |-> v, next |-> c[b]]
                                     ELSE e[i]]]

(* rehash to another size: the live entries move, in order.                *)
Move(t, i) ==
  IF i \in Live(entries) THEN Insert(t.chains, t.entries, entries[i].key, entries[i].value)
                         ELSE t

Moved(size) ==
  LET t[n \in 0 .. fullCount] ==
        IF n = 0 THEN [chains |-> [b \in 0 .. size - 1 |-> -1], entries |-> <<>>]
                 ELSE Move(t[n - 1], n - 1)
  IN t

Rehash(size) == Moved(size)[fullCount]

NewSize ==
  IF liveCount >= (3 * dataSize) \div 4
    THEN IF indexSize = 0 THEN InitialSize ELSE 2 * indexSize
    ELSE indexSize

(* An index has an int32_t of chains, and no more than there are hashes.   *)
Fits == fullCount = dataSize => NewSize <= HashRange

Modify == modCount < MaxMod /\ modCount' = modCount + 1

(* The loop of rehash in place increments table in the place of its index. *)
RehashInPlace ==
  /\ undefined' = "rehash"
  /\ UNCHANGED <<chains, entries, liveCount, modCount, iter, got>>

SetEntry(k, v) ==
  LET i == Lookup(k) IN
  IF i >= 0
    THEN /\ entries' = [entries EXCEPT ![i].value = v]
         /\ got' = Missing
         /\ UNCHANGED <<chains, liveCount, modCount, iter, undefined>>
    ELSE IF fullCount = dataSize /\ NewSize = indexSize THEN RehashInPlace
    ELSE LET old == [chains |-> chains, entries |-> entries]
             t == IF fullCount = dataSize THEN Rehash(NewSize) ELSE old
             new == Insert(t.chains, t.entries, k, v)
         IN /\ Fits /\ Modify
            /\ chains' = new.chains /\ entries' = new.entries
            /\ liveCount' = liveCount + 1
            /\ got' = Missing /\ UNCHANGED <<iter, undefined>>

(* rehash cannot allocate the new arrays.                                  *)
SetFails(k) ==
  /\ Lookup(k) = -1 /\ fullCount = dataSize /\ NewSize # indexSize
  /\ Modify
  /\ got' = Missing
  /\ UNCHANGED <<chains, entries, liveCount, iter, undefined>>

(* Mutant of DeleteEntry: iterators do not notice.                         *)
DeleteUnnoticed(k) ==
  LET i == Lookup(k) IN
  /\ got' = Missing
  /\ IF i < 0 THEN UNCHANGED <<entries, liveCount>>
     ELSE entries' = [entries EXCEPT ![i].key = Missing] /\ liveCount' = liveCount - 1
  /\ UNCHANGED <<chains, modCount, iter, undefined>>

(* Mutant of DeleteEntry: the result of lookup is not looked at.           *)
DeleteUnchecked(k) ==
  /\ got' = Missing
  /\ Modify
  /\ entries' = [i \in DOMAIN entries |-> IF i = Lookup(k) THEN [entries[i] EXCEPT !.key = Missing]
                                         ELSE entries[i]]
  /\ liveCount' = liveCount - 1
  /\ UNCHANGED <<chains, iter, undefined>>

(* valueTableDelete leaves the entry where it is, with no key.             *)
DeleteEntry(k) ==
  LET i == Lookup(k) IN
  /\ got' = Missing
  /\ IF i < 0 THEN UNCHANGED <<entries, liveCount, modCount>>
     ELSE /\ Modify
          /\ entries' = [entries EXCEPT ![i].key = Missing]
          /\ liveCount' = liveCount - 1
  /\ UNCHANGED <<chains, iter, undefined>>

Get(k) ==
  /\ got' = IF Lookup(k) < 0 THEN Missing ELSE entries[Lookup(k)].value
  /\ UNCHANGED <<table, iter, undefined>>
-----------------------------------------------------------------------------
(* valueTableGetNext: the first live entry from start on, one further than *)
(* its index being what it returns; -1 when there is none.                 *)
GetNext(start) ==
  LET found == {i \in Live(entries) : i >= start}
  IN IF start < 0 \/ found = {} THEN -1 ELSE Min(found) + 1

Iterator ==
  /\ iter' = [current |-> 0, modCount |-> modCount]
  /\ got' = Missing /\ UNCHANGED <<table, undefined>>

HasNext ==
  /\ iter # NoIter
  /\ got' = [more |-> GetNext(iter.current) >= 0]
  /\ UNCHANGED <<table, iter, undefined>>

(* runtimeError "HashMap modified during iteration"                        *)
IterRefuses ==
  /\ iter # NoIter /\ iter.modCount # modCount
  /\ got' = Missing /\ UNCHANGED <<table, iter, undefined>>

(* Past the last entry, next() goes on with an uninitialised pointer.  The *)
(* allocation of its result fails with the iterator already advanced.      *)
IterNext ==
  /\ iter # NoIter /\ iter.modCount = modCount
  /\ LET next == GetNext(iter.current) IN
     IF next < 0
       THEN undefined' = "iterator" /\ UNCHANGED <<iter, got>>
       ELSE /\ iter' = [iter EXCEPT !.current = next]
            /\ got' \in {[key |-> entries[next - 1].key, value |-> entries[next - 1].value],
                         Missing}
            /\ UNCHANGED undefined
  /\ UNCHANGED table

Next ==
  /\ undefined = "no"
  /\ \/ \E k \in Key : \/ \E v \in Value : SetEntry(k, v)
                       \/ SetFails(k) \/ DeleteEntry(k) \/ Get(k)
     \/ Iterator \/ HasNext \/ IterRefuses \/ IterNext

Spec == Init /\ [][Next]_vars
-----------------------------------------------------------------------------
(* The variables have their types (ValueTable.h:11-30); the arrays are     *)
(* never written past their end (ValueTable.c:213).                        *)
TypeOK ==
  /\ DOMAIN chains = 0 .. indexSize - 1 /\ DOMAIN entries = 0 .. fullCount - 1
  /\ \A b \in DOMAIN chains : chains[b] \in -1 .. fullCount - 1
  /\ \A i \in DOMAIN entries :
       /\ entries[i].key \in Key \cup {Missing} /\ entries[i].value \in Value
       /\ entries[i].next \in -1 .. i - 1
  /\ \A i \in Live(entries), j \in DOMAIN entries : entries[i].key = entries[j].key => i = j
  /\ liveCount = Cardinality(Live(entries))
  /\ fullCount <= dataSize /\ modCount \in 0 .. MaxMod

(* The entries on the chain from i on.                                     *)
Linked ==
  LET from[i \in -1 .. fullCount - 1] ==
        IF i = -1 THEN {} ELSE {i} \cup from[entries[i].next]
  IN from

(* The chains partition the entries: each one, deleted or not, is on       *)
(* exactly one chain, a live one on the chain of its bucket, where lookup  *)
(* searches it (ValueTable.c:29-48, 211-220).                              *)
ChainsExact ==
  /\ \A i \in DOMAIN entries :
       Cardinality({b \in DOMAIN chains : i \in Linked[chains[b]]}) = 1
  /\ \A i \in Live(entries) : i \in Linked[chains[Bucket(entries[i].key, indexSize)]]

(* The keys and values of the live entries among the first n, in order.    *)
Listed(e) ==
  LET list[n \in 0 .. Cardinality(DOMAIN e)] ==
        IF n = 0 THEN <<>>
        ELSE IF n - 1 \in Live(e)
          THEN Append(list[n - 1], [key |-> e[n - 1].key, value |-> e[n - 1].value])
        ELSE list[n - 1]
  IN list

(* The state as a program sees it: the entries, and how many of them the   *)
(* iterator has returned, -1 without one, -2 when it is stale.             *)
List == Listed(entries)[fullCount]
Stand == IF iter = NoIter THEN -1
         ELSE IF iter.modCount # modCount THEN -2
         ELSE Len(Listed(entries)[iter.current])

(* The table and its iterator are an OrderedMap (builtins.c:249-361).      *)
OM == INSTANCE OrderedMap WITH map <- List, iter <- Stand

ImplementsOrderedMap == OM!Spec
=============================================================================
