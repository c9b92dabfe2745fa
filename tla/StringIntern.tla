---------------------------- MODULE StringIntern ----------------------------
(***************************************************************************)
(* Interning (object.c: copyString, takeString, allocateString) over the   *)
(* weak table vm->strings, with the collector of memory.c running at every *)
(* point where the code allocates.  Strings are compared by identity, so   *)
(* that equal contents must be the same object.                            *)
(*                                                                         *)
(* Here a collection is one step (Gc.tla refines it): it first removes the *)
(* unmarked strings from the table, then frees them.  A freed block keeps  *)
(* its bytes until it is allocated again.                                  *)
(***************************************************************************)
EXTENDS HashTable

CONSTANTS Addr,        \* addresses a string object can have
          Text,        \* contents of strings
          HashOf       \* the multiplied hash of a content

ASSUME InternAssumption ==
  /\ HashOf \in [Text -> 0 .. HashRange - 1]
  /\ NULL \notin Addr \cup Text /\ Text # {}

VARIABLES
  heap,     \* the live string objects
  text,     \* text[o]: the bytes (and the cached hash) at address o
  held,     \* the strings the program holds: pairs of an object and the
            \* content it was obtained for
  entries, count,  \* vm->strings
  pc,       \* where the call in progress is
  want,     \* the content it interns
  temp      \* the object that allocateString protects with a VMTemp

tabVars == <<entries, count>>
vars == <<heap, text, held, tabVars, pc, want, temp>>

HashAt == [o \in Addr |-> HashOf[text[o]]]
Rooted == {h[1] : h \in held}

Init ==
  /\ heap = {} /\ held = {}
  /\ text \in [Addr -> {CHOOSE t \in Text : TRUE}]
  /\ entries = NoEntries /\ count = 0
  /\ pc = "idle" /\ want = NULL /\ temp = NULL

(* tableFindString: the first entry of the probe with that content.        *)
FindString(t) ==
  IF count = 0 THEN NULL
  ELSE entries[ProbeStop(entries, HashOf[t], {o \in Addr : text[o] = t})].key

(* Mutant of Lookup: every call makes a new string.                        *)
LookupNever(t) ==
  /\ pc = "idle"
  /\ pc' = "object" /\ want' = t
  /\ UNCHANGED <<heap, text, held, tabVars, temp>>

(* copyString and takeString look the content up before they allocate.     *)
Lookup(t) ==
  /\ pc = "idle"
  /\ IF FindString(t) # NULL
       THEN held' = held \cup {<<FindString(t), t>>} /\ UNCHANGED <<pc, want>>
       ELSE pc' = "object" /\ want' = t /\ UNCHANGED held
  /\ UNCHANGED <<heap, text, tabVars, temp>>

(* ALLOCATE of the bytes or of the object fails: the call returns NULL.    *)
AllocateFails ==
  /\ pc = "object"
  /\ pc' = "idle" /\ want' = NULL
  /\ UNCHANGED <<heap, text, held, tabVars, temp>>

AllocateObject ==
  /\ pc = "object"
  /\ \E o \in Addr \ heap :
       /\ heap' = heap \cup {o}
       /\ text' = [text EXCEPT ![o] = want]
       /\ temp' = o
  /\ pc' = "insert"
  /\ UNCHANGED <<held, tabVars, want>>

(* The last part of tableSet, on the array e that holds n entries; the     *)
(* string is returned and its temporary released.                          *)
InsertInto(e, n) ==
  /\ entries' = Insert(e, HashAt, temp, NULL)
  /\ count' = IF e[FindEntry(e, HashAt, temp)].key = NULL THEN n + 1 ELSE n
  /\ held' = held \cup {<<temp, want>>}
  /\ pc' = "idle" /\ want' = NULL /\ temp' = NULL
  /\ UNCHANGED <<heap, text>>

InsertString ==
  /\ pc = "insert"
  /\ IF NeedsGrow(count, CapacityOf(entries))
       THEN pc' = "grow" /\ UNCHANGED <<heap, text, held, tabVars, want, temp>>
       ELSE InsertInto(entries, count)

(* adjustCapacity has its new array; there is none with more slots than    *)
(* hashes.                                                                 *)
GrowTable ==
  /\ pc = "grow"
  /\ GrowCapacity(CapacityOf(entries)) <= HashRange
  /\ InsertInto(Rehash(entries, HashAt, GrowCapacity(CapacityOf(entries))),
                Cardinality(Occupied(entries)))

(* adjustCapacity has not: the string is left to the collector.            *)
GrowFails ==
  /\ pc = "grow"
  /\ pc' = "idle" /\ want' = NULL /\ temp' = NULL
  /\ UNCHANGED <<heap, text, held, tabVars>>

(* Mutant of White: the temporary is not a root.                           *)
WhiteNoTemp == Addr \ Rooted

(* The collection that an allocation of the call may start with.  An entry *)
(* whose object was freed before reads as unmarked.                        *)
White == Addr \ (Rooted \cup {temp})

(* Mutant of Collect: each removal is counted twice.                       *)
CollectCountsTwice ==
  /\ pc \in {"object", "grow"}
  /\ entries' = RemoveWhite(entries, HashAt, White)
  /\ count' = count - 2 * (Cardinality(Occupied(entries))
                           - Cardinality(Occupied(entries')))
  /\ heap' = heap \ White
  /\ UNCHANGED <<text, held, pc, want, temp>>

Collect ==
  /\ pc \in {"object", "grow"}
  /\ entries' = RemoveWhite(entries, HashAt, White)
  /\ count' = count - (Cardinality(Occupied(entries)) - Cardinality(Occupied(entries')))
  /\ heap' = heap \ White
  /\ UNCHANGED <<text, held, pc, want, temp>>

(* The program lets go of a string.                                        *)
Release ==
  /\ pc = "idle"
  /\ \E h \in held : held' = held \ {h}
  /\ UNCHANGED <<heap, text, tabVars, pc, want, temp>>

Next ==
  \/ \E t \in Text : Lookup(t)
  \/ AllocateFails \/ AllocateObject
  \/ InsertString \/ GrowTable \/ GrowFails
  \/ Collect \/ Release

Spec == Init /\ [][Next]_vars

-----------------------------------------------------------------------------
(* The variables have their types (object.h, table.h).                     *)
TypeOK ==
  /\ heap \subseteq Addr /\ text \in [Addr -> Text]
  /\ held \subseteq Addr \X Text
  /\ count \in Nat
  /\ pc \in {"idle", "object", "insert", "grow"}
  /\ want \in Text \cup {NULL} /\ temp \in Addr \cup {NULL}

(* The strings that the program holds are live and still have the content  *)
(* they were obtained for (object.c:382-395, memory.c:376-388).            *)
HeldIntact == \A h \in held : h[1] \in heap /\ text[h[1]] = h[2]

(* Equal strings are the same object, since EQUAL and the keys of every    *)
(* table compare addresses (value.c, table.h:32-47): a string that the     *)
(* program holds is found by its content, after any collection in the      *)
(* middle of any call, and no other object has that content.               *)
Interned ==
  \A h \in held :
    /\ FindString(h[2]) = h[1]
    /\ \A g \in held : g[2] = h[2] => g[1] = h[1]

(* The table holds live strings only.                                      *)
NoStaleEntry == \A i \in Occupied(entries) : entries[i].key \in heap
=============================================================================
