------------------------------- MODULE Arrays -------------------------------
(***************************************************************************)
(* Arrays, tuples, their slices and their iterators: the block of cells    *)
(* behind an array (object.c), the instructions that build, index, store   *)
(* into and slice one (vm.c), and the methods of arrays and of the class   *)
(* $ArrayIterator (array.c).  Any number of iterators of one array and its *)
(* own methods interleave as a script likes.                               *)
(*                                                                         *)
(* A cell index counts from 1 here, from 0 in the code.  A write or a read *)
(* past the end of a block makes intact FALSE.                             *)
(***************************************************************************)
EXTENDS Integers, SequencesExt

CONSTANTS
  Value,
  Places,         \* the numbers that a script indexes and slices with
  Raised,         \* the result of a call that raises an exception
  Garbage,        \* a cell that was never written
  Avoid,          \* of {"growth", "longSlice"}: what the program does not do
  MaxBuilt, MaxArrays, MaxIterators, MaxLength, MaxChanges  \* bounds

ASSUME ArrayAssumption ==
  /\ Avoid \subseteq {"growth", "longSlice"}
  /\ Places \subseteq Int /\ MaxLength \in Nat

VARIABLES
  arrays,         \* [type, cells, size, capacity, modCount]; cells is the block
  iterators,      \* [array, cursor, lastRet, modCount]
  call,           \* the last operation: <<its name, on what, with what, its result>>
  intact,
  changes         \* bound: the calls that may change an array

vars == <<arrays, iterators, call, intact, changes>>

Answer(op, on, arg, result) == call' = <<op, on, arg, result>>
Unchanged == UNCHANGED <<arrays, iterators, intact, changes>>
Refuse(op, on, arg) == Answer(op, on, arg, Raised) /\ UNCHANGED <<arrays, iterators, intact>>
Raise(op, on, arg) == Answer(op, on, arg, Raised) /\ Unchanged

-----------------------------------------------------------------------------
GrowCapacity(capacity) == IF capacity < 8 THEN 8 ELSE capacity * 2

NewArray(type, initialSize) ==
  LET capacity == IF initialSize <= 0 THEN 0 ELSE initialSize
  IN [type |-> type, cells |-> [i \in 1 .. capacity |-> Garbage], size |-> 0,
      capacity |-> capacity, modCount |-> 0]

Write(array, i, value) ==
  [array EXCEPT !.cells = IF i <= Len(@) THEN [@ EXCEPT ![i] = value] ELSE @]

(* appendToArray; the block is grown to the old capacity, which is no      *)
(* block at all when that is 0.                                            *)
Full(array) == array.capacity < array.size + 1
GrowFails(array) == Full(array) /\ array.capacity = 0
(* Mutant: the size is counted up before the cell is written.              *)
AppendPastSize(array, value) ==
  LET room == IF Full(array) THEN [array EXCEPT !.capacity = GrowCapacity(@)] ELSE array
  IN Write([room EXCEPT !.modCount = @ + 1, !.size = @ + 1], array.size + 2, value)
AppendToArray(array, value) ==
  LET room == IF Full(array) THEN [array EXCEPT !.capacity = GrowCapacity(@)] ELSE array
  IN Write([room EXCEPT !.modCount = @ + 1, !.size = @ + 1], array.size + 1, value)

(* removeAt: the cells above the place move down.                          *)
(* Mutant: the last of them is left behind.                                *)
RemoveFromShort(array, i) ==
  [array EXCEPT !.modCount = @ + 1, !.size = @ - 1,
                !.cells = [j \in 1 .. Len(@) |-> IF j >= i /\ j + 1 < array.size THEN @[j + 1] ELSE @[j]]]
RemoveFrom(array, i) ==
  [array EXCEPT !.modCount = @ + 1, !.size = @ - 1,
                !.cells = [j \in 1 .. Len(@) |-> IF j >= i /\ j < array.size THEN @[j + 1] ELSE @[j]]]

(* computeSlice; nil stands for the ends.  The end is clamped to the size  *)
(* only when the start is above it, which it is no longer by then.         *)
ComputeSlice(start, end, size) ==
  LET from == IF start < 0 THEN 0 ELSE IF start > size THEN size ELSE start
      to == IF end < 0 THEN 0 ELSE end
  IN <<from, IF to < from THEN from ELSE to>>

-----------------------------------------------------------------------------
Room == Len(arrays) < MaxArrays
Change == changes < MaxChanges /\ changes' = changes + 1

(* ARRAY_BUILD: the values on the stack are appended in order.             *)
Building(type, values) ==
  LET built[n \in 0 .. Len(values)] ==
        IF n = 0 THEN NewArray(type, Len(values)) ELSE AppendToArray(built[n - 1], values[n])
  IN built

Built(type, values) == Building(type, values)[Len(values)]

BuildArray(type, values) ==
  /\ Len(arrays) < MaxBuilt
  /\ arrays' = Append(arrays, Built(type, values))
  /\ Answer("create", Len(arrays'), values, 0)
  /\ UNCHANGED <<iterators, intact, changes>>

ArrayAdd(a, v) ==
  /\ arrays[a].type = "array"
  /\ Change
  /\ arrays[a].size < MaxLength
  /\ "growth" \in Avoid => ~Full(arrays[a]) \/ GrowFails(arrays[a])
  /\ IF GrowFails(arrays[a])
       THEN /\ arrays' = [arrays EXCEPT ![a].modCount = @ + 1]
            /\ Answer("add", a, v, Raised)
            /\ UNCHANGED intact
       ELSE /\ arrays' = [arrays EXCEPT ![a] = AppendToArray(@, v)]
            /\ Answer("add", a, v, 0)
            /\ intact' = (intact /\ arrays[a].size + 1 <= Len(arrays[a].cells))
  /\ UNCHANGED iterators

ArrayRemoveAt(a, index) ==
  /\ arrays[a].type = "array"
  /\ Change
  /\ IF index < 0 \/ index >= arrays[a].size
       THEN Refuse("delete", a, index)
       ELSE /\ arrays' = [arrays EXCEPT ![a] = RemoveFrom(@, index + 1)]
            /\ Answer("delete", a, index, 0)
            /\ UNCHANGED <<iterators, intact>>

(* arrayAtSafe *)
IndexValue(a, index) ==
  LET realIndex == IF index < 0 THEN arrays[a].size + index ELSE index
  IN IF realIndex < 0 \/ realIndex > arrays[a].size - 1
       THEN Raise("at", a, index)
       ELSE Answer("at", a, index, arrays[a].cells[realIndex + 1]) /\ Unchanged

IndexStore(a, index, v) ==
  /\ arrays[a].type = "array"
  /\ Change
  /\ IF index < 0 \/ index > arrays[a].size - 1
       THEN Refuse("put", a, <<index, v>>)
       ELSE /\ arrays' = [arrays EXCEPT ![a] = Write(@, index + 1, v)]
            /\ Answer("put", a, <<index, v>>, v)
            /\ UNCHANGED <<iterators, intact>>

(* in: the first cell that equals the value ends the search.               *)
ArrayContains(a, v) ==
  /\ Answer("contains", a, v,
            IF \E i \in 1 .. arrays[a].size : arrays[a].cells[i] = v THEN 1 ELSE 0)
  /\ Unchanged

Sliced(array, from, to) ==
  LET size == to - from
      copied == [i \in 1 .. size |-> IF from + i <= Len(array.cells)
                                       THEN array.cells[from + i] ELSE Garbage]
  IN [NewArray(array.type, size) EXCEPT !.cells = copied, !.size = size]

ArraySlice(a, start, end) ==
  LET s == ComputeSlice(start, end, arrays[a].size)
  IN /\ Room
     /\ "longSlice" \in Avoid => end <= arrays[a].size
     /\ arrays' = Append(arrays, Sliced(arrays[a], s[1], s[2]))
     /\ Answer("slice", a, <<start, end>>, Len(arrays'))
     /\ intact' = (intact /\ s[2] <= Len(arrays[a].cells))
     /\ UNCHANGED <<iterators, changes>>

-----------------------------------------------------------------------------
ArrayIterator(a) ==
  /\ Len(iterators) < MaxIterators
  /\ iterators' = Append(iterators, [array |-> a, cursor |-> 0, lastRet |-> -1,
                                     modCount |-> arrays[a].modCount])
  /\ Answer("iterate", a, 0, Len(iterators'))
  /\ UNCHANGED <<arrays, intact, changes>>

Of(it) == arrays[iterators[it].array]

HasNext(it) ==
  /\ Answer("hasNext", it, 0, IF iterators[it].cursor # Of(it).size THEN 1 ELSE 0)
  /\ Unchanged

(* CHECK_MOD_RET *)
Unmodified(it) == iterators[it].modCount = Of(it).modCount

Visited(it) == [iterators[it] EXCEPT !.cursor = @ + 1, !.lastRet = iterators[it].cursor]

IteratorNext(it) ==
  IF ~Unmodified(it) \/ iterators[it].cursor >= Of(it).size
    THEN Raise("next", it, 0)
    ELSE /\ iterators' = [iterators EXCEPT ![it] = Visited(it)]
         /\ Answer("next", it, 0, Of(it).cells[iterators[it].cursor + 1])
         /\ UNCHANGED <<arrays, intact, changes>>

(* Mutant: the cursor stays when the element below it goes.                *)
TakenOutKeepingCursor(it) ==
  [iterators[it] EXCEPT !.lastRet = -1, !.modCount = Of(it).modCount + 1]
TakenOut(it) ==
  [iterators[it] EXCEPT !.cursor = iterators[it].lastRet, !.lastRet = -1,
                        !.modCount = Of(it).modCount + 1]

IteratorRemove(it) ==
  /\ Change
  /\ IF iterators[it].lastRet < 0 \/ ~Unmodified(it)
       THEN Refuse("remove", it, 0)
       ELSE /\ arrays' = [arrays EXCEPT ![iterators[it].array] = RemoveFrom(@, iterators[it].lastRet + 1)]
            /\ iterators' = [iterators EXCEPT ![it] = TakenOut(it)]
            /\ Answer("remove", it, 0, 0)
            /\ UNCHANGED intact

Init == arrays = <<>> /\ iterators = <<>> /\ call = <<>>
        /\ intact = TRUE /\ changes = 0

Next ==
  \/ \E type \in {"array", "tuple"}, n \in 0 .. MaxLength : \E values \in [1 .. n -> Value] :
       BuildArray(type, values)
  \/ \E a \in DOMAIN arrays :
       \/ ArrayIterator(a)
       \/ \E v \in Value : ArrayAdd(a, v) \/ ArrayContains(a, v)
       \/ \E i \in Places : ArrayRemoveAt(a, i) \/ IndexValue(a, i) \/ \E v \in Value : IndexStore(a, i, v)
       \/ \E start, end \in Places : ArraySlice(a, start, end)
  \/ \E it \in DOMAIN iterators : HasNext(it) \/ IteratorNext(it) \/ IteratorRemove(it)

Spec == Init /\ [][Next]_vars

-----------------------------------------------------------------------------
(* The elements fill a block from below, and nothing is read or written    *)
(* past its end.                                                           *)
TypeOK ==
  /\ intact
  /\ \A a \in DOMAIN arrays :
       /\ arrays[a].size \in 0 .. Len(arrays[a].cells)
       /\ \A i \in 1 .. arrays[a].size : arrays[a].cells[i] \in Value
  /\ \A it \in DOMAIN iterators : iterators[it].array \in DOMAIN arrays

(* An iterator whose array was not changed behind it has a cursor in the   *)
(* array, so that hasNext, which tests cursor # size, cannot go on past    *)
(* the end; and what it removes next is the element it visited last.       *)
CursorInside ==
  \A it \in DOMAIN iterators :
    Unmodified(it) =>
      /\ iterators[it].cursor <= Of(it).size
      /\ iterators[it].lastRet \in {-1, iterators[it].cursor - 1}

(* Arrays keep what they promise: every operation gives the result that a  *)
(* list gives, iterators visit every element once and in order with those  *)
(* they remove taken out, and they refuse to go on after any other change. *)
Elements(array) == SubSeq(array.cells, 1, array.size)
Remaining(array, it) ==
  IF it.modCount = array.modCount
    THEN [list |-> it.array, todo |-> SubSeq(Elements(array), it.cursor + 1, array.size),
          last |-> it.lastRet >= 0, stale |-> FALSE]
    ELSE [list |-> it.array, todo |-> <<>>, last |-> FALSE, stale |-> TRUE]

ListsOf(blocks) == [a \in DOMAIN blocks |-> Elements(blocks[a])]
ViewsOf(blocks, its) == [it \in DOMAIN its |-> Remaining(blocks[its[it].array], its[it])]

Abstract == INSTANCE AbstractList
              WITH lists <- ListsOf(arrays), iterators <- ViewsOf(arrays, iterators)

IsList == Abstract!Spec
=============================================================================
