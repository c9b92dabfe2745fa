---------------------------- MODULE AbstractList ----------------------------
(***************************************************************************)
(* What arrays and tuples promise a script: lists of values, and iterators *)
(* that visit each element once, in order, can take out the one visited    *)
(* last, and refuse to go on when the list was changed otherwise.  Places  *)
(* count from 0.                                                           *)
(***************************************************************************)
EXTENDS Integers, SequencesExt

CONSTANTS
  Value,
  Places,         \* the places that callers may name
  Raised,         \* the result of an operation that raises an exception
  MaxLength       \* of the lists that are written out

VARIABLES
  lists,
  iterators,      \* [list, todo, last, stale]: what is still to be visited
  call            \* the last operation: <<its name, on what, with what, its result>>

vars == <<lists, iterators, call>>

Position(it) == Len(lists[iterators[it].list]) - Len(iterators[it].todo)
Stale(l) == [list |-> l, todo |-> <<>>, last |-> FALSE, stale |-> TRUE]

(* The iterators of l, but for those in its, refuse to go on.              *)
Invalidate(l, its) ==
  [i \in DOMAIN iterators |->
     IF iterators[i].list = l /\ i \notin its THEN Stale(l) ELSE iterators[i]]

Refuse(op, on, arg) == call' = <<op, on, arg, Raised>> /\ UNCHANGED <<lists, iterators>>

Inside(list, i) == i \in 0 .. Len(list) - 1

(* The elements from start up to, not including, end.                      *)
Cut(list, start, end) ==
  LET clamp(i) == IF i < 0 THEN 0 ELSE IF i > Len(list) THEN Len(list) ELSE i
  IN SubSeq(list, clamp(start) + 1, clamp(end))

Create(list) ==
  /\ lists' = Append(lists, list)
  /\ call' = <<"create", Len(lists'), list, 0>>
  /\ UNCHANGED iterators

Slice(l, start, end) ==
  /\ lists' = Append(lists, Cut(lists[l], start, end))
  /\ call' = <<"slice", l, <<start, end>>, Len(lists')>>
  /\ UNCHANGED iterators

Add(l, v) ==
  /\ lists' = [lists EXCEPT ![l] = Append(@, v)]
  /\ iterators' = Invalidate(l, {})
  /\ call' = <<"add", l, v, 0>>

(* For want of memory; the iterators refuse to go on all the same.         *)
AddFails(l, v) ==
  /\ iterators' = Invalidate(l, {})
  /\ call' = <<"add", l, v, Raised>>
  /\ UNCHANGED lists

Delete(l, i) ==
  IF Inside(lists[l], i)
    THEN /\ lists' = [lists EXCEPT ![l] = RemoveAt(@, i + 1)]
         /\ iterators' = Invalidate(l, {})
         /\ call' = <<"delete", l, i, 0>>
    ELSE Refuse("delete", l, i)

Put(l, i, v) ==
  IF Inside(lists[l], i)
    THEN /\ lists' = [lists EXCEPT ![l][i + 1] = v]
         /\ iterators' = [it \in DOMAIN iterators |->
              IF iterators[it].list = l /\ ~iterators[it].stale /\ i >= Position(it)
                THEN [iterators[it] EXCEPT !.todo[i + 1 - Position(it)] = v]
                ELSE iterators[it]]
         /\ call' = <<"put", l, <<i, v>>, v>>
    ELSE Refuse("put", l, <<i, v>>)

(* A negative place counts from the end.                                   *)
At(l, i) ==
  LET place == IF i < 0 THEN Len(lists[l]) + i ELSE i
  IN IF Inside(lists[l], place)
       THEN call' = <<"at", l, i, lists[l][place + 1]>> /\ UNCHANGED <<lists, iterators>>
       ELSE Refuse("at", l, i)

Includes(l, v) ==
  /\ call' = <<"contains", l, v, IF v \in Range(lists[l]) THEN 1 ELSE 0>>
  /\ UNCHANGED <<lists, iterators>>

Iterate(l) ==
  /\ iterators' =
       Append(iterators, [list |-> l, todo |-> lists[l], last |-> FALSE, stale |-> FALSE])
  /\ call' = <<"iterate", l, 0, Len(iterators')>>
  /\ UNCHANGED lists

(* What a stale iterator answers is of no use; its next visit is refused.  *)
HasNext(it) ==
  /\ \E yes \in {0, 1} :
       /\ ~iterators[it].stale => (yes = 1 <=> iterators[it].todo # <<>>)
       /\ call' = <<"hasNext", it, 0, yes>>
  /\ UNCHANGED <<lists, iterators>>

Visit(it) ==
  IF iterators[it].todo # <<>>
    THEN /\ call' = <<"next", it, 0, Head(iterators[it].todo)>>
         /\ iterators' = [iterators EXCEPT ![it].todo = Tail(@), ![it].last = TRUE]
         /\ UNCHANGED lists
    ELSE Refuse("next", it, 0)

TakeOut(it) ==
  LET l == iterators[it].list
  IN IF iterators[it].last
       THEN /\ lists' = [lists EXCEPT ![l] = RemoveAt(@, Position(it))]
            /\ iterators' = [Invalidate(l, {it}) EXCEPT ![it].last = FALSE]
            /\ call' = <<"remove", it, 0, 0>>
       ELSE Refuse("remove", it, 0)

Init == lists = <<>> /\ iterators = <<>> /\ call = <<>>

Next ==
  \/ \E n \in 0 .. MaxLength : \E list \in [1 .. n -> Value] : Create(list)
  \/ \E l \in DOMAIN lists :
       \/ Iterate(l)
       \/ \E v \in Value : Add(l, v) \/ AddFails(l, v) \/ Includes(l, v)
       \/ \E i \in Places : Delete(l, i) \/ At(l, i) \/ \E v \in Value : Put(l, i, v)
       \/ \E start, end \in Places : Slice(l, start, end)
  \/ \E it \in DOMAIN iterators : HasNext(it) \/ Visit(it) \/ TakeOut(it)

Spec == Init /\ [][Next]_vars
=============================================================================
