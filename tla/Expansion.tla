----------------------------- MODULE Expansion ------------------------------
(***************************************************************************)
(* Values that become several: argument lists with ..e and ..., the frames *)
(* that receive them, unpacking assignments and foreach (compiler.c, vm.c).*)
(* The number of the arguments expanded so far is a value of the stack,    *)
(* kept on its top by the instructions that push the others, and iterators *)
(* keep their place from one statement to the next.                        *)
(*                                                                         *)
(* Variables assigned to are parameters here; Machine has the other kinds. *)
(* Iterators do not fail (an exception in one is swallowed by EXPAND).     *)
(***************************************************************************)
EXTENDS Integers, SequencesExt

CONSTANTS
  Plain, Tuples, Iterators,  \* the values: what has no elements, and what has
  Elements,       \* of each tuple, and what each iterator returns in all
  Functions,
  Shape,          \* of each function: [arity, variadic, defaults]
  Main,           \* the function that is run
  Nil,
  Lists,          \* the argument lists of the program
  Targets,        \* the variable lists of its unpackings, as parameter numbers
  MaxDepth, MaxExtras  \* bounds: frames, and variable arguments of one

Values == Plain \cup Tuples \cup Iterators \cup {Nil}

ASSUME ExpansionAssumption ==
  /\ Elements \in [Tuples \cup Iterators -> Seq(Values)]
  /\ Main \in Functions
  /\ \A f \in Functions : Len(Shape[f].defaults) = Shape[f].arity

VARIABLES
  stack,
  frames,         \* [function, base, varArgs, code, loop]: the last one runs
  cursor,         \* what each iterator has returned
  meant           \* what a reader of the program expects: [params, extras] of
                  \* each frame, the arguments of a call and the cursors

vars == <<stack, frames, cursor, meant>>

Top == frames[Len(frames)]
Slot(frame, i) == frame.base + i
SetTop(field, value) ==
  frames' = [frames EXCEPT ![Len(frames)] = [@ EXCEPT ![field] = value]]
Pushed(v) == Append(stack, v)
Below(n) == SubSeq(stack, 1, Len(stack) - n)
Peek == Last(stack)

Instruction(op, of, index) == <<[op |-> op, of |-> of, index |-> index]>>

-----------------------------------------------------------------------------
(* What the compiler emits.  An argument is a value, a parameter, one of   *)
(* the variable arguments, all of them, or a value to expand.              *)
IsExpansion(arg) == arg.kind \in {"expand", "varargs"}
Swap == Instruction("SWAP", Nil, 0)
PushArg(arg) == Instruction(IF arg.kind = "expand" THEN "value" ELSE arg.kind, arg.of, arg.index)

Argument(arg, first) ==
  CASE arg.kind = "varargs" -> Instruction("EXPAND_VARARGS", Nil, IF first THEN 1 ELSE 0)
    [] arg.kind = "expand" -> PushArg(arg) \o (IF first THEN <<>> ELSE Swap)
                              \o Instruction("EXPAND", Nil, IF first THEN 1 ELSE 0)
    [] OTHER -> PushArg(arg) \o (IF first THEN <<>> ELSE Swap)

ArgumentList(list) ==
  LET FirstExpansion(i) == \A j \in 1 .. i - 1 : ~IsExpansion(list[j])
  IN FlattenSeq([i \in DOMAIN list |-> Argument(list[i], FirstExpansion(i))])

CallCode(f, list) ==
  LET plain == Len(SelectSeq(list, LAMBDA arg : ~IsExpansion(arg)))
  IN Instruction("value", f, 0) \o ArgumentList(list)
     \o Instruction(IF plain < Len(list) THEN "CALL_EXPANDED" ELSE "CALL", Nil, plain)
     \o Instruction("POP", Nil, 0)

-----------------------------------------------------------------------------
(* What a reader of the program expects, in terms of sequences alone.      *)
Rest(e, taken) == SubSeq(Elements[e], taken[e] + 1, Len(Elements[e]))
Expanded(e, taken) ==
  IF e \in Tuples THEN Elements[e] ELSE IF e \in Iterators THEN Rest(e, taken) ELSE <<e>>

Arguments(list, own, taken) ==
  FoldLeft(LAMBDA acc, arg :
             CASE arg.kind = "value" -> [acc EXCEPT !.all = Append(@, arg.of)]
               [] arg.kind = "param" -> [acc EXCEPT !.all = Append(@, own.params[arg.index])]
               [] arg.kind = "vararg" -> [acc EXCEPT !.all = Append(@, own.extras[arg.index])]
               [] arg.kind = "varargs" -> [acc EXCEPT !.all = @ \o own.extras]
               [] OTHER -> [all |-> acc.all \o Expanded(arg.of, acc.taken),
                            taken |-> IF arg.of \in Iterators
                                        THEN [acc.taken EXCEPT ![arg.of] = Len(Elements[arg.of])]
                                        ELSE acc.taken],
           [all |-> <<>>, taken |-> taken], list)

Received(f, all) ==
  [params |-> [i \in 1 .. Shape[f].arity |-> IF i <= Len(all) THEN all[i] ELSE Shape[f].defaults[i]],
   extras |-> IF Shape[f].variadic THEN SubSeq(all, Shape[f].arity + 1, Len(all)) ELSE <<>>]

Assigned(params, targets, e, taken) ==
  [i \in DOMAIN params |->
     LET places == {j \in DOMAIN targets : targets[j] = i}
         from == Expanded(e, taken)
         j == CHOOSE j \in places : \A k \in places : k <= j
     IN IF places = {} THEN params[i] ELSE IF j <= Len(from) THEN from[j] ELSE Nil]
Advanced(targets, e, taken) ==
  IF e \in Iterators
    THEN [taken EXCEPT ![e] = IF Len(targets) < Len(Rest(e, taken)) THEN @ + Len(targets) ELSE Len(Elements[e])]
    ELSE taken

Mean(frame, taken) ==
  meant' = [meant EXCEPT !.frames = Front(@) \o <<frame>>, !.taken = taken]
Own == Last(meant.frames)

-----------------------------------------------------------------------------
(* A statement begins: a call, or an unpacking assignment.                 *)
Idle == Top.code = <<>>
Usable(list) ==
  \A i \in DOMAIN list :
    /\ list[i].kind = "varargs" => Shape[Top.function].variadic
    /\ list[i].kind = "param" => list[i].index <= Shape[Top.function].arity
    /\ list[i].kind = "vararg" => Shape[Top.function].variadic /\ list[i].index <= Len(Own.extras)

BeginCall(f, list) ==
  /\ Idle
  /\ Len(frames) < MaxDepth
  /\ Usable(list)
  /\ SetTop("code", CallCode(f, list))
  /\ \E given \in {Arguments(list, Own, cursor)} :
       /\ Len(given.all) <= Shape[f].arity + MaxExtras
       /\ meant' = [meant EXCEPT !.call = given.all, !.taken = given.taken]
  /\ UNCHANGED <<stack, cursor>>

Assignable(targets) == \A i \in DOMAIN targets : targets[i] <= Shape[Top.function].arity

BeginUnpack(targets, e) ==
  /\ Idle
  /\ Assignable(targets)
  /\ SetTop("code", Instruction("value", e, 0) \o Instruction("UNPACK", Nil, targets))
  /\ Mean([Own EXCEPT !.params = Assigned(@, targets, e, cursor)], Advanced(targets, e, cursor))
  /\ UNCHANGED <<stack, cursor>>

(* foreach over an iterator: hasNext, then next, then UNPACK of its result.*)
BeginForeach(targets, it) ==
  /\ Idle
  /\ Top.loop = <<>>
  /\ Assignable(targets)
  /\ SetTop("loop", <<it, targets>>)
  /\ UNCHANGED <<stack, cursor, meant>>

(* UnpackState: a tuple is taken from by index, an iterator by its methods *)
(* hasNext and next, any other value once; at is how many were taken.      *)
StartAt(e) == IF e \in Iterators THEN cursor[e] ELSE 0
Size(e) == IF e \in Tuples \cup Iterators THEN Len(Elements[e]) ELSE 1
HasNext(e, at) == at < Size(e)
NextOf(e, at) == IF e \in Tuples \cup Iterators THEN Elements[e][at + 1] ELSE e
LeaveAt(e, at) == cursor' = IF e \in Iterators THEN [cursor EXCEPT ![e] = at] ELSE cursor

Iterate ==
  /\ Idle
  /\ Top.loop # <<>>
  /\ LET it == Top.loop[1]
         targets == Top.loop[2]
         this == NextOf(it, cursor[it])
     IN IF HasNext(it, cursor[it])
          THEN /\ SetTop("code", Instruction("UNPACK", Nil, targets))
               /\ stack' = Pushed(this)
               /\ LeaveAt(it, cursor[it] + 1)
               /\ Mean([Own EXCEPT !.params = Assigned(@, targets, this, cursor')],
                       Advanced(targets, this, cursor'))
          ELSE SetTop("loop", <<>>) /\ UNCHANGED <<stack, cursor, meant>>

-----------------------------------------------------------------------------
(* One instruction of the frame that runs.                                 *)
Fetch(op) == ~Idle /\ Head(Top.code).op = op
Arg == Head(Top.code)
Continue == SetTop("code", Tail(Top.code))

PushValue ==
  /\ \/ Fetch("value") /\ stack' = Pushed(Arg.of)
     \/ Fetch("param") /\ stack' = Pushed(stack[Slot(Top, Arg.index)])
     \/ Fetch("vararg") /\ stack' = Pushed(stack[Slot(Top, Shape[Top.function].arity + Arg.index)])
  /\ Continue /\ UNCHANGED <<cursor, meant>>

SwapTop ==
  /\ Fetch("SWAP")
  /\ stack' = Below(2) \o <<Peek, stack[Len(stack) - 1]>>
  /\ Continue /\ UNCHANGED <<cursor, meant>>

Previous == IF Arg.index = 1 THEN 0 ELSE Peek
Under == IF Arg.index = 1 THEN stack ELSE Below(1)

(* Mutant: the slot of the function itself is forgotten.                   *)
ExpandedVarArgsBelow(frame) ==
  LET from == Slot(frame, Shape[frame.function].arity) - 1
  IN Under \o SubSeq(stack, from + 1, from + frame.varArgs) \o <<Previous + frame.varArgs>>
ExpandedVarArgs(frame) ==
  LET from == Slot(frame, Shape[frame.function].arity)
  IN Under \o SubSeq(stack, from + 1, from + frame.varArgs) \o <<Previous + frame.varArgs>>

ExpandVarArgs ==
  /\ Fetch("EXPAND_VARARGS")
  /\ stack' = ExpandedVarArgs(Top)
  /\ Continue /\ UNCHANGED <<cursor, meant>>

(* expand: the elements are pushed one by one while there is a next one.   *)
Drained(e) ==
  LET from[at \in 0 .. Size(e)] ==
        IF HasNext(e, at) THEN <<NextOf(e, at)>> \o from[at + 1] ELSE <<>>
  IN from[StartAt(e)]

Expand ==
  /\ Fetch("EXPAND")
  /\ LET e == Last(Under)
         these == Drained(e)
     IN /\ stack' = Front(Under) \o these \o <<Previous + Len(these)>>
        /\ LeaveAt(e, StartAt(e) + Len(these))
  /\ Continue /\ UNCHANGED meant

(* adjustArgs and setupStackFrame *)
StackArgs(f, count) ==
  IF count < Shape[f].arity THEN Shape[f].arity
  ELSE IF Shape[f].variadic THEN count ELSE Shape[f].arity
Adjusted(f, count, args) ==
  IF count < Shape[f].arity
    THEN args \o SubSeq(Shape[f].defaults, count + 1, Shape[f].arity)
    ELSE SubSeq(args, 1, Len(args) - (count - StackArgs(f, count)))
VarArgs(f, count) ==
  LET missing == IF count < Shape[f].arity THEN Shape[f].arity - count ELSE 0
  IN count + missing - Shape[f].arity

Enter(f, count, args) ==
  /\ stack' = Adjusted(f, count, args)
  /\ frames' = Append([frames EXCEPT ![Len(frames)].code = Tail(@)],
                      [function |-> f, base |-> Len(stack') - StackArgs(f, count),
                       varArgs |-> VarArgs(f, count), code |-> <<>>, loop |-> <<>>])
  /\ meant' = [meant EXCEPT !.frames = Append(@, Received(f, meant.call))]

Call ==
  \/ Fetch("CALL") /\ Enter(stack[Len(stack) - Arg.index], Arg.index, stack) /\ UNCHANGED cursor
  \/ /\ Fetch("CALL_EXPANDED")
     /\ Enter(stack[Len(stack) - 1 - Arg.index - Peek], Arg.index + Peek, Below(1))
     /\ UNCHANGED cursor

Pop ==
  /\ Fetch("POP")
  /\ stack' = Below(1)
  /\ Continue /\ UNCHANGED <<cursor, meant>>

(* doUnpack: each variable in its turn takes the next element, or nil;     *)
(* acc.at is how many were taken.                                          *)
(* Mutant: the element after it is fetched ahead.                          *)
TakeAhead(acc, e, slot) ==
  IF HasNext(e, acc.at)
    THEN [stack |-> [acc.stack EXCEPT ![slot] = NextOf(e, acc.at)],
          at |-> IF HasNext(e, acc.at + 1) THEN acc.at + 2 ELSE acc.at + 1]
    ELSE [acc EXCEPT !.stack[slot] = Nil]
Take(acc, e, slot) ==
  IF HasNext(e, acc.at)
    THEN [stack |-> [acc.stack EXCEPT ![slot] = NextOf(e, acc.at)], at |-> acc.at + 1]
    ELSE [acc EXCEPT !.stack[slot] = Nil]

Unpack ==
  /\ Fetch("UNPACK")
  /\ LET e == Peek
         end == FoldLeft(LAMBDA acc, target : Take(acc, e, Slot(Top, target)),
                         [stack |-> Below(1), at |-> StartAt(e)], Arg.index)
     IN stack' = end.stack /\ LeaveAt(e, end.at)
  /\ Continue /\ UNCHANGED meant

(* SET_VARARG *)
SetVarArg(i, v) ==
  /\ Idle
  /\ Shape[Top.function].variadic
  /\ i <= Len(Own.extras)
  /\ stack' = [stack EXCEPT ![Slot(Top, Shape[Top.function].arity + i)] = v]
  /\ Mean([Own EXCEPT !.extras[i] = v], cursor)
  /\ UNCHANGED <<frames, cursor>>

(* RETURN: the frame's slots go, the function among them.                  *)
Cut(frame) == SubSeq(stack, 1, frame.base - 1)

Return ==
  /\ Idle
  /\ Len(frames) > 1
  /\ stack' = Append(Cut(Top), Nil)
  /\ frames' = Front(frames)
  /\ meant' = [meant EXCEPT !.frames = Front(@)]
  /\ UNCHANGED cursor

Init ==
  /\ stack = <<Main>>
  /\ frames = <<[function |-> Main, base |-> 1, varArgs |-> 0, code |-> <<>>, loop |-> <<>>]>>
  /\ cursor = [it \in Iterators |-> 0]
  /\ meant = [frames |-> <<[params |-> <<>>, extras |-> <<>>]>>, call |-> <<>>,
              taken |-> [it \in Iterators |-> 0]]

Next ==
  \/ \E f \in Functions \ {Main}, list \in Lists : BeginCall(f, list)
  \/ \E targets \in Targets :
       \/ \E e \in Values : BeginUnpack(targets, e)
       \/ \E it \in Iterators : BeginForeach(targets, it)
  \/ Iterate
  \/ PushValue \/ SwapTop \/ ExpandVarArgs \/ Expand \/ Call \/ Pop \/ Unpack
  \/ \E i \in 1 .. MaxExtras, v \in Plain : SetVarArg(i, v)
  \/ Return

Spec == Init /\ [][Next]_vars

-----------------------------------------------------------------------------
Width(frame) == Shape[frame.function].arity + IF Shape[frame.function].variadic THEN frame.varArgs ELSE 0

(* Every frame, the callers included and in the middle of any argument     *)
(* list, holds what its call passed from left to right, the missing        *)
(* arguments replaced by defaults, and what was assigned to it since; and  *)
(* between two statements nothing else is on the stack.                    *)
FramesExact ==
  /\ Idle => Len(stack) = Top.base + Width(Top)
  /\ \A k \in DOMAIN frames :
       \/ k = Len(frames) /\ Fetch("UNPACK")
       \/ k = Len(frames) /\ Len(frames[k].code) = 2 /\ frames[k].code[2].op = "UNPACK"
       \/ SubSeq(stack, frames[k].base, frames[k].base + Width(frames[k])) =
            <<frames[k].function>> \o meant.frames[k].params \o meant.frames[k].extras

(* An iterator shared by loops, unpackings and expansions gives each of    *)
(* them the elements it asks for, and loses none.                          *)
IteratorsExact == Idle => cursor = meant.taken
=============================================================================
