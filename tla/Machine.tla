------------------------------ MODULE Machine -------------------------------
(***************************************************************************)
(* The interpreter loop (run, src/elox/lib/vm.c) on the code that module   *)
(* Compiler produced: one stack of values, call frames that point into it, *)
(* closures, and upvalues that designate a stack slot until it dies and    *)
(* then hold the value themselves.                                         *)
(*                                                                         *)
(* A value is [inst, ver, clo]: clo says what it can be called as, and     *)
(* <<inst, ver>> is its identity: every execution of a declaration makes a *)
(* new variable inst, every assignment a new version.  memory is what the  *)
(* language promises each variable to hold; env, in frames and closures,   *)
(* is the variable that each declaration stands for there.  Neither is     *)
(* used by the machine: the properties compare them with what it does.     *)
(***************************************************************************)
EXTENDS Compiler, TLC

CONSTANT MaxFuel       \* bound: backward jumps and calls of one execution
ASSUME MaxFuelAssumption == MaxFuel \in Nat

VARIABLES frames, stack, openUpvalues, upvalues, closures, globals, memory, fuel

machine == <<frames, stack, openUpvalues, upvalues, closures, globals, memory, fuel>>
vars == <<comp, machine>>

Plain == [inst |-> 0, ver |-> 0, clo |-> 0]
NativeMethod == [Plain EXCEPT !.clo = -1]     \* hasNext or next, bound to an iterator
Function(k) == [Plain EXCEPT !.clo = k]

Frame == Last(frames)
Code(f) == comp.protos[f.proto].code
Fetch == Code(Frame)[Frame.pc]
Running == comp.status = "compiled" /\ frames # <<>>
At(op) == Running /\ Fetch.op = op

Top == stack[Len(stack)]
Drop(n) == SubSeq(stack, 1, Len(stack) - n)
Goto(pc) == [frames EXCEPT ![Len(frames)].pc = pc]
Advance == Goto(Frame.pc + 1)
Stop == frames' = <<>> /\ UNCHANGED <<stack, openUpvalues, upvalues, closures, globals, memory, fuel>>

(* slots[slot + postArgs * varArgs], as an index of the stack.             *)
Slot(f, ref) == f.base + ref.handle + (IF ref.post THEN f.va ELSE 0)
UpvalueOf(f, ref) == closures[f.clo].ups[ref.handle + 1]

Read(ref) ==
  CASE ref.scope = "LOCAL" -> stack[Slot(Frame, ref)]
    [] ref.scope = "UPVALUE" ->
         LET u == upvalues[UpvalueOf(Frame, ref)]
         IN IF u.open THEN stack[u.location] ELSE u.closed
    [] ref.scope = "GLOBAL" -> globals[ref.name]

(* A value pushed by an instruction that starts a variable is that variable. *)
Push1(s, i, v) ==
  LET new == [v EXCEPT !.inst = Len(memory) + 1, !.ver = 0]
  IN IF i.bind = 0
     THEN stack' = Append(s, v) /\ frames' = Advance /\ UNCHANGED memory
     ELSE /\ stack' = Append(s, new)
          /\ memory' = Append(memory, new)
          /\ frames' = [Advance EXCEPT ![Len(frames)].env = i.bind :> new.inst @@ @]

(* Assignment: a new version of the variable that the source names.        *)
Assigned(ref, v) ==
  IF ref.decl = 0 THEN v
  ELSE LET inst == Frame.env[ref.decl]
       IN [v EXCEPT !.inst = inst, !.ver = memory[inst].ver + 1]
Assign(s, ref, v) ==
  LET new == Assigned(ref, v)
      loc == IF ref.scope = "LOCAL" THEN Slot(Frame, ref)
             ELSE upvalues[UpvalueOf(Frame, ref)].location
      onStack == ref.scope = "LOCAL"
                 \/ (ref.scope = "UPVALUE" /\ upvalues[UpvalueOf(Frame, ref)].open)
  IN /\ stack' = IF onStack THEN [s EXCEPT ![loc] = new] ELSE s
     /\ upvalues' = IF ref.scope = "UPVALUE" /\ ~onStack
                    THEN [upvalues EXCEPT ![UpvalueOf(Frame, ref)].closed = new]
                    ELSE upvalues
     /\ globals' = IF ref.scope = "GLOBAL" THEN [globals EXCEPT ![ref.name] = new] ELSE globals
     /\ memory' = IF ref.decl = 0 THEN memory ELSE [memory EXCEPT ![new.inst] = new]

-----------------------------------------------------------------------------
Nil ==
  /\ At("NIL")
  /\ Push1(stack, Fetch, Plain)
  /\ UNCHANGED <<openUpvalues, upvalues, closures, globals, fuel>>

Undefined(ref) == ref.scope = "GLOBAL" /\ ref.name \notin DOMAIN globals

Get ==
  /\ At("GET") /\ ~Undefined(Fetch.ref)
  /\ Push1(stack, Fetch, Read(Fetch.ref))
  /\ UNCHANGED <<openUpvalues, upvalues, closures, globals, fuel>>

Set ==
  /\ At("SET") /\ ~Undefined(Fetch.ref)
  /\ Assign(stack, Fetch.ref, Top)
  /\ frames' = Advance
  /\ UNCHANGED <<openUpvalues, closures, fuel>>

UndefinedGlobal ==
  /\ At("GET") \/ At("SET")
  /\ Undefined(Fetch.ref)
  /\ Stop

DefineGlobal ==
  /\ At("DEFINE_GLOBAL")
  /\ globals' = Fetch.ref.name :> Top @@ globals
  /\ stack' = Drop(1) /\ frames' = Advance
  /\ UNCHANGED <<openUpvalues, upvalues, closures, memory, fuel>>

PopValues ==
  /\ At("POP")
  /\ stack' = Drop(Fetch.arg) /\ frames' = Advance
  /\ UNCHANGED <<openUpvalues, upvalues, closures, globals, memory, fuel>>

(* foreach stores the two methods of the iterator in its hidden locals.    *)
ForEachInit ==
  /\ At("FOREACH_INIT")
  /\ stack' = [Drop(1) EXCEPT ![Slot(Frame, Fetch.ref)] = NativeMethod,
                              ![Slot(Frame, Fetch.arg)] = NativeMethod]
  /\ frames' = Advance
  /\ UNCHANGED <<openUpvalues, upvalues, closures, globals, memory, fuel>>

Unpack ==
  /\ At("UNPACK")
  /\ Assign(Drop(1), Fetch.ref, Top)
  /\ frames' = Advance
  /\ UNCHANGED <<openUpvalues, closures, fuel>>

Jump ==
  /\ At("JUMP")
  /\ frames' = Goto(Fetch.arg)
  /\ UNCHANGED <<stack, openUpvalues, upvalues, closures, globals, memory, fuel>>

(* The condition, an unknown value, is either false or not.                *)
JumpIfFalse ==
  /\ At("JUMP_IF_FALSE")
  /\ frames' \in {Advance, Goto(Fetch.arg)}
  /\ UNCHANGED <<stack, openUpvalues, upvalues, closures, globals, memory, fuel>>

Loop ==
  /\ At("LOOP") /\ fuel < MaxFuel
  /\ fuel' = fuel + 1
  /\ frames' = Goto(Fetch.arg)
  /\ UNCHANGED <<stack, openUpvalues, upvalues, closures, globals, memory>>

-----------------------------------------------------------------------------
(* Upvalues.  openUpvalues lists the open ones, highest stack slot first.  *)

Location(u, ups) == ups[u].location
FirstNotAbove(open, ups, loc) ==
  CHOOSE k \in 1..(Len(open) + 1) :
    /\ \A i \in 1..(k - 1) : Location(open[i], ups) > loc
    /\ k <= Len(open) => Location(open[k], ups) <= loc

(* Mutant: every closure gets an upvalue of its own. *)
CaptureUpvalueUnshared(acc, loc) ==
  LET u == Len(acc.upvals) + 1
  IN [open |-> InsertAt(acc.open, FirstNotAbove(acc.open, acc.upvals, loc), u),
      upvals |-> Append(acc.upvals, [open |-> TRUE, location |-> loc, closed |-> Plain]),
      ups |-> Append(acc.ups, u)]

CaptureUpvalue(acc, loc) ==
  LET k == FirstNotAbove(acc.open, acc.upvals, loc)
      found == k <= Len(acc.open) /\ Location(acc.open[k], acc.upvals) = loc
      u == Len(acc.upvals) + 1
  IN IF found THEN [acc EXCEPT !.ups = Append(@, acc.open[k])]
     ELSE [open |-> InsertAt(acc.open, k, u),
           upvals |-> Append(acc.upvals, [open |-> TRUE, location |-> loc, closed |-> Plain]),
           ups |-> Append(acc.ups, u)]
(* The open upvalues at last and above take the values and leave the list. *)
CloseUpvalues(last) ==
  LET k == CHOOSE n \in 0..Len(openUpvalues) :
             /\ \A i \in 1..n : Location(openUpvalues[i], upvalues) >= last
             /\ n < Len(openUpvalues) => Location(openUpvalues[n + 1], upvalues) < last
      closing == {openUpvalues[i] : i \in 1..k}
  IN /\ openUpvalues' = SubSeq(openUpvalues, k + 1, Len(openUpvalues))
     /\ upvalues' = [u \in DOMAIN upvalues |->
                       IF u \in closing
                       THEN [upvalues[u] EXCEPT !.open = FALSE, !.closed = stack[Location(u, upvalues)]]
                       ELSE upvalues[u]]

(* CLOSURE; a function without upvalues is a constant.                     *)
MakeClosure ==
  /\ At("CLOSURE") \/ At("CONST")
  /\ LET capture(acc, u) ==
           IF u.isLocal THEN CaptureUpvalue(acc, Frame.base + u.index)
           ELSE [acc EXCEPT !.ups = Append(@, closures[Frame.clo].ups[u.index + 1])]
         r == FoldLeft(capture, [open |-> openUpvalues, upvals |-> upvalues, ups |-> <<>>],
                       comp.protos[Fetch.arg].upvalues)
     IN /\ closures' = Append(closures, [proto |-> Fetch.arg, ups |-> r.ups, env |-> Frame.env])
        /\ openUpvalues' = r.open /\ upvalues' = r.upvals
        /\ Push1(stack, Fetch, Function(Len(closures) + 1))
  /\ UNCHANGED <<globals, fuel>>

CloseUpvalue ==
  /\ At("CLOSE_UPVALUE")
  /\ CloseUpvalues(Len(stack))
  /\ stack' = Drop(1) /\ frames' = Advance
  /\ UNCHANGED <<closures, globals, memory, fuel>>

-----------------------------------------------------------------------------
(* Calls.                                                                  *)

Callee == stack[Len(stack) - Fetch.arg]

(* The number of arguments left on the stack by adjustArgs, and varArgs.   *)
StackArgs(f, argc) ==
  IF argc < f.arity THEN f.arity
  ELSE IF f.varargs THEN argc ELSE f.arity
VarArgs(f, argc) == Max({argc, f.arity}) - f.arity

AdjustArgs(f, argc) ==
  IF argc < f.arity THEN stack \o [i \in 1..(f.arity - argc) |-> Plain]
  ELSE Drop(argc - StackArgs(f, argc))

CallFunction ==
  /\ At("CALL") /\ Callee.clo > 0 /\ fuel < MaxFuel
  /\ LET clo == closures[Callee.clo]
         f == comp.protos[clo.proto]
         argc == Fetch.arg
         adjusted == AdjustArgs(f, argc)
         base == Len(adjusted) - StackArgs(f, argc)
         param(i) == [Plain EXCEPT !.inst = Len(memory) + i]
     IN IF "extraArgs" \in Avoid /\ argc > f.arity /\ ~f.varargs THEN Stop
        ELSE /\ fuel' = fuel + 1
             /\ stack' = [k \in DOMAIN adjusted |->
                            IF k \in (base + 1)..(base + f.arity) THEN param(k - base)
                            ELSE adjusted[k]]
             /\ memory' = memory \o [i \in 1..f.arity |-> param(i)]
             /\ frames' = Append(Advance,
                  [proto |-> clo.proto, pc |-> 1, base |-> base, va |-> VarArgs(f, argc),
                   clo |-> Callee.clo,
                   env |-> [d \in {f.locals[i + 1].decl : i \in 1..f.arity} |->
                              Len(memory) + CHOOSE i \in 1..f.arity : f.locals[i + 1].decl = d]
                           @@ clo.env])
             /\ UNCHANGED <<openUpvalues, upvalues, closures, globals>>

CallNative ==
  /\ At("CALL") /\ Callee = NativeMethod
  /\ stack' = Append(Drop(Fetch.arg + 1), Plain)
  /\ frames' = Advance
  /\ UNCHANGED <<openUpvalues, upvalues, closures, globals, memory, fuel>>

CallNonFunction == At("CALL") /\ Callee.clo = 0 /\ Stop

OutOfFuel == Running /\ Fetch.op \in {"LOOP", "CALL"} /\ fuel = MaxFuel /\ Stop

Return ==
  /\ At("RETURN")
  /\ CloseUpvalues(Frame.base)
  /\ stack' = Append(SubSeq(stack, 1, Frame.base - 1), Top)
  /\ frames' = Front(frames)
  /\ UNCHANGED <<closures, globals, memory, fuel>>

-----------------------------------------------------------------------------
Init ==
  /\ CompilerInit
  /\ frames = <<>> /\ stack = <<>> /\ openUpvalues = <<>> /\ upvalues = <<>>
  /\ closures = <<>> /\ globals = <<>> /\ memory = <<>> /\ fuel = 0

Compile == CompilerNext /\ UNCHANGED machine

(* interpret pushes the script and calls it.                               *)
Interpret ==
  /\ comp.status = "compiled" /\ frames = <<>> /\ stack = <<>>
  /\ stack' = <<Plain>>
  /\ frames' = <<[proto |-> Len(comp.protos), pc |-> 1, base |-> 1, va |-> 0, clo |-> 0,
                  env |-> <<>>]>>
  /\ UNCHANGED <<openUpvalues, upvalues, closures, globals, memory, fuel>>

Instruction ==
  \/ Nil \/ Get \/ Set \/ UndefinedGlobal \/ DefineGlobal \/ PopValues
  \/ ForEachInit \/ Unpack \/ Jump \/ JumpIfFalse \/ Loop
  \/ MakeClosure \/ CloseUpvalue
  \/ CallFunction \/ CallNative \/ CallNonFunction \/ OutOfFuel \/ Return

Execute == (Interpret \/ Instruction) /\ UNCHANGED comp

(* The program has run, or was rejected.                                   *)
Done ==
  /\ \/ comp.status \in {"rejected", "excluded"}
     \/ comp.status = "compiled" /\ frames = <<>> /\ stack # <<>>
  /\ UNCHANGED vars

Next == Compile \/ Execute \/ Done
Spec == Init /\ [][Next]_vars

-----------------------------------------------------------------------------
(* Every frame lies in the stack, every closure has as many upvalues as    *)
(* its function declares, and the statuses are those of the compiler.      *)
TypeOK ==
  /\ comp.status \in {"parse", "compiled", "rejected", "excluded"}
  /\ comp.loop.level <= Len(comp.funs)
  /\ \A i \in DOMAIN frames : frames[i].pc \in DOMAIN Code(frames[i]) /\ frames[i].base <= Len(stack)
  /\ \A k \in DOMAIN closures :
       /\ Len(closures[k].ups) = Len(comp.protos[closures[k].proto].upvalues)
       /\ Range(closures[k].ups) \subseteq DOMAIN upvalues
  /\ fuel \in 0..MaxFuel

(* Whether ref, at the instruction about to run, is the current variable   *)
(* that the scoping rules name: the place it designates exists and holds   *)
(* what that variable was last given.                                      *)
Designates(ref) ==
  IF ref.scope = "GLOBAL" THEN ref.decl = 0
  ELSE /\ ref.decl \in DOMAIN Frame.env
       /\ CASE ref.scope = "LOCAL" -> Slot(Frame, ref) \in 1..Len(stack)
            [] ref.scope = "UPVALUE" ->
                 LET u == upvalues[UpvalueOf(Frame, ref)]
                 IN u.open => u.location \in 1..Len(stack)
       /\ Read(ref) = memory[Frame.env[ref.decl]]

(* Every access reaches the variable that lexical scoping names for it in  *)
(* this activation: through slots after variadic arguments, captured       *)
(* variables shared by closures before and after they leave the stack,     *)
(* fresh variables in each turn of a loop and each recursive call.         *)
LexicalAccess ==
  (Running /\ Fetch.op \in {"GET", "SET", "UNPACK"} /\ ~Undefined(Fetch.ref))
    => (Fetch.ref.name = "" \/ Designates(Fetch.ref))

(* Where a statement starts, the stack of the frame holds the locals that  *)
(* the compiler counts there and the variadic arguments, and nothing else, *)
(* whatever breaks, continues and returns led there.                       *)
StatementHeight ==
  Running =>
    \A m \in comp.protos[Frame.proto].marks :
      m.pc = Frame.pc => Len(stack) = Frame.base + m.n - 1 + Frame.va

(* The open upvalues are in strictly descending order of their slots (so   *)
(* that two closures over one variable share it and closing can stop       *)
(* early), all of them in the stack; the closed ones are not in the list.  *)
OpenInOrder ==
  /\ \A i, j \in DOMAIN openUpvalues :
       i < j => upvalues[openUpvalues[i]].location > upvalues[openUpvalues[j]].location
  /\ frames # <<>> => \A i \in DOMAIN openUpvalues : upvalues[openUpvalues[i]].location <= Len(stack)
  /\ Range(openUpvalues) = {u \in DOMAIN upvalues : upvalues[u].open}
=============================================================================
