# eLox in TLA+

Specifications of [eLox](../src/README.md), a bytecode compiler and interpreter in C: the scanner, the
compiler's treatment of variables and jumps, the interpreter loop with closures and calls, classes, modules,
exceptions, arrays, maps, hash tables, string interning and the garbage collector, model-checked with TLC;
and machine-checked proofs (TLAPS) that the collector is safe and precise, that hash tables are maps, the maps of a
program ordered maps and arrays lists, that interning gives one object per content, that each finally block runs
exactly once, and that instanceof is the subtype relation.

Every module is translated from the C source. Comments in the modules name the function a definition
stands for; `PROJECT.json` gives the lines of each, the mutants (what a plausible bug would change, and the
property that notices), the hazards of the code and the properties that cover them.

## 1. The system

eLox compiles a script to bytecode and interprets it. One OS thread runs everything. What makes it hard
to test is not parallelism but *re-entrancy*, *failure* and *agreement between phases*:

- any allocation may start a collection, in the middle of any operation on any structure;
- any allocation may fail, and the code is meant to turn that into an exception (`README.md`:
  "Throw exception instead of aborting when out of memory (WIP)");
- native functions, `equals`/`hashCode` of map keys, iterators, module loading and finally blocks
  re-enter `run()` recursively;
- the compiler decides in one pass, without a tree, at which distance from the frame every variable will be,
  what is on the stack where a jump lands, and by which number a method reaches a member of a class it does
  not know yet; the interpreter follows without checking;
- the tables rely on address identity, on probe sequences without holes and on counters that several
  functions maintain together.

| Component | State | Operations | Talks to | What makes it correct |
|---|---|---|---|---|
| Scanner (`scanner.c`) | position, line, stack of open f-strings | `scanToken` and all it calls | compiler | longest match; nothing skipped but blanks and comments; f-strings nest |
| Compiler (`compiler.c`) | one `Compiler` per open function; loops, pending breaks, pending class members | one function per construct | scanner; VM (constants, global slots) | an access designates the variable its scope names; a jump lands on the stack it expects |
| Interpreter, frames, stack (`vm.c`) | frame list, value stack | `run`, call, return, argument adjustment, expansion | everything | arguments where the callee looks; the caller's stack unharmed |
| Upvalues (`vm.c`) | sorted list of open upvalues | capture, close | stack | a variable is shared by its closures, before and after its block ends |
| Exceptions (`vm.c`, `compiler.c`) | handler stack of each frame, `handlingException` | `THROW`, `propagateException`, `PUSH_EXH`, `UNROLL_EXH`, `runtimeError` | frames, nested `run()`, natives | each finally once, the innermost match catches |
| Classes (`vm.c`, `object.h`) | method and field tables, type displays, member references | inherit, define, close, instanceOf | tables, compiler's pending members | instanceof is the subtype relation; a number designates the member its name names |
| Modules (`vm.c`, `loader.c`) | `vm->modules`, global slots | import, loaders | compiler, nested `run()` | a module runs once; imports see what was defined |
| Arrays (`array.c`, `object.c`) | items, size, capacity, `modCount`; iterators | append, remove, slice, iterate | allocation | a list; iterators skip and repeat nothing |
| HashMap (`ValueTable.c`, `builtins.c`) | chains, entries in insertion order, counters, `modCount`; iterators | put, get, remove, iterate | `equals`/`hashCode` of the program; allocation | insertion order; iterators skip and repeat nothing |
| Table (`table.c`) | entries array, count | get, set, set-if-missing, delete, find-string, remove-white | globals, fields, methods, modules, interning | answers as a map; probes end; count exact |
| Interning (`object.c`) | `vm->strings` (weak) | `copyString`, `takeString`, `allocateString` | Table, collector | one live object per text |
| Garbage collector (`memory.c`) | object lists, marker bits, gray stack with overflow flag, `bytesAllocated`, `nextGC` | `reallocate`, `markObject`, `markRoots`, `traceReferences`, `slowTraceReferences`, `sweep` | everything allocates; roots; `vm->strings` | reachable objects survive, unreachable ones go, no marks left, every collection ends |
| Embedding (`elox.c`, `handleSet.c`) | handle list, run contexts | create, call, release | collector (roots) | no use after release (not modelled) |
| Formatting, patterns, debug output | | | | not modelled |

## 2. The modules

```
ManagedHeap   <--implements--  Gc            <--extends--  GcProofs             MCGc
AbstractMap   <--implements--  Table         <--extends--  TableProofs          MCTable
                               StringIntern  <--extends--  StringInternProofs   MCStringIntern
AbstractList  <--implements--  Arrays        <--extends--  ArraysProofs         MCArrays
                               Exceptions    <--extends--  ExceptionsProofs     MCExceptions
                               Classes       <--extends--  ClassesProofs        MCClasses
OrderedMap    <--implements--  ValueTable    <--extends--  ValueTableProofs     MCValueTable
                               Machine   --extends-->  Compiler                 MCMachine
                               Expansion    Modules    Scanner                  MC modules of these names

Table, StringIntern --extend--> HashTable <--extends-- HashTableProofs
TableProofs, StringInternProofs --extend--> HashTableProofs
```

**Scanner** is `scanToken` as one action, on a source that is a sequence of characters. A token is the stretch of
source it was read from. `fStrings` is the stack that tells what a closing brace continues.

**Compiler** is the one-pass compiler restricted to what decides where variables live: `comp.funs` are the nested
`Compiler` records with their locals, upvalues and code; `comp.loop`, `comp.breaks` are the `innermostLoop` and
`breakJumps` of the `CompilerState` that all functions share. One action reads one statement, or returns to the
caller waiting on `comp.parse`, which stands for the C stack of the recursive descent. Beside what the code does, every
access carries the declaration that the scoping rules name, found independently through a list of scopes.
**Machine** is `run` on the resulting code: values, frames, closures, open and closed upvalues. A variable is
identified by the execution of its declaration, a value by the variable and the assignment that wrote it, so that
reading the wrong slot, or the right slot of another activation, is seen whatever the values. Part of the state
(`memory`, the `env` of frames and closures) is only what the language promises, to compare with. The composition
is what matters: neither the compiler's slots nor the interpreter's stack is right or wrong alone.

**Expansion** has the rest of a call: argument lists with `..e` and `...`, where the number of pushed arguments is
itself a value on the stack that `SWAP` keeps on top; `adjustArgs` with defaults and variable arguments; unpacking; `foreach`.
Frames suspended in the middle of an argument list stay below the frames they call, so that what one call leaves
behind shows in its caller. The machine takes elements one by one with `HasNext` and `NextOf`, as the loops of `expand` and `doUnpack`
do; what the program means by them (`meant`) is stated with whole sequences, `Expanded` and `Rest`.

**Classes** runs declarations: the numbering of `this` and `super` members by the compiler, then INHERIT, FIELD,
METHOD, ABS_METHOD and CLOSE_CLASS, one action each, and `instanceof` between any two declarations, with its cache.
A template that is executed twice makes two classes whose methods share one function object.

**Modules** is `import` with the three loaders and their search paths, bodies that define, read, set, throw and import,
each guarded by a try or not; a native module registers its symbols and returns, or raises after some of them; the slots of all global variables are shared, keyed by name and module.

**Exceptions** keeps for each frame its `handlerStack` and, beside it, where the frame is (`pos`, the regions
of try statements around its ip), which the code has only implicitly, in the instruction pointer. What a program may do is guarded
by `pos` alone, never by the handler stack, which the flaw of section 5 leaves stale. `calls` is
the C stack of `propagateException` and `unrollExceptionHandlerStack`, each of which runs finally blocks in a
nested `run()`. The script is arbitrary within what the compiler accepts: break and continue do not leave
a finally block (`compiler.c:2208`, `2245`). With "outerHandler" in the constant `Avoid`, the guard `ActsAlone` leaves
out what follows when an exception has passed the inner handlers of a frame and an outer one acts on it.

**Arrays** has the block of cells behind arrays and tuples, slices, several iterators at once and removal through
them or behind them. It implements **AbstractList**, in which an iterator is the list of elements it has still to visit.
**ValueTable** is the deterministic hash table of the HashMap class with one iterator; it implements
**OrderedMap** up to the first step whose effect C leaves undefined (`undefined`), after which nothing happens. `chains`
and `entries` are the two arrays of the C struct, and a chain is followed through `next` as `lookup` does; `Moved` is the
loop of `rehash`, one entry per step. `Fits` bounds the index by the number of hashes (2^32 in the code, where
the allocation fails long before).

**HashTable** holds the algorithms of `table.c` as operators on an entries array: probing, insertion, rehash,
deletion by shifting back, removal of unmarked strings. The multiplied hash of a key is a number below
`HashRange` whose top bits select the slot, as Fibonacci hashing does. **Table** is the state machine of one
table; it implements **AbstractMap**. `SetIfMissingUngrown` is the insertion after a growth that failed and was not
noticed. **StringIntern** runs `copyString`/`takeString` over `vm->strings` with a collection possible at each
allocation. `text[o]` outlives the object, as freed memory does, so that a stale entry can be seen.

**ManagedHeap** is what the memory manager promises: allocation, linking, and a `Collect` that in one step
removes exactly what no root reaches. **Gc** is `memory.c`, one step per object marked, blackened or swept. `black`
and `gray` are the marker bits, `grayStack`, `grayCapacity`, `grayOverflow` the fields of the VM, `work` the fields
the loop in progress has still to mark, `scan` the part of the object list still to visit. The growth
of the gray stack may fail at any push; the collector then rescans the list (`SlowVisit`, `SlowAgain`)
until a walk meets nothing gray. The mutator is any program that works through rooted objects. The fields that
`blackenObject` marks are one set per object, whatever its type; blocks have weight one.

## 3. The runs

| Run | Bounds | Shows |
|---|---|---|
| `scanner_tokens` | all sequences of up to 5 string pieces; f-strings nested below and past a limit of 3; escapes, numbers, operators, comments of up to 6 characters | `MaximalMunch`, `Tiling` (nothing but blanks between tokens, right lines), `FStringNesting` |
| `machine_scopes` | 4284 programs of three sketches: closures in blocks, in loops, in a recursive function, with all combinations of their parts; 4 backward jumps and calls | `LexicalAccess`, `StatementHeight`, `OpenInOrder` |
| `expansion_lists` | 10 argument lists, a plain and a variadic function, 3 frames, 3 variable arguments, an iterator of 3 elements shared by all | `FramesExact`, `IteratorsExact` |
| `classes_dispatch` | two interfaces and three classes out of seven templates, in any inheritance, with and without variable arguments; chains of six classes over a display of 2, 2 cached tests | `SubtypeExact`, `DispatchExact`, `FieldLayout` |
| `modules_import` | two modules of up to 2 statements that import each other, a native one that returns and one that raises, one that does not compile; all search paths of up to 5 characters; up to 3 loaders | `ModuleOnce`, `ImportComplete`, `ProgramEnds` |
| `exceptions_flat` | 2 kinds of try statement, 2 exceptions, 4 frames, handler stack of 2 | finally once (`FinallyAtMostOnce`) and never skipped (`FinallyNotSkipped`), `CatchExact`, `HandlersMirror` |
| `arrays_list` | 2 values, 2 arrays of up to 3 elements, 2 iterators, 2 changes | implements AbstractList, `CursorInside`, the block is not left (in `TypeOK`) |
| `valuetable_map` | 3 keys, 2 values, index 4 and 8, 7 modifications | implements OrderedMap, `ChainsExact` |
| `table_map` | 7 keys, 2 values for one of them, capacity from 4 | implements AbstractMap, `Findable`, exact count (in `TypeOK`) |
| `intern_safety` | 4 texts, 4 addresses, capacity 4 and 8 | held strings are intact, unique and findable |
| `gc_safety` | 3 collected objects, 1 permanent, gray stack from capacity 1, 5 allocations | `NoDangling`, `CleanBetween`, `PreciseInv`, implements ManagedHeap, `CollectionShrinks` |
| `exceptions_nested` | as `exceptions_flat`, with `Avoid` empty | a disagreement, section 5 |

Why the bounds are enough. Three objects make a chain that a gray stack of one cannot hold, and make the
slow trace walk the list more than once with a gray object behind the walk. The keys of a table hash to its
last slots, with one that lives where their cluster wraps to, which forces every case of the shifting deletion;
the table grows while they are inserted. The map's hashes put three keys on one chain, of which one parts
when the table grows. Four frames hold a native called by a native, and a script function below and above.
Six classes go four levels below a display of two, where `inherit` moves supertypes into a list, and two cached
tests are enough for one to replace the other. Two modules make every cycle; a search path of five characters
holds an empty element, white space in front of an element and a second element. The programs of `machine_scopes` have two closures over one
variable, closures over a closure's upvalue, a variable shadowed by another, a slot reused after its block,
and frames above and below. The argument lists hold each kind of argument before, between and after expansions.

Constraints. Each names a construct on which the code is known to go wrong, or an input left out:

- `intern_safety`: not past a state in which `tableRemoveWhite` has left a stale entry (`NoStaleEntry`).
- `exceptions_flat`: not past an exception that goes from the inner handler of a frame to an outer one of that
  frame that acts on it (`Avoid`, `ActsAlone`): that is `exceptions_nested`. Between frames it is followed
  everywhere. Only the first frame nests its try statements (`ShallowCalls`), up to and beyond the size of its
  handler stack. No exception and no return leaves a finally block, since the interpreter then re-enters the
  same block without end: an exception is raised inside one only where the source has, between the finally block and the
  instruction, a try statement that catches it (`StaysInside`). The regions of the source decide, not the handlers on the stack,
  which may be stale; the same holds in `exceptions_nested`.
- `machine_scopes`: `Avoid` leaves out break and continue out of the scope of a captured variable
  (`capturedBreak`), break, continue and patched jumps across a function boundary (`sharedLoop`), capturing a
  local behind variable arguments (`postCapture`), and more arguments than a function without `...` has
  parameters (`extraArgs`).
- `arrays_list`: `Avoid` leaves out growth of a block and slices that end above the array.
- `classes_dispatch`: no field is declared again below, no two interfaces declare one name, no abstract class
  extends an abstract one, a template executed twice extends the same class both times; a method that
  implements a declaration has one parameter fewer than it, which is what the recorded arities require.
- `modules_import`: elements of a search path do not end in white space.
- `scanner_tokens`: no two stars in a row in a block comment, no new line inside a string, no braces of
  a map in an interpolated expression; ASCII. These are cases in which the tokens are not the intended ones.
- `table_map`: one key has two values (`OneChanges`); values play no part in the algorithms.
- `gc_safety`: permanent objects are not stored into (the theorems hold for those that the trace visits).
- `expansion_lists`: iterators do not raise exceptions; unpacking assigns to parameters.

Deadlock is not checked in `exceptions_flat`, `exceptions_nested`, `valuetable_map`, `scanner_tokens` and
`classes_dispatch`: a program, a source or a list of declarations ends, and nothing is claimed after an
undefined step.

Fairness and termination. Only `Modules` assumes fairness: weak fairness of its next step, which is
the loop of the interpreter in the only thread. Under it every program ends, cycles of imports included
(`ProgramEnds`). That every collection ends needs no fairness: `CollectionShrinks` says that each step of one
lowers a measure in a well-founded order (lexicographic, of five natural numbers), and since deadlock is checked, a
collection that has begun always has a next step.

## 4. The proofs

Each theorem holds for every value of the constants that the assumption in its module allows.

| Module | Theorem | Statement |
|---|---|---|
| `GcProofs` | `TypeCorrect`, `Safety` | `Spec => []TypeOK`, `Spec => []NoDangling` |
| | `MarksReset`, `Precision` | `Spec => []CleanBetween`, `Spec => []PreciseInv` |
| | `Refinement` | `Spec => ImplementsManagedHeap` |
| | `CollectionEnds` | `Spec => CollectionShrinks` |
| `HashTableProofs` | `DeleteAtSound`, `RehashSound`, `RemoveWhiteSound` | deletion, growth and the removal of unmarked keys leave an array in order and store what they should |
| `TableProofs` | `TableTypes`, `AlwaysFindable` | `Spec => []TypeOK`, `Spec => []Findable` |
| | `Refinement` | `Spec => ImplementsMap` |
| `StringInternProofs` | `InternTypes`, `StringsIntact`, `OneObjectPerText` | `Spec /\ []NoStaleEntry => []TypeOK`, the same for `HeldIntact`, `Interned` |
| `ArraysProofs` | `BlocksSound`, `CursorsInside` | `Careful` gives `Spec => []TypeOK`, `Spec => []CursorInside` |
| | `ArraysAreLists` | `Careful` gives `Spec => IsList` |
| `ExceptionsProofs` | `ExceptionTypes`, `FinallyOnce`, `MirrorsSource` | `Careful` gives `Spec => []TypeOK`, `[]FinallyAtMostOnce`, `[]HandlersMirror` |
| | `FinallyAlways`, `CatchesExact` | `Careful` gives `Spec => FinallyNotSkipped`, `Spec => CatchExact` |
| `ValueTableProofs` | `ValueTableTypes`, `ChainsPartition` | `Spec => []TypeOK`, `Spec => []ChainsExact` |
| | `MapRefinement` | `Spec => ImplementsOrderedMap` |
| `ClassesProofs` | `ClassTypes`, `InstanceOfExact` | `Spec => []TypeOK`, `Spec => []SubtypeExact` |
| | `FieldsLaidOut` | `Spec => [](Unshadowed /\ Unrepeated => FieldLayout)` |
| | `MembersDispatched` | `Spec => [](Unshadowed /\ Unrepeated /\ Steady => DispatchExact)` |

**Assumptions.** `GcAssumption`: the two heaps are disjoint, `None` is no object, numbers are naturals.
`HashAssumption`: the number of hashes and the first capacity are powers of two (stated as divisibility), as in the
code; `TableAssumption` and `InternAssumption`: a hash is one of them, `NULL` is no key and no address, there is a
content. `ValueTableAssumption`: the number of hashes and the first index are powers of two, the first is at least 2 (8 in the
code; below that a new table would have no room for an entry), and no key or value is `Missing`. `ArrayAssumption`, `ExceptionsAssumption`: bounds are naturals, clauses match classes.
`ClassAssumption`: the display has room for one class. `TemplateAssumption`: the body of an interface declares methods only, and only methods have code that refers to members,
as the compiler ensures. `RunAssumption`: a declaration extends a class and implements interfaces that were declared before it, which is
what INHERIT accepts; programs, chains and displays are otherwise of any size.

**Hypotheses.** Four modules are proved for the programs on which the code is right, and each hypothesis names the flaw it
leaves out (section 5); the runs have the same restriction. `Careful` in `ArraysProofs` is `Avoid = {"growth", "longSlice"}`:
`appendToArray` writes past a block it has grown, `computeSlice` reads past one. `Careful` in `ExceptionsProofs` is
`Avoid = {"outerHandler"}`: without it `FinallyAtMostOnce` is false, which `exceptions_nested` shows. `[]NoStaleEntry` in
`StringInternProofs`: after `tableRemoveWhite` has missed an entry, the table refers to a freed block. `Unshadowed /\ Unrepeated` in
`ClassesProofs`: no class that is closed declares a field which a class above it or the class itself has declared before. The code means to
refuse the first and does not (section 5); nothing looks for the second. Only the layout of fields and what reaches them depends on
them. `Steady`, for `MembersDispatched` alone: two closed classes made by one template extend one class; otherwise the
function objects that they share hold the offset of the later one (section 5).

**Collector.** `NoDangling` alone is not inductive: it says nothing of a collection under way. The invariant proved is
`TypeOK /\ CleanBetween /\ MarkInv`, and `MarkInv` has four parts: what the mutator and the walks may touch is
allocated (`AliveInv`); the tri-colour invariant, a black object that is no longer gray refers only to black
objects or to those about to be marked (`ColourInv`); no gray object is forgotten, being on the gray stack or,
after an overflow, ahead of the list walk unless `haveGray` promises another one (`GrayInv`); and what the
sweep keeps is closed under references (`SweepInv`). One lemma per action shows that it is preserved. At the
end of the trace nothing is gray, hence the black objects contain the roots and are closed, hence they contain
everything reachable; `PreciseInv` gives the other inclusion, so that the objects kept are exactly the
reachable ones. That equality is the step of `TraceDone` in the refinement, where the abstract collection
takes place; every step of the sweep is a stutter. For `CollectionEnds` the measure is unfolded phase by phase.

**Tables.** An array is `Sound` when it has its type, no key twice, and no empty slot between the natural slot of an
entry and the entry, along the ring. With one empty slot left, a probe then stops at the key or at the first
empty slot (`FindPresent`, `FindAbsent`, both from `ProbeFinds`), and every operation is described by what it does to
`Content`, the set of entries, whatever the slots. The hard one is the deletion: its loop invariant (`Shifting`) says
that the array with the hole filled would be sound, and that the entries between the first hole and the place
reached do not need the hole; `ShiftStep` is one turn of the loop. The invariant of `Table` adds that `count` is the number of entries
and less than the capacity, which is what makes every probe end. Loops over an array are recursive functions on an interval of
numbers; `MovedDef`, `ShiftedDef` and `SweptDef` unfold them, and `NatInd` is the induction, on sets of numbers.

**Maps.** `ChainsExact` speaks of walks along the chains, which an insertion or a rehash changes all at once. The invariant has instead an
owner for each entry, the chain it is on (`Owned`): a chain starts at the last of its entries, each links to the one before it of
the same owner, and none is left out between them; a live entry is owned by the bucket of its key, a deleted one stays where it
was. So a step has only to say who owns the new entry (`InsertSound`), and a deletion or a new value leaves the owners alone
(`ChangeSound`). What a walk finds then follows by recursion along a chain, which goes down (`DownEnds`): it visits the entries of its
owner and no other (`LinkedExact`), and ends at the entry of the key if it is there (`SeekExact`, `LookupExact`). For the refinement, `Listed` is the
list of live entries, built entry by entry; `Numbered` says that each stands in it once, behind those before it, so that an
insertion appends, a deletion closes the gap (`ListedWithout`), a rehash changes nothing (`RehashSound`), and the iterator, which
knows an index of the array, stands where OrderedMap has it, however many deleted entries it skips (`GetNextFacts`).

**Interning.** Beside `Sound` for the hashes cached in the strings: no two strings of the table have the same content, what the
program holds is live and in the table, and between the lookup of a content and its insertion no string of the table
has it (`Pending`), which is where a collection or a failure of an allocation could come in. An object that is allocated
changes a content and a hash, but those of no string of the table, as it has no stale entry (`HashElsewhere`).

**Arrays.** The cells of a block below `size` hold values and `size` never passes the capacity; an iterator never knows
a later `modCount` than its array, and one that knows the same has its cursor inside and `lastRet` just behind
it. The second is needed since a removal moves the array below iterators that will find out only later. For the
refinement, an abstract list is the sequence of the values below `size`, and an iterator the values above its cursor;
each operation is shown to be the one of AbstractList.

**Exceptions.** `FinallyAtMostOnce` says nothing of why a handler that has run is not visited again: that depends on
the C calls that wait below. The invariant relates the three stacks. `FramesSound`: the handlers of a frame are the regions around its
ip, in the same order, each knowing the regions around it. `WaitsSound`: each C call that waits stands at a handler whose finally block
has run once; the handlers they stand at come in strictly increasing order, by frame and by level; and there is no other
handler whose finally block has run, but for those the propagation in progress has just passed. `AtWork`, `AtEnd`: what the call in progress
has passed and what it has still to visit. `Aimed`: an exception raised below a waiting propagation is caught above the finally block
that propagation runs, so that no propagation passes another one. The last states the restriction to exceptions that stay in
finally blocks (`StaysInside`) in a form that is preserved as handlers come and go: `StaysInside` speaks of the source, and
`InsideCaught` shows by `FramesSound` that a handler then catches. `FinallyNotSkipped` and
`CatchExact` then follow step by step from the invariant.

**Classes.** `SubtypeExact` speaks of classes that are closed; the next one is built from what INHERIT copies of them. `IInv` says of every
class whose INHERIT has been executed: its display holds, below `DisplaySize`, exactly the classes of its line that have such an offset, each at
it (`DisplayExact`); its list holds exactly the classes above it without one and the interfaces of its line (`ListExact`); its depth is
its offset or, once the display is full, no less than `DisplaySize` and no more than two above, where the copy of the display overwrites
it (`Display`), so that it never falls back under the size; and the cache holds nothing or a member of the list. Each member
of the line is found in one place, and a cached answer is one the list gives. The line of a class is a recursive function on the order of declaration
(`LineDef` unfolds it); `SupertypesRange` says what the loop over the interfaces collects. `RefInv` adds, for `TypeOK`, that the references of a class begin with those of its superclass, all resolved,
and that an override changes their values only. `FieldInv` counts the fields executed so far (`SoFar`) on top of those above
the class: names to numbers is a bijection to the numbers below their count, and extends that of every class above.

`DispatchExact` speaks of the classes above, the class an instance has, and the one that the function object refers to, and of numbers
that the compiler gave to properties. Its invariant, `DispatchInv`, has four more parts. `MethodInv`: what a method table holds
for a name is the definition of the nearest class that has executed one (`NearestOK`), or a descriptor as long as there is
none; and whatever abstract member has been executed above has an entry with its prototype (arity and variable arguments), which every override must match
(`PrototypesOK`), so that a class closed without descriptors has them all. `SlotInv`: in every class `k` below `a`, the
slot of the j-th property of `a` holds what the code of `a` expects: the method of the superclass of `a`, a field of `a`, or the method that
`k`, not `a`, has by that name. INHERIT copies slots, CLOSE_CLASS fills those of the class itself, and METHOD must replace those with
the old method and no other, which holds since entries with different names are different methods (`MethodSlots`).
`CodeInv`: a function object knows a class made by its template, and its offset. `GrowInv`: the fields of a class are a
function of its template and the fields of its superclass, so that with `Steady` the class that the function object knows has the layout
of the one that declares the method. `PendingCovers` and `SlotFound` say that each reference has a number, and its own.

## 5. Disagreements with the code

One is a run: `exceptions_nested` checks `FinallyAtMostOnce`, which TLC refutes: when an outer try of a function
catches, the inner ones stay on the handler stack and their finally blocks run again. The shortest trace nests two
statements, throws in the catch clause of the inner one, runs its finally block, catches in the outer one, and throws in that
catch clause (leaving it does as well): the inner finally block, long left, runs again. No finally block of the trace throws. `PROJECT.json` quotes the lines.

The others are cases that the constraints above leave out, or where a module ends. They were met while
translating; the module named has the step, or excludes it by name:

| Where | What the code does | Module |
|---|---|---|
| `vm.c:2848` | the stack trace stored into the permanent `oomError` instance is freed while a handler can read it | Gc, `StorablePerm` |
| `table.c:105` | `tableSetIfMissing` goes on in an array that could not grow, until it is full and a probe for a missing key cannot end | Table, `SetIfMissingUngrown` |
| `table.c:206` | the removal of unmarked strings misses one that its own deletion shifts into the slot just freed, such as the next one of a cluster: the scan has passed that slot | StringIntern, `NoStaleEntry` |
| `ValueTable.c:109` | rehash in place increments the table pointer in the place of its index | ValueTable, `undefined` |
| `vm.c:786` | an exception below a native frame makes `getStackTrace` read through a NULL function | Exceptions, `crashed` |
| `compiler.c:2220`, `2257` | break and continue pop captured variables without closing their upvalues | Machine, `capturedBreak` |
| `compiler.c:2231` | `innermostLoop` and `breakJumps` are shared by nested functions | Compiler, `sharedLoop` |
| `vm.c:2707` | CLOSURE captures a slot without adding the number of variable arguments | Machine, `postCapture` |
| `vm.c:103` | extra arguments of a function without `...` shift its locals | Machine, `extraArgs` |
| `object.c:557` | `appendToArray` grows the block to its old capacity | Arrays, `growth` |
| `object.h:421` | `computeSlice` compares the start where it should clamp the end | Arrays, `longSlice` |
| `vm.c:457` | `inherit` looks for fields of the superclass in a table that FIELD has not filled yet, so that "Field '%s' shadows field from superclass" is never raised; `defineField` (`vm.c:656`) then gives a redeclared field the number that the next field gets as well | ClassesProofs, `Unshadowed` |
| `vm.c:554` | `defineMethod` gives the function object of a method another class and offset when the declaration runs again: if that extends another superclass, the methods of the earlier class use the wrong references | ClassesProofs, `Steady` |
| `vm.c:569` | the arity that an interface records counts one parameter more than that of a method: `tests/interface.elox` is refused with "overrides incompatible method" | Classes |
| `scanner.c:161` | a second star of `**#` is not seen as the start of the end: the comment `#** doc **#` of `README.md:20` does not end | Scanner |
| `vm.c:1828` | an exception of an iterator inside `..e` is dropped | Expansion |
| `vm.c:1711` | a module that failed counts as loaded: a later import succeeds and gives nil | Modules, third case of `ImportComplete` |

## 6. What is only model-checked, what is not modelled

Proved and model-checked: the collector, tables, interning, arrays, maps, exceptions, classes. Only model-checked: scanner, compiler and
machine, modules and expansion. `Compiler`, `Scanner` and the search paths of `Modules` are folds over
sequences of the community modules, whose recursion the provers do not unfold. `ProgramEnds` stays with TLC: liveness is
out of the prover's reach.

Not modelled: the embedding interface and handles; which fields each object type marks; user-defined `equals` and
`hashCode` of map keys; values and upvalues on the stack while an exception truncates it; the growth and move of the
value stack (models name slots by distance from the bottom); static members, nested classes and access by computed
name; assignments other than to parameters in unpacking; the encoding of instructions; arithmetic; conversion of tokens
to values, formatting, patterns, UTF-8, debug output, the command line (text, not state).

## 7. Plan

1. Proofs. `Modules`: a module runs once and its slots are distinct (`TypeOK`, `ModuleOnce`). `Expansion`: the height of the stack between statements. `Machine`: `OpenInOrder`.
2. `Handles`: life of run contexts and callables.
3. Composition of `Machine` with `Exceptions`: truncation of the stack by a catch.
4. User-defined `equals` in the middle of `ValueTable`'s lookup.
