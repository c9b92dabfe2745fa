------------------------------ MODULE Modules -------------------------------
(***************************************************************************)
(* Modules: the import instruction and the loaders of the environment      *)
(* (vm.c, loader.c), the slots of global variables that compiled code of   *)
(* all modules shares (compiler.c), and the instructions that define, set  *)
(* and read them.                                                          *)
(*                                                                         *)
(* A world is what one run of the interpreter finds: the search paths, the *)
(* files and libraries they lead to, and the program.  A body is the       *)
(* sequence of the top-level statements of a source; a guarded statement   *)
(* stands in a try statement that catches what it raises.                  *)
(***************************************************************************)
EXTENDS Integers, SequencesExt

CONSTANTS
  Worlds,         \* records [loaders, path, nativePath, files, libraries, main]
  ModuleNames,    \* the names that imports can be given
  Main,           \* eloxMainModuleName, which no import can name
  Blank,          \* a white space character of a search path
  Separator       \* the semicolon of a search path

VARIABLES
  world,
  frames,         \* the running bodies: [mod, body, pc, pushed]
  modules,        \* vm->modules: the names of the modules found
  globalNames,    \* vm->globalNames: <<name, module>> to the index of a slot
  globalValues,   \* vm->globalValues
  status,         \* "running", "done" or "uncaught"
  origin,         \* history: per module, the sources whose bodies were started
  failed,         \* history: the modules whose body was left by an exception
  written         \* history: the last value that a statement gave <<name, module>>

vars == <<world, frames, modules, globalNames, globalValues, status, origin, failed, written>>
slots == <<globalNames, globalValues>>
history == <<origin, failed, written>>

Undefined == -1
Nil == 0
Clock == 99      \* the native function clock
Top == Last(frames)
Statement == Top.body[Top.pc]
At(kind) == status = "running" /\ Top.pc <= Len(Top.body) /\ Statement.k = kind
Frame(mod, body) == [mod |-> mod, body |-> body, pc |-> 1, pushed |-> <<>>]
Advance(fs) == [fs EXCEPT ![Len(fs)].pc = @ + 1]

-----------------------------------------------------------------------------
(* Slots of global variables: a pair of a name and a module has one, from  *)
(* the first time that compiled code or a native module names it.          *)

Identifiers(mod, stmt) ==
  CASE stmt.k = "define" -> <<<<stmt.name, mod>>>>
    [] stmt.k \in {"set", "get"} -> <<<<stmt.name, stmt.mod>>>>
    [] stmt.k = "import" -> [i \in 1 .. Len(stmt.syms) |-> <<stmt.syms[i], stmt.mod>>]
    [] OTHER -> <<>>

(* Mutant: the index is the count before the slot is added, less one.      *)
GlobalIdentifierShifted(names, id) ==
  IF id \in DOMAIN names THEN names
  ELSE (id :> Max({1, Cardinality(DOMAIN names)})) @@ names
GlobalIdentifierConstant(names, id) ==
  IF id \in DOMAIN names THEN names
  ELSE (id :> Cardinality(DOMAIN names) + 1) @@ names

(* compile: the slots that the identifiers of a body take.                 *)
Compile(names, mod, body) ==
  LET statement(acc, stmt) == FoldLeft(GlobalIdentifierConstant, acc, Identifiers(mod, stmt))
  IN FoldLeft(statement, names, body)
Widen(values, names) ==
  values \o [i \in 1 .. Cardinality(DOMAIN names) - Len(values) |-> Undefined]

SlotOf(name, mod) == globalNames[<<name, mod>>]

-----------------------------------------------------------------------------
(* The search path: a pattern begins at the first character that is no     *)
(* white space and ends before a semicolon; text.state is what searchPath  *)
(* calls SCAN, TOKEN or WS.                                                *)

PathChar(text, c) ==
  IF text.state = "SCAN"
    THEN IF c \in {Blank, Separator} THEN text
         ELSE [text EXCEPT !.state = "TOKEN", !.token = <<c>>]
  ELSE IF c = Separator
    THEN [state |-> "SCAN", token |-> <<>>, patterns |-> Append(text.patterns, text.token)]
  ELSE [text EXCEPT !.state = IF c = Blank THEN "WS" ELSE "TOKEN", !.token = Append(@, c)]

Patterns(path) ==
  LET text == FoldLeft(PathChar, [state |-> "SCAN", token |-> <<>>, patterns |-> <<>>], path)
  IN IF text.state = "TOKEN" THEN Append(text.patterns, text.token) ELSE text.patterns

(* isReadableFile: a directory, or a file that cannot be opened, is not.   *)
Readable(files, pattern, mod) ==
  <<pattern, mod>> \in DOMAIN files /\ files[<<pattern, mod>>].k # "directory"

(* The record of the first readable file, or none.                         *)
None == [k |-> "none"]
SearchPath(path, files, mod) ==
  LET found == SelectSeq(Patterns(path), LAMBDA p : Readable(files, p, mod))
  IN IF found = <<>> THEN None ELSE files[<<Head(found), mod>>]

(* What a loader returns for a module: nothing, an error, or the code to   *)
(* run, which is a compiled source or a native function, what it registers *)
(* and whether it then raises an exception.                                *)
FileLoader(mod) == SearchPath(world.path, world.files, mod)
NativeLoader(mod) == SearchPath(world.nativePath, world.libraries, mod)
BuiltinLoader(mod, options) ==
  IF mod = "sys" /\ "ENABLE_SYS" \in options
    THEN [k |-> "native", id |-> "sys", syms |-> <<"clock">>, value |-> Clock, raises |-> FALSE]
    ELSE None

Load(loader, mod) ==
  CASE loader.loader = "file" -> FileLoader(mod)
    [] loader.loader = "native" -> NativeLoader(mod)
    [] loader.loader = "builtin" -> BuiltinLoader(mod, loader.options)

(* The loaders are asked in order until one has an answer.                 *)
Found(mod) ==
  LET answers == [i \in 1 .. Len(world.loaders) |-> Load(world.loaders[i], mod)]
      found == SelectSeq(answers, LAMBDA a : a # None)
  IN IF found = <<>> THEN None ELSE Head(found)

-----------------------------------------------------------------------------
(* A raised exception leaves every frame above the innermost one that      *)
(* guards the statement it executes, and the native functions mods; the    *)
(* modules of those frames stay registered.                                *)
Guarding == SelectLastInSeq(frames, LAMBDA f : f.body[f.pc].guarded)
Leave(mods) == failed' = failed \cup mods \cup {frames[k].mod : k \in Guarding + 1 .. Len(frames)}

(* Mutant: execution resumes at the statement that raised.                 *)
UnwindAndRetry(mods) ==
  /\ IF Guarding = 0 THEN frames' = <<>> /\ status' = "uncaught"
     ELSE /\ frames' = [SubSeq(frames, 1, Guarding) EXCEPT ![Guarding].pushed = <<>>]
          /\ UNCHANGED status
  /\ Leave(mods)
Unwind(mods) ==
  /\ IF Guarding = 0 THEN frames' = <<>> /\ status' = "uncaught"
     ELSE /\ frames' = [Advance(SubSeq(frames, 1, Guarding)) EXCEPT ![Guarding].pushed = <<>>]
          /\ UNCHANGED status
  /\ Leave(mods)

Raise == Unwind({}) /\ UNCHANGED <<world, origin, written>>

Define ==
  /\ At("define")
  /\ globalValues' = [globalValues EXCEPT ![SlotOf(Statement.name, Top.mod)] = Statement.value]
  /\ written' = (<<Statement.name, Top.mod>> :> Statement.value) @@ written
  /\ frames' = Advance(frames)
  /\ UNCHANGED <<world, modules, globalNames, status, origin, failed>>

SetGlobal ==
  /\ At("set")
  /\ globalValues[SlotOf(Statement.name, Statement.mod)] # Undefined
  /\ globalValues' =
       [globalValues EXCEPT ![SlotOf(Statement.name, Statement.mod)] = Statement.value]
  /\ written' = (<<Statement.name, Statement.mod>> :> Statement.value) @@ written
  /\ frames' = Advance(frames)
  /\ UNCHANGED <<world, modules, globalNames, status, origin, failed>>

GetGlobal ==
  /\ At("get")
  /\ globalValues[SlotOf(Statement.name, Statement.mod)] # Undefined
  /\ frames' = [Advance(frames) EXCEPT
                  ![Len(frames)].pushed = <<globalValues[SlotOf(Statement.name, Statement.mod)]>>]
  /\ UNCHANGED <<world, modules, slots, status, history>>

UndefinedGlobal ==
  /\ At("set") \/ At("get")
  /\ globalValues[SlotOf(Statement.name, Statement.mod)] = Undefined
  /\ Raise
  /\ UNCHANGED <<modules, slots>>

Throw ==
  /\ At("throw")
  /\ Raise
  /\ UNCHANGED <<modules, slots>>

-----------------------------------------------------------------------------
(* IMPORT.  Once the module is loaded, the values of the symbols are       *)
(* pushed, nil for one that is undefined.                                  *)
(* Mutant: the symbols are pushed in the opposite order.                   *)
PushSymbolsReversed(fs, names, values) ==
  LET f == Last(fs)
      stmt == f.body[f.pc]
      n == Len(stmt.syms)
      value(i) == values[names[<<stmt.syms[n + 1 - i], stmt.mod>>]]
  IN [Advance(fs) EXCEPT ![Len(fs)].pushed =
        [i \in 1 .. n |-> IF value(i) = Undefined THEN Nil ELSE value(i)]]
PushSymbols(fs, names, values) ==
  LET f == Last(fs)
      stmt == f.body[f.pc]
      value(i) == values[names[<<stmt.syms[i], stmt.mod>>]]
  IN [Advance(fs) EXCEPT ![Len(fs)].pushed =
        [i \in 1 .. Len(stmt.syms) |-> IF value(i) = Undefined THEN Nil ELSE value(i)]]

AlreadyLoaded == Statement.mod \in modules

ImportLoaded ==
  /\ At("import")
  /\ AlreadyLoaded
  /\ frames' = PushSymbols(frames, globalNames, globalValues)
  /\ UNCHANGED <<world, modules, slots, status, history>>

(* The module is registered before its body runs.                          *)
(* Mutant: it is registered by nobody until the body has ended.            *)
RegisterLater(mod) == UNCHANGED modules
Register(mod) == modules' = modules \cup {mod}

ImportSource ==
  /\ At("import")
  /\ ~AlreadyLoaded
  /\ \E source \in {Found(Statement.mod)} :
       /\ source.k = "source"
       /\ globalNames' = Compile(globalNames, Statement.mod, source.body)
       /\ globalValues' = Widen(globalValues, globalNames')
       /\ frames' = Append(frames, Frame(Statement.mod, source.body))
       /\ origin' = [origin EXCEPT ![Statement.mod] = Append(@, source.id)]
  /\ Register(Statement.mod)
  /\ UNCHANGED <<world, status, failed, written>>

(* registerNativeFunction, for each symbol.                                *)
RegisterSymbols(native) ==
  \E ids \in {{<<sym, Statement.mod>> : sym \in Range(native.syms)}} :
    /\ globalNames' = FoldSet(LAMBDA id, names : GlobalIdentifierConstant(names, id),
                              globalNames, ids)
    /\ globalValues' = [i \in 1 .. Cardinality(DOMAIN globalNames') |->
         IF \E id \in ids : globalNames'[id] = i THEN native.value
         ELSE Widen(globalValues, globalNames')[i]]
    /\ written' = [id \in ids |-> native.value] @@ written

(* A native function registers its symbols and returns, or raises an       *)
(* exception when it has registered some.                                  *)
ImportNative ==
  /\ At("import")
  /\ ~AlreadyLoaded
  /\ \E native \in {Found(Statement.mod)} :
       /\ native.k = "native"
       /\ RegisterSymbols(native)
       /\ origin' = [origin EXCEPT ![Statement.mod] = Append(@, native.id)]
       /\ IF native.raises
            THEN Unwind({Statement.mod})
            ELSE /\ frames' = PushSymbols(frames, globalNames', globalValues')
                 /\ UNCHANGED <<status, failed>>
  /\ Register(Statement.mod)
  /\ UNCHANGED world

(* No loader finds the module, its source does not compile (the names up   *)
(* to the error have slots by then), or its library cannot be opened or    *)
(* lacks the function.                                                     *)
ImportFails ==
  /\ At("import")
  /\ ~AlreadyLoaded
  /\ \E none \in {Found(Statement.mod)} :
       /\ none.k \in {"none", "uncompilable", "broken"}
       /\ globalNames' = IF none.k = "uncompilable"
                           THEN Compile(globalNames, Statement.mod, none.body) ELSE globalNames
       /\ globalValues' = Widen(globalValues, globalNames')
  /\ Raise
  /\ UNCHANGED modules

Return ==
  /\ status = "running"
  /\ Top.pc > Len(Top.body)
  /\ IF Len(frames) = 1
       THEN frames' = <<>> /\ status' = "done"
       ELSE /\ frames' = PushSymbols(Front(frames), globalNames, globalValues)
            /\ UNCHANGED status
  /\ UNCHANGED <<world, modules, slots, history>>

Ended == status # "running" /\ UNCHANGED vars

(* interpret: the program is compiled and its frame entered.               *)
Init ==
  /\ world \in Worlds
  /\ frames = <<Frame(Main, world.main)>>
  /\ modules = {}
  /\ globalNames = Compile([id \in {} |-> 0], Main, world.main)
  /\ globalValues = Widen(<<>>, globalNames)
  /\ status = "running"
  /\ origin = [mod \in ModuleNames |-> <<>>]
  /\ failed = {}
  /\ written = [id \in {} |-> 0]

Next ==
  \/ Define \/ SetGlobal \/ GetGlobal \/ UndefinedGlobal \/ Throw
  \/ ImportLoaded \/ ImportSource \/ ImportNative \/ ImportFails
  \/ Return \/ Ended

(* One thread executes the program and does not stop.                      *)
Spec == Init /\ [][Next]_vars /\ WF_vars(Next)

-----------------------------------------------------------------------------
Running == {frames[k].mod : k \in 1 .. Len(frames)}

(* A frame is the program's or that of a module which the statement below  *)
(* it imports; every slot has one name, and a value.                       *)
TypeOK ==
  /\ status = "running" <=> frames # <<>>
  /\ \A k \in 2 .. Len(frames) :
       LET f == frames[k - 1]
       IN f.body[f.pc].k = "import" /\ f.body[f.pc].mod = frames[k].mod
  /\ \A id1, id2 \in DOMAIN globalNames : globalNames[id1] = globalNames[id2] => id1 = id2
  /\ Range(globalNames) = DOMAIN globalValues
  /\ Running \ {Main} \subseteq modules

(* A module's body is started once: not again while it runs (a cycle of    *)
(* imports), after it ended, or after it failed; and it comes from the     *)
(* first loader, and within it the first element of the search path, that  *)
(* has the module.                                                         *)
Trim(s) == LET from == SelectInSeq(s, LAMBDA c : c # Blank)
               to == SelectLastInSeq(s, LAMBDA c : c # Blank)
           IN IF from = 0 THEN <<>> ELSE SubSeq(s, from, to)
Elements(path) ==
  LET ends == {i \in 1 .. Len(path) : path[i] = Separator} \cup {0, Len(path) + 1}
      at(i, j) == Trim(SubSeq(path, i + 1, j - 1))
  IN {[from |-> i, pattern |-> at(i, j)] : <<i, j>> \in
        {p \in ends \X ends : p[1] < p[2] /\ ~\E e \in ends : p[1] < e /\ e < p[2]}}
Candidates(l, path, files, mod) ==
  {[loader |-> l, from |-> e.from, id |-> files[<<e.pattern, mod>>].id] :
     e \in {x \in Elements(path) : Readable(files, x.pattern, mod)}}
Offers(mod) ==
  UNION {CASE world.loaders[l].loader = "file" -> Candidates(l, world.path, world.files, mod)
           [] world.loaders[l].loader = "native" ->
                Candidates(l, world.nativePath, world.libraries, mod)
           [] OTHER -> IF mod = "sys" /\ world.loaders[l].options # {}
                         THEN {[loader |-> l, from |-> 0, id |-> "sys"]} ELSE {}
         : l \in 1 .. Len(world.loaders)}
ModuleOnce ==
  \A mod \in ModuleNames :
    origin[mod] # <<>> =>
      /\ Len(origin[mod]) = 1
      /\ \E o \in Offers(mod) :
           /\ o.id = origin[mod][1]
           /\ \A x \in Offers(mod) :
                o.loader < x.loader \/ (o.loader = x.loader /\ o.from <= x.from)

(* An import that completes gives each symbol the value it was given last  *)
(* by whatever module; nil stands only for a symbol of a module that is    *)
(* still running (a cycle), that failed earlier, or that never defines it. *)
Imported(f) == f.body[f.pc - 1]
Defines(mod, name) ==
  \E p \in DOMAIN world.files :
    /\ p[2] = mod
    /\ \E i \in 1 .. Len(world.files[p].body) :
         world.files[p].body[i].k = "define" /\ world.files[p].body[i].name = name
SymbolRight(stmt, i, value) ==
  LET id == <<stmt.syms[i], stmt.mod>>
  IN IF id \in DOMAIN written' THEN value = written'[id]
     ELSE /\ value = Nil
          /\ stmt.mod \in Running' \cup failed' \/ ~Defines(stmt.mod, stmt.syms[i])
ImportComplete ==
  [][\A k \in 1 .. Len(frames') \cap 1 .. Len(frames) :
       LET f == frames'[k]
       IN f.pc = frames[k].pc + 1 /\ f.pushed # <<>> /\ Imported(f).k = "import"
            => \A i \in 1 .. Len(f.pushed) : SymbolRight(Imported(f), i, f.pushed[i])]_vars

(* Every program ends: cycles of imports included.                         *)
ProgramEnds == <>(status # "running")

=============================================================================
