------------------------------ MODULE Compiler ------------------------------
(***************************************************************************)
(* The one-pass compiler (src/elox/lib/compiler.c) as far as variables,    *)
(* scopes, functions and jumps go: the Compiler record of each function    *)
(* being compiled, the CompilerState they share, and the code that each    *)
(* statement emits.  A program is a sequence of statements read in order;  *)
(* parse is the C call stack of the recursive descent, with what each      *)
(* caller still has to do.  Instructions are numbered from 1 and jump      *)
(* targets are instruction numbers.                                        *)
(*                                                                         *)
(* Beside the code, every access carries in ref.decl the declaration that  *)
(* the scoping rules of the language name for it, found through scopes,    *)
(* which the compiler does not have; bind marks the instruction whose      *)
(* value starts the life of a variable.  Module Machine runs the code and  *)
(* compares.                                                               *)
(***************************************************************************)
EXTENDS Integers, FiniteSets, SequencesExt

CONSTANTS
  Programs,      \* the programs compiled: sequences of statements
  Avoid          \* constructs on which the compiler is known to go wrong

VARIABLE comp

Constructs == {"capturedBreak", "sharedLoop", "postCapture", "extraArgs"}
ASSUME AvoidAssumption == Avoid \subseteq Constructs

NoRef == [scope |-> "NONE", name |-> "", handle |-> 0, post |-> FALSE, decl |-> 0]
Instr(op, arg) == [op |-> op, arg |-> arg, ref |-> NoRef, bind |-> 0]
Load(ref) == [Instr("GET", 0) EXCEPT !.ref = ref]
Store(ref) == [Instr("SET", 0) EXCEPT !.ref = ref]

(* The compiler of the function being compiled, and its next instruction. *)
Cur(c) == Last(c.funs)
Level(c) == Len(c.funs)
Here(c) == Len(Cur(c).code) + 1

Emit(c, is) == [c EXCEPT !.funs[Level(c)].code = @ \o is]
EmitPop(n) == IF n = 0 THEN <<>> ELSE <<Instr("POP", n)>>
PatchJump(c, at) == [c EXCEPT !.funs[Level(c)].code[at].arg = Here(c)]
Reject(c) == [c EXCEPT !.status = "rejected"]
Exclude(c, what, cond) ==
  IF cond /\ what \in Avoid THEN [c EXCEPT !.status = "excluded"] ELSE c

-----------------------------------------------------------------------------
(* Scopes and locals.                                                      *)

BeginScope(c) ==
  [c EXCEPT !.funs[Level(c)].depth = @ + 1, !.scopes = Append(@, {})]

(* The locals deeper than depth, a suffix of the array. *)
LocalsBelow(f, depth) == SelectSeq(f.locals, LAMBDA l : l.depth > depth)

(* Discard locals from the last one, counting pops until a captured one. *)
DiscardCode(ls) ==
  LET step(l, acc) ==
        IF l.captured
        THEN [n |-> 0, is |-> acc.is \o EmitPop(acc.n) \o <<Instr("CLOSE_UPVALUE", 0)>>]
        ELSE [acc EXCEPT !.n = @ + 1]
      r == FoldRight(step, ls, [n |-> 0, is |-> <<>>])
  IN r.is \o EmitPop(r.n)

EndScope(c) ==
  LET f == Cur(c)
      gone == LocalsBelow(f, f.depth - 1)
  IN Emit([c EXCEPT !.funs[Level(c)].depth = @ - 1,
                    !.funs[Level(c)].locals = SubSeq(@, 1, Len(@) - Len(gone)),
                    !.scopes = Front(@)],
          DiscardCode(gone))

AddLocal(c, n) ==
  [c EXCEPT !.funs[Level(c)].locals =
              Append(@, [name |-> n, depth |-> -1, captured |-> FALSE,
                         post |-> Cur(c).postArgs, decl |-> c.ndecl + 1]),
            !.ndecl = @ + 1]

DeclareVariable(c, n) ==
  IF \E l \in Range(Cur(c).locals) : l.name = n /\ l.depth \notin 0..(Cur(c).depth - 1)
  THEN Reject(c)
  ELSE AddLocal(c, n)

(* The last local starts to exist, for the compiler and for the language. *)
MarkInitialized(c) ==
  LET k == Len(Cur(c).locals)
      l == Cur(c).locals[k]
  IN [c EXCEPT !.funs[Level(c)].locals[k].depth = Cur(c).depth,
               !.scopes[Len(c.scopes)] = @ \cup {[name |-> l.name, decl |-> l.decl]}]

(* ... with the value that the last instruction pushes. *)
DefineVariable(c) ==
  [MarkInitialized(c) EXCEPT
     !.funs[Level(c)].code[Len(Cur(c).code)].bind = Last(Cur(c).locals).decl]

(* The local that n names in the function of f, 0 for none. *)
ResolveLocal(f, n) ==
  LET named == {i \in DOMAIN f.locals : f.locals[i].name = n}
  IN IF named = {} THEN 0 ELSE Max(named)

(* Mutant: the upvalue of an enclosing function passes for a local. *)
AddUpvalueByIndex(ups, u) ==
  LET at == SelectInSeq(ups, LAMBDA v : v.index = u.index)
  IN IF at # 0 THEN [ups |-> ups, index |-> at - 1]
     ELSE [ups |-> Append(ups, u), index |-> Len(ups)]
(* An upvalue is found again by its index and by where it comes from. *)
AddUpvalue(ups, u) ==
  LET at == SelectInSeq(ups, LAMBDA v : v = u)
  IN IF at # 0 THEN [ups |-> ups, index |-> at - 1]
     ELSE [ups |-> Append(ups, u), index |-> Len(ups)]

(* resolveUpvalue walks out to the function that has the local, marks it,  *)
(* and adds an upvalue in every function on the way back in.               *)
Capture(c, owner, n) ==
  LET slot == ResolveLocal(c.funs[owner], n)
      local == c.funs[owner].locals[slot]
      down(acc, j) ==
        LET u == AddUpvalue(acc.funs[j].upvalues,
                            [index |-> acc.index, isLocal |-> j = owner + 1])
        IN [funs |-> [acc.funs EXCEPT ![j].upvalues = u.ups], index |-> u.index]
      r == FoldLeft(down, [funs |-> [c.funs EXCEPT ![owner].locals[slot].captured = TRUE],
                           index |-> slot - 1],
                    [k \in 1..(Level(c) - owner) |-> owner + k])
      c1 == Exclude([c EXCEPT !.funs = r.funs], "postCapture",
                    local.post /\ c.funs[owner].varargs)
  IN [c |-> IF local.depth = -1 THEN Reject(c1) ELSE c1, index |-> r.index]

(* What the scoping rules say: the innermost scope that declares n. *)
Declaration(c, n) ==
  LET declaring == {i \in DOMAIN c.scopes : \E b \in c.scopes[i] : b.name = n}
  IN IF declaring = {} THEN 0
     ELSE (CHOOSE b \in c.scopes[Max(declaring)] : b.name = n).decl

Resolve(c, n) ==
  LET f == Cur(c)
      slot == ResolveLocal(f, n)
      owners == {j \in 1..(Level(c) - 1) : ResolveLocal(c.funs[j], n) # 0}
      up == Capture(c, Max(owners), n)
      ref == [NoRef EXCEPT !.name = n, !.decl = Declaration(c, n)]
  IN IF slot # 0
     THEN [c |-> IF f.locals[slot].depth = -1 THEN Reject(c) ELSE c,
           ref |-> [ref EXCEPT !.scope = "LOCAL", !.handle = slot - 1,
                               !.post = f.locals[slot].post]]
     ELSE IF owners # {}
     THEN [c |-> up.c, ref |-> [ref EXCEPT !.scope = "UPVALUE", !.handle = up.index]]
     ELSE [c |-> c, ref |-> [ref EXCEPT !.scope = "GLOBAL"]]

-----------------------------------------------------------------------------
(* Expressions and functions.  An expression is "nil" (any value without   *)
(* effects), "fun" (a function literal, which the following statements up  *)
(* to "}" spell out) or the name of a variable.                            *)

EmitExpression(c, e) ==
  IF e = "nil" THEN Emit(c, <<Instr("NIL", 0)>>)
  ELSE LET r == Resolve(c, e) IN Emit(r.c, <<Load(r.ref)>>)

(* initCompiler: slot 0 holds the function itself.                         *)
NewCompiler(varargs, arity) ==
  [code |-> <<>>, depth |-> 0, postArgs |-> FALSE, varargs |-> varargs, arity |-> arity,
   locals |-> <<[name |-> "", depth |-> 0, captured |-> FALSE, post |-> FALSE, decl |-> 0]>>,
   upvalues |-> <<>>, marks |-> {}]

(* function, up to the body: the parameters are the first locals; those    *)
(* declared later lie after the variadic arguments.                        *)
BeginFunction(c, s, after) ==
  LET c1 == BeginScope([c EXCEPT !.funs = Append(@, NewCompiler(s.varargs, Len(s.params))),
                                 !.parse = Append(@, [k |-> "fun", after |-> after])])
      param(acc, n) == MarkInitialized(DeclareVariable(acc, n))
      c2 == FoldLeft(param, c1, s.params)
  IN [c2 EXCEPT !.funs[Level(c2)].postArgs = TRUE]

(* endCompiler, and the code that makes the function a value.              *)
EndFunction(c) ==
  LET f == Emit(c, <<Instr("NIL", 0), Instr("RETURN", 0)>>).funs[Level(c)]
      out == [c EXCEPT !.funs = Front(@), !.scopes = Front(@), !.parse = Front(@),
                       !.protos = Append(@, f)]
  IN Emit(out, <<Instr(IF f.upvalues = <<>> THEN "CONST" ELSE "CLOSURE", Len(out.protos))>>)

(* What follows the expression of a statement.                             *)
Complete(c, after) ==
  CASE after.k = "local" -> DefineVariable(c)
    [] after.k = "assign" -> Emit(c, <<Store(after.ref), Instr("POP", 1)>>)
    [] after.k = "return" -> Emit(c, <<Instr("RETURN", 0)>>)
    [] after.k = "function" -> Emit(c, <<[Instr("DEFINE_GLOBAL", 0) EXCEPT !.ref = after.ref]>>)

Finished(c) == [c EXCEPT !.ended = TRUE]

ExpressionThen(c, s, after) ==
  IF s.e = "fun" THEN BeginFunction(c, s, after)
  ELSE Finished(Complete(EmitExpression(c, s.e), after))

-----------------------------------------------------------------------------
(* Statements.  Next(c) reads one; a statement that contains another goes  *)
(* on parse, and ends when the inner one has.                              *)

Parsing == comp.status = "parse" /\ ~comp.ended
More == comp.pos <= Len(comp.source)
Stmt == comp.source[comp.pos]

(* The number of locals where a statement starts is the height that the    *)
(* stack must have there.                                                  *)
Mark(c) ==
  [c EXCEPT !.funs[Level(c)].marks = @ \cup {[pc |-> Here(c), n |-> Len(Cur(c).locals)]}]
Start(c) == Mark([c EXCEPT !.pos = @ + 1])

Reads(t) == Parsing /\ More /\ Stmt.t = t
Inside(k) == comp.parse # <<>> /\ Last(comp.parse).k = k
Push(c, p) == [c EXCEPT !.parse = Append(@, p)]
Pop(c) == [c EXCEPT !.parse = Front(@)]

Block == Reads("{") /\ comp' = Push(BeginScope(Start(comp)), [k |-> "{"])

EndBlock ==
  /\ Reads("}") /\ Inside("{")
  /\ comp' = Finished(Pop(EndScope(Start(comp))))

EndFunctionBody ==
  /\ Reads("}") /\ Inside("fun")
  /\ comp' = Finished(Complete(EndFunction(Start(comp)), Last(comp.parse).after))

VarDeclaration ==
  /\ Reads("local")
  /\ comp' = ExpressionThen(DeclareVariable(Start(comp), Stmt.n), Stmt, [k |-> "local"])

(* A named function is global wherever it stands.                          *)
FunctionDeclaration ==
  /\ Reads("function")
  /\ comp' = BeginFunction(Start(comp), Stmt,
               [k |-> "function",
                ref |-> [NoRef EXCEPT !.scope = "GLOBAL", !.name = Stmt.n]])

Assignment ==
  /\ Reads("assign")
  /\ LET r == Resolve(Start(comp), Stmt.n)
     IN comp' = ExpressionThen(r.c, Stmt, [k |-> "assign", ref |-> r.ref])

ExpressionStatement ==
  /\ Reads("expr")
  /\ comp' = Finished(Emit(EmitExpression(Start(comp), Stmt.n), EmitPop(1)))

CallStatement ==
  /\ Reads("call")
  /\ comp' = Finished(Emit(EmitExpression(Start(comp), Stmt.n),
               [i \in 1..Stmt.args |-> Instr("NIL", 0)]
                 \o <<Instr("CALL", Stmt.args), Instr("POP", 1)>>))

ReturnStatement ==
  /\ Reads("return")
  /\ comp' = IF Level(comp) = 1 THEN Reject(comp)
             ELSE ExpressionThen(Start(comp), Stmt, [k |-> "return"])

IfStatement ==
  /\ Reads("if")
  /\ LET c == Emit(Start(comp), <<Instr("NIL", 0), Instr("JUMP_IF_FALSE", 0), Instr("POP", 1)>>)
     IN comp' = Push(c, [k |-> "if", jump |-> Here(c) - 2])

(* When the inner statement of if ends, an else may follow.                *)
EndThen ==
  /\ comp.status = "parse" /\ comp.ended /\ Inside("if")
  /\ LET p == Last(comp.parse)
         c == Emit(comp, <<Instr("JUMP", 0)>>)
         elseJump == Here(c) - 1
         c1 == Emit(PatchJump(c, p.jump), <<Instr("POP", 1)>>)
     IN comp' = IF More /\ Stmt.t = "else"
                THEN [Push(Pop(c1), [k |-> "else", jump |-> elseJump])
                        EXCEPT !.ended = FALSE, !.pos = @ + 1]
                ELSE Pop(PatchJump(c1, elseJump))

EndElse ==
  /\ comp.status = "parse" /\ comp.ended /\ Inside("else")
  /\ comp' = Pop(PatchJump(comp, Last(comp.parse).jump))

-----------------------------------------------------------------------------
(* Loops.  innermostLoop and breakJumps belong to the CompilerState, not   *)
(* to the function that has the loop; level records whose they are.        *)

NoLoop == [start |-> 0, depth |-> 0, level |-> 0]
EnterLoop(c) ==
  [c EXCEPT !.loop = [start |-> Here(c), depth |-> Cur(c).depth, level |-> Level(c)]]

(* Mutant: the surrounding loop is not put back. *)
LeaveLoopInside(c, surrounding) == c

(* patchBreakJumps, and the surrounding loop becomes the innermost again.  *)
LeaveLoop(c, surrounding) ==
  LET patched == {i \in DOMAIN c.breaks : \A j \in 1..i : c.breaks[j].depth >= c.loop.depth}
      c1 == Exclude(c, "sharedLoop", \E i \in patched : c.breaks[i].level # Level(c))
      c2 == IF c1.status = "excluded" THEN c1
            ELSE FoldSet(LAMBDA i, acc : PatchJump(acc, c.breaks[i].jump), c1, patched)
  IN [c2 EXCEPT !.breaks = SubSeq(@, Cardinality(patched) + 1, Len(@)), !.loop = surrounding]

Condition == <<Instr("NIL", 0), Instr("JUMP_IF_FALSE", 0), Instr("POP", 1)>>

WhileStatement ==
  /\ Reads("while")
  /\ LET c == Emit(EnterLoop(Start(comp)), Condition)
     IN comp' = Push(c, [k |-> "loop", surrounding |-> comp.loop, exit |-> Here(c) - 2,
                         scope |-> FALSE])

(* for (local n = nil; condition; n)                                       *)
ForStatement ==
  /\ Reads("for")
  /\ LET c1 == DefineVariable(Emit(DeclareVariable(BeginScope(Start(comp)), Stmt.n),
                                   <<Instr("NIL", 0)>>))
         c2 == Emit(EnterLoop(c1), Condition \o <<Instr("JUMP", 0)>>)
         increment == Here(c2)
         c3 == Emit(EmitExpression(c2, Stmt.n), <<Instr("POP", 1), Instr("LOOP", c2.loop.start)>>)
         c4 == PatchJump([c3 EXCEPT !.loop.start = increment], increment - 1)
     IN comp' = Push(c4, [k |-> "loop", surrounding |-> comp.loop, exit |-> increment - 3,
                          scope |-> TRUE])

(* foreach (local n in nil): n, and two hidden locals for the methods of   *)
(* the iterator.                                                           *)
ForEachStatement ==
  /\ Reads("foreach")
  /\ LET hidden(c) == MarkInitialized(Emit(AddLocal(c, ""), <<Instr("NIL", 0)>>))
         slot(c) == [NoRef EXCEPT !.scope = "LOCAL", !.handle = Len(Cur(c).locals) - 1,
                                  !.post = Cur(c).postArgs, !.decl = Last(Cur(c).locals).decl]
         c1 == DefineVariable(Emit(AddLocal(BeginScope(Start(comp)), Stmt.n), <<Instr("NIL", 0)>>))
         var == Resolve(c1, Stmt.n)
         hasNext == hidden(var.c)
         next == hidden(hasNext)
         c2 == EnterLoop(Emit(next, <<Instr("NIL", 0), [Instr("FOREACH_INIT", 0) EXCEPT
                                       !.ref = slot(hasNext), !.arg = slot(next)]>>))
         c3 == Emit(c2, <<Load(slot(hasNext)), Instr("CALL", 0), Instr("JUMP_IF_FALSE", 0),
                          Instr("POP", 1), Load(slot(next)), Instr("CALL", 0),
                          [Instr("UNPACK", 0) EXCEPT !.ref = var.ref]>>)
     IN comp' = Push(c3, [k |-> "loop", surrounding |-> comp.loop, exit |-> Here(c3) - 5,
                          scope |-> TRUE])

EndLoop ==
  /\ comp.status = "parse" /\ comp.ended /\ Inside("loop")
  /\ LET p == Last(comp.parse)
         c == Emit(PatchJump(Emit(comp, <<Instr("LOOP", comp.loop.start)>>), p.exit), EmitPop(1))
         left == Pop(LeaveLoop(c, p.surrounding))
     IN comp' = IF p.scope THEN EndScope(left) ELSE left

(* Mutant: the variable of a for loop is discarded with the body. *)
LeaveBodyAtDepth(c) ==
  LET gone == SelectSeq(Cur(c).locals, LAMBDA l : l.depth >= c.loop.depth)
  IN Emit(Exclude(c, "sharedLoop", c.loop.level # Level(c)), EmitPop(Len(gone)))

(* break and continue discard the locals of the loop body with plain pops. *)
LeaveBody(c) ==
  LET gone == LocalsBelow(Cur(c), c.loop.depth)
      c1 == Exclude(c, "capturedBreak", \E l \in Range(gone) : l.captured)
  IN Emit(Exclude(c1, "sharedLoop", c.loop.level # Level(c)), EmitPop(Len(gone)))
BreakStatement ==
  /\ Reads("break")
  /\ LET c == LeaveBody(Start(comp))
     IN comp' = IF comp.loop = NoLoop THEN Reject(comp)
                ELSE Finished([Emit(c, <<Instr("JUMP", 0)>>) EXCEPT
                       !.breaks = <<[depth |-> c.loop.depth, jump |-> Here(c),
                                     level |-> Level(c)]>> \o @])

ContinueStatement ==
  /\ Reads("continue")
  /\ LET c == LeaveBody(Start(comp))
     IN comp' = IF comp.loop = NoLoop THEN Reject(comp)
                ELSE Finished(Emit(c, <<Instr("LOOP", c.loop.start)>>))

-----------------------------------------------------------------------------
(* The declaration is complete; the block, or the script, reads the next.  *)
EndStatement ==
  /\ comp.status = "parse" /\ comp.ended
  /\ ~Inside("if") /\ ~Inside("else") /\ ~Inside("loop")
  /\ comp' = [comp EXCEPT !.ended = FALSE]

EndScript ==
  /\ Parsing /\ ~More
  /\ comp' = IF comp.parse # <<>> THEN Reject(comp)
             ELSE LET c == Mark(comp)
                  IN [c EXCEPT !.status = "compiled",
                        !.protos = Append(@, Last(Emit(c, <<Instr("NIL", 0),
                                                            Instr("RETURN", 0)>>).funs))]

(* A statement that cannot stand where it does.                            *)
Misplaced ==
  /\ Parsing /\ More
  /\ \/ Stmt.t = "}" /\ ~Inside("{") /\ ~Inside("fun")
     \/ Stmt.t = "else"
  /\ comp' = Reject(comp)

CompilerInit ==
  \E p \in Programs :
    comp = [source |-> p, pos |-> 1, status |-> "parse", ended |-> FALSE, parse |-> <<>>,
            funs |-> <<NewCompiler(FALSE, 0)>>, protos |-> <<>>, scopes |-> <<{}>>,
            loop |-> NoLoop, breaks |-> <<>>, ndecl |-> 0]

CompilerNext ==
  \/ Block \/ EndBlock \/ EndFunctionBody \/ VarDeclaration \/ FunctionDeclaration
  \/ Assignment \/ ExpressionStatement \/ CallStatement \/ ReturnStatement
  \/ IfStatement \/ EndThen \/ EndElse
  \/ WhileStatement \/ ForStatement \/ ForEachStatement \/ EndLoop
  \/ BreakStatement \/ ContinueStatement
  \/ EndStatement \/ EndScript \/ Misplaced
=============================================================================
