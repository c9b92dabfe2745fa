----------------------------- MODULE Exceptions -----------------------------
(***************************************************************************)
(* try / catch / finally in the bytecode interpreter (vm.c): the TryBlocks *)
(* of each call frame, propagateException, unrollExceptionHandlerStack and *)
(* the nested run() calls that execute finally blocks, across script       *)
(* frames, native frames and internal calls (runCall, interpret).          *)
(*                                                                         *)
(* The program is any program the compiler lets through: at every step the *)
(* running frame enters a try statement, leaves regions, returns, throws,  *)
(* calls.  Two kinds of program are left out, since the interpreter        *)
(* recurses without end on them: those where an exception leaves a finally *)
(* block, and those that return from inside one.                           *)
(***************************************************************************)
EXTENDS Integers, Sequences, FiniteSets

CONSTANTS
  Try,          \* try statements
  Exc,          \* exceptions, by class
  RuntimeExc,   \* what runtimeError raises
  Catches,      \* Catches[t]: what the catch clauses of t match
  WithFinally,  \* the statements that have a finally block
  MaxHandlers,  \* ELOX_MAX_CATCH_HANDLER_FRAMES
  Avoid,        \* of {"outerHandler"}: what is left out, see ActsAlone
  MaxNest,      \* bound of the model on the nesting of regions in a frame
  MaxFrames     \* bound of the model on the call depth

ASSUME ExceptionsAssumption ==
  /\ Catches \in [Try -> SUBSET Exc]
  /\ WithFinally \subseteq Try
  /\ RuntimeExc \in Exc
  /\ Avoid \subseteq {"outerHandler"}
  /\ MaxHandlers \in Nat /\ MaxNest \in Nat /\ MaxFrames \in Nat \ {0}

VARIABLES
  frames,    \* the call frames, the active one last
  calls,     \* the C calls of propagateException and
             \* unrollExceptionHandlerStack in progress, the latest last
  pc,        \* "run": the top frame executes; "c": the top C call does;
             \* "done": the finally block it ran has ended; "fail": a C
             \* function returns an exception; or how the process stopped
  exc,       \* the exception in flight while pc = "fail"
  handling   \* vm->handlingException

vars == <<frames, calls, pc, exc, handling>>

(* Where a frame is: the regions of try statements around its ip, outermost *)
(* first.  A region is the body, a catch clause or the finally of a try.   *)
Parts == {"body", "catch", "finally"}
Region(t, part) == [try |-> t, part |-> part]

(* A frame: its kind ("start" is ELOX_FT_INTERNAL_CALL_START), its regions  *)
(* and handlerStack[0 .. handlerCount - 1].                                *)
Frame(kind) == [kind |-> kind, pos |-> <<>>, handlers |-> <<>>]

(* A TryBlock; at is the position of the try statement, ran counts the runs *)
(* of its finally block.                                                   *)
Handler(t, at) == [try |-> t, at |-> at, caught |-> FALSE, ran |-> 0]

TopFrame == frames[Len(frames)]
TopCall == calls[Len(calls)]
Front(s) == SubSeq(s, 1, Len(s) - 1)
SetTopFrame(f) == frames' = [frames EXCEPT ![Len(frames)] = f]
SetLevel(n) == calls' = [calls EXCEPT ![Len(calls)].level = n]

Running(kinds) == pc = "run" /\ TopFrame.kind \in kinds
Script == {"start", "inter"}

InFinally(pos) == \E m \in DOMAIN pos : pos[m].part = "finally"

Init ==  \* interpret
  /\ frames = <<Frame("start")>> /\ calls = <<>>
  /\ pc = "run" /\ exc = RuntimeExc /\ handling = 0

-----------------------------------------------------------------------------
(* The programs considered: in the source, a try statement between the     *)
(* finally block in progress, if there is one, and the instruction catches *)
(* e.                                                                      *)
StaysInside(e) ==
  calls # <<>> =>
    \E k \in TopCall.frame .. Len(frames) : \E j \in DOMAIN frames[k].pos :
      LET pos == frames[k].pos IN
        /\ pos[j].part = "body" /\ e \in Catches[pos[j].try]
        /\ k = TopCall.frame => ~InFinally(SubSeq(pos, j, Len(pos)))

(* THROW: getStackTrace reads the function of every frame, the NULL one of *)
(* a native frame too; then propagateException is called.                  *)
ThrowIn(e) ==
  IF \E k \in 1 .. Len(frames) : frames[k].kind = "native"
    THEN pc' = "crashed" /\ UNCHANGED <<frames, calls, exc, handling>>
    ELSE /\ calls' = Append(calls,
              [kind |-> "propagate", frame |-> Len(frames), exc |-> e,
               level |-> Len(TopFrame.handlers)])
         /\ handling' = handling + 1
         /\ pc' = "c"
         /\ UNCHANGED <<frames, exc>>

Throw ==
  /\ Running(Script)
  /\ \E e \in Exc : StaysInside(e) /\ ThrowIn(e)

(* runtimeError while an exception is handled ends the process.            *)
RuntimeError ==
  IF handling > 0
    THEN pc' = "exited" /\ UNCHANGED <<frames, calls, exc, handling>>
    ELSE StaysInside(RuntimeExc) /\ ThrowIn(RuntimeExc)

Fault == Running(Script) /\ RuntimeError

(* PUSH_EXH: pushExceptionHandler, at the nesting level of the statement.  *)
EnterTry(t) ==
  /\ Running(Script) /\ Len(TopFrame.pos) < MaxNest
  /\ LET level == Len(TopFrame.pos) + 1
         new == Handler(t, TopFrame.pos)
     IN IF Len(TopFrame.handlers) = MaxHandlers
          THEN RuntimeError
          ELSE /\ SetTopFrame([TopFrame EXCEPT
                    !.pos = Append(@, Region(t, "body")),
                    !.handlers = IF level > Len(@) THEN Append(@, new)
                                 ELSE [@ EXCEPT ![level] = new]])
               /\ UNCHANGED <<calls, pc, exc, handling>>

(* UNROLL_EXH n, the end of a body or of a catch clause, break, continue;  *)
(* UNROLL_EXH_R 0 before RETURN.                                           *)
StartUnroll(n, returns) ==
  /\ calls' = Append(calls,
       [kind |-> "unroll", frame |-> Len(frames), level |-> Len(TopFrame.handlers),
        target |-> n, returns |-> returns])
  /\ pc' = "c"
  /\ UNCHANGED <<frames, exc, handling>>

(* The compiler refuses to break out of a finally block.                   *)
Leave ==
  /\ Running(Script)
  /\ \E n \in 0 .. Len(TopFrame.pos) - 1 :
        /\ \A m \in n + 1 .. Len(TopFrame.pos) : TopFrame.pos[m].part # "finally"
        /\ StartUnroll(n, FALSE)

(* RETURN releases the frame; run() itself returns at a start frame, to    *)
(* the native or the script frame below.                                   *)
ReturnFrame ==
  /\ frames' = Front(frames)
  /\ pc' = IF Len(frames) = 1 THEN "ended" ELSE "run"
  /\ UNCHANGED <<exc, handling>>

Return ==
  /\ Running(Script)
  /\ ~InFinally(TopFrame.pos)
  /\ IF TopFrame.pos = <<>>
       THEN ReturnFrame /\ UNCHANGED calls
       ELSE StartUnroll(0, TRUE)

(* END: the run() that executes the finally block returns to its caller.   *)
FinallyEnd ==
  /\ Running(Script)
  /\ TopFrame.pos # <<>> /\ TopFrame.pos[Len(TopFrame.pos)].part = "finally"
  /\ pc' = "done"
  /\ UNCHANGED <<frames, calls, exc, handling>>

(* CALL of a function or of a native; a runCall made by an instruction or  *)
(* by a native; a native that calls a native.                              *)
Call ==
  /\ pc = "run" /\ Len(frames) < MaxFrames
  /\ \E kind \in {"start", "native"} \cup (IF TopFrame.kind = "native" THEN {} ELSE {"inter"}) :
        frames' = Append(frames, Frame(kind))
  /\ UNCHANGED <<calls, pc, exc, handling>>

NativeReturn ==
  /\ Running({"native"})
  /\ frames' = Front(frames)
  /\ UNCHANGED <<calls, pc, exc, handling>>

(* A native function returns EXCEPTION_VAL, its frame is released.         *)
NativeRaises(e) ==
  /\ StaysInside(e)
  /\ frames' = Front(frames)
  /\ exc' = e /\ pc' = "fail"
  /\ UNCHANGED <<calls, handling>>

NativeFault ==
  /\ Running({"native"})
  /\ IF handling > 0
       THEN pc' = "exited" /\ UNCHANGED <<frames, calls, exc, handling>>
       ELSE NativeRaises(RuntimeExc)

(* oomError does not look at handlingException; its class is taken to be   *)
(* that of the runtime errors.                                             *)
NativeOom == Running({"native"}) /\ NativeRaises(RuntimeExc)

(* The exception is returned through native callers to the instruction of  *)
(* the nearest script frame, which throws it again.                        *)
FailNative ==
  /\ pc = "fail" /\ TopFrame.kind = "native"
  /\ frames' = Front(frames)
  /\ UNCHANGED <<calls, pc, exc, handling>>

FailScript == pc = "fail" /\ TopFrame.kind \in Script /\ ThrowIn(exc)
-----------------------------------------------------------------------------
(* The two C loops over the handlers of a frame: level counts down.        *)

CallStep(kind) == pc = "c" /\ TopCall.kind = kind
Visited == TopFrame.handlers[TopCall.level]

(* With "outerHandler" in Avoid: leaves out what follows when an exception *)
(* has passed the inner handlers of a frame and an outer one acts on it.   *)
ActsAlone == "outerHandler" \in Avoid => TopCall.level = Len(TopFrame.handlers)

(* frame->ip is set to the finally block, runChunk executes it.            *)
RunFinally ==
  /\ SetTopFrame([TopFrame EXCEPT
       !.pos = Append(Visited.at, Region(Visited.try, "finally")),
       !.handlers[TopCall.level].ran = @ + 1])
  /\ pc' = "run"
  /\ UNCHANGED <<calls, exc, handling>>

(* Mutant of PropagateCatch: an exception of the catch clause is caught    *)
(* again.                                                                  *)
PropagateCatchAgain ==
  /\ CallStep("propagate") /\ TopCall.level > 0
  /\ TopCall.exc \in Catches[Visited.try] /\ ActsAlone
  /\ SetTopFrame([TopFrame EXCEPT
       !.pos = Append(Visited.at, Region(Visited.try, "catch")),
       !.handlers[TopCall.level].caught = TRUE])
  /\ calls' = Front(calls) /\ handling' = handling - 1
  /\ pc' = "run" /\ UNCHANGED exc

(* Mutant of PropagateCatch: the try block is not marked caught.           *)
PropagateCatchUnmarked ==
  /\ CallStep("propagate") /\ TopCall.level > 0
  /\ ~Visited.caught /\ TopCall.exc \in Catches[Visited.try] /\ ActsAlone
  /\ SetTopFrame([TopFrame EXCEPT
       !.pos = Append(Visited.at, Region(Visited.try, "catch"))])
  /\ calls' = Front(calls) /\ handling' = handling - 1
  /\ pc' = "run" /\ UNCHANGED exc

PropagateCatch ==
  /\ CallStep("propagate") /\ TopCall.level > 0
  /\ ~Visited.caught /\ TopCall.exc \in Catches[Visited.try] /\ ActsAlone
  /\ SetTopFrame([TopFrame EXCEPT
       !.pos = Append(Visited.at, Region(Visited.try, "catch")),
       !.handlers[TopCall.level].caught = TRUE])
  /\ calls' = Front(calls) /\ handling' = handling - 1
  /\ pc' = "run" /\ UNCHANGED exc

(* No clause matches: the finally block, if any, is run, the next outer    *)
(* handler comes next.  handlerCount stays.                                *)
PropagatePast ==
  /\ CallStep("propagate") /\ TopCall.level > 0
  /\ Visited.caught \/ TopCall.exc \notin Catches[Visited.try]
  /\ IF Visited.try \in WithFinally
       THEN ActsAlone /\ RunFinally
       ELSE SetLevel(TopCall.level - 1) /\ UNCHANGED <<frames, pc, exc, handling>>

(* Mutant of PropagateFinallyDone: the loop does not count down.           *)
PropagateFinallyRepeats ==
  /\ pc = "done" /\ TopCall.kind = "propagate"
  /\ pc' = "c" /\ UNCHANGED <<frames, calls, exc, handling>>

PropagateFinallyDone ==
  /\ pc = "done" /\ TopCall.kind = "propagate"
  /\ SetLevel(TopCall.level - 1)
  /\ pc' = "c" /\ UNCHANGED <<frames, exc, handling>>

(* The frame is released, its caller's handlers come next.                 *)
PropagateFrame ==
  /\ CallStep("propagate") /\ TopCall.level = 0 /\ TopFrame.kind = "inter"
  /\ frames' = Front(frames)
  /\ calls' = [calls EXCEPT ![Len(calls)].level = Len(frames[Len(frames) - 1].handlers),
                            ![Len(calls)].frame = @ - 1]
  /\ UNCHANGED <<pc, exc, handling>>

(* Mutant of PropagateOut: the counter is not restored.                    *)
PropagateOutKeepsCount ==
  /\ CallStep("propagate") /\ TopCall.level = 0 /\ TopFrame.kind = "start"
  /\ frames' = Front(frames) /\ calls' = Front(calls)
  /\ exc' = TopCall.exc
  /\ pc' = IF Len(frames) = 1 THEN "ended" ELSE "fail"
  /\ UNCHANGED handling

(* The start frame has no handler for it: run() returns the exception.     *)
PropagateOut ==
  /\ CallStep("propagate") /\ TopCall.level = 0 /\ TopFrame.kind = "start"
  /\ frames' = Front(frames) /\ calls' = Front(calls)
  /\ handling' = handling - 1
  /\ exc' = TopCall.exc
  /\ pc' = IF Len(frames) = 1 THEN "ended" ELSE "fail"

(* handlerCount-- and on to the next outer handler.                        *)
DropHandler ==
  /\ SetTopFrame([TopFrame EXCEPT !.handlers = Front(@)])
  /\ SetLevel(TopCall.level - 1)
  /\ pc' = "c" /\ UNCHANGED <<exc, handling>>

(* Mutant of UnrollVisit: finally blocks are not run.                      *)
UnrollSkips ==
  CallStep("unroll") /\ TopCall.level > TopCall.target /\ DropHandler

UnrollVisit ==
  /\ CallStep("unroll") /\ TopCall.level > TopCall.target
  /\ IF Visited.try \in WithFinally THEN RunFinally ELSE DropHandler

UnrollFinallyDone == pc = "done" /\ TopCall.kind = "unroll" /\ DropHandler

UnrollEnd ==
  /\ CallStep("unroll") /\ TopCall.level <= TopCall.target
  /\ calls' = Front(calls)
  /\ IF TopCall.returns
       THEN ReturnFrame
       ELSE /\ SetTopFrame([TopFrame EXCEPT !.pos = SubSeq(@, 1, TopCall.target)])
            /\ pc' = "run" /\ UNCHANGED <<exc, handling>>

Propagate ==
  \/ PropagateCatch \/ PropagatePast \/ PropagateFinallyDone
  \/ PropagateFrame \/ PropagateOut

Unroll == UnrollVisit \/ UnrollFinallyDone \/ UnrollEnd

Next ==
  \/ \E t \in Try : EnterTry(t)
  \/ Throw \/ Fault \/ Leave \/ Return \/ FinallyEnd
  \/ Call \/ NativeReturn \/ NativeFault \/ NativeOom \/ FailNative \/ FailScript
  \/ Propagate \/ Unroll

Spec == Init /\ [][Next]_vars
-----------------------------------------------------------------------------
(* The variables have their types (vm.h, function.h); a frame never holds  *)
(* more handlers than its array has room for (vm.c:985).                   *)
TypeOK ==
  /\ \A k \in 1 .. Len(frames) :
       /\ frames[k].kind \in Script \cup {"native"}
       /\ Len(frames[k].handlers) <= MaxHandlers
       /\ \A m \in DOMAIN frames[k].pos : frames[k].pos[m].part \in Parts
  /\ \A n \in 1 .. Len(calls) : calls[n].kind \in {"propagate", "unroll"}
  /\ pc \in {"run", "c", "done", "fail", "crashed", "exited", "ended"}
  /\ exc \in Exc
  /\ handling = Cardinality({n \in 1 .. Len(calls) : calls[n].kind = "propagate"})

(* A finally block never runs twice for one execution of its statement,    *)
(* however it is left: end, break, return, exception in the body or in a   *)
(* catch clause (vm.c:914-932, 956-971).                                   *)
FinallyAtMostOnce ==
  \A k \in 1 .. Len(frames) : \A j \in DOMAIN frames[k].handlers :
    frames[k].handlers[j].ran <= 1

(* A handler disappears only when its finally block has run, also when the *)
(* whole frame is released (vm.c:858-936, 956-971).                        *)
FinallyNotSkipped ==
  [][\A k \in 1 .. Len(frames) : \A j \in DOMAIN frames[k].handlers :
       (k > Len(frames') \/ j > Len(frames'[k].handlers)) =>
          \/ frames[k].handlers[j].try \notin WithFinally
          \/ frames[k].handlers[j].ran > 0]_vars

(* An exception is caught by the innermost try statement whose body        *)
(* encloses the instruction and whose clauses match: by no other, and it   *)
(* is not missed (vm.c:867-911).                                           *)
Encloses(h) ==
  LET body == Append(h.at, Region(h.try, "body"))
  IN Len(body) <= Len(TopFrame.pos) /\ SubSeq(TopFrame.pos, 1, Len(body)) = body

CatchExact ==
  [][/\ PropagateCatch => Encloses(Visited)
     /\ PropagatePast =>
          ~(Encloses(Visited) /\ TopCall.exc \in Catches[Visited.try])
     /\ PropagateFrame =>
          \A m \in DOMAIN TopFrame.pos :
             TopFrame.pos[m].part = "body" =>
                TopCall.exc \notin Catches[TopFrame.pos[m].try]]_vars

(* While bytecode runs, the handler stack of every script frame mirrors    *)
(* the try statements around its ip, and says of each which part is being  *)
(* executed (vm.c:981-998, compiler.c:2486-2572).                          *)
HandlersMirror ==
  \A k \in 1 .. Len(frames) :
    (k < Len(frames) \/ pc = "run") =>
      LET f == frames[k] IN
        /\ Len(f.handlers) = Len(f.pos)
        /\ \A j \in DOMAIN f.pos :
             /\ f.handlers[j].try = f.pos[j].try
             /\ f.pos[j].part = "body" => ~f.handlers[j].caught
             /\ f.pos[j].part = "catch" => f.handlers[j].caught
             /\ f.pos[j].part = "finally" <=> f.handlers[j].ran > 0
=============================================================================
