--------------------------------- MODULE Gc ---------------------------------
(***************************************************************************)
(* The mark-sweep collector of memory.c, one step per object marked,       *)
(* blackened or swept, and the mutator that runs between collections.      *)
(*                                                                         *)
(* The host's realloc may fail, for an allocation (the request returns     *)
(* NULL) and for the growth of the gray stack (the collector turns to the  *)
(* slow trace, which rescans the object list until nothing is gray).       *)
(*                                                                         *)
(* Abstractions: a block of memory is one object and weighs one unit of    *)
(* bytesAllocated; the fields that blackenObject marks, whatever the type  *)
(* of the object, are the set refs[o]; the object list is the set heap,    *)
(* walked in any order; the roots that markRoots marks are one set.        *)
(***************************************************************************)
EXTENDS Integers, Sequences, FiniteSets

CONSTANTS
  MainObj,       \* addresses of objects of vm->mainHeap
  PermObj,       \* objects of vm->permHeap, MARKER_BLACK from birth
  StorablePerm,  \* permanent instances that THROW stores a stack trace into
  None,          \* the NULL object
  MinCapacity,   \* first capacity of a growing array (8 in GROW_CAPACITY)
  FirstGC,       \* initial vm->nextGC
  MaxBytes       \* bound of the model on bytesAllocated

ASSUME GcAssumption ==
  /\ MainObj \cap PermObj = {}
  /\ StorablePerm \subseteq PermObj
  /\ None \notin MainObj \cup PermObj
  /\ MinCapacity \in Nat \ {0}
  /\ FirstGC \in Nat
  /\ MaxBytes \in Nat

VARIABLES
  heap,           \* vm->mainHeap.objects
  refs,           \* refs[o]: the objects that the marked fields of o refer to
  roots,          \* stacks, temporaries, globals and handles
  fresh,          \* an object in a C local only, since its allocation
  black, gray,    \* the marker bits
  grayStack,      \* vm->grayStack[0 .. grayCount - 1]
  grayCapacity, grayOverflow,
  phase,          \* where the (single) thread is
  work,           \* the objects the loop in progress has still to mark
  scan,           \* the objects the list walk in progress has still to visit
  haveGray,       \* the flag of slowTraceReferences
  bytesAllocated, nextGC

mutVars == <<heap, refs, roots, fresh>>
markVars == <<black, gray, grayStack, grayCapacity, grayOverflow>>
walkVars == <<work, scan, haveGray>>
byteVars == <<bytesAllocated, nextGC>>
vars == <<mutVars, markVars, walkVars, byteVars, phase>>

Obj == MainObj \cup PermObj
Live == heap \cup PermObj
Phases == {"run", "alloc", "roots", "trace", "slow", "sweep"}

Init ==
  /\ heap = {}
  /\ refs = [o \in Obj |-> {}]
  /\ roots = {}
  /\ fresh = None
  /\ black = PermObj /\ gray = {}
  /\ grayStack = <<>> /\ grayCapacity = 0 /\ grayOverflow = FALSE
  /\ phase = "run"
  /\ work = {} /\ scan = {} /\ haveGray = FALSE
  /\ bytesAllocated = 0 /\ nextGC = FirstGC

-----------------------------------------------------------------------------
(* The mutator: bytecode and native code working through the value stack.  *)

(* A permanent object (a builtin class, say) or the fresh object becomes   *)
(* visible to the collector.                                               *)
Push ==
  /\ phase = "run"
  /\ \/ \E o \in PermObj : roots' = roots \cup {o} /\ UNCHANGED fresh
     \/ fresh # None /\ roots' = roots \cup {fresh} /\ fresh' = None
  /\ UNCHANGED <<heap, refs, markVars, walkVars, byteVars, phase>>

Load ==
  /\ phase = "run"
  /\ \E p \in roots : \E o \in refs[p] \cap Live : roots' = roots \cup {o}
  /\ UNCHANGED <<heap, refs, fresh, markVars, walkVars, byteVars, phase>>

Pop ==
  /\ phase = "run"
  /\ \E o \in roots : roots' = roots \ {o}
  /\ UNCHANGED <<heap, refs, fresh, markVars, walkVars, byteVars, phase>>

(* Mutant of Store: the NULL of a failed allocation is stored.             *)
StoreUnchecked ==
  /\ phase = "run"
  /\ \E p \in roots \cap (MainObj \cup StorablePerm) :
        \E o \in roots \cup {fresh} : refs' = [refs EXCEPT ![p] = @ \cup {o}]
  /\ UNCHANGED <<heap, roots, fresh, markVars, walkVars, byteVars, phase>>

(* A field, an element or an upvalue is assigned.  A permanent object is   *)
(* assigned to by THROW, which sets the stacktrace field of the preallocated *)
(* oomError instance.                                                      *)
Store ==
  /\ phase = "run"
  /\ \E p \in roots \cap (MainObj \cup StorablePerm) :
        \E o \in roots \cup ({fresh} \ {None}) :
           refs' = [refs EXCEPT ![p] = @ \cup {o}]
  /\ UNCHANGED <<heap, roots, fresh, markVars, walkVars, byteVars, phase>>

Erase ==
  /\ phase = "run"
  /\ \E p \in roots : \E o \in refs[p] : refs' = [refs EXCEPT ![p] = @ \ {o}]
  /\ UNCHANGED <<heap, roots, fresh, markVars, walkVars, byteVars, phase>>

(* reallocate with newSize > oldSize: the request is accounted for, and a  *)
(* collection comes first when the total passes nextGC.                    *)
Reallocate ==
  /\ phase = "run" /\ bytesAllocated < MaxBytes
  /\ bytesAllocated' = bytesAllocated + 1
  /\ fresh' = None
  /\ IF bytesAllocated' > nextGC
       THEN phase' = "roots" /\ work' = roots
       ELSE phase' = "alloc" /\ UNCHANGED work
  /\ UNCHANGED <<heap, refs, roots, markVars, scan, haveGray, nextGC>>

(* allocateObject links the new block at the head of the object list.      *)
AllocateObject ==
  /\ phase = "alloc"
  /\ \E o \in MainObj \ heap :
        /\ heap' = heap \cup {o}
        /\ fresh' = o
  /\ phase' = "run"
  /\ UNCHANGED <<refs, roots, markVars, walkVars, byteVars>>

(* The host's realloc returns NULL: bytesAllocated keeps the request.      *)
AllocateFails ==
  /\ phase = "alloc"
  /\ phase' = "run"
  /\ UNCHANGED <<mutVars, markVars, walkVars, byteVars>>
-----------------------------------------------------------------------------
(* The collector.                                                          *)

GrowCapacity(c) == IF c < MinCapacity THEN MinCapacity ELSE 2 * c

(* The end of markObject: the object, already black and gray, is put on    *)
(* the gray stack, which may have to grow and may fail to.                 *)
PushGray(o) ==
  \/ /\ Len(grayStack) < grayCapacity
     /\ grayStack' = Append(grayStack, o)
     /\ UNCHANGED <<grayCapacity, grayOverflow>>
  \/ /\ Len(grayStack) >= grayCapacity
     /\ grayStack' = Append(grayStack, o)
     /\ grayCapacity' = GrowCapacity(grayCapacity)
     /\ UNCHANGED grayOverflow
  \/ /\ Len(grayStack) >= grayCapacity
     /\ grayOverflow' = TRUE
     /\ UNCHANGED <<grayStack, grayCapacity>>

MarkObject(o) ==
  IF o \in black
    THEN UNCHANGED markVars
    ELSE /\ black' = black \cup {o}
         /\ gray' = gray \cup {o}
         /\ IF grayOverflow
              THEN UNCHANGED <<grayStack, grayCapacity, grayOverflow>>
              ELSE PushGray(o)

(* One call of markObject by the loop in progress: markRoots over the      *)
(* roots, or blackenObject over the fields of one object.                  *)
Mark ==
  /\ \E o \in work : MarkObject(o) /\ work' = work \ {o}
  /\ UNCHANGED <<mutVars, scan, haveGray, byteVars, phase>>

RootsDone ==
  /\ phase = "roots" /\ work = {}
  /\ phase' = "trace"
  /\ UNCHANGED <<mutVars, markVars, walkVars, byteVars>>

(* Mutant of TracePop: a popped object's fields are not marked.            *)
TracePopLeaf ==
  /\ phase = "trace" /\ work = {} /\ ~grayOverflow /\ grayStack # <<>>
  /\ gray' = gray \ {grayStack[Len(grayStack)]}
  /\ grayStack' = SubSeq(grayStack, 1, Len(grayStack) - 1)
  /\ UNCHANGED <<mutVars, black, grayCapacity, grayOverflow, walkVars,
                 byteVars, phase>>

(* traceReferences takes the next gray object and blackens it.             *)
TracePop ==
  /\ phase = "trace" /\ work = {} /\ ~grayOverflow /\ grayStack # <<>>
  /\ LET o == grayStack[Len(grayStack)] IN
       /\ gray' = gray \ {o}
       /\ work' = refs[o]
  /\ grayStack' = SubSeq(grayStack, 1, Len(grayStack) - 1)
  /\ UNCHANGED <<mutVars, black, grayCapacity, grayOverflow, scan, haveGray,
                 byteVars, phase>>

TraceOverflow ==
  /\ phase = "trace" /\ work = {} /\ grayOverflow
  /\ phase' = "slow"
  /\ scan' = heap /\ haveGray' = FALSE
  /\ UNCHANGED <<mutVars, markVars, work, byteVars>>

(* Mutant of SlowVisit: the walk does not note that it met a gray object.  *)
SlowVisitOnce ==
  /\ phase = "slow" /\ work = {}
  /\ \E o \in scan :
       /\ scan' = scan \ {o}
       /\ IF o \in gray
            THEN gray' = gray \ {o} /\ work' = refs[o]
            ELSE UNCHANGED <<gray, work>>
  /\ UNCHANGED <<mutVars, black, grayStack, grayCapacity, grayOverflow,
                 haveGray, byteVars, phase>>

(* One object of the list walk of slowTraceReferences.                     *)
SlowVisit ==
  /\ phase = "slow" /\ work = {}
  /\ \E o \in scan :
       /\ scan' = scan \ {o}
       /\ IF o \in gray
            THEN haveGray' = TRUE /\ gray' = gray \ {o} /\ work' = refs[o]
            ELSE UNCHANGED <<haveGray, gray, work>>
  /\ UNCHANGED <<mutVars, black, grayStack, grayCapacity, grayOverflow,
                 byteVars, phase>>

(* Mutant of SlowAgain: the flag is not reset before the next walk.        *)
SlowAgainForever ==
  /\ phase = "slow" /\ work = {} /\ scan = {} /\ haveGray
  /\ scan' = heap
  /\ UNCHANGED <<mutVars, markVars, work, haveGray, byteVars, phase>>

SlowAgain ==
  /\ phase = "slow" /\ work = {} /\ scan = {} /\ haveGray
  /\ scan' = heap /\ haveGray' = FALSE
  /\ UNCHANGED <<mutVars, markVars, work, byteVars, phase>>

(* Mutant of TraceDone: grayOverflow is not reset by the cleanup.          *)
TraceDoneNoReset ==
  /\ work = {}
  /\ \/ phase = "trace" /\ ~grayOverflow /\ grayStack = <<>>
     \/ phase = "slow" /\ scan = {} /\ ~haveGray
  /\ grayStack' = <<>>
  /\ phase' = "sweep" /\ scan' = heap
  /\ UNCHANGED <<mutVars, black, gray, grayCapacity, grayOverflow, work,
                 haveGray, byteVars>>

(* The cleanup of traceReferences; the sweep starts over the whole list.   *)
TraceDone ==
  /\ work = {}
  /\ \/ phase = "trace" /\ ~grayOverflow /\ grayStack = <<>>
     \/ phase = "slow" /\ scan = {} /\ ~haveGray
  /\ grayStack' = <<>> /\ grayOverflow' = FALSE
  /\ phase' = "sweep" /\ scan' = heap
  /\ UNCHANGED <<mutVars, black, gray, grayCapacity, work, haveGray, byteVars>>

(* Mutant of Sweep: a survivor keeps its mark.                             *)
SweepKeepsMark ==
  /\ phase = "sweep"
  /\ \E o \in scan :
       /\ scan' = scan \ {o}
       /\ IF o \in black \cup gray
            THEN UNCHANGED <<heap, refs, bytesAllocated>>
            ELSE /\ heap' = heap \ {o}
                 /\ refs' = [refs EXCEPT ![o] = {}]
                 /\ bytesAllocated' = bytesAllocated - 1
  /\ UNCHANGED <<roots, fresh, markVars, work, haveGray, nextGC, phase>>

Sweep ==
  /\ phase = "sweep"
  /\ \E o \in scan :
       /\ scan' = scan \ {o}
       /\ IF o \in black \cup gray
            THEN /\ black' = black \ {o} /\ gray' = gray \ {o}
                 /\ UNCHANGED <<heap, refs, bytesAllocated>>
            ELSE /\ heap' = heap \ {o}
                 /\ refs' = [refs EXCEPT ![o] = {}]
                 /\ bytesAllocated' = bytesAllocated - 1
                 /\ UNCHANGED <<black, gray>>
  /\ UNCHANGED <<roots, fresh, grayStack, grayCapacity, grayOverflow, work,
                 haveGray, nextGC, phase>>

(* collectGarbage returns to the reallocate that called it.                *)
CollectDone ==
  /\ phase = "sweep" /\ scan = {}
  /\ nextGC' = 2 * bytesAllocated
  /\ phase' = "alloc"
  /\ haveGray' = FALSE
  /\ UNCHANGED <<mutVars, markVars, work, scan, bytesAllocated>>

Collector ==
  \/ Mark \/ RootsDone \/ TracePop \/ TraceOverflow \/ SlowVisit \/ SlowAgain
  \/ TraceDone \/ Sweep \/ CollectDone

Mutator ==
  \/ Push \/ Load \/ Pop \/ Store \/ Erase
  \/ Reallocate \/ AllocateObject \/ AllocateFails

Next == Mutator \/ Collector

Spec == Init /\ [][Next]_vars
-----------------------------------------------------------------------------
(* What the collector is for.  Reach is the least set that holds R and is  *)
(* closed under the fields of collected objects.                           *)
Traced(r, o) == IF o \in MainObj THEN r[o] ELSE {}

ClosedUnder(S, r) == \A o \in S : Traced(r, o) \subseteq S

Reach(R, r) ==
  {o \in Obj : \A S \in SUBSET Obj :
                  (R \subseteq S /\ ClosedUnder(S, r)) => o \in S}

(* Every variable keeps its type (the declarations of vm.h).               *)
TypeOK ==
  /\ heap \subseteq MainObj
  /\ refs \in [Obj -> SUBSET Obj]
  /\ roots \subseteq Obj
  /\ fresh \in MainObj \cup {None}
  /\ black \subseteq Obj /\ gray \subseteq Obj
  /\ grayStack \in Seq(Obj)
  /\ grayCapacity \in Nat /\ grayOverflow \in BOOLEAN
  /\ phase \in Phases
  /\ work \subseteq Obj /\ scan \subseteq MainObj
  /\ haveGray \in BOOLEAN
  /\ bytesAllocated \in Int /\ nextGC \in Int

(* No object that a root reaches is ever freed, at any step of a collection *)
(* and whichever growth of the gray stack fails (memory.c:302-396).        *)
NoDangling == Reach(roots, refs) \subseteq Live

(* Between collections no mark is left over: a marker that survived would  *)
(* keep its object out of the next trace, and a leftover overflow flag or  *)
(* stack entry would corrupt it (memory.c:348-351, 359-360).               *)
CleanBetween ==
  phase \in {"run", "alloc"} =>
    /\ black = PermObj /\ gray = {}
    /\ grayStack = <<>> /\ ~grayOverflow
    /\ work = {} /\ scan = {}

(* The objects that are there once the sweep in progress has ended.        *)
Kept == (heap \ scan) \cup (heap \cap black)

InMark == phase \in {"roots", "trace", "slow"}

(* Everything the mutator or the collector may touch is allocated.         *)
AliveInv ==
  /\ roots \subseteq Live
  /\ fresh \in heap \cup {None} /\ (phase # "run" => fresh = None)
  /\ scan \subseteq heap
  /\ phase # "sweep" => \A o \in heap : refs[o] \subseteq Live
  /\ \A o \in MainObj \ heap : refs[o] = {}

(* The tri-colour invariant: what the trace has left behind points only at *)
(* marked objects or at objects about to be marked.                        *)
ColourInv ==
  InMark =>
    /\ PermObj \subseteq black /\ black \subseteq Live
    /\ gray \subseteq black \cap heap
    /\ work \subseteq Live
    /\ roots \subseteq black \cup work
    /\ phase # "roots" => roots \subseteq black
    /\ phase = "roots" => black \cap heap = gray
    /\ \A o \in (black \cap heap) \ gray : refs[o] \subseteq black \cup work

(* No gray object is forgotten: it is on the gray stack or, after an       *)
(* overflow, ahead of the list walk unless the walk will be repeated.      *)
GrayInv ==
  InMark =>
    /\ ~grayOverflow =>
          \A o \in gray : \E i \in 1 .. Len(grayStack) : grayStack[i] = o
    /\ \A i \in 1 .. Len(grayStack) : grayStack[i] \in black \cap heap
    /\ phase = "slow" => grayOverflow
    /\ phase = "slow" /\ ~haveGray => gray \subseteq scan /\ work = {}

(* What the sweep keeps holds the roots and is closed.                     *)
SweepInv ==
  phase = "sweep" =>
    /\ work = {} /\ gray = {} /\ grayStack = <<>> /\ ~grayOverflow
    /\ black \subseteq scan \cup PermObj /\ PermObj \subseteq black
    /\ roots \subseteq Kept \cup PermObj
    /\ \A o \in Kept : refs[o] \subseteq Kept \cup PermObj

MarkInv == AliveInv /\ ColourInv /\ GrayInv /\ SweepInv

(* A mark is only ever given to an object that a root reaches, so that a   *)
(* collection leaves no garbage behind.                                    *)
PreciseInv ==
  InMark => work \cup (black \cap heap) \subseteq Reach(roots, refs)

(* A collection comes to its end, the do-while of the slow trace included: *)
(* each of its steps leaves less to do.  An object has to be marked, then  *)
(* blackened; another list walk is worth a gray object met in this one.    *)
Stage == [roots |-> 4, trace |-> 3, slow |-> 2, sweep |-> 1, alloc |-> 0]
ToDo ==
  <<Stage[phase], IF InMark THEN 2 * Cardinality(Live \ black) + Cardinality(gray) ELSE 0,
    IF haveGray THEN 1 ELSE 0, Cardinality(scan), Cardinality(work)>>

Less(m, n) == \E i \in DOMAIN m : m[i] < n[i] /\ \A j \in 1 .. i - 1 : m[j] = n[j]

CollectionShrinks == [][phase \notin {"run", "alloc"} => Less(ToDo', ToDo)]_vars

-----------------------------------------------------------------------------
(* The collector implements ManagedHeap: a collection takes effect at the  *)
(* moment its trace is complete, the sweep is not visible.                 *)
absHeap == IF phase = "sweep" THEN Kept ELSE heap
absRefs == [o \in Obj |-> IF o \in absHeap \cup PermObj THEN refs[o] ELSE {}]

Abs == INSTANCE ManagedHeap WITH heap <- absHeap, refs <- absRefs

(* Seen from the mutator, every collection removes, in one step, exactly   *)
(* the objects that no root reaches (memory.c:376-396).                    *)
ImplementsManagedHeap == Abs!Spec
=============================================================================
