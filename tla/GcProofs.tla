------------------------------ MODULE GcProofs ------------------------------
(***************************************************************************)
(* The collector of memory.c is correct for every set of objects, every    *)
(* bound and every pattern of failing allocations: theorems of Gc.tla.     *)
(***************************************************************************)
EXTENDS Gc, FiniteSetTheorems, SequenceTheorems, TLAPS

LEMMA TypeInit == Init => TypeOK
<1>1. PermObj \subseteq Obj /\ FirstGC \in Int
  BY GcAssumption DEF Obj
<1>2. Init => grayStack \in Seq(Obj) /\ refs \in [Obj -> SUBSET Obj]
  BY DEF Init
<1>3. Init => /\ grayOverflow \in BOOLEAN /\ haveGray \in BOOLEAN
              /\ phase \in Phases
  BY DEF Init, Phases
<1>4. Init => grayCapacity \in Nat /\ bytesAllocated \in Int /\ nextGC \in Int
  BY <1>1 DEF Init
<1> QED
  BY <1>1, <1>2, <1>3, <1>4 DEF Init, TypeOK

LEMMA TypeStep == TypeOK /\ [Next]_vars => TypeOK'
<1> SUFFICES ASSUME TypeOK, [Next]_vars PROVE TypeOK'
  OBVIOUS
<1> USE DEF TypeOK, Phases
<1>1. CASE Push
  BY <1>1, GcAssumption DEF Push, markVars, walkVars, byteVars, Obj
<1>2. CASE Load
  BY <1>2 DEF Load, markVars, walkVars, byteVars
<1>3. CASE Pop
  BY <1>3 DEF Pop, markVars, walkVars, byteVars
<1>4. CASE Store
  BY <1>4 DEF Store, markVars, walkVars, byteVars, Obj
<1>5. CASE Erase
  BY <1>5 DEF Erase, markVars, walkVars, byteVars
<1>6. CASE Reallocate
  BY <1>6 DEF Reallocate, markVars
<1>7. CASE AllocateObject
  BY <1>7 DEF AllocateObject, markVars, walkVars, byteVars
<1>8. CASE AllocateFails
  BY <1>8 DEF AllocateFails, mutVars, markVars, walkVars, byteVars
<1>9. CASE Mark
  <2>1. PICK o \in work : MarkObject(o) /\ work' = work \ {o}
    BY <1>9 DEF Mark
  <2>2. GrowCapacity(grayCapacity) \in Nat
    BY GcAssumption DEF GrowCapacity
  <2>3. Append(grayStack, o) \in Seq(Obj)
    BY <2>1
  <2>4. grayStack' \in Seq(Obj) /\ grayCapacity' \in Nat
    BY <2>1, <2>2, <2>3 DEF MarkObject, PushGray, markVars
  <2>5. grayOverflow' \in BOOLEAN
    BY <2>1 DEF MarkObject, PushGray, markVars
  <2>6. black' \subseteq Obj /\ gray' \subseteq Obj /\ work' \subseteq Obj
    BY <2>1 DEF MarkObject, markVars
  <2> QED
    BY <1>9, <2>4, <2>5, <2>6 DEF Mark, mutVars, byteVars
<1>10. CASE RootsDone
  BY <1>10 DEF RootsDone, mutVars, markVars, walkVars, byteVars
<1>11. CASE TracePop
  BY <1>11 DEF TracePop, mutVars, byteVars
<1>12. CASE TraceOverflow
  BY <1>12 DEF TraceOverflow, mutVars, markVars, byteVars
<1>13. CASE SlowVisit
  BY <1>13 DEF SlowVisit, mutVars, byteVars, Obj
<1>14. CASE SlowAgain
  BY <1>14 DEF SlowAgain, mutVars, markVars, byteVars
<1>15. CASE TraceDone
  <2>1. grayStack' \in Seq(Obj) /\ scan' \subseteq MainObj
    BY <1>15 DEF TraceDone, mutVars
  <2>2. phase' \in Phases /\ grayOverflow' \in BOOLEAN
    BY <1>15 DEF TraceDone
  <2> QED
    BY <2>1, <2>2, <1>15 DEF TraceDone, mutVars, byteVars
<1>16. CASE Sweep
  BY <1>16 DEF Sweep, Obj
<1>17. CASE CollectDone
  <2>1. nextGC' \in Int
    BY <1>17 DEF CollectDone
  <2>2. haveGray' \in BOOLEAN /\ phase' \in Phases
    BY <1>17 DEF CollectDone
  <2> QED
    BY <2>1, <2>2, <1>17 DEF CollectDone, mutVars, markVars
<1>18. CASE UNCHANGED vars
  BY <1>18 DEF vars, mutVars, markVars, walkVars, byteVars
<1> QED
  BY <1>1, <1>2, <1>3, <1>4, <1>5, <1>6, <1>7, <1>8, <1>9, <1>10, <1>11,
     <1>12, <1>13, <1>14, <1>15, <1>16, <1>17, <1>18
  DEF Next, Mutator, Collector

(* Every variable keeps its type in every behaviour of the collector and   *)
(* the mutator (the declarations of vm.h).                                 *)
THEOREM TypeCorrect == Spec => []TypeOK
  BY TypeInit, TypeStep, PTL DEF Spec

-----------------------------------------------------------------------------
(* The inductive invariant: the types, what holds between collections, and *)
(* what holds during one.                                                  *)
IInv == TypeOK /\ CleanBetween /\ MarkInv

LEMMA InitIInv == Init => IInv
<1> SUFFICES ASSUME Init PROVE CleanBetween /\ MarkInv
  BY TypeInit DEF IInv
<1>1. CleanBetween
  BY DEF Init, CleanBetween
<1>2. AliveInv
  BY DEF Init, AliveInv, Obj
<1>3. ColourInv /\ GrayInv /\ SweepInv
  BY DEF Init, ColourInv, GrayInv, SweepInv, InMark
<1> QED
  BY <1>1, <1>2, <1>3 DEF MarkInv

(* Mutator steps that leave the marks and the phase alone.                 *)
LEMMA MutatorKeeps ==
  ASSUME IInv, TypeOK',
         Push \/ Load \/ Pop \/ Store \/ Erase \/ AllocateObject \/ AllocateFails
  PROVE  CleanBetween' /\ MarkInv'
<1> USE DEF IInv
<1>1. phase \in {"run", "alloc"} /\ phase' \in {"run", "alloc"}
  BY DEF Push, Load, Pop, Store, Erase, AllocateObject, AllocateFails
<1>2. CleanBetween'
  BY <1>1 DEF CleanBetween, Push, Load, Pop, Store, Erase, AllocateObject,
              AllocateFails, markVars, walkVars
<1>3. ColourInv' /\ GrayInv' /\ SweepInv'
  BY <1>1 DEF ColourInv, GrayInv, SweepInv, InMark
<1>4. AliveInv'
  <2>1. CASE Push
    BY <2>1 DEF Push, MarkInv, AliveInv, Live, walkVars
  <2>2. CASE Load
    BY <2>2 DEF Load, MarkInv, AliveInv, Live, walkVars
  <2>3. CASE Pop
    BY <2>3 DEF Pop, MarkInv, AliveInv, Live, walkVars
  <2>4. CASE Store
    <3>1. PICK p \in roots \cap (MainObj \cup StorablePerm),
               o \in roots \cup ({fresh} \ {None}) :
               refs' = [refs EXCEPT ![p] = @ \cup {o}]
      BY <2>4 DEF Store
    <3>2. o \in Live
      BY <3>1 DEF MarkInv, AliveInv, Live
    <3>3. \A q \in heap : refs'[q] \subseteq Live
      BY <1>1, <3>1, <3>2 DEF MarkInv, AliveInv, TypeOK, Obj
    <3>4. \A q \in MainObj \ heap : refs'[q] = {}
      BY <3>1, GcAssumption DEF MarkInv, AliveInv, TypeOK, Obj, Live
    <3> QED
      BY <1>1, <2>4, <3>3, <3>4 DEF Store, MarkInv, AliveInv, Live, walkVars
  <2>5. CASE Erase
    <3>1. \A q \in heap : refs'[q] \subseteq Live
      BY <1>1, <2>5 DEF Erase, MarkInv, AliveInv, TypeOK, Obj
    <3>2. \A q \in MainObj \ heap : refs'[q] = {}
      BY <2>5 DEF Erase, MarkInv, AliveInv, TypeOK, Obj
    <3> QED
      BY <1>1, <2>5, <3>1, <3>2 DEF Erase, MarkInv, AliveInv, Live, walkVars
  <2>6. CASE AllocateObject
    <3>1. PICK o \in MainObj \ heap : heap' = heap \cup {o} /\ fresh' = o
      BY <2>6 DEF AllocateObject
    <3>2. \A q \in heap' : refs'[q] \subseteq Live'
      BY <1>1, <2>6, <3>1 DEF AllocateObject, MarkInv, AliveInv, Live
    <3> QED
      BY <1>1, <2>6, <3>1, <3>2 DEF AllocateObject, MarkInv, AliveInv, Live,
                                    walkVars
  <2>7. CASE AllocateFails
    BY <1>1, <2>7 DEF AllocateFails, MarkInv, AliveInv, Live, walkVars, mutVars
  <2> QED
    BY <2>1, <2>2, <2>3, <2>4, <2>5, <2>6, <2>7
<1> QED
  BY <1>2, <1>3, <1>4 DEF MarkInv

(* The steps of the collector, one lemma each; what they leave alone keeps *)
(* AliveInv and, outside a collection, CleanBetween.                       *)
LEMMA ReallocateKeeps ==
  ASSUME IInv, TypeOK', Reallocate PROVE CleanBetween' /\ MarkInv'
<1> USE DEF IInv
<1>1. phase = "run" /\ phase' \in {"roots", "alloc"}
  BY DEF Reallocate
<1>2. CleanBetween'
  BY <1>1 DEF Reallocate, CleanBetween, markVars
<1>3. AliveInv'
  BY <1>1 DEF Reallocate, MarkInv, AliveInv, Live
<1>4. ColourInv'
  BY <1>1, GcAssumption
  DEF Reallocate, MarkInv, AliveInv, ColourInv, InMark, Live, CleanBetween,
      markVars, TypeOK
<1>5. GrayInv'
  BY <1>1 DEF Reallocate, CleanBetween, GrayInv, InMark, markVars
<1>6. SweepInv'
  BY <1>1 DEF SweepInv
<1> QED
  BY <1>2, <1>3, <1>4, <1>5, <1>6 DEF MarkInv

LEMMA MarkKeeps ==
  ASSUME IInv, TypeOK', Mark PROVE CleanBetween' /\ MarkInv'
<1> USE DEF IInv
<1>1. InMark /\ phase' = phase
  BY DEF Mark, TypeOK, Phases, InMark, CleanBetween, MarkInv, SweepInv
<1>2. PICK o \in work : MarkObject(o) /\ work' = work \ {o}
  BY DEF Mark
<1>3. CleanBetween'
  BY <1>1 DEF CleanBetween, InMark
<1>4. AliveInv'
  BY DEF Mark, mutVars, MarkInv, AliveInv, Live
<1>5. /\ black' = black \cup {o}
      /\ o \in black => gray' = gray
      /\ o \notin black => gray' = gray \cup {o}
  BY <1>2 DEF MarkObject, markVars
<1>6. o \in heap \/ o \in black
  BY <1>1 DEF MarkInv, ColourInv, Live
<1>7. ColourInv'
  BY <1>1, <1>2, <1>5, <1>6 DEF Mark, mutVars, MarkInv, ColourInv, InMark, Live
<1>8. GrayInv'
  <2>1. CASE o \in black
    BY <1>1, <1>2, <2>1 DEF MarkObject, Mark, mutVars, markVars, MarkInv,
                            GrayInv, InMark
  <2>2. CASE o \notin black /\ grayOverflow
    BY <1>1, <1>2, <1>5, <2>2 DEF MarkObject, Mark, mutVars, MarkInv, GrayInv,
                                  InMark
  <2>3. CASE o \notin black /\ ~grayOverflow /\ grayOverflow'
    BY <1>1, <1>2, <1>5, <2>3 DEF MarkObject, PushGray, Mark, mutVars, MarkInv,
                                  GrayInv, InMark
  <2>4. CASE o \notin black /\ ~grayOverflow /\ ~grayOverflow'
    <3>1. grayStack' = Append(grayStack, o)
      BY <1>2, <2>4 DEF MarkObject, PushGray
    <3>2. Len(grayStack') = Len(grayStack) + 1 /\ Len(grayStack) \in Nat
      BY <3>1 DEF TypeOK
    <3>3. \A i \in 1 .. Len(grayStack) : grayStack'[i] = grayStack[i]
      BY <3>1 DEF TypeOK
    <3>4. grayStack'[Len(grayStack')] = o
      BY <3>1, <3>2 DEF TypeOK
    <3>5. \A x \in gray' : \E i \in 1 .. Len(grayStack') : grayStack'[i] = x
      BY <1>1, <1>5, <2>4, <3>2, <3>3, <3>4 DEF MarkInv, GrayInv
    <3>6. \A i \in 1 .. Len(grayStack') : grayStack'[i] \in (black \cap heap)'
      BY <1>1, <1>5, <1>6, <2>4, <3>2, <3>3, <3>4
      DEF MarkInv, GrayInv, Mark, mutVars
    <3>7. phase # "slow"
      BY <1>1, <2>4 DEF MarkInv, GrayInv
    <3> QED
      BY <1>1, <3>5, <3>6, <3>7 DEF GrayInv, Mark, mutVars
  <2> QED
    BY <2>1, <2>2, <2>3, <2>4
<1>9. SweepInv'
  BY <1>1 DEF SweepInv, InMark
<1> QED
  BY <1>3, <1>4, <1>7, <1>8, <1>9 DEF MarkInv

LEMMA RootsDoneKeeps ==
  ASSUME IInv, TypeOK', RootsDone PROVE CleanBetween' /\ MarkInv'
<1> USE DEF IInv
<1>1. phase = "roots" /\ phase' = "trace" /\ work = {}
  BY DEF RootsDone
<1>2. CleanBetween' /\ SweepInv'
  BY <1>1 DEF CleanBetween, SweepInv
<1>3. AliveInv'
  BY <1>1 DEF RootsDone, mutVars, walkVars, MarkInv, AliveInv, Live
<1>4. ColourInv'
  BY <1>1 DEF RootsDone, mutVars, markVars, walkVars, MarkInv, ColourInv,
              InMark, Live
<1>5. GrayInv'
  BY <1>1 DEF RootsDone, mutVars, markVars, walkVars, MarkInv, GrayInv, InMark
<1> QED
  BY <1>2, <1>3, <1>4, <1>5 DEF MarkInv

LEMMA TracePopKeeps ==
  ASSUME IInv, TypeOK', TracePop PROVE CleanBetween' /\ MarkInv'
<1> USE DEF IInv
<1>1. phase = "trace" /\ phase' = "trace" /\ work = {} /\ ~grayOverflow
  BY DEF TracePop
<1> DEFINE n == Len(grayStack)
           o == grayStack[n]
<1>2. n \in Nat /\ n > 0
  BY DEF TracePop, TypeOK
<1>3. o \in heap
  BY <1>1, <1>2 DEF MarkInv, GrayInv, InMark
<1>4. gray' = gray \ {o} /\ work' = refs[o]
  BY DEF TracePop
<1>5. Len(grayStack') = n - 1 /\ \A i \in 1 .. n - 1 : grayStack'[i] = grayStack[i]
  <2>1. grayStack \in Seq(Obj) /\ grayStack' = SubSeq(grayStack, 1, n - 1)
    BY DEF TracePop, TypeOK
  <2>2. \A i \in 1 .. n - 1 : grayStack[i] \in Obj
    BY <1>2, <2>1
  <2> HIDE DEF n
  <2>3. /\ Len(SubSeq(grayStack, 1, n - 1)) = n - 1
        /\ \A i \in 1 .. n - 1 : SubSeq(grayStack, 1, n - 1)[i] = grayStack[i]
    BY <1>2, <2>2, SubSeqProperties
  <2> QED
    BY <2>1, <2>3
<1>6. CleanBetween' /\ SweepInv'
  BY <1>1 DEF CleanBetween, SweepInv
<1>7. AliveInv'
  BY <1>1 DEF TracePop, mutVars, MarkInv, AliveInv, Live
<1>8. refs[o] \subseteq Live
  BY <1>1, <1>3 DEF MarkInv, AliveInv
<1>9. ColourInv'
  <2> HIDE DEF o, n
  <2> QED
    BY <1>1, <1>3, <1>4, <1>8
    DEF TracePop, mutVars, MarkInv, ColourInv, InMark, Live
<1>10. GrayInv'
  <2> HIDE DEF n
  <2>1. ASSUME NEW x \in gray' PROVE \E i \in 1 .. n - 1 : grayStack'[i] = x
    <3>1. PICK i \in 1 .. n : grayStack[i] = x
      BY <1>1, <1>4 DEF MarkInv, GrayInv, InMark, n
    <3>2. i # n
      BY <1>4, <3>1
    <3> QED
      BY <1>2, <1>5, <3>1, <3>2
  <2>2. \A i \in 1 .. n - 1 : grayStack'[i] \in (black \cap heap)'
    BY <1>1, <1>2, <1>5 DEF MarkInv, GrayInv, InMark, n, TracePop, mutVars
  <2> QED
    BY <1>1, <1>5, <2>1, <2>2 DEF GrayInv, TracePop, mutVars
<1> QED
  BY <1>6, <1>7, <1>9, <1>10 DEF MarkInv

LEMMA TraceOverflowKeeps ==
  ASSUME IInv, TypeOK', TraceOverflow PROVE CleanBetween' /\ MarkInv'
<1> USE DEF IInv
<1>1. phase = "trace" /\ phase' = "slow" /\ work = {} /\ grayOverflow
  BY DEF TraceOverflow
<1>2. CleanBetween' /\ SweepInv'
  BY <1>1 DEF CleanBetween, SweepInv
<1>3. AliveInv'
  BY <1>1 DEF TraceOverflow, mutVars, MarkInv, AliveInv, Live
<1>4. ColourInv'
  BY <1>1 DEF TraceOverflow, mutVars, markVars, MarkInv, ColourInv, InMark, Live
<1>5. GrayInv'
  BY <1>1 DEF TraceOverflow, mutVars, markVars, MarkInv, ColourInv, GrayInv, InMark
<1> QED
  BY <1>2, <1>3, <1>4, <1>5 DEF MarkInv

LEMMA SlowVisitKeeps ==
  ASSUME IInv, TypeOK', SlowVisit PROVE CleanBetween' /\ MarkInv'
<1> USE DEF IInv
<1>1. phase = "slow" /\ phase' = "slow" /\ work = {} /\ grayOverflow
  BY DEF SlowVisit, MarkInv, GrayInv, InMark
<1>2. PICK o \in scan :
        /\ scan' = scan \ {o}
        /\ IF o \in gray
             THEN haveGray' = TRUE /\ gray' = gray \ {o} /\ work' = refs[o]
             ELSE UNCHANGED <<haveGray, gray, work>>
  BY DEF SlowVisit
<1>3. o \in heap /\ refs[o] \subseteq Live
  BY <1>1 DEF MarkInv, AliveInv
<1>4. CleanBetween' /\ SweepInv'
  BY <1>1 DEF CleanBetween, SweepInv
<1>5. AliveInv'
  BY <1>1, <1>2 DEF SlowVisit, mutVars, MarkInv, AliveInv, Live
<1>6. ColourInv'
  BY <1>1, <1>2, <1>3 DEF SlowVisit, mutVars, MarkInv, ColourInv, InMark, Live
<1>7. GrayInv'
  BY <1>1, <1>2 DEF SlowVisit, mutVars, MarkInv, GrayInv, InMark
<1> QED
  BY <1>4, <1>5, <1>6, <1>7 DEF MarkInv

LEMMA SlowAgainKeeps ==
  ASSUME IInv, TypeOK', SlowAgain PROVE CleanBetween' /\ MarkInv'
<1> USE DEF IInv
<1>1. phase = "slow" /\ phase' = "slow" /\ work = {}
  BY DEF SlowAgain
<1>2. CleanBetween' /\ SweepInv'
  BY <1>1 DEF CleanBetween, SweepInv
<1>3. AliveInv'
  BY <1>1 DEF SlowAgain, mutVars, MarkInv, AliveInv, Live
<1>4. ColourInv'
  BY <1>1 DEF SlowAgain, mutVars, markVars, MarkInv, ColourInv, InMark, Live
<1>5. GrayInv'
  BY <1>1 DEF SlowAgain, mutVars, markVars, MarkInv, ColourInv, GrayInv, InMark
<1> QED
  BY <1>2, <1>3, <1>4, <1>5 DEF MarkInv

(* Where the trace ends nothing is gray, so the marked objects are closed. *)
LEMMA TraceDoneKeeps ==
  ASSUME IInv, TypeOK', TraceDone PROVE CleanBetween' /\ MarkInv'
<1> USE DEF IInv
<1>1. phase \in {"trace", "slow"} /\ InMark /\ phase' = "sweep" /\ work = {}
  BY DEF TraceDone, InMark
<1>2. gray = {}
  <2>1. CASE phase = "trace" /\ ~grayOverflow /\ grayStack = <<>>
    BY <1>1, <2>1 DEF MarkInv, GrayInv
  <2>2. CASE phase = "slow" /\ scan = {} /\ ~haveGray
    BY <1>1, <2>2 DEF MarkInv, GrayInv
  <2> QED
    BY <2>1, <2>2 DEF TraceDone
<1>3. CleanBetween' /\ ColourInv' /\ GrayInv'
  BY <1>1 DEF CleanBetween, ColourInv, GrayInv, InMark
<1>4. AliveInv'
  BY <1>1 DEF TraceDone, mutVars, MarkInv, AliveInv, Live
<1>5. Kept' = heap \cap black
  BY DEF TraceDone, mutVars, Kept
<1>6. roots \subseteq black /\ black \subseteq Live /\ PermObj \subseteq black
  BY <1>1 DEF MarkInv, ColourInv
<1>7. \A o \in heap \cap black : refs[o] \subseteq black
  BY <1>1, <1>2 DEF MarkInv, ColourInv
<1>8. SweepInv'
  BY <1>1, <1>2, <1>5, <1>6, <1>7 DEF TraceDone, mutVars, SweepInv, Live
<1> QED
  BY <1>3, <1>4, <1>8 DEF MarkInv

LEMMA SweepKeeps ==
  ASSUME IInv, TypeOK', Sweep PROVE CleanBetween' /\ MarkInv'
<1> USE DEF IInv
<1>1. phase = "sweep" /\ phase' = "sweep" /\ gray = {}
  BY DEF Sweep, MarkInv, SweepInv
<1>2. PICK o \in scan :
        /\ scan' = scan \ {o}
        /\ IF o \in black \cup gray
             THEN /\ black' = black \ {o} /\ gray' = gray \ {o}
                  /\ UNCHANGED <<heap, refs, bytesAllocated>>
             ELSE /\ heap' = heap \ {o}
                  /\ refs' = [refs EXCEPT ![o] = {}]
                  /\ bytesAllocated' = bytesAllocated - 1
                  /\ UNCHANGED <<black, gray>>
  BY DEF Sweep
<1>3. o \in heap /\ o \in MainObj /\ o \notin PermObj
  BY GcAssumption DEF MarkInv, AliveInv, TypeOK
<1>4. Kept' = Kept
  BY <1>1, <1>2, <1>3 DEF Kept, MarkInv, AliveInv
<1>5. \A x \in Kept : refs'[x] = refs[x]
  BY <1>1, <1>2, <1>3 DEF Kept, TypeOK, Obj
<1>6. CleanBetween' /\ ColourInv' /\ GrayInv'
  BY <1>1 DEF CleanBetween, ColourInv, GrayInv, InMark
<1>7. AliveInv'
  <2>1. roots' \subseteq Live'
    BY <1>1, <1>2, <1>3, <1>4 DEF Sweep, MarkInv, SweepInv, Kept, Live
  <2>2. \A x \in MainObj \ heap' : refs'[x] = {}
    BY <1>2, <1>3 DEF MarkInv, AliveInv, TypeOK, Obj
  <2> QED
    BY <1>1, <1>2, <2>1, <2>2 DEF Sweep, MarkInv, AliveInv
<1>8. SweepInv'
  BY <1>1, <1>2, <1>3, <1>4, <1>5 DEF Sweep, MarkInv, SweepInv
<1> QED
  BY <1>6, <1>7, <1>8 DEF MarkInv

LEMMA CollectDoneKeeps ==
  ASSUME IInv, TypeOK', CollectDone PROVE CleanBetween' /\ MarkInv'
<1> USE DEF IInv
<1>1. phase = "sweep" /\ phase' = "alloc" /\ scan = {}
  BY DEF CollectDone
<1>2. Kept = heap
  BY <1>1 DEF Kept
<1>3. ColourInv' /\ GrayInv' /\ SweepInv'
  BY <1>1 DEF ColourInv, GrayInv, SweepInv, InMark
<1>4. AliveInv'
  BY <1>1, <1>2 DEF CollectDone, mutVars, MarkInv, AliveInv, SweepInv, Live
<1>5. CleanBetween'
  BY <1>1 DEF CollectDone, mutVars, markVars, MarkInv, SweepInv, CleanBetween
<1> QED
  BY <1>3, <1>4, <1>5 DEF MarkInv

LEMMA StepIInv == IInv /\ [Next]_vars => IInv'
<1> SUFFICES ASSUME IInv, [Next]_vars PROVE CleanBetween' /\ MarkInv'
  BY TypeStep DEF IInv
<1>1. TypeOK'
  BY TypeStep DEF IInv
<1>2. CASE Mutator
  BY <1>1, <1>2, MutatorKeeps, ReallocateKeeps DEF Mutator
<1>3. CASE Collector
  BY <1>1, <1>3, MarkKeeps, RootsDoneKeeps, TracePopKeeps, TraceOverflowKeeps,
     SlowVisitKeeps, SlowAgainKeeps, TraceDoneKeeps, SweepKeeps, CollectDoneKeeps
  DEF Collector
<1>4. CASE UNCHANGED vars
  BY <1>4 DEF IInv, vars, mutVars, markVars, walkVars, byteVars, CleanBetween,
              MarkInv, AliveInv, ColourInv, GrayInv, SweepInv, InMark, Live, Kept
<1> QED
  BY <1>2, <1>3, <1>4 DEF Next

LEMMA Inductive == Spec => []IInv
  BY InitIInv, StepIInv, PTL DEF Spec

-----------------------------------------------------------------------------
(* Reach is the least closed set that holds its argument.                  *)
LEMMA ReachLeast ==
  ASSUME NEW R, NEW r, NEW S \in SUBSET Obj, R \subseteq S, ClosedUnder(S, r)
  PROVE  Reach(R, r) \subseteq S
  BY DEF Reach

LEMMA ReachClosed ==
  ASSUME NEW R \in SUBSET Obj, NEW r \in [Obj -> SUBSET Obj]
  PROVE  /\ R \subseteq Reach(R, r)
         /\ ClosedUnder(Reach(R, r), r)
<1>1. R \subseteq Reach(R, r)
  BY DEF Reach
<1>2. ASSUME NEW o \in Reach(R, r), NEW x \in Traced(r, o)
      PROVE  x \in Reach(R, r)
  <2>1. o \in Obj
    BY <1>2 DEF Reach
  <2>2. x \in Obj
    BY <1>2, <2>1 DEF Traced
  <2>3. ASSUME NEW S \in SUBSET Obj, R \subseteq S, ClosedUnder(S, r)
        PROVE  x \in S
    <3>1. o \in S
      BY <1>2, <2>3 DEF Reach
    <3> QED
      BY <1>2, <2>3, <3>1 DEF ClosedUnder
  <2> QED
    BY <2>2, <2>3 DEF Reach
<1> QED
  BY <1>1, <1>2 DEF ClosedUnder

(* Whatever the collector has freed so far, what the roots reach is live.  *)
LEMMA ReachLive == IInv => NoDangling
<1> SUFFICES ASSUME IInv PROVE Reach(roots, refs) \subseteq Live
  BY DEF NoDangling
<1>0. Live \in SUBSET Obj /\ MainObj \cap PermObj = {}
  BY GcAssumption DEF IInv, TypeOK, Live, Obj
<1>1. CASE phase # "sweep"
  <2>1. roots \subseteq Live /\ ClosedUnder(Live, refs)
    BY <1>0, <1>1 DEF IInv, MarkInv, AliveInv, ClosedUnder, Traced, Live
  <2> QED
    BY <1>0, <2>1, ReachLeast
<1>2. CASE phase = "sweep"
  <2>1. Kept \cup PermObj \subseteq Live
    BY DEF Kept, Live
  <2>2. roots \subseteq Kept \cup PermObj /\ ClosedUnder(Kept \cup PermObj, refs)
    BY <1>0, <1>2 DEF IInv, MarkInv, SweepInv, ClosedUnder, Traced
  <2>3. Kept \cup PermObj \in SUBSET Obj
    BY <1>0, <2>1
  <2>4. Reach(roots, refs) \subseteq Kept \cup PermObj
    BY <2>2, <2>3, ReachLeast
  <2> QED
    BY <2>1, <2>4
<1> QED
  BY <1>1, <1>2

(* No object that a root reaches is ever freed (memory.c, collectGarbage). *)
THEOREM Safety == Spec => []NoDangling
  BY Inductive, ReachLive, PTL

(* Every collection leaves the marks and the gray stack as it found them.  *)
THEOREM MarksReset == Spec => []CleanBetween
<1>1. IInv => CleanBetween
  BY DEF IInv
<1> QED
  BY <1>1, Inductive, PTL

-----------------------------------------------------------------------------
LEMMA StepPrecise == IInv /\ PreciseInv /\ [Next]_vars => PreciseInv'
<1> SUFFICES ASSUME IInv, PreciseInv, [Next]_vars, InMark'
             PROVE  (work \cup (black \cap heap) \subseteq Reach(roots, refs))'
  BY DEF PreciseInv
<1> USE DEF IInv
<1> DEFINE R == Reach(roots, refs)
<1>1. roots \subseteq R /\ ClosedUnder(R, refs)
  BY ReachClosed DEF TypeOK
<1>2. InMark => work \subseteq R /\ black \cap heap \subseteq R
  BY DEF PreciseInv
<1>3. ASSUME NEW o \in black \cap heap, InMark PROVE refs[o] \subseteq R
  BY <1>1, <1>2, <1>3 DEF ClosedUnder, Traced, TypeOK
<1>4. CASE Reallocate
  BY <1>1, <1>4, GcAssumption DEF Reallocate, TypeOK, CleanBetween, markVars
<1>5. CASE Mark
  <2>1. InMark
    BY <1>5 DEF Mark, InMark
  <2> QED
    BY <1>2, <1>5, <2>1 DEF Mark, MarkObject, markVars, mutVars
<1>6. CASE TracePop
  <2>1. InMark /\ grayStack[Len(grayStack)] \in black \cap heap
    BY <1>6 DEF TracePop, InMark, MarkInv, GrayInv, TypeOK
  <2> QED
    BY <1>2, <1>3, <1>6, <2>1 DEF TracePop, mutVars
<1>7. CASE SlowVisit
  <2>1. InMark /\ gray \subseteq black \cap heap
    BY <1>7 DEF SlowVisit, InMark, MarkInv, ColourInv
  <2> QED
    BY <1>2, <1>3, <1>7, <2>1 DEF SlowVisit, mutVars
<1>8. CASE RootsDone \/ TraceOverflow \/ SlowAgain
  BY <1>2, <1>8 DEF RootsDone, TraceOverflow, SlowAgain, InMark, mutVars,
                    markVars, walkVars
<1>9. CASE UNCHANGED vars
  BY <1>2, <1>9 DEF InMark, vars, mutVars, markVars, walkVars
<1>10. ~(TraceDone \/ Sweep \/ CollectDone)
  BY DEF TraceDone, Sweep, CollectDone, InMark
<1>11. ~(Push \/ Load \/ Pop \/ Store \/ Erase \/ AllocateObject \/ AllocateFails)
  BY DEF Push, Load, Pop, Store, Erase, AllocateObject, AllocateFails, InMark
<1> QED
  BY <1>4, <1>5, <1>6, <1>7, <1>8, <1>9, <1>10, <1>11
  DEF Next, Mutator, Collector

(* Only what a root reaches is ever marked, so that nothing unreachable    *)
(* outlives a collection.                                                  *)
THEOREM Precision == Spec => []PreciseInv
<1>1. Init => PreciseInv
  BY DEF Init, PreciseInv, InMark
<1> QED
  BY <1>1, StepPrecise, Inductive, PTL DEF Spec

-----------------------------------------------------------------------------
(* The refinement.  Outside the sweep the abstract heap is the heap.       *)
LEMMA AbsIsHeap ==
  IInv /\ phase # "sweep" => absHeap = heap /\ absRefs = refs
<1> SUFFICES ASSUME IInv, phase # "sweep"
             PROVE  absHeap = heap /\ absRefs = refs
  OBVIOUS
<1>1. absHeap = heap
  BY DEF absHeap
<1>2. \A o \in Obj : (IF o \in heap \cup PermObj THEN refs[o] ELSE {}) = refs[o]
  BY DEF IInv, MarkInv, AliveInv, Obj
<1> QED
  BY <1>1, <1>2 DEF absRefs, IInv, TypeOK

LEMMA AbsIsHeapNext ==
  IInv' /\ phase' # "sweep" => absHeap' = heap' /\ absRefs' = refs'
<1> SUFFICES ASSUME IInv', phase' # "sweep"
             PROVE  absHeap' = heap' /\ absRefs' = refs'
  OBVIOUS
<1>1. absHeap' = heap'
  BY DEF absHeap
<1>2. \A o \in Obj : (IF o \in heap' \cup PermObj THEN refs'[o] ELSE {}) = refs'[o]
  BY DEF IInv, MarkInv, AliveInv, Obj
<1> QED
  BY <1>1, <1>2 DEF absRefs, IInv, TypeOK

(* The sweep is invisible: what it keeps, and the fields of that, are      *)
(* settled when it starts.                                                 *)
LEMMA SweepInvisible == IInv /\ Sweep => absHeap' = absHeap /\ absRefs' = absRefs
<1> SUFFICES ASSUME IInv, Sweep PROVE absHeap' = absHeap /\ absRefs' = absRefs
  OBVIOUS
<1> USE DEF IInv
<1>1. phase = "sweep" /\ phase' = "sweep" /\ gray = {}
  BY DEF Sweep, MarkInv, SweepInv
<1>2. PICK o \in scan :
        /\ scan' = scan \ {o}
        /\ IF o \in black \cup gray
             THEN /\ black' = black \ {o} /\ gray' = gray \ {o}
                  /\ UNCHANGED <<heap, refs, bytesAllocated>>
             ELSE /\ heap' = heap \ {o}
                  /\ refs' = [refs EXCEPT ![o] = {}]
                  /\ bytesAllocated' = bytesAllocated - 1
                  /\ UNCHANGED <<black, gray>>
  BY DEF Sweep
<1>3. o \in heap /\ o \in MainObj /\ o \notin PermObj
  BY GcAssumption DEF MarkInv, AliveInv, TypeOK
<1>4. Kept' = Kept
  BY <1>1, <1>2, <1>3 DEF Kept, MarkInv, AliveInv
<1>5. \A x \in Kept \cup PermObj : refs'[x] = refs[x]
  BY <1>1, <1>2, <1>3 DEF Kept, TypeOK, Obj
<1> QED
  BY <1>1, <1>4, <1>5 DEF absHeap, absRefs

(* The end of the trace is where the collection takes effect.              *)
LEMMA TraceDoneCollects == IInv /\ PreciseInv /\ TraceDone => Abs!Collect
<1> SUFFICES ASSUME IInv, PreciseInv, TraceDone PROVE Abs!Collect
  OBVIOUS
<1> USE DEF IInv
<1>1. phase \in {"trace", "slow"} /\ InMark /\ phase' = "sweep" /\ work = {}
  BY DEF TraceDone, InMark
<1>2. gray = {}
  <2>1. CASE phase = "trace" /\ ~grayOverflow /\ grayStack = <<>>
    BY <1>1, <2>1 DEF MarkInv, GrayInv
  <2>2. CASE phase = "slow" /\ scan = {} /\ ~haveGray
    BY <1>1, <2>2 DEF MarkInv, GrayInv
  <2> QED
    BY <2>1, <2>2 DEF TraceDone
<1>3. absHeap' = heap \cap black
  BY <1>1 DEF TraceDone, mutVars, absHeap, Kept
<1>4. roots \subseteq black /\ black \in SUBSET Obj
  BY <1>1 DEF MarkInv, ColourInv, TypeOK
<1>5. ClosedUnder(black, refs)
  BY <1>1, <1>2, GcAssumption
  DEF MarkInv, ColourInv, ClosedUnder, Traced, Live
<1>6. Reach(roots, refs) \subseteq black
  BY <1>4, <1>5, ReachLeast
<1>7. heap \cap black = heap \cap Reach(roots, refs)
  BY <1>1, <1>6 DEF PreciseInv
<1>8. absHeap = heap /\ absRefs = refs
  BY <1>1, AbsIsHeap
<1>9. Abs!Reach(roots, refs) = Reach(roots, refs)
  BY DEF Abs!Reach, Abs!Obj, Abs!ClosedUnder, Abs!Traced,
         Reach, Obj, ClosedUnder, Traced
<1>10. absRefs' = [o \in Obj |-> IF o \in absHeap' \cup PermObj THEN refs[o] ELSE {}]
  BY DEF absRefs, TraceDone, mutVars
<1>11. fresh = None /\ UNCHANGED <<roots, fresh>>
  BY <1>1 DEF TraceDone, mutVars, MarkInv, AliveInv
<1> QED
  BY <1>3, <1>7, <1>8, <1>9, <1>10, <1>11 DEF Abs!Collect, Abs!Obj, Obj

LEMMA StepRefines ==
  IInv /\ PreciseInv /\ IInv' /\ [Next]_vars => [Abs!Next]_(Abs!vars)
<1> SUFFICES ASSUME IInv, PreciseInv, IInv', [Next]_vars
             PROVE  Abs!Next \/ UNCHANGED Abs!vars
  OBVIOUS
<1> USE DEF Abs!vars
<1>1. CASE Mutator
  <2>1. phase # "sweep" /\ phase' # "sweep"
    BY <1>1 DEF Mutator, Push, Load, Pop, Store, Erase, Reallocate,
                AllocateObject, AllocateFails
  <2>2. absHeap = heap /\ absRefs = refs /\ absHeap' = heap' /\ absRefs' = refs'
    BY <2>1, AbsIsHeap, AbsIsHeapNext
  <2>3. Push => Abs!Push
    BY <2>2 DEF Push, Abs!Push
  <2>4. Load => Abs!Load
    BY <2>2 DEF Load, Abs!Load, Live, Abs!Live
  <2>5. Pop => Abs!Pop
    BY <2>2 DEF Pop, Abs!Pop
  <2>6. Store => Abs!Store
    BY <2>2 DEF Store, Abs!Store
  <2>7. Erase => Abs!Erase
    BY <2>2 DEF Erase, Abs!Erase
  <2>8. Reallocate => Abs!Abandon
    BY <2>2 DEF Reallocate, Abs!Abandon
  <2>9. AllocateObject => Abs!Allocate
    BY <2>2 DEF AllocateObject, Abs!Allocate
  <2>10. AllocateFails => UNCHANGED Abs!vars
    BY <2>2 DEF AllocateFails, mutVars
  <2> QED
    BY <1>1, <2>3, <2>4, <2>5, <2>6, <2>7, <2>8, <2>9, <2>10
    DEF Mutator, Abs!Next
<1>2. CASE Sweep
  BY <1>2, SweepInvisible DEF Sweep
<1>3. CASE TraceDone
  BY <1>3, TraceDoneCollects DEF Abs!Next
<1>4. CASE CollectDone
  <2>1. phase = "sweep" /\ scan = {} /\ phase' = "alloc" /\ mutVars' = mutVars
    BY <1>4 DEF CollectDone
  <2>2. absHeap' = absHeap
    BY <2>1 DEF absHeap, Kept, mutVars
  <2> QED
    BY <2>1, <2>2 DEF absRefs, mutVars
<1>5. CASE Mark \/ RootsDone \/ TracePop \/ TraceOverflow \/ SlowVisit \/ SlowAgain
  <2>1. phase # "sweep" /\ phase' # "sweep" /\ mutVars' = mutVars
    BY <1>5 DEF Mark, RootsDone, TracePop, TraceOverflow, SlowVisit, SlowAgain,
                IInv, MarkInv, SweepInv
  <2> QED
    BY <2>1 DEF absHeap, absRefs, mutVars
<1>6. CASE UNCHANGED vars
  BY <1>6 DEF vars, mutVars, markVars, walkVars, absHeap, absRefs, Kept
<1> QED
  BY <1>1, <1>2, <1>3, <1>4, <1>5, <1>6 DEF Next, Collector

(* The mark-sweep collector implements the managed heap: seen from the     *)
(* mutator, a collection removes in one step exactly what is unreachable.  *)
THEOREM Refinement == Spec => ImplementsManagedHeap
<1>1. Init => Abs!Init
  <2>1. Init => absHeap = {} /\ absRefs = [o \in Obj |-> {}]
    BY DEF Init, absHeap, absRefs, Obj
  <2> QED
    BY <2>1 DEF Init, Abs!Init, Abs!Obj, Obj
<1>2. Spec => [][Abs!Next]_(Abs!vars)
  BY StepRefines, Inductive, Precision, PTL DEF Spec
<1> QED
  BY <1>1, <1>2, PTL DEF Spec, ImplementsManagedHeap, Abs!Spec

-----------------------------------------------------------------------------
(* Every collection ends.  The gray stack holds gray objects, each once,   *)
(* until the overflow; what the loops walk over is finite.                 *)
StackInv ==
  InMark /\ ~grayOverflow =>
    \A i \in 1 .. Len(grayStack) :
      /\ grayStack[i] \in gray
      /\ \A j \in 1 .. i - 1 : grayStack[j] # grayStack[i]

FiniteInv ==
  /\ IsFiniteSet(heap) /\ IsFiniteSet(roots) /\ IsFiniteSet(work)
  /\ \A o \in Obj : IsFiniteSet(refs[o])

LEMMA StepFinite == IInv /\ FiniteInv /\ [Next]_vars => FiniteInv'
<1> SUFFICES ASSUME IInv, FiniteInv, [Next]_vars PROVE FiniteInv'
  OBVIOUS
<1> USE FS_AddElement, FS_RemoveElement, FS_EmptySet DEF FiniteInv, IInv
<1>1. CASE Push \/ Load \/ Pop
  <2>1. UNCHANGED <<heap, work, refs>>
    BY <1>1 DEF Push, Load, Pop, walkVars
  <2>2. \/ \E o : roots' = roots \cup {o}
        \/ \E o : roots' = roots \ {o}
    BY <1>1 DEF Push, Load, Pop
  <2>3. IsFiniteSet(roots')
    <3>1. IsFiniteSet(roots)
      OBVIOUS
    <3>2. ASSUME NEW o PROVE IsFiniteSet(roots \cup {o}) /\ IsFiniteSet(roots \ {o})
      BY ONLY <3>1, FS_AddElement, FS_RemoveElement
    <3> QED
      BY ONLY <2>2, <3>2
  <2> QED
    BY <2>1, <2>3
<1>2. CASE Store
  <2>1. PICK p \in roots \cap (MainObj \cup StorablePerm),
             o \in roots \cup ({fresh} \ {None}) :
             refs' = [refs EXCEPT ![p] = @ \cup {o}]
    BY <1>2 DEF Store
  <2>2. \A q \in Obj : refs'[q] = IF q = p THEN refs[q] \cup {o} ELSE refs[q]
    BY <2>1 DEF TypeOK
  <2>3. \A q \in Obj : IsFiniteSet(refs[q] \cup {o})
    BY FS_AddElement
  <2>4. ASSUME NEW q \in Obj PROVE IsFiniteSet(refs'[q])
    <3>1. CASE q = p
      <4>1. refs'[q] = refs[q] \cup {o}
        BY <2>2, <3>1
      <4> QED  BY <2>3, <4>1
    <3>2. CASE q # p
      <4>1. refs'[q] = refs[q]
        BY <2>2, <3>2
      <4> QED  BY <4>1
    <3> QED  BY <3>1, <3>2
  <2> QED
    BY <1>2, <2>4 DEF Store, walkVars
<1>3. CASE Erase
  <2>1. PICK p, o : refs' = [refs EXCEPT ![p] = @ \ {o}]
    BY <1>3 DEF Erase
  <2>2. \A q \in Obj : refs'[q] = IF q = p THEN refs[q] \ {o} ELSE refs[q]
    BY <2>1 DEF TypeOK
  <2>3. \A q \in Obj : IsFiniteSet(refs[q] \ {o})
    BY FS_RemoveElement
  <2>4. ASSUME NEW q \in Obj PROVE IsFiniteSet(refs'[q])
    <3>1. CASE q = p
      <4>1. refs'[q] = refs[q] \ {o}
        BY <2>2, <3>1
      <4> QED  BY <2>3, <4>1
    <3>2. CASE q # p
      <4>1. refs'[q] = refs[q]
        BY <2>2, <3>2
      <4> QED  BY <4>1
    <3> QED  BY <3>1, <3>2
  <2> QED
    BY <1>3, <2>4 DEF Erase, walkVars
<1>4. CASE Reallocate \/ AllocateObject \/ AllocateFails
  BY <1>4 DEF Reallocate, AllocateObject, AllocateFails, mutVars, walkVars
<1>5. CASE Mark \/ RootsDone \/ TraceOverflow \/ SlowAgain \/ TraceDone \/ CollectDone
  BY <1>5 DEF Mark, RootsDone, TraceOverflow, SlowAgain, TraceDone, CollectDone,
              mutVars, walkVars
<1>6. CASE TracePop
  <2>1. grayStack[Len(grayStack)] \in Obj
    BY <1>6 DEF TracePop, TypeOK
  <2> QED
    BY <1>6, <2>1 DEF TracePop, mutVars
<1>7. CASE SlowVisit
  BY <1>7 DEF SlowVisit, mutVars, TypeOK, Obj
<1>8. CASE Sweep
  <2>1. PICK o \in scan :
          \/ UNCHANGED <<heap, refs>>
          \/ heap' = heap \ {o} /\ refs' = [refs EXCEPT ![o] = {}]
    BY <1>8 DEF Sweep
  <2>2. \A q \in Obj : refs'[q] = refs[q] \/ refs'[q] = {}
    BY <2>1 DEF TypeOK
  <2>3. ASSUME NEW q \in Obj PROVE IsFiniteSet(refs'[q])
    BY <2>2
  <2>4. IsFiniteSet(heap \ {o})
    BY FS_RemoveElement
  <2>5. IsFiniteSet(heap')
    <3>1. CASE heap' = heap
      BY <3>1
    <3>2. CASE heap' = heap \ {o}
      BY <2>4, <3>2
    <3> QED  BY <2>1, <3>1, <3>2
  <2> QED
    BY <1>8, <2>3, <2>5 DEF Sweep
<1>9. CASE UNCHANGED vars
  BY <1>9 DEF vars, mutVars, walkVars
<1> QED
  BY <1>1, <1>2, <1>3, <1>4, <1>5, <1>6, <1>7, <1>8, <1>9
  DEF Next, Mutator, Collector

LEMMA StepStack == IInv /\ StackInv /\ [Next]_vars => StackInv'
<1> SUFFICES ASSUME IInv, StackInv, [Next]_vars, InMark', ~grayOverflow'
             PROVE  \A i \in 1 .. Len(grayStack') :
                      /\ grayStack'[i] \in gray'
                      /\ \A j \in 1 .. i - 1 : grayStack'[j] # grayStack'[i]
  BY DEF StackInv
<1> USE DEF IInv
<1>1. CASE Reallocate
  BY <1>1 DEF Reallocate, CleanBetween, markVars
<1>2. CASE Mark
  <2>1. PICK o \in work : MarkObject(o)
    BY <1>2 DEF Mark
  <2>2. InMark
    BY <1>2 DEF Mark, InMark
  <2>3. CASE o \in black
    BY <2>1, <2>2, <2>3 DEF MarkObject, markVars, StackInv
  <2>4. CASE o \notin black
    <3>1. /\ grayStack' = Append(grayStack, o) /\ gray' = gray \cup {o}
          /\ ~grayOverflow /\ o \notin gray
      BY <2>1, <2>2, <2>4 DEF MarkObject, PushGray, MarkInv, ColourInv
    <3>2. Len(grayStack') = Len(grayStack) + 1 /\ Len(grayStack) \in Nat
      BY <3>1 DEF TypeOK
    <3>3. \A i \in 1 .. Len(grayStack) : grayStack'[i] = grayStack[i]
      BY <3>1 DEF TypeOK
    <3>4. grayStack'[Len(grayStack')] = o
      BY <3>1, <3>2 DEF TypeOK
    <3> QED
      BY <2>2, <3>1, <3>2, <3>3, <3>4 DEF StackInv
  <2> QED
    BY <2>3, <2>4
<1>3. CASE TracePop
  <2> DEFINE n == Len(grayStack)
  <2>1. InMark /\ ~grayOverflow /\ gray' = gray \ {grayStack[n]}
    BY <1>3 DEF TracePop, InMark
  <2>2. n \in Nat /\ n > 0 /\ \A i \in 1 .. n : grayStack[i] \in Obj
    BY <1>3 DEF TracePop, TypeOK
  <2>3. grayStack' = SubSeq(grayStack, 1, n - 1)
    BY <1>3 DEF TracePop
  <2>4. Len(grayStack') = n - 1 /\ \A i \in 1 .. n - 1 : grayStack'[i] = grayStack[i]
    <3> HIDE DEF n
    <3>1. \A i \in 1 .. n - 1 : grayStack[i] \in Obj
      BY <2>2
    <3>2. /\ Len(SubSeq(grayStack, 1, n - 1)) = n - 1
          /\ \A i \in 1 .. n - 1 : SubSeq(grayStack, 1, n - 1)[i] = grayStack[i]
      BY <2>2, <3>1, SubSeqProperties
    <3> QED
      BY <2>3, <3>2
  <2> QED
    BY <2>1, <2>2, <2>4 DEF StackInv
<1>4. CASE RootsDone
  BY <1>4 DEF RootsDone, StackInv, InMark, markVars
<1>5. ~(TraceOverflow \/ SlowVisit \/ SlowAgain)
  BY DEF TraceOverflow, SlowVisit, SlowAgain, markVars, MarkInv, GrayInv, InMark
<1>6. ~(TraceDone \/ Sweep \/ CollectDone)
  BY DEF TraceDone, Sweep, CollectDone, InMark
<1>7. ~(Push \/ Load \/ Pop \/ Store \/ Erase \/ AllocateObject \/ AllocateFails)
  BY DEF Push, Load, Pop, Store, Erase, AllocateObject, AllocateFails, InMark
<1>8. CASE UNCHANGED vars
  BY <1>8 DEF vars, markVars, StackInv, InMark
<1> QED
  BY <1>1, <1>2, <1>3, <1>4, <1>5, <1>6, <1>7, <1>8 DEF Next, Mutator, Collector

(* One component less, those before it alike: that is what a step shows.   *)
LEMMA LessAt ==
  ASSUME NEW a1 \in Int, NEW a2 \in Int, NEW a3 \in Int, NEW a4 \in Int, NEW a5 \in Int,
         NEW b1 \in Int, NEW b2 \in Int, NEW b3 \in Int, NEW b4 \in Int, NEW b5 \in Int,
         \/ a1 < b1
         \/ a1 = b1 /\ a2 < b2
         \/ a1 = b1 /\ a2 = b2 /\ a3 < b3
         \/ a1 = b1 /\ a2 = b2 /\ a3 = b3 /\ a4 < b4
         \/ a1 = b1 /\ a2 = b2 /\ a3 = b3 /\ a4 = b4 /\ a5 < b5
  PROVE  Less(<<a1, a2, a3, a4, a5>>, <<b1, b2, b3, b4, b5>>)
<1> DEFINE a == <<a1, a2, a3, a4, a5>>
           b == <<b1, b2, b3, b4, b5>>
<1>1. CASE a1 < b1
  <2>1. 1 \in DOMAIN a /\ a[1] < b[1] /\ \A j \in 1 .. 1 - 1 : a[j] = b[j]
    BY <1>1
  <2> QED  BY <2>1 DEF Less
<1>2. CASE a1 = b1 /\ a2 < b2
  <2>1. 2 \in DOMAIN a /\ a[2] < b[2] /\ \A j \in 1 .. 2 - 1 : a[j] = b[j]
    BY <1>2
  <2> QED  BY <2>1 DEF Less
<1>3. CASE a1 = b1 /\ a2 = b2 /\ a3 < b3
  <2>1. 3 \in DOMAIN a /\ a[3] < b[3] /\ \A j \in 1 .. 3 - 1 : a[j] = b[j]
    BY <1>3
  <2> QED  BY <2>1 DEF Less
<1>4. CASE a1 = b1 /\ a2 = b2 /\ a3 = b3 /\ a4 < b4
  <2>1. 4 \in DOMAIN a /\ a[4] < b[4] /\ \A j \in 1 .. 4 - 1 : a[j] = b[j]
    BY <1>4
  <2> QED  BY <2>1 DEF Less
<1>5. CASE a1 = b1 /\ a2 = b2 /\ a3 = b3 /\ a4 = b4 /\ a5 < b5
  <2>1. 5 \in DOMAIN a /\ a[5] < b[5] /\ \A j \in 1 .. 5 - 1 : a[j] = b[j]
    BY <1>5
  <2> QED  BY <2>1 DEF Less
<1> QED
  BY <1>1, <1>2, <1>3, <1>4, <1>5

(* What the components of ToDo are worth at a state.                       *)
LEMMA ToDoType ==
  ASSUME IInv, FiniteInv
  PROVE  /\ Live \ black = heap \ black \/ ~InMark
         /\ IsFiniteSet(heap \ black) /\ Cardinality(heap \ black) \in Nat
         /\ InMark => IsFiniteSet(gray) /\ Cardinality(gray) \in Nat
         /\ IsFiniteSet(scan) /\ Cardinality(scan) \in Nat
         /\ IsFiniteSet(work) /\ Cardinality(work) \in Nat
<1>1. Live \ black = heap \ black \/ ~InMark
  BY DEF IInv, MarkInv, ColourInv, Live
<1>2. heap \ black \in SUBSET heap /\ scan \in SUBSET heap
  BY DEF IInv, MarkInv, AliveInv
<1>3. InMark => gray \in SUBSET heap
  BY DEF IInv, MarkInv, ColourInv
<1>4. \A S \in SUBSET heap : IsFiniteSet(S)
  BY FS_Subset DEF FiniteInv
<1>5. \A S : IsFiniteSet(S) => Cardinality(S) \in Nat
  BY FS_CardinalityType
<1> QED
  BY <1>1, <1>2, <1>3, <1>4, <1>5 DEF FiniteInv

LEMMA StageValue ==
  /\ Stage["roots"] = 4 /\ Stage["trace"] = 3 /\ Stage["slow"] = 2
  /\ Stage["sweep"] = 1 /\ Stage["alloc"] = 0
  BY DEF Stage

LEMMA StepShrinks ==
  ASSUME IInv, FiniteInv, StackInv, IInv', FiniteInv', Collector
  PROVE  Less(ToDo', ToDo)
<1> DEFINE Left == IF InMark THEN 2 * Cardinality(Live \ black) + Cardinality(gray)
                   ELSE 0
           Again == IF haveGray THEN 1 ELSE 0
           nScan == Cardinality(scan)
           nWork == Cardinality(work)
<1>1. /\ Left \in Int /\ Again \in Int /\ nScan \in Int /\ nWork \in Int
      /\ InMark => Left = 2 * Cardinality(heap \ black) + Cardinality(gray)
  <2>1. /\ Live \ black = heap \ black \/ ~InMark
        /\ Cardinality(heap \ black) \in Nat
        /\ InMark => Cardinality(gray) \in Nat
        /\ Cardinality(scan) \in Nat /\ Cardinality(work) \in Nat
    BY ToDoType
  <2>2. CASE InMark
    <3>1. Live \ black = heap \ black
      BY <2>1, <2>2
    <3>2. Cardinality(Live \ black) = Cardinality(heap \ black)
      BY <3>1
    <3> QED  BY <2>1, <2>2, <3>2
  <2>3. CASE ~InMark
    BY <2>1, <2>3
  <2> QED
    BY <2>2, <2>3
<1>2. /\ Left' \in Int /\ Again' \in Int /\ nScan' \in Int /\ nWork' \in Int
      /\ InMark' => Left' = 2 * Cardinality(heap' \ black') + Cardinality(gray')
  <2>1. /\ Live' \ black' = heap' \ black' \/ ~InMark'
        /\ IsFiniteSet(heap' \ black') /\ Cardinality(heap' \ black') \in Nat
        /\ InMark' => IsFiniteSet(gray') /\ Cardinality(gray') \in Nat
        /\ IsFiniteSet(scan') /\ Cardinality(scan') \in Nat
        /\ IsFiniteSet(work') /\ Cardinality(work') \in Nat
    <3>1. Live' \ black' = heap' \ black' \/ ~InMark'
      BY DEF IInv, MarkInv, ColourInv, Live
    <3>2. heap' \ black' \in SUBSET heap' /\ scan' \in SUBSET heap'
      BY DEF IInv, MarkInv, AliveInv
    <3>3. InMark' => gray' \in SUBSET heap'
      BY DEF IInv, MarkInv, ColourInv
    <3>4. \A S \in SUBSET heap' : IsFiniteSet(S)
      BY FS_Subset DEF FiniteInv
    <3>5. \A S : IsFiniteSet(S) => Cardinality(S) \in Nat
      BY FS_CardinalityType
    <3> QED
      BY <3>1, <3>2, <3>3, <3>4, <3>5 DEF FiniteInv
  <2> QED
    BY <2>1
<1>3. /\ ToDo = <<Stage[phase], Left, Again, nScan, nWork>>
      /\ ToDo' = <<Stage[phase'], Left', Again', nScan', nWork'>>
  BY DEF ToDo
<1>4. phase # "run" /\ phase' # "run" => Stage[phase] \in Int /\ Stage[phase'] \in Int
  BY StageValue DEF IInv, TypeOK, Phases
<1> HIDE DEF Left, Again, nScan, nWork
<1>5. CASE RootsDone \/ TraceOverflow \/ TraceDone \/ CollectDone
  <2>1. phase # "run" /\ phase' # "run" /\ Stage[phase'] < Stage[phase]
    BY <1>5, StageValue DEF RootsDone, TraceOverflow, TraceDone, CollectDone
  <2> QED
    BY <1>1, <1>2, <1>3, <1>4, <2>1, LessAt
<1>6. CASE Mark
  <2>1. PICK o \in work : MarkObject(o) /\ work' = work \ {o}
    BY <1>6 DEF Mark
  <2>2. InMark /\ InMark' /\ phase' = phase /\ phase # "run"
    BY <1>6 DEF Mark, IInv, TypeOK, Phases, InMark, CleanBetween, MarkInv, SweepInv
  <2>3. heap' = heap /\ nScan' = nScan /\ Again' = Again
    BY <1>6 DEF Mark, mutVars, nScan, Again
  <2>4. CASE o \in black
    <3>1. black' = black /\ gray' = gray
      BY <2>1, <2>4 DEF MarkObject, markVars
    <3>2. nWork' = nWork - 1
      BY <2>1, FS_RemoveElement DEF nWork, FiniteInv
    <3>3. Left' = Left
      BY <1>1, <1>2, <2>2, <2>3, <3>1
    <3>4. nWork' < nWork /\ Stage[phase'] = Stage[phase]
      BY <1>1, <2>2, <3>2
    <3> HIDE DEF Again
    <3> QED
      BY <1>1, <1>2, <1>3, <1>4, <2>2, <2>3, <3>3, <3>4, LessAt
  <2>5. CASE o \notin black
    <3>1. o \in heap /\ o \notin gray
      BY <2>1, <2>2, <2>5 DEF IInv, MarkInv, ColourInv, Live
    <3>2. heap' \ black' = (heap \ black) \ {o} /\ gray' = gray \cup {o}
      BY <2>1, <2>3, <2>5 DEF MarkObject
    <3>3. Cardinality(heap' \ black') = Cardinality(heap \ black) - 1
      BY <2>5, <3>1, <3>2, ToDoType, FS_RemoveElement
    <3>4. Cardinality(gray') = Cardinality(gray) + 1
      BY <2>2, <3>1, <3>2, ToDoType, FS_AddElement
    <3>5. Left' < Left
      BY <1>1, <1>2, <2>2, <3>3, <3>4, ToDoType
    <3> QED
      BY <1>1, <1>2, <1>3, <1>4, <2>2, <3>5, LessAt
  <2> QED
    BY <2>4, <2>5
<1>7. CASE TracePop
  <2> DEFINE o == grayStack[Len(grayStack)]
  <2>1. InMark /\ InMark' /\ phase' = phase /\ phase # "run"
    BY <1>7 DEF TracePop, InMark
  <2>2. Len(grayStack) \in Nat \ {0}
    BY <1>7 DEF TracePop, IInv, TypeOK
  <2>3. o \in gray
    BY <1>7, <2>1, <2>2 DEF TracePop, StackInv
  <2>4. heap' = heap /\ black' = black /\ gray' = gray \ {o}
    BY <1>7 DEF TracePop, mutVars
  <2>5. Cardinality(gray') = Cardinality(gray) - 1
    BY <2>1, <2>3, <2>4, ToDoType, FS_RemoveElement
  <2>6. Left' < Left
    BY <1>1, <1>2, <2>1, <2>4, <2>5, ToDoType
  <2> QED
    BY <1>1, <1>2, <1>3, <1>4, <2>1, <2>6, LessAt
<1>8. CASE SlowVisit
  <2>1. PICK o \in scan :
          /\ scan' = scan \ {o}
          /\ IF o \in gray
               THEN haveGray' = TRUE /\ gray' = gray \ {o} /\ work' = refs[o]
               ELSE UNCHANGED <<haveGray, gray, work>>
    BY <1>8 DEF SlowVisit
  <2>2. InMark /\ InMark' /\ phase' = phase /\ phase # "run"
    BY <1>8 DEF SlowVisit, InMark
  <2>3. heap' = heap /\ black' = black
    BY <1>8 DEF SlowVisit, mutVars
  <2>4. CASE o \in gray
    <3>1. Cardinality(gray') = Cardinality(gray) - 1
      BY <2>1, <2>2, <2>4, ToDoType, FS_RemoveElement
    <3>2. Left' < Left
      BY <1>1, <1>2, <2>2, <2>3, <3>1, ToDoType
    <3> QED
      BY <1>1, <1>2, <1>3, <1>4, <2>2, <3>2, LessAt
  <2>5. CASE o \notin gray
    <3>1. gray' = gray /\ Again' = Again
      BY <2>1, <2>5 DEF Again
    <3>2. nScan' = nScan - 1
      BY <2>1, ToDoType, FS_RemoveElement DEF nScan
    <3>3. Left' = Left
      BY <1>1, <1>2, <2>2, <2>3, <3>1
    <3>4. nScan' < nScan /\ Stage[phase'] = Stage[phase]
      BY <1>1, <2>2, <3>2
    <3> HIDE DEF Again
    <3> QED
      BY <1>1, <1>2, <1>3, <1>4, <2>2, <3>1, <3>3, <3>4, LessAt
  <2> QED
    BY <2>4, <2>5
<1>9. CASE SlowAgain
  <2>1. InMark /\ InMark' /\ phase' = phase /\ phase # "run"
    BY <1>9 DEF SlowAgain, InMark
  <2>2. heap' = heap /\ black' = black /\ gray' = gray
    BY <1>9 DEF SlowAgain, mutVars, markVars
  <2>3. Left' = Left /\ Again' < Again
    BY <1>1, <1>2, <1>9, <2>1, <2>2 DEF SlowAgain, Again
  <2> QED
    BY <1>1, <1>2, <1>3, <1>4, <2>1, <2>3, LessAt
<1>10. CASE Sweep
  <2>1. PICK o \in scan : scan' = scan \ {o}
    BY <1>10 DEF Sweep
  <2>2. phase = "sweep" /\ phase' = phase /\ Again' = Again
    BY <1>10 DEF Sweep, Again
  <2>3. Left' = Left
    BY <2>2 DEF Left, InMark
  <2>4. nScan' = nScan - 1
    BY <2>1, ToDoType, FS_RemoveElement DEF nScan
  <2>5. nScan' < nScan /\ Stage[phase'] = Stage[phase]
    BY <1>1, <2>2, <2>4
  <2>6. phase # "run" /\ phase' # "run"
    BY <2>2
  <2> HIDE DEF Again
  <2> QED
    BY <1>1, <1>2, <1>3, <1>4, <2>2, <2>3, <2>5, <2>6, LessAt
<1> QED
  BY <1>5, <1>6, <1>7, <1>8, <1>9, <1>10 DEF Collector

(* A collection comes to its end: every step of it leaves less to do, in a *)
(* well-founded order, so that the do-while of the slow trace repeats only *)
(* finitely often whichever growths of the gray stack fail                 *)
(* (memory.c:302-396).                                                     *)
THEOREM CollectionEnds == Spec => CollectionShrinks
<1>1. Init => FiniteInv /\ StackInv
  BY FS_EmptySet DEF Init, FiniteInv, StackInv, InMark
<1>2. Spec => [](FiniteInv /\ StackInv)
  BY <1>1, StepFinite, StepStack, Inductive, PTL DEF Spec
<1>3. IInv /\ FiniteInv /\ StackInv /\ IInv' /\ FiniteInv' /\ [Next]_vars
        => [phase \notin {"run", "alloc"} => Less(ToDo', ToDo)]_vars
  <2> SUFFICES ASSUME IInv, FiniteInv, StackInv, IInv', FiniteInv', [Next]_vars,
                      phase \notin {"run", "alloc"}, ~UNCHANGED vars
               PROVE  Less(ToDo', ToDo)
    OBVIOUS
  <2>1. ~Mutator
    BY DEF Mutator, Push, Load, Pop, Store, Erase, Reallocate, AllocateObject,
           AllocateFails
  <2> QED
    BY <2>1, StepShrinks DEF Next
<1> QED
  BY <1>2, <1>3, Inductive, PTL DEF Spec, CollectionShrinks
=============================================================================
