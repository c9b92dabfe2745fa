--------------------------- MODULE ClassesProofs ----------------------------
(***************************************************************************)
(* Proofs about module Classes: the variables have their types, instanceof *)
(* decides the declared supertypes of every class at every depth, the      *)
(* layout of fields, and the member that each number in the code of a      *)
(* method reaches, for all programs and all sizes of the display.          *)
(***************************************************************************)
EXTENDS Classes, FiniteSetTheorems, SequenceTheorems, NaturalsInduction,
        WellFoundedInduction, TLAPS

(* The least element of a set.                                             *)
LEMMA NatMin ==
  ASSUME NEW T, T \subseteq Nat, T # {}
  PROVE  \E x \in T : \A y \in T : x <= y
<1>1. PICK x \in T : \A y \in T : ~(<<y, x>> \in OpToRel(<, Nat))
  BY NatLessThanWellFounded, WFMin
<1>2. ASSUME NEW y \in T, y < x PROVE FALSE
  <2>1. <<y, x>> \in Nat \X Nat
    OBVIOUS
  <2>2. <<y, x>> \in OpToRel(<, Nat)
    BY <2>1, <1>2 DEF OpToRel
  <2> QED
    BY <2>2, <1>1
<1>3. \A y \in T : x <= y
  BY <1>2
<1> QED
  BY <1>3

(* A set that holds 0 and every successor of its elements holds them all.  *)
LEMMA NatInd ==
  ASSUME NEW S, 0 \in S, \A n \in Nat : n \in S => n + 1 \in S
  PROVE  Nat \subseteq S
<1> DEFINE T == Nat \ S
<1>1. SUFFICES ASSUME T # {} PROVE FALSE
  OBVIOUS
<1>2. PICK x \in T : \A y \in T : x <= y
  BY <1>1, NatMin
<1>3. x # 0 /\ x - 1 \in Nat /\ x - 1 \notin T
  BY <1>2
<1> QED
  BY <1>3

-----------------------------------------------------------------------------
(* The program, of which only the order matters.                           *)
LEMMA RunFacts ==
  ASSUME run \in Runs
  PROVE  /\ Len(run) \in Nat
         /\ \A k \in 1 .. Len(run) :
              /\ run[k].t \in DOMAIN Templates
              /\ run[k].super \in 0 .. k - 1
              /\ IsClass(run[k].super)
              /\ run[k].impl \in Seq(1 .. k - 1)
              /\ \A i \in Range(run[k].impl) : i \in 1 .. k - 1 /\ ~IsClass(i)
<1>1. run \in Seq(Range(run))
  BY RunAssumption
<1>2. Len(run) \in Nat
  BY <1>1
<1>3. ASSUME NEW k \in 1 .. Len(run)
      PROVE  /\ run[k].t \in DOMAIN Templates
             /\ run[k].super \in 0 .. k - 1
             /\ IsClass(run[k].super)
             /\ run[k].impl \in Seq(1 .. k - 1)
             /\ \A i \in Range(run[k].impl) : i \in 1 .. k - 1 /\ ~IsClass(i)
  <2> DEFINE kind(j) == Templates[run[j].t].kind
             intf == {i \in 1 .. k - 1 : kind(i) = "interface"}
  <2>1. /\ run[k].t \in DOMAIN Templates
        /\ run[k].super = 0 \/ (run[k].super \in 1 .. k - 1 /\ kind(run[k].super) = "class")
        /\ run[k].impl \in Seq(intf)
    BY <1>3, RunAssumption
  <2>2. run[k].super \in 0 .. k - 1 /\ IsClass(run[k].super)
    BY <2>1, <1>2 DEF IsClass, TemplateOf
  <2> HIDE DEF kind
  <2>3. \A i \in intf : i \in 1 .. k - 1 /\ kind(i) = "interface"
    OBVIOUS
  <2> HIDE DEF intf
  <2>4. run[k].impl \in Seq(1 .. k - 1)
    BY <2>1, <2>3
  <2>5. \A i \in Range(run[k].impl) : i \in intf
    BY <2>1 DEF Range
  <2>6. \A i \in intf : ~IsClass(i)
    BY <2>3 DEF IsClass, TemplateOf, kind
  <2> QED
    BY <2>1, <2>2, <2>3, <2>4, <2>5, <2>6
<1> QED
  BY <1>2, <1>3

LEMMA LineDef ==
  ASSUME run \in Runs
  PROVE  /\ Line[0] = {0}
         /\ \A k \in 1 .. Len(run) : Line[k] = {k} \cup Line[run[k].super]
<1> DEFINE S == 0 .. Len(run)
           Def(g, k) == IF k = 0 THEN {0} ELSE {k} \cup g[run[k].super]
           R == OpToRel(<, Nat)
<1>1. Len(run) \in Nat /\ \A k \in 1 .. Len(run) : run[k].super \in 0 .. k - 1
  BY RunFacts
<1>2. IsWellFoundedOn(R, S)
  <2>1. S \in SUBSET Nat
    BY <1>1
  <2>2. IsWellFoundedOn(R, Nat)
    BY NatLessThanWellFounded
  <2> HIDE DEF R, S
  <2> QED
    BY <2>1, <2>2, IsWellFoundedOnSubset
<1>3. WFDefOn(R, S, Def)
  <2>1. \A x \in S, y \in S : y < x => y \in SetLessThan(x, R, S)
    BY <1>1 DEF SetLessThan, OpToRel
  <2>2. ASSUME NEW g, NEW f, NEW x \in S, \A y \in SetLessThan(x, R, S) : g[y] = f[y]
        PROVE  Def(g, x) = Def(f, x)
    <3>1. CASE x = 0
      BY <3>1
    <3>2. CASE x # 0
      <4>1. run[x].super \in S /\ run[x].super < x
        BY <3>2, <1>1
      <4> QED
        BY <4>1, <2>1, <2>2
    <3> QED
      BY <3>1, <3>2
  <2> QED
    BY <2>2 DEF WFDefOn
<1>4. OpDefinesFcn(Line, S, Def)
  BY DEF OpDefinesFcn, Line
<1> HIDE DEF R
<1>5. WFInductiveDefines(Line, S, Def)
  BY <1>2, <1>3, <1>4, WFInductiveDef
<1>6. Line = [k \in S |-> Def(Line, k)]
  BY <1>5 DEF WFInductiveDefines
<1> QED
  BY <1>1, <1>6

(* The line of a class consists of classes, none declared after it.        *)
LEMMA LineBelow ==
  ASSUME run \in Runs, NEW k \in 0 .. Len(run)
  PROVE  /\ Line[k] \subseteq 0 .. k /\ k \in Line[k] /\ 0 \in Line[k]
         /\ IsClass(k) => \A a \in Line[k] : IsClass(a)
<1> DEFINE P(n) == /\ Line[n] \subseteq 0 .. n /\ n \in Line[n] /\ 0 \in Line[n]
                   /\ IsClass(n) => \A a \in Line[n] : IsClass(a)
           T == {n \in 0 .. Len(run) : ~P(n)}
<1>1. Len(run) \in Nat
  BY RunFacts
<1>2. SUFFICES ASSUME T # {} PROVE FALSE
  OBVIOUS
<1>3. PICK n \in T : \A m \in T : n <= m
  <2>1. T \subseteq Nat
    BY <1>1
  <2> HIDE DEF T
  <2> QED
    BY <2>1, <1>2, NatMin
<1>4. CASE n = 0
  BY <1>3, <1>4, LineDef DEF IsClass
<1>5. CASE n # 0
  <2> DEFINE m == run[n].super
  <2>1. m \in 0 .. n - 1 /\ IsClass(m) /\ Line[n] = {n} \cup Line[m]
    BY <1>1, <1>3, <1>5, RunFacts, LineDef
  <2>2. P(m)
    BY <2>1, <1>1, <1>3
  <2> QED
    BY <1>1, <1>3, <2>1, <2>2
<1> QED
  BY <1>4, <1>5

-----------------------------------------------------------------------------
(* The type information of classes: of the line of class k, the display    *)
(* shows those whose offset is below its size, each at its offset; the     *)
(* list holds the others and the interfaces, and the cache one of these.   *)
KlassFields == {"super", "depth", "offset", "rss", "display", "fields", "methods", "refs",
                "abstract", "interface", "ready"}

Shape(k) ==
  /\ DOMAIN klass[k] = KlassFields
  /\ klass[k].ready \in BOOLEAN /\ (klass[k].ready <=> k < pc)
  /\ klass[k].interface \in BOOLEAN /\ (klass[k].interface <=> ~IsClass(k))
  /\ klass[k].rss \in Seq(0 .. k)
  /\ klass[k].display \in [0 .. DisplaySize -> -1 .. k]
  /\ klass[k].offset \in 0 .. DisplaySize
  /\ klass[k].depth \in 0 .. DisplaySize + 2
  /\ ~IsClass(k) => klass[k].offset = DisplaySize

Implemented(k) == UNION {Range(run[a].impl) : a \in Line[k] \ {0}}

DisplayExact(k) ==
  \A t \in 0 .. k : \A i \in 0 .. DisplaySize - 1 :
    klass[k].display[i] = t <=> t \in Line[k] /\ klass[t].offset = i

ListExact(k) ==
  \A t \in 0 .. k :
    t \in Range(klass[k].rss) <=> \/ t \in Line[k] \ {k} /\ klass[t].offset = DisplaySize
                                 \/ t \in Implemented(k)

TypeInfo(k) ==
  /\ DisplayExact(k)
  /\ ListExact(k)
  /\ klass[k].depth < DisplaySize =>
       klass[k].offset = klass[k].depth /\ \A t \in Line[k] : klass[t].offset <= klass[k].depth
  /\ klass[k].depth >= DisplaySize => klass[k].offset = DisplaySize
  /\ klass[k].display[DisplaySize] \in {Nothing} \cup Range(klass[k].rss)

(* The classes that INHERIT has been executed for.                         *)
Laid == {k \in DOMAIN klass : IsClass(k) /\ (k < pc \/ member > 0)}

Progress ==
  /\ run \in Runs
  /\ pc \in 1 .. Len(run) + 1
  /\ member = -1 \/ (pc <= Len(run) /\ member \in 0 .. Len(MembersOf(Decl.t)) + 1)
  /\ member = 0 => IsClass(pc)
  /\ DOMAIN klass = 0 .. (IF member = -1 THEN pc - 1 ELSE pc)

IInv ==
  /\ Progress
  /\ \A k \in DOMAIN klass : Shape(k)
  /\ \A k \in Laid : TypeInfo(k)

(* The other members of a type information: of earlier classes, and of a   *)
(* program that does not change.                                           *)
LEMMA LineKept ==
  ASSUME run' = run
  PROVE  /\ Line' = Line
         /\ \A k : /\ IsClass(k)' <=> IsClass(k)
                  /\ Implemented(k)' = Implemented(k)
<1>1. Line' = Line
  BY DEF Line
<1>2. \A k : Implemented(k)' = Implemented(k)
  BY <1>1 DEF Implemented
<1>3. \A k : IsClass(k)' <=> IsClass(k)
  BY DEF IsClass, TemplateOf
<1> QED
  BY <1>1, <1>2, <1>3

(* What instanceof reads of class k stays, but for the cache.              *)
LEMMA TypeInfoKept ==
  ASSUME run' = run, run \in Runs, NEW k \in 0 .. Len(run),
         \A j \in 0 .. k : klass'[j].offset = klass[j].offset,
         klass'[k].depth = klass[k].depth, klass'[k].rss = klass[k].rss,
         \A i \in 0 .. DisplaySize - 1 : klass'[k].display[i] = klass[k].display[i],
         \/ klass'[k].display[DisplaySize] = klass[k].display[DisplaySize]
         \/ klass'[k].display[DisplaySize] \in Range(klass[k].rss),
         TypeInfo(k)
  PROVE  TypeInfo(k)'
<1>1. Line' = Line /\ Implemented(k)' = Implemented(k)
  BY LineKept
<1>2. Len(run) \in Nat /\ Line[k] \subseteq 0 .. k /\ k \in 0 .. k
  BY RunFacts, LineBelow
<1>3. DisplayExact(k)'
  BY <1>1, <1>2 DEF TypeInfo, DisplayExact
<1>4. ListExact(k)'
  BY <1>1, <1>2 DEF TypeInfo, ListExact
<1>5. /\ klass'[k].depth < DisplaySize =>
           klass'[k].offset = klass'[k].depth
           /\ \A t \in Line'[k] : klass'[t].offset <= klass'[k].depth
      /\ klass'[k].depth >= DisplaySize => klass'[k].offset = DisplaySize
  BY <1>1, <1>2 DEF TypeInfo
<1>6. klass'[k].display[DisplaySize] \in {Nothing} \cup Range(klass'[k].rss)
  BY DEF TypeInfo
<1> QED
  BY <1>3, <1>4, <1>5, <1>6 DEF TypeInfo

LEMMA InitFacts == Init => IInv
<1> SUFFICES ASSUME Init PROVE IInv
  OBVIOUS
<1>1. run \in Runs /\ pc = 1 /\ member = -1 /\ DOMAIN klass = {0} /\ klass[0] = Object
  BY DEF Init
<1>2. /\ DOMAIN Object = KlassFields /\ Object.ready = TRUE /\ Object.interface = FALSE
      /\ Object.rss = <<>> /\ Object.offset = 0 /\ Object.depth = 0
      /\ Object.display = [i \in 0 .. DisplaySize |-> IF i = 0 THEN 0 ELSE Nothing]
  BY ClassAssumption DEF Object, NewClass, KlassFields, Nothing
<1>3. Line[0] = {0} /\ Implemented(0) = {} /\ IsClass(0) /\ Len(run) \in Nat
  BY <1>1, LineDef, RunFacts DEF Implemented, IsClass
<1>4. Progress
  BY <1>1, <1>3 DEF Progress
<1>5. Shape(0)
  BY <1>1, <1>2, <1>3, ClassAssumption DEF Shape, Nothing
<1>6. TypeInfo(0)
  <2>1. DisplayExact(0)
    BY <1>1, <1>2, <1>3, ClassAssumption DEF DisplayExact, Nothing
  <2>2. ListExact(0)
    BY <1>1, <1>2, <1>3 DEF ListExact, Range
  <2> QED
    BY <1>1, <1>2, <1>3, <2>1, <2>2, ClassAssumption DEF TypeInfo, Nothing
<1> QED
  BY <1>1, <1>4, <1>5, <1>6 DEF IInv, Laid

-----------------------------------------------------------------------------
(* Where the execution is.                                                 *)
LEMMA PlaceFacts ==
  ASSUME IInv
  PROVE  /\ Len(run) \in Nat /\ pc \in Nat /\ pc >= 1 /\ pc <= Len(run) + 1
         /\ \A k \in DOMAIN klass : k \in Nat /\ k <= pc /\ k \in 0 .. Len(run)
         /\ \A k \in 0 .. pc - 1 : k \in DOMAIN klass
         /\ pc \in DOMAIN klass <=> member # -1
         /\ member # -1 => pc \in 1 .. Len(run)
         /\ pc <= Len(run) => /\ Decl.t \in DOMAIN Templates
                              /\ Len(MembersOf(Decl.t)) \in Nat
                              /\ MembersOf(Decl.t) \in Seq(Range(MembersOf(Decl.t)))
<1>1. Len(run) \in Nat /\ Progress
  BY RunFacts DEF IInv, Progress
<1>2. ASSUME pc <= Len(run)
      PROVE  /\ Decl.t \in DOMAIN Templates
             /\ Len(MembersOf(Decl.t)) \in Nat
             /\ MembersOf(Decl.t) \in Seq(Range(MembersOf(Decl.t)))
  <2>1. Decl.t \in DOMAIN Templates
    BY <1>1, <1>2, RunFacts DEF Progress, Decl
  <2>2. MembersOf(Decl.t) \in Seq(Range(MembersOf(Decl.t)))
    BY <2>1, TemplateAssumption DEF MembersOf
  <2> QED
    BY <2>1, <2>2
<1> QED
  BY <1>1, <1>2 DEF Progress

(* An instruction that leaves the type information of the class alone.     *)
LEMMA ContinueKeeps ==
  ASSUME IInv, pc \in DOMAIN klass, member \in 1 .. Len(MembersOf(Decl.t)),
         UNCHANGED run, NEW r, Continue(r),
         DOMAIN r = KlassFields,
         r.ready = klass[pc].ready, r.interface = klass[pc].interface, r.rss = klass[pc].rss,
         r.display = klass[pc].display, r.offset = klass[pc].offset, r.depth = klass[pc].depth
  PROVE  IInv'
<1>1. /\ klass' = [klass EXCEPT ![pc] = r] /\ member' = member + 1 /\ pc' = pc
      /\ DOMAIN klass' = DOMAIN klass
  BY DEF Continue
<1>2. /\ \A k \in DOMAIN klass : IsClass(k)' <=> IsClass(k)
      /\ Decl' = Decl /\ MembersOf(Decl.t)' = MembersOf(Decl.t)
  BY LineKept, <1>1 DEF Decl, MembersOf
<1>3. Progress'
  BY <1>1, <1>2, PlaceFacts DEF IInv, Progress
<1>4. \A k \in DOMAIN klass :
        /\ DOMAIN klass[k] = KlassFields => DOMAIN klass'[k] = KlassFields
        /\ klass'[k].ready = klass[k].ready /\ klass'[k].interface = klass[k].interface
        /\ klass'[k].rss = klass[k].rss /\ klass'[k].display = klass[k].display
        /\ klass'[k].offset = klass[k].offset /\ klass'[k].depth = klass[k].depth
  BY <1>1
<1>5. ASSUME NEW k \in DOMAIN klass' PROVE Shape(k)'
  <2>1. Shape(k)
    BY <1>1 DEF IInv
  <2> QED
    BY <1>1, <1>2, <1>4, <2>1 DEF Shape
<1>6. ASSUME NEW k \in Laid' PROVE TypeInfo(k)'
  <2>1. k \in Laid /\ k \in DOMAIN klass
    BY <1>1, <1>2, <1>6 DEF Laid
  <2>2. TypeInfo(k) /\ k \in 0 .. Len(run) /\ \A j \in 0 .. k : j \in DOMAIN klass
    BY <2>1, PlaceFacts DEF IInv, Progress
  <2> QED
    BY <1>4, <2>1, <2>2, TypeInfoKept DEF IInv, Progress
<1> QED
  BY <1>3, <1>5, <1>6 DEF IInv

LEMMA StopKeeps ==
  ASSUME IInv, UNCHANGED <<run, pc, member, klass>> PROVE IInv'
<1>1. Progress'
  BY DEF IInv, Progress, Decl, MembersOf, IsClass, TemplateOf
<1>2. \A k : Shape(k)' <=> Shape(k)
  BY DEF Shape, IsClass, TemplateOf
<1>3. Laid' = Laid
  BY DEF Laid, IsClass, TemplateOf
<1>4. Line' = Line /\ \A k : Implemented(k)' = Implemented(k)
  BY LineKept
<1>5. \A k : TypeInfo(k)' <=> TypeInfo(k)
  BY <1>4 DEF TypeInfo, DisplayExact, ListExact
<1> QED
  BY <1>1, <1>2, <1>3, <1>5 DEF IInv

LEMMA FieldKeeps == ASSUME IInv, DefineField PROVE IInv'
<1>1. pc \in DOMAIN klass /\ member \in 1 .. Len(MembersOf(Decl.t)) /\ Shape(pc)
  BY PlaceFacts DEF DefineField, At, Running, IInv, Progress
<1> DEFINE r == [klass[pc] EXCEPT !.fields = With(@, Member.name, FieldIndex(klass[pc]))]
<1>2. Continue(r) /\ UNCHANGED run
  BY DEF DefineField
<1>3. /\ DOMAIN r = KlassFields
      /\ r.ready = klass[pc].ready /\ r.interface = klass[pc].interface /\ r.rss = klass[pc].rss
      /\ r.display = klass[pc].display /\ r.offset = klass[pc].offset /\ r.depth = klass[pc].depth
  BY <1>1 DEF Shape, KlassFields
<1> HIDE DEF r
<1> QED
  BY <1>1, <1>2, <1>3, ContinueKeeps

LEMMA MethodKeeps == ASSUME IInv, DefineMethod PROVE IInv'
<1>1. pc \in DOMAIN klass /\ member \in 1 .. Len(MembersOf(Decl.t)) /\ Shape(pc)
  BY PlaceFacts DEF DefineMethod, At, Running, IInv, Progress
<1>2. CASE Stop("mismatch")
  BY <1>2, StopKeeps DEF Stop, DefineMethod
<1>3. CASE ~Stop("mismatch")
  <2>1. PICK refs, methods : Continue([klass[pc] EXCEPT !.refs = refs, !.methods = methods])
    BY <1>3 DEF DefineMethod
  <2> DEFINE r == [klass[pc] EXCEPT !.refs = refs, !.methods = methods]
  <2>2. Continue(r) /\ UNCHANGED run
    BY <2>1 DEF DefineMethod
  <2>3. /\ DOMAIN r = KlassFields
        /\ r.ready = klass[pc].ready /\ r.interface = klass[pc].interface /\ r.rss = klass[pc].rss
        /\ r.display = klass[pc].display /\ r.offset = klass[pc].offset /\ r.depth = klass[pc].depth
    BY <1>1 DEF Shape, KlassFields
  <2> HIDE DEF r
  <2> QED
    BY <1>1, <2>2, <2>3, ContinueKeeps
<1> QED
  BY <1>2, <1>3

LEMMA AbstractKeeps == ASSUME IInv, AddAbstractMethod PROVE IInv'
<1>1. pc \in DOMAIN klass /\ member \in 1 .. Len(MembersOf(Decl.t)) /\ Shape(pc)
  BY PlaceFacts DEF AddAbstractMethod, At, Running, IInv, Progress
<1>2. CASE \E how : Stop(how)
  BY <1>2, StopKeeps DEF Stop, AddAbstractMethod
<1>3. CASE ~\E how : Stop(how)
  <2>1. PICK methods : \/ Continue(klass[pc])
                       \/ Continue([klass[pc] EXCEPT !.methods = methods])
    BY <1>3 DEF AddAbstractMethod
  <2> DEFINE r == [klass[pc] EXCEPT !.methods = methods]
  <2>2. UNCHANGED run
    BY DEF AddAbstractMethod
  <2>3. /\ DOMAIN r = KlassFields
        /\ r.ready = klass[pc].ready /\ r.interface = klass[pc].interface /\ r.rss = klass[pc].rss
        /\ r.display = klass[pc].display /\ r.offset = klass[pc].offset /\ r.depth = klass[pc].depth
    BY <1>1 DEF Shape, KlassFields
  <2>4. CASE Continue(klass[pc])
    BY <1>1, <2>2, <2>4, ContinueKeeps DEF Shape
  <2>5. CASE Continue(r)
    <3> HIDE DEF r
    <3> QED
      BY <1>1, <2>2, <2>3, <2>5, ContinueKeeps
  <2> QED
    BY <2>1, <2>4, <2>5
<1> QED
  BY <1>2, <1>3

(* The end of a declaration.                                               *)
LEMMA EndKeeps ==
  ASSUME IInv, pc \in DOMAIN klass, member > 0, member # -1, pc <= Len(run),
         UNCHANGED run, NEW r,
         klass' = [klass EXCEPT ![pc] = r], pc' = pc + 1, member' = -1,
         DOMAIN r = KlassFields, r.ready = TRUE,
         r.interface = klass[pc].interface, r.rss = klass[pc].rss,
         r.display = klass[pc].display, r.offset = klass[pc].offset, r.depth = klass[pc].depth
  PROVE  IInv'
<1>1. DOMAIN klass' = DOMAIN klass /\ DOMAIN klass = 0 .. pc
  BY DEF IInv, Progress
<1>2. \A k \in DOMAIN klass : IsClass(k)' <=> IsClass(k)
  BY LineKept
<1>3. Progress'
  BY <1>1, PlaceFacts DEF IInv, Progress
<1>4. \A k \in DOMAIN klass :
        /\ DOMAIN klass[k] = KlassFields => DOMAIN klass'[k] = KlassFields
        /\ klass'[k].interface = klass[k].interface
        /\ klass'[k].rss = klass[k].rss /\ klass'[k].display = klass[k].display
        /\ klass'[k].offset = klass[k].offset /\ klass'[k].depth = klass[k].depth
  BY <1>1
<1>5. ASSUME NEW k \in DOMAIN klass' PROVE Shape(k)'
  <2>1. Shape(k) /\ k \in Nat /\ k <= pc /\ pc \in Nat
    BY <1>1, PlaceFacts DEF IInv
  <2>2. klass'[k].ready \in BOOLEAN /\ (klass'[k].ready <=> k < pc')
    <3>1. CASE k = pc
      <4>1. klass'[k] = r /\ k < pc'
        BY <3>1, <2>1, <1>1
      <4> QED
        BY <4>1
    <3>2. CASE k # pc
      <4>1. klass'[k] = klass[k]
        BY <3>2, <1>1
      <4>2. k < pc /\ k < pc'
        BY <3>2, <2>1
      <4> QED
        BY <4>1, <4>2, <2>1 DEF Shape
    <3> QED
      BY <3>1, <3>2
  <2> QED
    BY <1>1, <1>2, <1>4, <2>1, <2>2 DEF Shape
<1>6. ASSUME NEW k \in Laid' PROVE TypeInfo(k)'
  <2>1. k \in Laid /\ k \in DOMAIN klass
    BY <1>1, <1>2, <1>6, PlaceFacts DEF Laid
  <2>2. TypeInfo(k) /\ k \in 0 .. Len(run) /\ \A j \in 0 .. k : j \in DOMAIN klass
    BY <2>1, PlaceFacts DEF IInv, Progress
  <2> QED
    BY <1>4, <2>1, <2>2, TypeInfoKept DEF IInv, Progress
<1> QED
  BY <1>3, <1>5, <1>6 DEF IInv

(***************************************************************************)
(* What holds when an abstract or concrete class ends (vm.c,               *)
(* closeClass): its declaration is the current one, and it has its shape.  *)
(***************************************************************************)
LEMMA CloseStarts ==
  ASSUME IInv, CloseClass
  PROVE  /\ pc \in DOMAIN klass /\ pc \in Nat /\ pc <= Len(run) /\ Shape(pc)
         /\ member = Len(MembersOf(Decl.t)) + 1 /\ member > 0 /\ member # -1
         /\ member \in 1 .. Len(MembersOf(Decl.t)) + 1
         /\ ~klass[pc].interface /\ UNCHANGED <<run, checks>> /\ run \in Runs
<1>1. /\ Running /\ member = Len(MembersOf(Decl.t)) + 1
      /\ ~klass[pc].interface /\ UNCHANGED <<run, checks>>
  BY Zenon DEF CloseClass
<1> HIDE DEF CloseClass
<1>2. pc <= Len(run)
  BY <1>1 DEF Running
<1>3. Len(MembersOf(Decl.t)) \in Nat
  BY <1>2, PlaceFacts
<1>4. member > 0 /\ member # -1 /\ member \in 1 .. Len(MembersOf(Decl.t)) + 1
  BY ONLY <1>1, <1>3
<1>5. pc \in DOMAIN klass /\ pc \in Nat
  BY <1>4, PlaceFacts
<1>6. Shape(pc) /\ run \in Runs
  BY <1>5 DEF IInv, Progress
<1> QED
  BY <1>1, <1>2, <1>4, <1>5, <1>6

LEMMA CloseKeeps == ASSUME IInv, CloseClass PROVE IInv'
<1>1. pc \in DOMAIN klass /\ member > 0 /\ member # -1 /\ pc <= Len(run) /\ Shape(pc)
  BY CloseStarts
<1>2. CASE \E how : Stop(how)
  BY <1>2, StopKeeps DEF Stop, CloseClass
<1>3. CASE ~\E how : Stop(how)
  <2>1. PICK refs : /\ klass' = [klass EXCEPT ![pc] = [klass[pc] EXCEPT !.refs = refs, !.ready = TRUE]]
                    /\ pc' = pc + 1 /\ member' = -1
    BY <1>3 DEF CloseClass
  <2> DEFINE r == [klass[pc] EXCEPT !.refs = refs, !.ready = TRUE]
  <2>2. UNCHANGED run
    BY DEF CloseClass
  <2>3. /\ DOMAIN r = KlassFields /\ r.ready = TRUE
        /\ r.interface = klass[pc].interface /\ r.rss = klass[pc].rss
        /\ r.display = klass[pc].display /\ r.offset = klass[pc].offset /\ r.depth = klass[pc].depth
    BY <1>1 DEF Shape, KlassFields
  <2> HIDE DEF r
  <2>4. klass' = [klass EXCEPT ![pc] = r]
    BY <2>1 DEF r
  <2> QED
    BY <1>1, <2>1, <2>2, <2>3, <2>4, EndKeeps
<1> QED
  BY <1>2, <1>3

LEMMA InterfaceKeeps == ASSUME IInv, EndInterface PROVE IInv'
<1>1. pc \in DOMAIN klass /\ member > 0 /\ member # -1 /\ pc <= Len(run) /\ Shape(pc)
  BY PlaceFacts DEF EndInterface, Running, IInv, Progress
<1> DEFINE r == [klass[pc] EXCEPT !.ready = TRUE]
<1>2. /\ klass' = [klass EXCEPT ![pc] = r] /\ pc' = pc + 1 /\ member' = -1
      /\ UNCHANGED run
  BY DEF EndInterface
<1>3. /\ DOMAIN r = KlassFields /\ r.ready = TRUE
      /\ r.interface = klass[pc].interface /\ r.rss = klass[pc].rss
      /\ r.display = klass[pc].display /\ r.offset = klass[pc].offset /\ r.depth = klass[pc].depth
  BY <1>1 DEF Shape, KlassFields
<1> HIDE DEF r
<1> QED
  BY <1>1, <1>2, <1>3, EndKeeps

LEMMA DeclareKeeps == ASSUME IInv, Declare PROVE IInv'
<1> DEFINE r == IF TemplateOf(pc).kind = "interface" THEN NewInterface
                ELSE NewClass(TemplateOf(pc).abstract)
<1>1. /\ pc <= Len(run) /\ member = -1 /\ klass' = With(klass, pc, r)
      /\ member' = (IF TemplateOf(pc).kind = "interface" THEN 1 ELSE 0)
      /\ UNCHANGED <<run, pc>>
  BY DEF Declare, Running
<1>2. /\ pc \in Nat /\ pc >= 1 /\ pc \in 1 .. Len(run) /\ Len(run) \in Nat
      /\ DOMAIN klass = 0 .. pc - 1 /\ Len(MembersOf(Decl.t)) \in Nat
  BY <1>1, PlaceFacts DEF IInv, Progress
<1>3. /\ DOMAIN klass' = 0 .. pc /\ klass'[pc] = r
      /\ \A k \in DOMAIN klass : klass'[k] = klass[k]
  BY <1>1, <1>2 DEF With
<1>4. IsClass(pc) <=> TemplateOf(pc).kind # "interface"
  BY <1>2, PlaceFacts, <1>1, TemplateAssumption DEF IsClass, TemplateOf, Decl
<1>5. \A k : IsClass(k)' <=> IsClass(k)
  BY <1>1, LineKept
<1>6. Progress'
  <2>1. Decl' = Decl /\ MembersOf(Decl.t)' = MembersOf(Decl.t)
    BY <1>1 DEF Decl, MembersOf
  <2> QED
    BY <1>1, <1>2, <1>3, <1>4, <1>5, <2>1 DEF IInv, Progress
<1>7. /\ DOMAIN r = KlassFields /\ r.ready = FALSE /\ r.interface = ~IsClass(pc)
      /\ r.rss = <<>> /\ r.display = [i \in 0 .. DisplaySize |-> Nothing]
      /\ r.offset = (IF IsClass(pc) THEN 0 ELSE DisplaySize) /\ r.depth = 0
  BY <1>4 DEF NewInterface, NewClass, KlassFields
<1> HIDE DEF r
<1>8. ASSUME NEW k \in DOMAIN klass' PROVE Shape(k)'
  <2>1. CASE k = pc
    <3>1. pc' = pc /\ klass'[k] = r /\ ~(k < pc')
      BY <1>1, <1>2, <1>3, <2>1
    <3>2. IsClass(k)' <=> IsClass(pc)
      BY <1>5, <2>1
    <3>3. /\ r.ready \in BOOLEAN /\ (r.ready <=> k < pc')
          /\ r.interface \in BOOLEAN /\ (r.interface <=> ~IsClass(k)')
      BY <1>7, <3>1, <3>2
    <3>4. r.rss \in Seq(0 .. k) /\ r.display \in [0 .. DisplaySize -> -1 .. k]
      BY <1>2, <1>7, <2>1 DEF Nothing
    <3>5. /\ r.offset \in 0 .. DisplaySize /\ r.depth \in 0 .. DisplaySize + 2
          /\ ~IsClass(pc) => r.offset = DisplaySize
      BY <1>7, ClassAssumption
    <3> QED
      BY <1>7, <3>1, <3>2, <3>3, <3>4, <3>5 DEF Shape
  <2>2. CASE k # pc
    <3>1. Shape(k) /\ klass'[k] = klass[k]
      BY <1>2, <1>3, <2>2 DEF IInv
    <3> QED
      BY <1>1, <1>5, <3>1 DEF Shape
  <2> QED
    BY <2>1, <2>2
<1>9. ASSUME NEW k \in Laid' PROVE TypeInfo(k)'
  <2>1. k \in Laid /\ k \in DOMAIN klass /\ k \in 0 .. Len(run)
    BY <1>1, <1>2, <1>3, <1>4, <1>5, <1>9 DEF Laid
  <2>2. TypeInfo(k) /\ \A j \in 0 .. k : j \in DOMAIN klass /\ klass'[j] = klass[j]
    BY <1>2, <1>3, <2>1 DEF IInv
  <2>3. k \in 0 .. k
    BY <2>1, <1>2
  <2> QED
    BY <1>1, <2>1, <2>2, <2>3, TypeInfoKept DEF IInv, Progress
<1> QED
  BY <1>6, <1>8, <1>9 DEF IInv

LEMMA CheckKeeps ==
  ASSUME IInv, NEW t \in DOMAIN klass, NEW s \in DOMAIN klass, CheckInstance(t, s) PROVE IInv'
<1>1. /\ klass' = [klass EXCEPT ![s].display[DisplaySize] = t]
      /\ klass[s].ready /\ ~klass[s].interface /\ t \in Range(klass[s].rss)
      /\ UNCHANGED <<run, pc, member>>
  BY DEF CheckInstance
<1>2. \A k : IsClass(k)' <=> IsClass(k)
  BY <1>1, LineKept
<1>3. DOMAIN klass' = DOMAIN klass /\ Shape(s) /\ s \in 0 .. Len(run)
  BY <1>1, PlaceFacts DEF IInv
<1>4. /\ \A k \in DOMAIN klass : k # s => klass'[k] = klass[k]
      /\ klass'[s] = [klass[s] EXCEPT !.display = [klass[s].display EXCEPT ![DisplaySize] = t]]
  BY <1>1
<1>5. /\ DOMAIN klass'[s] = KlassFields /\ klass'[s].ready = klass[s].ready
      /\ klass'[s].interface = klass[s].interface /\ klass'[s].rss = klass[s].rss
      /\ klass'[s].offset = klass[s].offset /\ klass'[s].depth = klass[s].depth
      /\ klass'[s].display = [klass[s].display EXCEPT ![DisplaySize] = t]
  BY <1>3, <1>4 DEF Shape, KlassFields
<1>6. t \in 0 .. s
  BY <1>1, <1>3 DEF Shape, Range
<1>10. klass[s].display \in [0 .. DisplaySize -> -1 .. s]
  BY <1>3 DEF Shape
<1>7. Progress'
  BY <1>1, <1>2, <1>3 DEF IInv, Progress, Decl, MembersOf
<1>8. ASSUME NEW k \in DOMAIN klass' PROVE Shape(k)'
  <2>1. CASE k = s
    <3>1. klass'[s].display \in [0 .. DisplaySize -> -1 .. s]
      <4>1. t \in -1 .. s
        BY <1>3, <1>6, PlaceFacts
      <4> DEFINE U == -1 .. s
      <4> HIDE DEF U
      <4> QED
        BY <1>5, <1>10, <4>1 DEF U
    <3> QED
      BY <1>1, <1>2, <1>3, <1>5, <2>1, <3>1 DEF Shape
  <2>2. CASE k # s
    <3>1. Shape(k) /\ klass'[k] = klass[k]
      BY <1>3, <1>4, <2>2 DEF IInv
    <3> QED
      BY <1>1, <1>2, <3>1 DEF Shape
  <2> QED
    BY <2>1, <2>2
<1>9. ASSUME NEW k \in Laid' PROVE TypeInfo(k)'
  <2>1. k \in Laid /\ k \in DOMAIN klass /\ k \in 0 .. Len(run)
    BY <1>1, <1>2, <1>3, <1>9, PlaceFacts DEF Laid
  <2>2. TypeInfo(k) /\ \A j \in 0 .. k : j \in DOMAIN klass
    BY <2>1, PlaceFacts DEF IInv, Progress
  <2>3. \A j \in DOMAIN klass : klass'[j].offset = klass[j].offset /\ klass'[j].rss = klass[j].rss
                                /\ klass'[j].depth = klass[j].depth
    BY <1>4, <1>5
  <2>4. \A i \in 0 .. DisplaySize - 1 : klass'[k].display[i] = klass[k].display[i]
    <3>1. CASE k = s
      BY <1>5, <1>10, <3>1, ClassAssumption
    <3>2. CASE k # s
      BY <1>4, <3>2, <2>1
    <3> QED
      BY <3>1, <3>2
  <2>5. \/ klass'[k].display[DisplaySize] = klass[k].display[DisplaySize]
        \/ klass'[k].display[DisplaySize] \in Range(klass[k].rss)
    <3>1. CASE k = s
      BY <1>1, <1>5, <1>10, <3>1, ClassAssumption
    <3>2. CASE k # s
      BY <1>4, <3>2, <2>1
    <3> QED
      BY <3>1, <3>2
  <2> QED
    BY <1>1, <2>1, <2>2, <2>3, <2>4, <2>5, TypeInfoKept DEF IInv, Progress
<1> QED
  BY <1>7, <1>8, <1>9 DEF IInv

-----------------------------------------------------------------------------
LEMMA PrependRange ==
  ASSUME NEW S, NEW q \in Seq(S), NEW x \in S
  PROVE  Range(<<x>> \o q) = Range(q) \cup {x}
<1>1. /\ Len(q) \in Nat /\ DOMAIN q = 1 .. Len(q)
      /\ DOMAIN (<<x>> \o q) = 1 .. Len(q) + 1
      /\ \A i \in 1 .. Len(q) : (<<x>> \o q)[i + 1] = q[i]
      /\ (<<x>> \o q)[1] = x
  OBVIOUS
<1>2. ASSUME NEW y \in Range(<<x>> \o q) PROVE y \in Range(q) \cup {x}
  <2>1. PICK i \in 1 .. Len(q) + 1 : y = (<<x>> \o q)[i]
    BY <1>1 DEF Range
  <2>2. CASE i = 1
    BY <1>1, <2>1, <2>2
  <2>3. CASE i # 1
    <3>1. i - 1 \in 1 .. Len(q) /\ (i - 1) + 1 = i
      BY <1>1, <2>1, <2>3
    <3> QED
      BY <1>1, <2>1, <3>1 DEF Range
  <2> QED
    BY <2>2, <2>3
<1>3. ASSUME NEW y \in Range(q) PROVE y \in Range(<<x>> \o q)
  <2>1. PICK i \in 1 .. Len(q) : y = q[i]
    BY <1>1 DEF Range
  <2>2. i + 1 \in 1 .. Len(q) + 1 /\ (<<x>> \o q)[i + 1] = y
    BY <1>1, <2>1
  <2> QED
    BY <1>1, <2>2 DEF Range
<1>4. x \in Range(<<x>> \o q)
  <2>1. 1 \in DOMAIN (<<x>> \o q)
    BY <1>1
  <2> QED
    BY <1>1, <2>1 DEF Range
<1> QED
  BY <1>2, <1>3, <1>4

LEMMA AppendRange ==
  ASSUME NEW S, NEW q \in Seq(S), NEW x \in S
  PROVE  Range(Append(q, x)) = Range(q) \cup {x}
<1>1. /\ Len(q) \in Nat /\ DOMAIN q = 1 .. Len(q)
      /\ DOMAIN Append(q, x) = 1 .. Len(q) + 1
      /\ \A i \in 1 .. Len(q) : Append(q, x)[i] = q[i]
      /\ Append(q, x)[Len(q) + 1] = x
  OBVIOUS
<1>2. Range(Append(q, x)) \subseteq Range(q) \cup {x}
  BY <1>1 DEF Range
<1>3. ASSUME NEW y \in Range(q) PROVE y \in Range(Append(q, x))
  <2>1. PICK i \in 1 .. Len(q) : y = q[i]
    BY <1>1 DEF Range
  <2>2. i \in 1 .. Len(q) + 1 /\ Append(q, x)[i] = y
    BY <1>1, <2>1
  <2> QED
    BY <1>1, <2>2 DEF Range
<1>4. x \in Range(Append(q, x))
  <2>1. Len(q) + 1 \in DOMAIN Append(q, x)
    BY <1>1
  <2> QED
    BY <1>1, <2>1 DEF Range
<1> QED
  BY <1>2, <1>3, <1>4

(* The list of supertypes: what is inherited, and each interface.          *)
LEMMA InheritedList ==
  ASSUME NEW S, NEW s \in S, klass[s].rss \in Seq(S)
  PROVE  /\ Inherited(s) \in Seq(S)
         /\ Range(Inherited(s)) = (IF klass[s].depth >= DisplaySize THEN {s} ELSE {})
                                  \cup Range(klass[s].rss)
<1> DEFINE q == klass[s].rss
<1>1. q \in Seq(S)
  OBVIOUS
<1> HIDE DEF q
<1>2. <<s>> \o q \in Seq(S) /\ <<>> \o q = q
  BY <1>1
<1>3. Range(<<s>> \o q) = {s} \cup Range(q)
  BY <1>1, PrependRange
<1>4. Inherited(s) = IF klass[s].depth >= DisplaySize THEN <<s>> \o q ELSE q
  BY <1>2 DEF Inherited, q
<1> QED
  BY <1>1, <1>2, <1>3, <1>4 DEF q

LEMMA SupertypesRange ==
  ASSUME NEW S, NEW s, Inherited(s) \in Seq(S), NEW impl \in Seq(S)
  PROVE  /\ Supertypes(s, impl) \in Seq(S)
         /\ Range(Supertypes(s, impl)) = Range(Inherited(s)) \cup Range(impl)
<1> DEFINE n == Len(impl)
           upTo[i \in 0 .. n] ==
             IF i = 0 THEN Inherited(s)
             ELSE IF impl[i] \in Range(upTo[i - 1]) THEN upTo[i - 1]
             ELSE Append(upTo[i - 1], impl[i])
           Def(v, i) == IF impl[i] \in Range(v) THEN v ELSE Append(v, impl[i])
<1>1. FiniteNatInductiveDefHypothesis(upTo, Inherited(s), Def, 0, n)
  BY DEF FiniteNatInductiveDefHypothesis
<1>2. Supertypes(s, impl) = upTo[n]
  BY DEF Supertypes
<1> HIDE DEF upTo, Def
<1>3. n \in Nat
  OBVIOUS
<1>4. FiniteNatInductiveDefConclusion(upTo, Inherited(s), Def, 0, n)
  BY <1>1, <1>3, FiniteNatInductiveDef
<1>5. /\ upTo[0] = Inherited(s)
      /\ \A i \in 1 .. n : upTo[i] = Def(upTo[i - 1], i)
  <2>1. upTo = [i \in 0 .. n |-> IF i = 0 THEN Inherited(s) ELSE Def(upTo[i - 1], i)]
    BY <1>4 DEF FiniteNatInductiveDefConclusion
  <2> QED
    BY <2>1, <1>3
<1> DEFINE Shown(i) == {impl[j] : j \in 1 .. i}
           P(i) == upTo[i] \in Seq(S) /\ Range(upTo[i]) = Range(Inherited(s)) \cup Shown(i)
           T == {i \in Nat : i <= n => P(i)}
<1>6. 0 \in T
  BY <1>5
<1>7. ASSUME NEW i \in Nat, i \in T PROVE i + 1 \in T
  <2>1. ASSUME i + 1 <= n PROVE P(i + 1)
    <3> DEFINE v == upTo[i]
    <3>1. v \in Seq(S) /\ Range(v) = Range(Inherited(s)) \cup Shown(i)
      BY <1>7, <2>1, <1>3
    <3>2. upTo[i + 1] = Def(v, i + 1) /\ impl[i + 1] \in S
      BY <1>3, <1>5, <2>1
    <3>3. Shown(i + 1) = Shown(i) \cup {impl[i + 1]}
      BY <1>7
    <3> HIDE DEF v, Shown
    <3>4. CASE impl[i + 1] \in Range(v)
      BY <3>1, <3>2, <3>3, <3>4 DEF Def
    <3>5. CASE impl[i + 1] \notin Range(v)
      <4>1. upTo[i + 1] = Append(v, impl[i + 1])
        BY <3>2, <3>5 DEF Def
      <4>2. Range(Append(v, impl[i + 1])) = Range(v) \cup {impl[i + 1]}
        BY <3>1, <3>2, AppendRange
      <4> QED
        <5>1. upTo[i + 1] \in Seq(S)
          <6>1. ASSUME NEW x \in S PROVE Append(v, x) \in Seq(S)
            BY <3>1
          <6> QED
            BY <3>2, <4>1, <6>1
        <5>2. Range(upTo[i + 1]) = Range(Inherited(s)) \cup Shown(i + 1)
          BY <3>1, <3>3, <4>1, <4>2
        <5> QED
          BY <5>1, <5>2
    <3> QED
      BY <3>4, <3>5
  <2> QED
    BY <1>7, <2>1
<1>8. n \in T
  <2> HIDE DEF T
  <2> QED
    BY <1>3, <1>6, <1>7, NatInd
<1>9. Range(impl) = Shown(n)
  BY DEF Range
<1> QED
  BY <1>2, <1>3, <1>8, <1>9

LEMMA ImplementedBelow ==
  ASSUME run \in Runs, NEW k \in 0 .. Len(run)
  PROVE  \A t \in Implemented(k) : t \in 1 .. k - 1 /\ ~IsClass(t)
<1> SUFFICES ASSUME NEW a \in Line[k] \ {0}, NEW t \in Range(run[a].impl)
             PROVE  t \in 1 .. k - 1 /\ ~IsClass(t)
  BY DEF Implemented
<1>1. Len(run) \in Nat /\ a \in 1 .. k /\ a \in 1 .. Len(run)
  BY RunFacts, LineBelow
<1>2. t \in 1 .. a - 1 /\ ~IsClass(t)
  BY <1>1, RunFacts
<1> QED
  BY <1>1, <1>2

(* What INHERIT gives a class at depth d.                                  *)
LEMMA DisplayFacts ==
  ASSUME NEW k, DOMAIN k = KlassFields, NEW super, NEW d \in Nat, NEW c, c = Display(k, super, d)
  PROVE  /\ DOMAIN c = KlassFields
         /\ c.ready = k.ready /\ c.interface = k.interface
         /\ c.offset = (IF d < DisplaySize THEN d ELSE DisplaySize)
         /\ c.depth = (IF d >= DisplaySize + 3 THEN super.depth ELSE d)
         /\ c.display = [i \in 0 .. DisplaySize |->
                           IF d < DisplaySize /\ i = d THEN pc
                           ELSE IF i < DisplaySize \/ i < d THEN super.display[i]
                           ELSE Nothing]
<1> DEFINE copied == [i \in 0 .. DisplaySize |->
                        IF i < (IF d > DisplaySize THEN d ELSE DisplaySize)
                        THEN super.display[i] ELSE Nothing]
           depth == IF d >= DisplaySize + 3 THEN super.depth ELSE d
           display == IF d < DisplaySize THEN [copied EXCEPT ![d] = pc] ELSE copied
           offset == IF d < DisplaySize THEN d ELSE DisplaySize
<1>1. c = [k EXCEPT !.depth = depth, !.display = display, !.offset = offset]
  BY DEF Display
<1>2. display = [i \in 0 .. DisplaySize |->
                   IF d < DisplaySize /\ i = d THEN pc
                   ELSE IF i < DisplaySize \/ i < d THEN super.display[i]
                   ELSE Nothing]
  BY ClassAssumption
<1> HIDE DEF display
<1>3. /\ DOMAIN c = KlassFields
      /\ c.ready = k.ready /\ c.interface = k.interface
      /\ c.offset = offset /\ c.depth = depth /\ c.display = display
  BY <1>1 DEF KlassFields
<1> QED
  BY <1>2, <1>3

LEMMA InheritKeeps == ASSUME IInv, Inherit PROVE IInv'
<1> DEFINE p == Decl.super
           d == klass[p].depth + 1
           c == Display(klass[pc], klass[p], d)
           rss == Supertypes(p, Decl.impl)
<1>1. /\ member = 0 /\ pc \in 1 .. Len(run) /\ pc \in DOMAIN klass /\ IsClass(pc)
      /\ Len(run) \in Nat /\ run \in Runs /\ UNCHANGED run
      /\ DOMAIN klass = 0 .. pc /\ Len(MembersOf(Decl.t)) \in Nat
  BY PlaceFacts DEF Inherit, Running, IInv, Progress
<1>2. /\ p \in 0 .. pc - 1 /\ IsClass(p) /\ Decl.impl \in Seq(0 .. pc)
      /\ Range(Decl.impl) \subseteq 1 .. pc - 1
      /\ Line[pc] = {pc} \cup Line[p] /\ Line[p] \subseteq 0 .. p
  <2>1. /\ p \in 0 .. pc - 1 /\ IsClass(p) /\ Decl.impl \in Seq(1 .. pc - 1)
        /\ Range(Decl.impl) \subseteq 1 .. pc - 1
    BY <1>1, RunFacts DEF Decl
  <2>2. Decl.impl \in Seq(0 .. pc)
    BY <2>1, <1>1
  <2>3. Line[pc] = {pc} \cup Line[p]
    BY <1>1, LineDef DEF Decl
  <2>4. Line[p] \subseteq 0 .. p
    BY <1>1, <2>1, LineBelow
  <2> QED
    BY <2>1, <2>2, <2>3, <2>4
<1>3. p \in Laid /\ TypeInfo(p) /\ Shape(p) /\ Shape(pc)
  BY <1>1, <1>2 DEF IInv, Laid
<1>4. CASE \E how : Stop(how)
  BY <1>4, StopKeeps DEF Stop, Inherit
<1>5. CASE ~\E how : Stop(how)
  <2>1. PICK s, f, m, refs :
          Continue([c EXCEPT !.super = s, !.rss = rss, !.fields = f, !.methods = m, !.refs = refs])
    BY <1>5 DEF Inherit
  <2> DEFINE r == [c EXCEPT !.super = s, !.rss = rss, !.fields = f, !.methods = m, !.refs = refs]
  <2>2. /\ klass[p].depth \in 0 .. DisplaySize + 2 /\ d \in 1 .. DisplaySize + 3
        /\ klass[p].rss \in Seq(0 .. p) /\ klass[p].display \in [0 .. DisplaySize -> -1 .. p]
        /\ DOMAIN klass[pc] = KlassFields
    <3> HIDE DEF p
    <3>1. /\ klass[p].depth \in 0 .. DisplaySize + 2
          /\ klass[p].rss \in Seq(0 .. p) /\ klass[p].display \in [0 .. DisplaySize -> -1 .. p]
          /\ DOMAIN klass[pc] = KlassFields
      BY <1>3 DEF Shape
    <3>2. \A x \in 0 .. DisplaySize + 2 : x + 1 \in 1 .. DisplaySize + 3
      BY ONLY ClassAssumption
    <3>3. d \in 1 .. DisplaySize + 3
      BY <3>1, <3>2
    <3> QED
      BY <3>1, <3>3
  <2>3. /\ DOMAIN c = KlassFields
        /\ c.ready = klass[pc].ready /\ c.interface = klass[pc].interface
        /\ c.offset = (IF d < DisplaySize THEN d ELSE DisplaySize)
        /\ c.depth = (IF d >= DisplaySize + 3 THEN klass[p].depth ELSE d)
        /\ c.display = [i \in 0 .. DisplaySize |->
                          IF d < DisplaySize /\ i = d THEN pc
                          ELSE IF i < DisplaySize \/ i < d THEN klass[p].display[i]
                          ELSE Nothing]
    <3>1. d \in Nat
      <4>1. d \in 1 .. DisplaySize + 3
        BY <2>2
      <4> HIDE DEF d
      <4> QED
        BY ONLY <4>1
    <3>2. c = Display(klass[pc], klass[p], d)
      OBVIOUS
    <3>3. DOMAIN klass[pc] = KlassFields
      BY <2>2
    <3> HIDE DEF c, d, p
    <3> QED
      BY <3>1, <3>2, <3>3, DisplayFacts
  <2>4. /\ rss \in Seq(0 .. pc)
        /\ Range(rss) = (IF klass[p].depth >= DisplaySize THEN {p} ELSE {})
                        \cup Range(klass[p].rss) \cup Range(Decl.impl)
    <3>1. /\ Inherited(p) \in Seq(0 .. pc)
          /\ Range(Inherited(p)) = (IF klass[p].depth >= DisplaySize THEN {p} ELSE {})
                                   \cup Range(klass[p].rss)
      <4> DEFINE S == 0 .. pc
      <4>1. klass[p].rss \in Seq(S) /\ p \in S
        BY <1>1, <1>2, <2>2
      <4> HIDE DEF p, S
      <4> QED
        BY <4>1, InheritedList DEF S
    <3> QED
      BY <1>2, <3>1, SupertypesRange
  <2> HIDE DEF rss, c
  <2>5. /\ DOMAIN r = KlassFields
        /\ r.ready = klass[pc].ready /\ r.interface = klass[pc].interface
        /\ r.offset = c.offset /\ r.depth = c.depth /\ r.display = c.display /\ r.rss = rss
    BY <2>3 DEF KlassFields
  <2> HIDE DEF r
  <2>6. /\ klass' = [klass EXCEPT ![pc] = r] /\ member' = 1 /\ pc' = pc
        /\ DOMAIN klass' = 0 .. pc /\ klass'[pc] = r
        /\ \A k \in 0 .. pc - 1 : klass'[k] = klass[k]
    BY <1>1, <2>1 DEF Continue, r
  <2>7. \A k : IsClass(k)' <=> IsClass(k)
    BY <1>1, LineKept
  <2>8. Progress'
    <3>1. Decl' = Decl /\ MembersOf(Decl.t)' = MembersOf(Decl.t)
      BY <1>1, <2>6 DEF Decl, MembersOf
    <3> QED
      BY <1>1, <2>6, <2>7, <3>1 DEF Progress
  <2>9. ASSUME NEW k, k = pc PROVE Shape(k)'
    <3>1. r.display \in [0 .. DisplaySize -> -1 .. pc]
      <4>1. ASSUME NEW i \in 0 .. DisplaySize PROVE c.display[i] \in -1 .. pc
        <5>1. klass[p].display[i] \in -1 .. p
          BY <2>2
        <5>2. -1 \in -1 .. pc /\ pc \in -1 .. pc /\ klass[p].display[i] \in -1 .. pc
          BY <1>1, <1>2, <5>1
        <5> QED
          BY <2>3, <5>2 DEF Nothing
      <4> QED
        BY <2>3, <2>5, <4>1
    <3>2. r.offset \in 0 .. DisplaySize /\ r.depth \in 0 .. DisplaySize + 2
      <4> HIDE DEF d, p
      <4>1. c.offset \in 0 .. DisplaySize
        BY <2>2, <2>3, ClassAssumption
      <4>2. c.depth \in 0 .. DisplaySize + 2
        BY <2>2, <2>3, ClassAssumption
      <4> QED
        BY <2>5, <4>1, <4>2
    <3>3. /\ r.ready \in BOOLEAN /\ (r.ready <=> pc < pc)
          /\ r.interface \in BOOLEAN /\ (r.interface <=> ~IsClass(pc))
      BY <1>3, <2>5 DEF Shape
    <3>4. klass'[k] = r /\ pc' = pc /\ (IsClass(k)' <=> IsClass(pc)) /\ IsClass(pc)
      BY <1>1, <2>6, <2>7, <2>9
    <3> QED
      BY <2>4, <2>5, <2>9, <3>1, <3>2, <3>3, <3>4 DEF Shape
  <2>10. ASSUME NEW k \in DOMAIN klass' PROVE Shape(k)'
    <3>1. CASE k = pc
      BY <2>9, <3>1
    <3>2. CASE k # pc
      <4>1. Shape(k) /\ klass'[k] = klass[k]
        BY <1>1, <2>6, <3>2 DEF IInv
      <4> QED
        BY <2>6, <2>7, <4>1 DEF Shape
    <3> QED
      BY <3>1, <3>2
  <2>11. ASSUME NEW k, k = pc PROVE TypeInfo(k)'
    <3> HIDE DEF p, d
    <3>1. /\ Line' = Line /\ Implemented(k)' = Implemented(pc)
          /\ klass'[pc] = r /\ klass'[k] = r
          /\ \A j \in 0 .. p : klass'[j] = klass[j]
      BY <1>1, <1>2, <2>6, <2>11, LineKept
    <3>2. Implemented(pc) = Range(Decl.impl) \cup Implemented(p)
      <4>1. Line[pc] \ {0} = {pc} \cup (Line[p] \ {0})
        BY <1>1, <1>2
      <4> QED
        BY <4>1 DEF Implemented, Decl
    <3>8. /\ \A t \in Line[p] : t \in 0 .. p /\ t # pc /\ klass'[t] = klass[t]
          /\ klass[p].depth < DisplaySize => \A t \in Line[p] : klass[t].offset < d
          /\ d = klass[p].depth + 1
          /\ \A t \in 0 .. p : klass[t].offset \in 0 .. DisplaySize
      <4>1. \A t \in 0 .. p : Shape(t)
        BY <1>1, <1>2 DEF IInv
      <4>2. \A t \in 0 .. p : klass[t].offset \in 0 .. DisplaySize
        BY <4>1 DEF Shape
      <4>3. d = klass[p].depth + 1
        BY DEF d
      <4>4. \A t \in Line[p] : t \in 0 .. p /\ t # pc /\ klass'[t] = klass[t]
        BY <1>2, <3>1, <1>1
      <4>5. klass[p].depth < DisplaySize => \A t \in Line[p] : klass[t].offset <= klass[p].depth
        BY <1>3 DEF TypeInfo
      <4>6. ASSUME klass[p].depth < DisplaySize, NEW t \in Line[p] PROVE klass[t].offset < d
        <5>1. klass[t].offset \in Nat /\ klass[p].depth \in Nat
          BY <2>2, <4>2, <4>4, ClassAssumption
        <5>2. klass[t].offset <= klass[p].depth
          BY <4>5, <4>6
        <5> QED
          BY <4>3, <5>1, <5>2
      <4> QED
        BY <4>2, <4>3, <4>4, <4>6
    <3>3. ASSUME NEW t \in 0 .. k, NEW i \in 0 .. DisplaySize - 1
          PROVE  r.display[i] = t <=> t \in Line[pc] /\ klass'[t].offset = i
      <4>1. r.display[i] = IF d < DisplaySize /\ i = d THEN pc ELSE klass[p].display[i]
        BY <2>3, <2>5, ClassAssumption
      <4>2. klass[p].display[i] \in -1 .. p /\ i # DisplaySize
        BY <2>2, ClassAssumption
      <4>3. r.offset = IF d < DisplaySize THEN d ELSE DisplaySize
        BY <2>3, <2>5
      <4>4. CASE t = pc
        <5>1. klass[p].display[i] # pc
          BY <4>2, <1>1, <1>2
        <5>2. t \in Line[pc] /\ klass'[t].offset = r.offset
          BY <3>1, <4>4, <1>2
        <5> QED
          BY <4>1, <4>2, <4>3, <4>4, <5>1, <5>2
      <4>5. CASE t \in 0 .. p
        <5>1. t # pc /\ klass'[t] = klass[t] /\ (t \in Line[pc] <=> t \in Line[p])
          BY <1>1, <1>2, <3>1, <4>5
        <5>2. klass[p].display[i] = t <=> t \in Line[p] /\ klass[t].offset = i
          BY <1>3, <4>5 DEF TypeInfo, DisplayExact
        <5>3. CASE d < DisplaySize /\ i = d
          <6>1. t \in Line[p] => klass[t].offset # i
            <7>1. d \in Nat /\ i = d
              BY <2>2, <5>3
            <7> HIDE DEF d
            <7> QED
              BY <2>2, <3>8, <5>3, <7>1, ClassAssumption
          <6> QED
            BY <4>1, <5>1, <5>3, <6>1
        <5>4. CASE ~(d < DisplaySize /\ i = d)
          BY <4>1, <5>1, <5>2, <5>4
        <5> QED
          BY <5>3, <5>4
      <4>6. CASE t \in p + 1 .. pc - 1
        <5>1. t # pc /\ t \notin Line[p] /\ klass[p].display[i] # t
          BY <1>1, <1>2, <4>2, <4>6
        <5> QED
          BY <4>1, <5>1, <1>2
      <4> QED
        BY <1>1, <1>2, <2>11, <4>4, <4>5, <4>6
    <3>9. DisplayExact(k)'
      BY <3>1, <3>3, <2>11 DEF DisplayExact
    <3>10. ASSUME NEW t \in 0 .. k
           PROVE  t \in Range(rss) <=> \/ t \in Line[pc] \ {pc} /\ klass'[t].offset = DisplaySize
                                       \/ t \in Implemented(pc)
      <4>1. /\ klass[p].offset = DisplaySize <=> klass[p].depth >= DisplaySize
            /\ klass[p].rss \in Seq(0 .. p)
        BY <1>3, <2>2, ClassAssumption DEF TypeInfo
      <4>2. p \in Line[p] /\ p \in 0 .. p
        BY <1>1, <1>2, LineBelow
      <4>6. Range(klass[p].rss) \subseteq 0 .. p
        <5>1. ASSUME NEW S, NEW q \in Seq(S) PROVE Range(q) \subseteq S
          BY DEF Range
        <5>2. klass[p].rss \in Seq(0 .. p)
          BY <4>1
        <5> QED
          BY ONLY <5>1, <5>2
      <4>3. CASE t \in 0 .. p
        <5>1. t # pc /\ klass'[t] = klass[t]
          BY <1>1, <1>2, <3>1, <4>3
        <5>2. t \in Range(klass[p].rss) <=> \/ t \in Line[p] \ {p} /\ klass[t].offset = DisplaySize
                                           \/ t \in Implemented(p)
          BY <1>3, <4>3 DEF TypeInfo, ListExact
        <5> QED
          BY <1>2, <2>4, <3>2, <4>1, <4>2, <5>1, <5>2
      <4>4. CASE t \in p + 1 .. pc - 1
        <5>1. t \notin Range(klass[p].rss) /\ t # p /\ t \notin Line[p] /\ t # pc
          <6>1. p \in Nat /\ pc \in Nat /\ Line[p] \subseteq 0 .. p
            BY <1>1, <1>2, LineBelow
          <6> QED
            BY <4>4, <4>6, <6>1
        <5>2. t \notin Implemented(p)
          <6>1. p \in 0 .. Len(run) /\ t \notin 1 .. p - 1
            BY <1>1, <1>2, <4>4
          <6> QED
            BY <1>1, <6>1, ImplementedBelow
        <5> QED
          BY <1>2, <2>4, <3>2, <5>1, <5>2
      <4>5. CASE t = pc
        <5>1. t \notin Range(rss) /\ t \notin Implemented(pc)
          <6>1. t \notin Range(klass[p].rss) /\ t # p /\ t \notin Range(Decl.impl)
            BY <1>1, <1>2, <4>5, <4>6
          <6>2. t \notin Implemented(p)
            BY <1>1, <1>2, <4>5, ImplementedBelow
          <6> QED
            BY <2>4, <3>2, <6>1, <6>2
        <5> QED
          BY <4>5, <5>1
      <4> QED
        BY <1>1, <1>2, <2>11, <4>3, <4>4, <4>5
    <3>4. ListExact(k)'
      BY <2>5, <3>1, <3>10, <2>11 DEF ListExact
    <3>5. r.depth < DisplaySize =>
            r.offset = r.depth /\ \A t \in Line[pc] : klass'[t].offset <= r.depth
      <4>1. ASSUME r.depth < DisplaySize, NEW t \in Line[pc]
            PROVE  r.offset = r.depth /\ klass'[t].offset <= r.depth
        <5>1. d < DisplaySize /\ r.depth = d /\ r.offset = d /\ klass[p].depth < DisplaySize
          BY <2>2, <2>3, <2>5, <3>8, <4>1, ClassAssumption
        <5>2. CASE t = pc
          BY <3>1, <5>1, <5>2, <2>2
        <5>3. CASE t \in Line[p]
          BY <2>2, <3>8, <5>1, <5>3
        <5> QED
          BY <1>2, <4>1, <5>1, <5>2, <5>3
      <4>2. pc \in Line[pc]
        BY <1>2
      <4> QED
        BY <4>1, <4>2
    <3>6. r.depth >= DisplaySize => r.offset = DisplaySize
      BY <2>2, <2>3, <2>5, ClassAssumption
    <3>7. r.display[DisplaySize] \in {Nothing} \cup Range(rss)
      <4>1. r.display[DisplaySize] \in {Nothing, klass[p].display[DisplaySize]}
        BY <2>2, <2>3, <2>5, ClassAssumption
      <4>2. klass[p].display[DisplaySize] \in {Nothing} \cup Range(klass[p].rss)
        BY <1>3 DEF TypeInfo
      <4> QED
        BY <2>4, <4>1, <4>2
    <3> QED
      BY <2>5, <2>11, <3>1, <3>9, <3>4, <3>5, <3>6, <3>7 DEF TypeInfo
  <2>12. ASSUME NEW k \in Laid' PROVE TypeInfo(k)'
    <3>1. CASE k = pc
      BY <2>11, <3>1
    <3>2. CASE k # pc
      <4>1. k \in 0 .. pc - 1 /\ k \in Laid /\ k \in 0 .. Len(run)
        BY <1>1, <2>6, <2>7, <2>12, <3>2 DEF Laid
      <4>2. TypeInfo(k) /\ \A j \in 0 .. k : klass'[j] = klass[j]
        BY <1>1, <2>6, <4>1 DEF IInv
      <4>3. k \in 0 .. k
        BY <4>1
      <4> QED
        BY <1>1, <4>1, <4>2, <4>3, TypeInfoKept
    <3> QED
      BY <3>1, <3>2
  <2> QED
    BY <2>8, <2>10, <2>12 DEF IInv
<1> QED
  BY <1>4, <1>5

LEMMA Inductive == IInv /\ [Next]_vars => IInv'
<1> SUFFICES ASSUME IInv, [Next]_vars PROVE IInv'
  OBVIOUS
<1>1. CASE UNCHANGED vars
  BY <1>1, StopKeeps DEF vars
<1>2. CASE Next
  BY <1>2, DeclareKeeps, InheritKeeps, FieldKeeps, MethodKeeps, AbstractKeeps, CloseKeeps,
     InterfaceKeeps, CheckKeeps DEF Next
<1> QED
  BY <1>1, <1>2

-----------------------------------------------------------------------------
(* What instanceof answers.                                                *)
LEMMA InstanceSound ==
  ASSUME IInv, NEW s \in Closed, IsClass(s), NEW t \in Closed
  PROVE  InstanceOf(t, s) <=> t \in DeclaredSupertypes(s)
<1>1. /\ s \in 0 .. Len(run) /\ t \in 0 .. Len(run) /\ s \in Nat /\ t \in Nat
      /\ Shape(s) /\ Shape(t) /\ s \in Laid /\ run \in Runs
  BY PlaceFacts DEF IInv, Closed, Laid, Shape, Progress
<1>2. TypeInfo(s)
  BY <1>1 DEF IInv
<1>3. /\ Line[s] \subseteq 0 .. s /\ s \in Line[s] /\ \A a \in Line[s] : IsClass(a)
      /\ \A x \in Implemented(s) : x \in 1 .. s - 1 /\ ~IsClass(x)
  BY <1>1, LineBelow, ImplementedBelow
<1>4. t \in DeclaredSupertypes(s) <=> t \in Line[s] \/ t \in Implemented(s)
  BY DEF DeclaredSupertypes, Implemented
<1>5. /\ klass[s].display \in [0 .. DisplaySize -> -1 .. s] /\ klass[s].rss \in Seq(0 .. s)
      /\ klass[t].offset \in 0 .. DisplaySize
      /\ ~IsClass(t) => klass[t].offset = DisplaySize
  BY <1>1 DEF Shape
<1>6. CASE t \notin 0 .. s
  <2>1. t \notin Range(klass[s].rss) /\ t # s
    BY <1>1, <1>5, <1>6 DEF Range
  <2>2. klass[s].display[klass[t].offset] # t
    <3>1. klass[s].display[klass[t].offset] \in -1 .. s
      BY <1>5
    <3> QED
      BY <1>1, <1>6, <3>1
  <2>3. t \notin Line[s] /\ t \notin Implemented(s)
    BY <1>1, <1>3, <1>6
  <2> QED
    BY <1>4, <2>1, <2>2, <2>3 DEF InstanceOf
<1>7. CASE t \in 0 .. s /\ klass[t].offset # DisplaySize
  <2>1. klass[t].offset \in 0 .. DisplaySize - 1 /\ IsClass(t)
    BY <1>5, <1>7, ClassAssumption
  <2>2. klass[s].display[klass[t].offset] = t <=> t \in Line[s]
    BY <1>2, <1>7, <2>1 DEF TypeInfo, DisplayExact
  <2> QED
    BY <1>3, <1>4, <1>7, <2>1, <2>2 DEF InstanceOf
<1>8. CASE t \in 0 .. s /\ klass[t].offset = DisplaySize
  <2>1. t \in Range(klass[s].rss) <=> t \in Line[s] \ {s} \/ t \in Implemented(s)
    BY <1>2, <1>8 DEF TypeInfo, ListExact
  <2>2. klass[s].display[DisplaySize] = t => t \in Range(klass[s].rss)
    BY <1>2, <1>8 DEF TypeInfo, Nothing
  <2> QED
    BY <1>3, <1>4, <1>8, <2>1, <2>2 DEF InstanceOf
<1> QED
  BY <1>6, <1>7, <1>8

(* instanceof decides the declared supertypes of every class, at every     *)
(* depth and whatever the tests before have left in the caches.            *)
THEOREM InstanceOfExact == Spec => []SubtypeExact
<1>1. IInv => SubtypeExact
  BY InstanceSound DEF SubtypeExact
<1> QED
  BY InitFacts, Inductive, <1>1, PTL DEF Spec

-----------------------------------------------------------------------------
(* Fields.  A class is regular when it declares each of its fields once    *)
(* and none that a class above it declares.                                *)
Body(a) == MembersOf(run[a].t)
Own(a) == {mb.name : mb \in {m \in Range(Body(a)) : m.k = "field"}}

Once(a) ==
  \A i, j \in DOMAIN Body(a) :
    Body(a)[i].k = "field" /\ Body(a)[j].k = "field" /\ Body(a)[i].name = Body(a)[j].name => i = j

Regular(k) ==
  \A a \in Line[k] \ {0} :
    Once(a) /\ \A b \in Line[a] \ {a} : \A n \in Own(a) : ~Declares(b, "field", n)

Above(k) == UNION {Own(a) : a \in Line[k] \ {0, k}}

(* The fields that FIELD has been executed for.                            *)
SoFar(k) ==
  IF k = 0 THEN {} ELSE IF k < pc THEN Own(k)
  ELSE {Body(k)[i].name : i \in {j \in 1 .. member - 1 : Body(k)[j].k = "field"}}

(* Fields have the numbers below their count, those of each superclass the *)
(* numbers that they have there.                                           *)
Numbered(f) ==
  /\ IsFiniteSet(DOMAIN f) /\ IsInjective(f) /\ Range(f) = 0 .. Cardinality(DOMAIN f) - 1

FieldsOK(k) ==
  LET f == klass[k].fields IN
  /\ DOMAIN f = Above(k) \cup SoFar(k)
  /\ Numbered(f)
  /\ \A a \in Line[k] \ {k} : \A n \in DOMAIN klass[a].fields :
       n \in DOMAIN f /\ f[n] = klass[a].fields[n]

FieldInv == \A k \in Laid : Regular(k) => FieldsOK(k)

(* One more field.                                                         *)
LEMMA NumberedWith ==
  ASSUME NEW f, Numbered(f), NEW n, n \notin DOMAIN f,
         NEW g, g = With(f, n, Cardinality(DOMAIN f))
  PROVE  /\ DOMAIN g = DOMAIN f \cup {n} /\ Numbered(g)
         /\ \A m \in DOMAIN f : g[m] = f[m]
<1> DEFINE c == Cardinality(DOMAIN f)
<1>1. /\ DOMAIN g = DOMAIN f \cup {n} /\ g[n] = c
      /\ \A m \in DOMAIN f : g[m] = f[m]
  BY DEF With
<1>2. c \in Nat /\ IsFiniteSet(DOMAIN g) /\ Cardinality(DOMAIN g) = c + 1
  BY <1>1, FS_AddElement, FS_CardinalityType DEF Numbered
<1> HIDE DEF c
<1>3. \A m \in DOMAIN f : f[m] \in 0 .. c - 1
  BY DEF Numbered, Range, c
<1>4. IsInjective(g)
  BY <1>1, <1>2, <1>3 DEF Numbered, IsInjective
<1>5. Range(g) = 0 .. c
  <2>1. Range(g) = Range(f) \cup {c}
    BY <1>1 DEF Range
  <2>2. Range(f) = 0 .. c - 1
    BY DEF Numbered, c
  <2>3. (0 .. c - 1) \cup {c} = 0 .. c
    BY <1>2
  <2> QED
    BY <2>1, <2>2, <2>3
<1>6. Numbered(g)
  <2>1. Cardinality(DOMAIN g) - 1 = c
    BY <1>2
  <2> QED
    BY <1>2, <1>4, <1>5, <2>1 DEF Numbered
<1> QED
  BY <1>1, <1>6

LEMMA FieldsKept ==
  ASSUME IInv, UNCHANGED run, NEW k \in Laid, FieldsOK(k),
         \A a \in 0 .. k : klass'[a].fields = klass[a].fields,
         SoFar(k)' = SoFar(k)
  PROVE  FieldsOK(k)'
<1>1. Line' = Line /\ k \in 0 .. Len(run) /\ run \in Runs
  BY LineKept, PlaceFacts DEF IInv, Progress, Laid
<1>2. Line[k] \subseteq 0 .. k /\ k \in 0 .. k
  BY <1>1, LineBelow, RunFacts
<1>3. Above(k)' = Above(k)
  BY <1>1 DEF Above, Own, Body, MembersOf
<1> QED
  BY <1>1, <1>2, <1>3 DEF FieldsOK

LEMMA RegularKept ==
  ASSUME UNCHANGED run PROVE \A k : Regular(k)' <=> Regular(k)
<1>1. Line' = Line
  BY LineKept
<1>2. /\ \A a : Own(a)' = Own(a) /\ (Once(a)' <=> Once(a))
      /\ \A b, n : Declares(b, "field", n)' <=> Declares(b, "field", n)
  BY DEF Own, Once, Body, MembersOf, Declares
<1> QED
  BY <1>1, <1>2 DEF Regular

LEMMA FieldInvKept ==
  ASSUME IInv, FieldInv, UNCHANGED run, Laid' \subseteq Laid,
         \A k \in DOMAIN klass : klass'[k].fields = klass[k].fields,
         \A k \in Laid : SoFar(k)' = SoFar(k)
  PROVE  FieldInv'
<1> SUFFICES ASSUME NEW k \in Laid', Regular(k)' PROVE FieldsOK(k)'
  BY DEF FieldInv
<1>1. k \in Laid /\ Regular(k)
  BY RegularKept
<1>2. FieldsOK(k) /\ \A a \in 0 .. k : a \in DOMAIN klass
  BY <1>1, PlaceFacts DEF FieldInv, IInv, Progress, Laid
<1> QED
  BY <1>1, <1>2, FieldsKept

(* The fields of a class below the one declared are all there.             *)
LEMMA SoFarBelow ==
  ASSUME IInv, UNCHANGED run, pc' >= pc, pc' \in Nat, NEW k \in Laid, k # pc
  PROVE  SoFar(k)' = SoFar(k)
<1>1. k < pc /\ k < pc' /\ k \in Nat
  BY PlaceFacts DEF Laid
<1>2. Own(k)' = Own(k)
  BY DEF Own, Body, MembersOf
<1> QED
  BY <1>1, <1>2 DEF SoFar

(* What a member that is no field adds.                                    *)
LEMMA SoFarNoField ==
  ASSUME IInv, UNCHANGED <<run, pc>>, member \in 1 .. Len(MembersOf(Decl.t)),
         MembersOf(Decl.t)[member].k # "field", member' = member + 1, pc \in DOMAIN klass
  PROVE  \A k \in Laid : SoFar(k)' = SoFar(k)
<1> SUFFICES ASSUME NEW k \in Laid PROVE SoFar(k)' = SoFar(k)
  OBVIOUS
<1>1. pc \in Nat /\ pc # 0 /\ Body(pc) = MembersOf(Decl.t) /\ Len(Body(pc)) \in Nat
  BY PlaceFacts DEF Body, Decl
<1>2. CASE k # pc
  BY <1>1, <1>2, SoFarBelow
<1>3. CASE k = pc
  <2>1. Body(k)' = Body(k)
    BY DEF Body, MembersOf
  <2>2. member \in Nat /\ Body(k)[member].k # "field"
    BY <1>1, <1>3
  <2>3. {j \in 1 .. member : Body(k)[j].k = "field"}
          = {j \in 1 .. member - 1 : Body(k)[j].k = "field"}
    BY <2>2
  <2>4. member' - 1 = member
    BY <2>2
  <2>5. SoFar(k) = {Body(k)[i].name : i \in {j \in 1 .. member - 1 : Body(k)[j].k = "field"}}
    BY <1>1, <1>3 DEF SoFar
  <2>6. SoFar(k)' = {Body(k)[i].name : i \in {j \in 1 .. member : Body(k)[j].k = "field"}}
    BY <1>1, <1>3, <2>1, <2>4 DEF SoFar
  <2> QED
    BY <2>3, <2>5, <2>6
<1> QED
  BY <1>2, <1>3

LEMMA StopFields ==
  ASSUME IInv, FieldInv, UNCHANGED <<run, pc, member, klass>> PROVE FieldInv'
<1>1. Laid' = Laid
  BY DEF Laid, IsClass, TemplateOf
<1>2. \A k \in Laid : SoFar(k)' = SoFar(k)
  BY DEF SoFar, Own, Body, MembersOf
<1> QED
  BY <1>1, <1>2, FieldInvKept

LEMMA LaidContinue ==
  ASSUME IInv, UNCHANGED <<run, pc>>, member > 0, member' > 0, DOMAIN klass' = DOMAIN klass
  PROVE  Laid' = Laid
  BY DEF Laid, IsClass, TemplateOf

LEMMA MethodFields == ASSUME IInv, FieldInv, DefineMethod PROVE FieldInv'
<1>1. /\ pc \in DOMAIN klass /\ member \in 1 .. Len(MembersOf(Decl.t))
      /\ MembersOf(Decl.t)[member].k # "field" /\ Shape(pc) /\ Len(MembersOf(Decl.t)) \in Nat
  BY PlaceFacts DEF DefineMethod, At, Running, IInv, Progress
<1>2. CASE Stop("mismatch")
  BY <1>2, StopFields DEF Stop, DefineMethod
<1>3. CASE ~Stop("mismatch")
  <2>1. PICK refs, methods : Continue([klass[pc] EXCEPT !.refs = refs, !.methods = methods])
    BY <1>3 DEF DefineMethod
  <2>2. /\ UNCHANGED <<run, pc>> /\ member' = member + 1 /\ DOMAIN klass' = DOMAIN klass
        /\ \A k \in DOMAIN klass : klass'[k].fields = klass[k].fields
    BY <1>1, <2>1 DEF DefineMethod, Continue, Shape, KlassFields
  <2> QED
    BY <1>1, <2>2, SoFarNoField, LaidContinue, FieldInvKept
<1> QED
  BY <1>2, <1>3

LEMMA AbstractFields == ASSUME IInv, FieldInv, AddAbstractMethod PROVE FieldInv'
<1>1. /\ pc \in DOMAIN klass /\ member \in 1 .. Len(MembersOf(Decl.t))
      /\ MembersOf(Decl.t)[member].k # "field" /\ Shape(pc) /\ Len(MembersOf(Decl.t)) \in Nat
  BY PlaceFacts DEF AddAbstractMethod, At, Running, IInv, Progress
<1>2. CASE \E how : Stop(how)
  BY <1>2, StopFields DEF Stop, AddAbstractMethod
<1>3. CASE ~\E how : Stop(how)
  <2>1. PICK methods : \/ Continue(klass[pc])
                       \/ Continue([klass[pc] EXCEPT !.methods = methods])
    BY <1>3 DEF AddAbstractMethod
  <2>2. /\ UNCHANGED <<run, pc>> /\ member' = member + 1 /\ DOMAIN klass' = DOMAIN klass
        /\ \A k \in DOMAIN klass : klass'[k].fields = klass[k].fields
    BY <1>1, <2>1 DEF AddAbstractMethod, Continue, Shape, KlassFields
  <2> QED
    BY <1>1, <2>2, SoFarNoField, LaidContinue, FieldInvKept
<1> QED
  BY <1>2, <1>3

LEMMA CheckFields ==
  ASSUME IInv, FieldInv, NEW t \in DOMAIN klass, NEW s \in DOMAIN klass, CheckInstance(t, s)
  PROVE  FieldInv'
<1>1. /\ klass' = [klass EXCEPT ![s].display[DisplaySize] = t] /\ Shape(s)
      /\ UNCHANGED <<run, pc, member>>
  BY DEF CheckInstance, IInv
<1>2. DOMAIN klass' = DOMAIN klass /\ \A k \in DOMAIN klass : klass'[k].fields = klass[k].fields
  BY <1>1 DEF Shape, KlassFields
<1>3. Laid' = Laid
  BY <1>1, <1>2 DEF Laid, IsClass, TemplateOf
<1>4. \A k \in Laid : SoFar(k)' = SoFar(k)
  BY <1>1 DEF SoFar, Own, Body, MembersOf
<1> QED
  BY <1>1, <1>2, <1>3, <1>4, FieldInvKept

LEMMA DeclareFields == ASSUME IInv, FieldInv, Declare PROVE FieldInv'
<1>1. /\ pc <= Len(run) /\ member = -1 /\ UNCHANGED <<run, pc>>
      /\ member' = (IF TemplateOf(pc).kind = "interface" THEN 1 ELSE 0)
      /\ DOMAIN klass' = DOMAIN klass \cup {pc}
      /\ \A k \in DOMAIN klass : k # pc => klass'[k] = klass[k]
  BY DEF Declare, Running, With
<1>2. pc \notin DOMAIN klass /\ pc \in Nat /\ pc # 0
  BY <1>1, PlaceFacts
<1>3. Laid' \subseteq Laid
  <2> SUFFICES ASSUME NEW k \in Laid' PROVE k \in Laid
    OBVIOUS
  <2>1. k \in DOMAIN klass \cup {pc} /\ IsClass(k) /\ (k < pc \/ member' > 0)
    BY <1>1, LineKept DEF Laid
  <2>2. k # pc
    <3>1. CASE TemplateOf(pc).kind = "interface"
      BY <1>2, <2>1, <3>1 DEF IsClass
    <3>2. CASE TemplateOf(pc).kind # "interface"
      BY <1>1, <1>2, <2>1, <3>2
    <3> QED
      BY <3>1, <3>2
  <2>3. k \in Nat /\ k <= pc
    BY <2>1, <2>2, PlaceFacts
  <2> QED
    BY <1>2, <2>1, <2>2, <2>3 DEF Laid
<1>4. \A k \in Laid : k # pc
  BY <1>2 DEF Laid
<1> QED
  BY <1>1, <1>2, <1>3, <1>4, SoFarBelow, FieldInvKept

LEMMA FieldFields == ASSUME IInv, FieldInv, DefineField PROVE FieldInv'
<1> DEFINE n == Member.name
           f == klass[pc].fields
<1>1. /\ pc \in DOMAIN klass /\ pc \in 1 .. Len(run) /\ pc \in Nat /\ run \in Runs
      /\ member \in 1 .. Len(Body(pc)) /\ Len(Body(pc)) \in Nat
      /\ Body(pc) = MembersOf(Decl.t) /\ Body(pc)[member].k = "field"
      /\ Body(pc)[member].name = n /\ Shape(pc)
  BY PlaceFacts DEF DefineField, At, Running, IInv, Progress, Body, Decl, Member
<1>2. /\ UNCHANGED <<run, pc>> /\ member' = member + 1 /\ DOMAIN klass' = DOMAIN klass
      /\ klass'[pc].fields = With(f, n, Cardinality(DOMAIN f))
      /\ \A k \in DOMAIN klass : k # pc => klass'[k] = klass[k]
  BY <1>1 DEF DefineField, Continue, Shape, KlassFields, FieldIndex
<1> HIDE DEF n, f
<1>3. Laid' = Laid
  BY <1>1, <1>2, LaidContinue
<1>4. ASSUME NEW k \in Laid, Regular(k), k = pc PROVE FieldsOK(k)'
  <2>1. FieldsOK(k) /\ Line' = Line /\ Line[k] \subseteq 0 .. k /\ k \in Line[k]
    BY <1>1, <1>2, <1>4, LineKept, LineBelow DEF FieldInv
  <2>2. n \in Own(k) /\ Declares(k, "field", n)
    <3>1. Body(k)[member] \in Range(Body(k))
      BY <1>1, <1>4, PlaceFacts DEF Range
    <3> QED
      BY <1>1, <1>4, <3>1 DEF Own, Declares, Body
  <2>3. n \notin Above(k)
    <3> SUFFICES ASSUME NEW a \in Line[k] \ {0, k}, n \in Own(a) PROVE FALSE
      BY DEF Above
    <3>1. Declares(a, "field", n)
      BY DEF Own, Declares, Body
    <3> QED
      BY <1>1, <1>4, <2>1, <2>2, <3>1 DEF Regular
  <2>4. SoFar(k) = {Body(k)[i].name : i \in {j \in 1 .. member - 1 : Body(k)[j].k = "field"}}
    BY <1>1, <1>4 DEF SoFar
  <2>5. n \notin SoFar(k)
    <3>1. DOMAIN Body(k) = 1 .. Len(Body(k)) /\ Once(k)
      BY <1>1, <1>4, <2>1, PlaceFacts DEF Regular
    <3>2. \A i \in 1 .. member - 1 : i \in DOMAIN Body(k) /\ i # member
      BY <1>1, <1>4, <3>1
    <3>3. member \in DOMAIN Body(k)
      BY <1>1, <1>4, <3>1
    <3> QED
      BY <1>1, <1>4, <2>4, <3>1, <3>2, <3>3 DEF Once
  <2>6. SoFar(k)' = SoFar(k) \cup {n}
    <3>1. Body(k)' = Body(k)
      BY <1>2 DEF Body, MembersOf
    <3>2. {j \in 1 .. member : Body(k)[j].k = "field"}
            = {j \in 1 .. member - 1 : Body(k)[j].k = "field"} \cup {member}
      BY <1>1, <1>4
    <3>3. SoFar(k)' = {Body(k)[i].name : i \in {j \in 1 .. member : Body(k)[j].k = "field"}}
      <4>1. member' - 1 = member
        BY <1>1, <1>2
      <4> QED
        BY <1>1, <1>2, <1>4, <3>1, <4>1 DEF SoFar
    <3> QED
      BY <1>1, <1>4, <2>4, <3>2, <3>3
  <2>7. Above(k)' = Above(k)
    BY <1>2, <2>1 DEF Above, Own, Body, MembersOf
  <2>8. DOMAIN f = Above(k) \cup SoFar(k) /\ Numbered(f)
    BY <1>4, <2>1 DEF FieldsOK, f
  <2> DEFINE g == klass'[pc].fields
  <2>9. DOMAIN g = DOMAIN f \cup {n} /\ Numbered(g) /\ \A m \in DOMAIN f : g[m] = f[m]
    <3>1. n \notin DOMAIN f /\ Numbered(f) /\ g = With(f, n, Cardinality(DOMAIN f))
      BY <1>2, <2>3, <2>5, <2>8
    <3> HIDE DEF g
    <3>2. \A h : h = With(f, n, Cardinality(DOMAIN f)) =>
            DOMAIN h = DOMAIN f \cup {n} /\ Numbered(h) /\ \A m \in DOMAIN f : h[m] = f[m]
      BY <3>1, NumberedWith
    <3> QED
      BY <3>1, <3>2
  <2>10. \A a \in Line[k] \ {k} : klass'[a] = klass[a]
    BY <1>1, <1>2, <1>4, <2>1, PlaceFacts
  <2>11. \A a \in Line[k] \ {k} : \A m \in DOMAIN klass[a].fields :
           m \in DOMAIN f /\ f[m] = klass[a].fields[m]
    BY <1>4, <2>1 DEF FieldsOK, f
  <2> HIDE DEF g
  <2>12. klass'[k].fields = g
    BY <1>4 DEF g
  <2> QED
    BY <2>1, <2>6, <2>7, <2>8, <2>9, <2>10, <2>11, <2>12 DEF FieldsOK
<1>5. ASSUME NEW k \in Laid, Regular(k), k # pc PROVE FieldsOK(k)'
  <2>1. FieldsOK(k) /\ k \in Nat /\ k < pc /\ SoFar(k)' = SoFar(k)
    BY <1>1, <1>2, <1>5, PlaceFacts, SoFarBelow DEF FieldInv, Laid
  <2>2. \A a \in 0 .. k : klass'[a].fields = klass[a].fields
    BY <1>1, <1>2, <2>1, PlaceFacts
  <2> QED
    BY <1>2, <2>1, <2>2, FieldsKept
<1> QED
  BY <1>2, <1>3, <1>4, <1>5, RegularKept DEF FieldInv

(* The end of a declaration changes no field.                              *)
LEMMA EndFields ==
  ASSUME IInv, FieldInv, pc \in DOMAIN klass, pc <= Len(run),
         member = Len(MembersOf(Decl.t)) + 1, UNCHANGED run, pc' = pc + 1, member' = -1,
         DOMAIN klass' = DOMAIN klass,
         \A k \in DOMAIN klass : klass'[k].fields = klass[k].fields
  PROVE  FieldInv'
<1>1. /\ pc \in Nat /\ pc # 0 /\ Body(pc) = MembersOf(Decl.t) /\ Len(Body(pc)) \in Nat
      /\ Body(pc) \in Seq(Range(Body(pc)))
  BY PlaceFacts DEF Body, Decl
<1>2. Laid' \subseteq Laid
  BY <1>1, LineKept, PlaceFacts DEF Laid
<1>3. ASSUME NEW k \in Laid PROVE SoFar(k)' = SoFar(k)
  <2>1. CASE k # pc
    BY <1>1, <2>1, SoFarBelow
  <2>2. CASE k = pc
    <3>1. SoFar(k)' = Own(k)
      BY <1>1, <2>2 DEF SoFar, Own, Body, MembersOf
    <3>2. SoFar(k) = {Body(k)[i].name : i \in {j \in 1 .. Len(Body(k)) : Body(k)[j].k = "field"}}
      BY <1>1, <2>2 DEF SoFar
    <3>3. Range(Body(k)) = {Body(k)[i] : i \in 1 .. Len(Body(k))}
      BY <1>1, <2>2 DEF Range
    <3>4. Own(k) = SoFar(k)
      BY <3>2, <3>3 DEF Own
    <3> QED
      BY <3>1, <3>4
  <2> QED
    BY <2>1, <2>2
<1> QED
  BY <1>2, <1>3, FieldInvKept

LEMMA CloseFields == ASSUME IInv, FieldInv, CloseClass PROVE FieldInv'
<1>1. pc \in DOMAIN klass /\ Shape(pc)
  BY CloseStarts
<1>2. CASE \E how : Stop(how)
  BY <1>2, StopFields DEF Stop, CloseClass
<1>3. CASE ~\E how : Stop(how)
  <2>1. PICK refs : /\ klass' = [klass EXCEPT ![pc] = [klass[pc] EXCEPT !.refs = refs, !.ready = TRUE]]
                    /\ pc' = pc + 1 /\ member' = -1
    BY <1>3 DEF CloseClass
  <2>2. \A k \in DOMAIN klass : klass'[k].fields = klass[k].fields
    BY <1>1, <2>1 DEF Shape, KlassFields
  <2> QED
    BY <1>1, <2>1, <2>2, EndFields DEF CloseClass, Running
<1> QED
  BY <1>2, <1>3

LEMMA InterfaceFields == ASSUME IInv, FieldInv, EndInterface PROVE FieldInv'
<1>1. pc \in DOMAIN klass /\ Shape(pc)
  BY PlaceFacts DEF EndInterface, Running, IInv
<1>2. DOMAIN klass' = DOMAIN klass /\ \A k \in DOMAIN klass : klass'[k].fields = klass[k].fields
  BY <1>1 DEF EndInterface, Shape, KlassFields
<1> QED
  BY <1>1, <1>2, EndFields DEF EndInterface, Running

LEMMA InheritFields == ASSUME IInv, FieldInv, Inherit PROVE FieldInv'
<1> DEFINE p == Decl.super
<1>1. /\ member = 0 /\ pc \in 1 .. Len(run) /\ pc \in DOMAIN klass /\ pc \in Nat
      /\ run \in Runs /\ UNCHANGED run /\ Shape(pc)
  BY PlaceFacts DEF Inherit, Running, IInv, Progress
<1>2. /\ p \in 0 .. pc - 1 /\ IsClass(p) /\ p = run[pc].super
      /\ Line[pc] = {pc} \cup Line[p] /\ Line[p] \subseteq 0 .. p /\ p \in Line[p]
  <2>1. p \in 0 .. pc - 1 /\ IsClass(p)
    BY <1>1, RunFacts DEF Decl
  <2>2. Line[pc] = {pc} \cup Line[p]
    BY <1>1, LineDef DEF Decl
  <2>3. p \in 0 .. Len(run)
    BY <1>1, <2>1, PlaceFacts
  <2> QED
    BY <1>1, <2>1, <2>2, <2>3, LineBelow DEF Decl
<1>3. CASE \E how : Stop(how)
  BY <1>3, StopFields DEF Stop, Inherit
<1>4. CASE ~\E how : Stop(how)
  <2> DEFINE c == Display(klass[pc], klass[p], klass[p].depth + 1)
  <2>1. PICK s, rss, m, refs :
          Continue([c EXCEPT !.super = s, !.rss = rss, !.fields = klass[p].fields,
                             !.methods = m, !.refs = refs])
    BY <1>4 DEF Inherit
  <2>2. DOMAIN c = KlassFields
    BY <1>1 DEF Display, Shape, KlassFields
  <2> HIDE DEF c
  <2>3. /\ UNCHANGED pc /\ member' = 1 /\ DOMAIN klass' = DOMAIN klass
        /\ klass'[pc].fields = klass[p].fields
        /\ \A k \in DOMAIN klass : k # pc => klass'[k] = klass[k]
    <3> DEFINE r == [c EXCEPT !.super = s, !.rss = rss, !.fields = klass[p].fields,
                              !.methods = m, !.refs = refs]
    <3>1. r.fields = klass[p].fields
      BY <2>2 DEF KlassFields
    <3> HIDE DEF r
    <3>2. Continue(r)
      BY <2>1 DEF r
    <3> QED
      BY <1>1, <3>1, <3>2 DEF Continue
  <2>4. ASSUME NEW k \in Laid', k # pc PROVE k \in Laid
    BY <1>1, <2>3, <2>4, LineKept, PlaceFacts DEF Laid
  <2>5. ASSUME NEW k \in Laid, Regular(k), k # pc PROVE FieldsOK(k)'
    <3>1. FieldsOK(k) /\ k \in Nat /\ k < pc /\ SoFar(k)' = SoFar(k)
      BY <1>1, <2>3, <2>5, PlaceFacts, SoFarBelow DEF FieldInv, Laid
    <3>2. \A a \in 0 .. k : klass'[a].fields = klass[a].fields
      BY <1>1, <2>3, <3>1, PlaceFacts
    <3> QED
      BY <1>1, <2>5, <3>1, <3>2, FieldsKept
  <2>6. ASSUME NEW k, k = pc, Regular(k) PROVE FieldsOK(k)'
    <3> DEFINE f == klass[p].fields
    <3>1. p \in Laid /\ p # pc /\ p \in Nat /\ p < pc
      BY <1>1, <1>2, PlaceFacts DEF Laid
    <3>2. Regular(p)
      BY <1>2, <2>6 DEF Regular
    <3>3. FieldsOK(p)
      BY <3>1, <3>2 DEF FieldInv
    <3>4. /\ DOMAIN f = Above(p) \cup SoFar(p) /\ Numbered(f)
          /\ \A a \in Line[p] : \A n \in DOMAIN klass[a].fields :
               n \in DOMAIN f /\ f[n] = klass[a].fields[n]
      BY <3>3 DEF FieldsOK
    <3>5. Above(k) = Above(p) \cup SoFar(p)
      <4>1. pc \notin Line[p]
        BY <1>1, <1>2
      <4>2. CASE p = 0
        <5>1. Line[p] = {0}
          BY <1>1, <4>2, LineDef
        <5> QED
          BY <1>2, <2>6, <4>1, <4>2, <5>1 DEF Above, SoFar
      <4>3. CASE p # 0
        <5>1. SoFar(p) = Own(p)
          BY <3>1, <4>3 DEF SoFar
        <5>2. Line[k] \ {0, k} = (Line[p] \ {0, p}) \cup {p}
          BY <1>2, <2>6, <4>1, <4>3
        <5> QED
          BY <5>1, <5>2 DEF Above
      <4> QED
        BY <4>2, <4>3
    <3>6. Above(k)' = Above(k) /\ Line' = Line
      BY <1>1, LineKept DEF Above, Own, Body, MembersOf
    <3>7. SoFar(k)' = {}
      <4>1. {j \in 1 .. 0 : Body(k)'[j].k = "field"} = {}
        OBVIOUS
      <4>2. member' - 1 = 0
        BY <2>3
      <4>3. SoFar(k)' = {Body(k)'[i].name : i \in {j \in 1 .. 0 : Body(k)'[j].k = "field"}}
        BY <1>1, <2>3, <2>6, <4>2 DEF SoFar
      <4> QED
        BY <4>1, <4>3
    <3>8. /\ klass'[k].fields = f
          /\ \A a \in Line[k] \ {k} : a \in Line[p] /\ klass'[a] = klass[a]
      <4>1. \A a \in Line[p] : a \in DOMAIN klass /\ a # pc
        BY <1>1, <1>2, PlaceFacts
      <4> QED
        BY <1>2, <2>3, <2>6, <4>1
    <3> HIDE DEF f
    <3> QED
      BY <3>4, <3>5, <3>6, <3>7, <3>8 DEF FieldsOK
  <2> QED
    BY <1>1, <2>4, <2>5, <2>6, RegularKept DEF FieldInv
<1> QED
  BY <1>3, <1>4

LEMMA InitFields == Init => FieldInv
<1> SUFFICES ASSUME Init, NEW k \in Laid PROVE FieldsOK(k)
  BY DEF FieldInv
<1>1. run \in Runs /\ k = 0 /\ klass[0].fields = <<>>
  BY DEF Init, Laid, Object, NewClass
<1>2. Line[0] = {0}
  BY <1>1, LineDef
<1>3. DOMAIN <<>> = {} /\ Above(0) = {} /\ SoFar(0) = {}
  BY <1>2 DEF Above, SoFar
<1>4. Numbered(<<>>)
  <2>1. IsFiniteSet(DOMAIN <<>>) /\ Cardinality(DOMAIN <<>>) = 0
    BY <1>3, FS_EmptySet
  <2>2. Range(<<>>) = {}
    BY <1>3 DEF Range
  <2>3. IsInjective(<<>>)
    BY <1>3 DEF IsInjective
  <2>4. 0 .. 0 - 1 = {}
    OBVIOUS
  <2> QED
    BY <2>1, <2>2, <2>3, <2>4 DEF Numbered
<1> QED
  BY <1>1, <1>2, <1>3, <1>4 DEF FieldsOK

LEMMA FieldInductive == IInv /\ FieldInv /\ [Next]_vars => FieldInv'
<1> SUFFICES ASSUME IInv, FieldInv, [Next]_vars PROVE FieldInv'
  OBVIOUS
<1>1. CASE UNCHANGED vars
  BY <1>1, StopFields DEF vars
<1>2. CASE Next
  BY <1>2, DeclareFields, InheritFields, FieldFields, MethodFields, AbstractFields, CloseFields,
     InterfaceFields, CheckFields DEF Next
<1> QED
  BY <1>1, <1>2

(* No class declares a field that a class above it declares: that is what  *)
(* "Field '%s' shadows field from superclass" means (vm.c:460), but inherit *)
(* looks before FIELD fills the table of the class, and refuses nothing.   *)
(* And none declares one of its fields twice, which nothing checks.  In    *)
(* both cases defineField gives two fields one number.                     *)
Unshadowed ==
  \A s \in Closed \ {0} : IsClass(s) =>
    \A a \in Line[s] \ {s} : \A n \in Own(s) : ~Declares(a, "field", n)
Unrepeated == \A s \in Closed \ {0} : IsClass(s) => Once(s)

LEMMA LayoutSound ==
  ASSUME IInv, FieldInv, Unshadowed, Unrepeated PROVE FieldLayout
<1> SUFFICES ASSUME NEW s \in Closed, IsClass(s)
             PROVE  LET f == klass[s].fields
                    IN /\ DOMAIN f = Fields(s)
                       /\ IsInjective(f) /\ Range(f) = 0 .. (Cardinality(DOMAIN f) - 1)
                       /\ \A a \in Line[s] : \A n \in DOMAIN klass[a].fields :
                            f[n] = klass[a].fields[n]
  BY DEF FieldLayout
<1>1. /\ s \in 0 .. Len(run) /\ s \in Nat /\ s < pc /\ s \in Laid /\ run \in Runs
      /\ Len(run) \in Nat
  BY PlaceFacts DEF IInv, Closed, Shape, Progress, Laid
<1>2. Line[s] \subseteq 0 .. s /\ s \in Line[s] /\ \A a \in Line[s] : IsClass(a)
  BY <1>1, LineBelow
<1>3. \A a \in Line[s] : a \in Closed
  BY <1>1, <1>2, PlaceFacts DEF IInv, Closed, Shape
<1>4. ASSUME NEW a \in Line[s] \ {0}
      PROVE  Once(a) /\ \A b \in Line[a] \ {a} : \A n \in Own(a) : ~Declares(b, "field", n)
  BY <1>2, <1>3 DEF Unshadowed, Unrepeated, Own, Body
<1>5. FieldsOK(s)
  BY <1>1, <1>4 DEF FieldInv, Regular
<1>6. Above(s) \cup SoFar(s) = Fields(s)
  <2>1. Above(s) \cup SoFar(s) = UNION {Own(a) : a \in Line[s] \ {0}}
    <3>1. CASE s = 0
      BY <1>1, <3>1, LineDef DEF Above, SoFar
    <3>2. CASE s # 0
      <4>1. Line[s] \ {0} = (Line[s] \ {0, s}) \cup {s} /\ SoFar(s) = Own(s)
        BY <1>1, <1>2, <3>2 DEF SoFar
      <4> QED
        BY <4>1 DEF Above
    <3> QED
      BY <3>1, <3>2
  <2>2. ASSUME NEW n PROVE n \in Fields(s) <=> \E a \in Line[s] \ {0} : n \in Own(a)
    <3>1. \A a : a # 0 => (n \in Own(a) <=> Declares(a, "field", n))
      BY DEF Own, Declares, Body
    <3>2. \A a : n \in Own(a) => n \in {mb.name : mb \in Range(MembersOf(run[a].t))}
      BY DEF Own, Body
    <3>3. ~Declares(0, "field", n)
      BY DEF Declares
    <3> QED
      BY <3>1, <3>2, <3>3 DEF Fields
  <2> QED
    BY <2>1, <2>2
<1> QED
  BY <1>5, <1>6 DEF FieldsOK, Numbered

(* As long as no class declares a field that is there already, its own or  *)
(* one of a class above it, the fields of a class have the indexes below   *)
(* their number, each its own, and a subclass keeps them where they were   *)
(* (defineField and inherit, vm.c).                                        *)
THEOREM FieldsLaidOut == Spec => [](Unshadowed /\ Unrepeated => FieldLayout)
<1>1. IInv /\ FieldInv => (Unshadowed /\ Unrepeated => FieldLayout)
  BY LayoutSound
<1> QED
  BY InitFacts, InitFields, Inductive, FieldInductive, <1>1, PTL DEF Spec

-----------------------------------------------------------------------------
(* Types.  The references of a class begin with those of its superclass,   *)
(* which are resolved; its own are when it is closed.                      *)
ASequence(s) == s \in Seq(Range(s))

RefsOK(k) ==
  LET refs == klass[k].refs IN
  /\ ASequence(refs)
  /\ \A i \in DOMAIN refs : "type" \in DOMAIN refs[i]
  /\ k \in Laid \ {0} =>
       /\ klass[k].super = run[k].super
       /\ \A i \in DOMAIN refs :
            k < pc \/ i <= Len(klass[run[k].super].refs) => refs[i].type \in {"field", "method"}
  /\ k \notin Laid \ {0} => refs = <<>>

CodeOK == \A f \in DOMAIN code : code[f].parent \in DOMAIN klass /\ code[f].refOffset \in Nat

RefInv ==
  /\ \A k \in DOMAIN klass : RefsOK(k)
  /\ CodeOK
  /\ status \in Outcomes /\ checks \in 0 .. MaxChecks

(* Sequences by their elements.                                            *)
LEMMA SequenceByDomain ==
  ASSUME NEW s, NEW n \in Nat, s = [i \in 1 .. n |-> s[i]]
  PROVE  ASequence(s) /\ Len(s) = n
<1>1. \A i \in 1 .. n : s[i] \in Range(s)
  BY DEF Range
<1> QED
  BY <1>1 DEF ASequence

LEMMA SequenceFacts ==
  ASSUME NEW s, ASequence(s)
  PROVE  Len(s) \in Nat /\ DOMAIN s = 1 .. Len(s) /\ s = [i \in 1 .. Len(s) |-> s[i]]
  BY DEF ASequence

(* Recursion over a sequence ends in a set that every step stays in.       *)
LEMMA StaysIn ==
  ASSUME NEW n \in Nat, NEW T, 0 \in T, \A i \in 1 .. n : i - 1 \in T => i \in T
  PROVE  n \in T
<1> DEFINE S == {i \in Nat : i <= n => i \in T}
<1>1. 0 \in S
  OBVIOUS
<1>2. ASSUME NEW i \in Nat, i \in S PROVE i + 1 \in S
  BY <1>2
<1> HIDE DEF S
<1>3. Nat \subseteq S
  BY <1>1, <1>2, NatInd
<1> QED
  BY <1>3 DEF S

(* The pending properties of a template are entries of its references, and *)
(* every reference has one.                                                *)
Entry(ref) == [this |-> ref.this, name |-> ref.name, allowed |-> Allowed(ref)]
Entries(t) == {Entry(ref) : ref \in UNION {Range(mb.refs) : mb \in Range(MembersOf(t))}}
Has(pending, ref) == \E p \in Range(pending) : p.this = ref.this /\ p.name = ref.name

(* What the references of one member add.                                  *)
Used(before, refs) ==
  LET upTo[j \in 0..Len(refs)] ==
        IF j = 0 THEN before ELSE AddPendingProperty(upTo[j - 1], refs[j])
  IN upTo[Len(refs)]

LEMMA HasAdded ==
  ASSUME NEW S, NEW v \in Seq(S), NEW ref, Entry(ref) \in S, NEW w, w = AddPendingProperty(v, ref)
  PROVE  /\ w \in Seq(S) /\ Has(w, ref) /\ \A x : Has(v, x) => Has(w, x)
<1>1. CASE Has(v, ref)
  BY <1>1 DEF Has, AddPendingProperty
<1>2. CASE ~Has(v, ref)
  <2>1. w = Append(v, Entry(ref))
    BY <1>2 DEF Has, AddPendingProperty, Entry
  <2>2. Range(w) = Range(v) \cup {Entry(ref)}
    BY <2>1, AppendRange
  <2>3. w \in Seq(S)
    BY <2>1
  <2> QED
    BY <2>2, <2>3 DEF Has, Entry
<1> QED
  BY <1>1, <1>2

LEMMA UsedCovers ==
  ASSUME NEW S, NEW before \in Seq(S), NEW refs, refs \in Seq(Range(refs)),
         \A ref \in Range(refs) : Entry(ref) \in S
  PROVE  /\ Used(before, refs) \in Seq(S)
         /\ \A x : Has(before, x) => Has(Used(before, refs), x)
         /\ \A x \in Range(refs) : Has(Used(before, refs), x)
<1> DEFINE n == Len(refs)
           upTo[j \in 0..n] ==
             IF j = 0 THEN before ELSE AddPendingProperty(upTo[j - 1], refs[j])
           Def(v, j) == AddPendingProperty(v, refs[j])
<1>1. FiniteNatInductiveDefHypothesis(upTo, before, Def, 0, n)
  BY DEF FiniteNatInductiveDefHypothesis
<1>2. n \in Nat /\ \A j \in 1 .. n : refs[j] \in Range(refs)
  BY DEF Range
<1>3. SUFFICES /\ upTo[n] \in Seq(S)
               /\ \A x : Has(before, x) => Has(upTo[n], x)
               /\ \A x \in Range(refs) : Has(upTo[n], x)
  <2>1. Used(before, refs) = upTo[n]
    BY DEF Used
  <2> HIDE DEF upTo
  <2> QED
    BY <2>1
<1> HIDE DEF upTo, Def
<1>4. FiniteNatInductiveDefConclusion(upTo, before, Def, 0, n)
  BY <1>1, <1>2, FiniteNatInductiveDef
<1>5. upTo = [j \in 0 .. n |-> IF j = 0 THEN before ELSE Def(upTo[j - 1], j)]
  BY <1>4 DEF FiniteNatInductiveDefConclusion
<1> DEFINE P(j) == /\ upTo[j] \in Seq(S)
                   /\ \A x : Has(before, x) => Has(upTo[j], x)
                   /\ \A i \in 1 .. j : Has(upTo[j], refs[i])
           T == {j \in 0 .. n : P(j)}
<1>6. 0 \in T
  BY <1>2, <1>5
<1>7. ASSUME NEW j \in 1 .. n, j - 1 \in T PROVE j \in T
  <2> DEFINE v == upTo[j - 1]
             w == upTo[j]
  <2>1. P(j - 1) /\ w = Def(v, j) /\ Entry(refs[j]) \in S
    BY <1>2, <1>5, <1>7
  <2> HIDE DEF v, w
  <2>2. w \in Seq(S) /\ Has(w, refs[j]) /\ \A x : Has(v, x) => Has(w, x)
    <3>1. v \in Seq(S) /\ w = AddPendingProperty(v, refs[j])
      BY <2>1 DEF v, Def
    <3> QED
      BY <2>1, <3>1, HasAdded
  <2>3. \A i \in 1 .. j : i = j \/ i \in 1 .. j - 1
    BY <1>2
  <2>4. P(j)
    BY <2>1, <2>2, <2>3 DEF v, w
  <2> QED
    BY <1>2, <2>4
<1>8. n \in T
  <2> HIDE DEF T
  <2> QED
    BY <1>2, <1>6, <1>7, StaysIn
<1>9. \A x \in Range(refs) : \E i \in 1 .. n : x = refs[i]
  BY <1>2 DEF Range
<1> QED
  BY <1>8, <1>9

LEMMA PendingCovers ==
  ASSUME NEW t \in DOMAIN Templates
  PROVE  /\ Pending(t) \in Seq(Entries(t)) /\ Len(Pending(t)) \in Nat
         /\ \A mb \in Range(MembersOf(t)) : \A ref \in Range(mb.refs) : Has(Pending(t), ref)
<1> DEFINE M == MembersOf(t)
           n == Len(M)
           S == Entries(t)
           body[i \in 0..n] == IF i = 0 THEN <<>> ELSE Used(body[i - 1], M[i].refs)
           Def(v, i) == Used(v, M[i].refs)
<1>1. FiniteNatInductiveDefHypothesis(body, <<>>, Def, 0, n)
  BY DEF FiniteNatInductiveDefHypothesis
<1>2. M \in Seq(Range(M)) /\ \A mb \in Range(M) : mb.refs \in Seq(Range(mb.refs))
  BY TemplateAssumption DEF MembersOf
<1>3. n \in Nat /\ \A i \in 1 .. n : M[i] \in Range(M)
  BY <1>2 DEF Range
<1>4. Pending(t) = body[n]
  BY DEF Pending, Used
<1>5. ASSUME NEW v \in Seq(S), NEW i \in 1 .. n
      PROVE  /\ Def(v, i) \in Seq(S)
             /\ \A x : Has(v, x) => Has(Def(v, i), x)
             /\ \A x \in Range(M[i].refs) : Has(Def(v, i), x)
  <2>1. M[i].refs \in Seq(Range(M[i].refs)) /\ \A ref \in Range(M[i].refs) : Entry(ref) \in S
    BY <1>2, <1>3 DEF Entries
  <2> HIDE DEF S, M
  <2> QED
    BY <2>1, UsedCovers
<1> HIDE DEF body, Def, S, M, n
<1>6. FiniteNatInductiveDefConclusion(body, <<>>, Def, 0, n)
  BY <1>1, <1>3, FiniteNatInductiveDef
<1>7. body = [i \in 0 .. n |-> IF i = 0 THEN <<>> ELSE Def(body[i - 1], i)]
  BY <1>6 DEF FiniteNatInductiveDefConclusion
<1> DEFINE P(v, i) == v \in Seq(S) /\ \A j \in 1 .. i : \A x \in Range(M[j].refs) : Has(v, x)
           T == {i \in 0 .. n : P(body[i], i)}
<1>8. 0 \in T
  <2>1. body[0] = <<>> /\ 0 \in 0 .. n
    BY <1>3, <1>7
  <2>2. P(<<>>, 0)
    OBVIOUS
  <2> QED
    BY <2>1, <2>2
<1>9. ASSUME NEW i \in 1 .. n, i - 1 \in T PROVE i \in T
  <2> DEFINE v == body[i - 1]
             w == body[i]
  <2>1. P(v, i - 1) /\ w = Def(v, i) /\ i \in 0 .. n
    BY <1>3, <1>7, <1>9
  <2> HIDE DEF v, w
  <2>2. /\ w \in Seq(S)
        /\ \A x : Has(v, x) => Has(w, x)
        /\ \A x \in Range(M[i].refs) : Has(w, x)
    BY <1>5, <2>1
  <2>3. \A j \in 1 .. i : j = i \/ j \in 1 .. i - 1
    BY <1>3
  <2>4. P(w, i)
    BY <2>1, <2>2, <2>3
  <2> QED
    BY <2>1, <2>4 DEF w
<1>10. n \in T
  <2> HIDE DEF T
  <2> QED
    BY <1>3, <1>8, <1>9, StaysIn
<1>11. \A mb \in Range(M) : \E j \in 1 .. n : mb = M[j]
  BY <1>2, <1>3 DEF Range, n
<1>12. P(body[n], n)
  BY <1>10
<1>13. Pending(t) \in Seq(S) /\ Len(Pending(t)) \in Nat
  BY <1>4, <1>12
<1>14. \A mb \in Range(M) : \A ref \in Range(mb.refs) : Has(Pending(t), ref)
  BY <1>4, <1>11, <1>12
<1> QED
  BY <1>13, <1>14 DEF S, M

LEMMA InterfacesOutcome ==
  ASSUME NEW methods, NEW added, Len(added) \in Nat PROVE AddInterfaces(methods, added).how \in Outcomes
<1> DEFINE n == Len(added)
           base == [how |-> "running", methods |-> methods]
           upTo[i \in 0..n] == IF i = 0 THEN base ELSE AddInterface(upTo[i - 1], added[i])
           Def(v, i) == AddInterface(v, added[i])
<1>1. FiniteNatInductiveDefHypothesis(upTo, base, Def, 0, n)
  BY DEF FiniteNatInductiveDefHypothesis
<1>2. AddInterfaces(methods, added) = upTo[n]
  BY DEF AddInterfaces
<1>3. base.how \in Outcomes /\ DOMAIN base = {"how", "methods"}
  BY DEF Outcomes
<1>4. ASSUME NEW v, NEW i, v.how \in Outcomes, DOMAIN v = {"how", "methods"}
      PROVE  Def(v, i).how \in Outcomes /\ DOMAIN Def(v, i) = {"how", "methods"}
  BY <1>4 DEF AddInterface, Outcomes
<1> HIDE DEF upTo, Def, base
<1>5. FiniteNatInductiveDefConclusion(upTo, base, Def, 0, n)
  BY <1>1, FiniteNatInductiveDef
<1>6. upTo = [i \in 0 .. n |-> IF i = 0 THEN base ELSE Def(upTo[i - 1], i)]
  BY <1>5 DEF FiniteNatInductiveDefConclusion
<1> DEFINE T == {i \in 0 .. n : upTo[i].how \in Outcomes /\ DOMAIN upTo[i] = {"how", "methods"}}
<1>7. 0 \in T
  BY <1>3, <1>6
<1>8. ASSUME NEW i \in 1 .. n, i - 1 \in T PROVE i \in T
  <2>1. upTo[i] = Def(upTo[i - 1], i)
    BY <1>6, <1>8
  <2>2. upTo[i - 1].how \in Outcomes /\ DOMAIN upTo[i - 1] = {"how", "methods"}
    BY <1>8
  <2>3. upTo[i].how \in Outcomes /\ DOMAIN upTo[i] = {"how", "methods"}
    BY <1>4, <2>1, <2>2
  <2> QED
    BY <2>3
<1>9. n \in T
  <2> HIDE DEF T
  <2> QED
    BY <1>7, <1>8, StaysIn
<1> QED
  BY <1>2, <1>9

(* A step that resolves nothing and leaves the kinds of references.        *)
SameKinds(k) ==
  LET refs == klass[k].refs
      now == klass'[k].refs
  IN /\ klass'[k].super = klass[k].super
     /\ DOMAIN now = DOMAIN refs /\ now = [i \in DOMAIN now |-> now[i]]
     /\ \A i \in DOMAIN refs :
          now[i].type = refs[i].type /\ ("type" \in DOMAIN refs[i] => "type" \in DOMAIN now[i])

LEMMA SameRefs ==
  ASSUME NEW k, klass'[k].super = klass[k].super, klass'[k].refs = klass[k].refs, RefsOK(k)
  PROVE  SameKinds(k)
<1>1. klass[k].refs = [i \in DOMAIN klass[k].refs |-> klass[k].refs[i]]
  BY SequenceFacts DEF RefsOK
<1> QED
  BY <1>1 DEF SameKinds

LEMMA RefsKept ==
  ASSUME IInv, UNCHANGED run, NEW k \in DOMAIN klass, RefsOK(k),
         \A j \in 0 .. k : SameKinds(j) /\ RefsOK(j),
         k \in Laid' <=> k \in Laid, k \in Laid /\ k < pc' => k < pc
  PROVE  RefsOK(k)'
<1> DEFINE refs == klass[k].refs
           now == klass'[k].refs
           n == Len(refs)
           s == run[k].super
<1>1. ASequence(refs) /\ n \in Nat /\ DOMAIN refs = 1 .. n
  BY SequenceFacts DEF RefsOK
<1>2. /\ DOMAIN now = 1 .. n /\ now = [i \in 1 .. n |-> now[i]] /\ klass'[k].super = klass[k].super
      /\ \A i \in 1 .. n : now[i].type = refs[i].type /\ "type" \in DOMAIN now[i]
  <2>1. SameKinds(k)
    BY PlaceFacts
  <2> QED
    BY <1>1, <2>1 DEF SameKinds, RefsOK
<1>3. ASequence(now) /\ Len(now) = n
  BY <1>1, <1>2, SequenceByDomain
<1>4. k \in Laid \ {0} => Len(klass'[s].refs) = Len(klass[s].refs)
  <2> SUFFICES ASSUME k \in Laid \ {0} PROVE Len(klass'[s].refs) = Len(klass[s].refs)
    OBVIOUS
  <2>1. s \in 0 .. k
    BY PlaceFacts, RunFacts DEF IInv, Progress
  <2>2. SameKinds(s) /\ RefsOK(s)
    BY <2>1
  <2> DEFINE a == klass[s].refs
             b == klass'[s].refs
  <2>3. ASequence(a) /\ DOMAIN b = DOMAIN a /\ b = [i \in DOMAIN b |-> b[i]]
    BY <2>2 DEF SameKinds, RefsOK
  <2> HIDE DEF a, b
  <2>4. Len(a) \in Nat /\ b = [i \in 1 .. Len(a) |-> b[i]]
    BY <2>3, SequenceFacts
  <2>5. Len(b) = Len(a)
    BY <2>4, SequenceByDomain
  <2> QED
    BY <2>5 DEF a, b
<1>5. k \in Laid \ {0} =>
        /\ klass'[k].super = s
        /\ \A i \in 1 .. n :
             k < pc' \/ i <= Len(klass'[s].refs) => now[i].type \in {"field", "method"}
  BY <1>1, <1>2, <1>4 DEF RefsOK
<1>6. k \notin Laid \ {0} => now = <<>>
  <2> SUFFICES ASSUME k \notin Laid \ {0} PROVE now = <<>>
    OBVIOUS
  <2>1. n = 0
    BY DEF RefsOK
  <2> QED
    BY <1>2, <2>1
<1> QED
  BY <1>2, <1>3, <1>5, <1>6 DEF RefsOK

LEMMA RefInvKept ==
  ASSUME IInv, RefInv, UNCHANGED run, Laid' = Laid, DOMAIN klass' = DOMAIN klass,
         \A k \in DOMAIN klass : SameKinds(k), \A k \in Laid : k < pc' => k < pc,
         CodeOK', status' \in Outcomes, checks' \in 0 .. MaxChecks
  PROVE  RefInv'
<1>1. \A k \in DOMAIN klass : \A j \in 0 .. k : j \in DOMAIN klass
  BY DEF IInv, Progress
<1>2. \A k \in DOMAIN klass : RefsOK(k)'
  BY <1>1, RefsKept DEF RefInv
<1> QED
  BY <1>2 DEF RefInv

LEMMA StopRefs ==
  ASSUME IInv, RefInv, NEW how \in Outcomes, Stop(how), UNCHANGED <<run, checks>> PROVE RefInv'
<1>1. Laid' = Laid
  BY DEF Laid, IsClass, TemplateOf, Stop
<1>2. \A k \in DOMAIN klass : SameKinds(k)
  BY SameRefs DEF Stop, RefInv
<1>3. CodeOK'
  BY DEF CodeOK, RefInv, Stop
<1> QED
  BY <1>1, <1>2, <1>3, RefInvKept DEF Stop, RefInv

LEMMA FieldRefs == ASSUME IInv, RefInv, DefineField PROVE RefInv'
<1>1. /\ pc \in DOMAIN klass /\ member \in 1 .. Len(MembersOf(Decl.t)) /\ Shape(pc)
      /\ Len(MembersOf(Decl.t)) \in Nat
  BY PlaceFacts DEF DefineField, At, Running, IInv, Progress
<1>2. /\ UNCHANGED <<run, pc, code, status, checks>> /\ member' = member + 1
      /\ DOMAIN klass' = DOMAIN klass
      /\ \A k \in DOMAIN klass : /\ klass'[k].super = klass[k].super
                                 /\ klass'[k].refs = klass[k].refs
  BY <1>1 DEF DefineField, Continue, Shape, KlassFields
<1>3. Laid' = Laid
  BY <1>1, <1>2, LaidContinue
<1>4. \A k \in DOMAIN klass : SameKinds(k)
  BY <1>2, SameRefs DEF RefInv
<1>5. CodeOK'
  BY <1>2 DEF CodeOK, RefInv
<1> QED
  BY <1>2, <1>3, <1>4, <1>5, RefInvKept DEF RefInv

LEMMA AbstractRefs == ASSUME IInv, RefInv, AddAbstractMethod PROVE RefInv'
<1>1. /\ pc \in DOMAIN klass /\ member \in 1 .. Len(MembersOf(Decl.t)) /\ Shape(pc)
      /\ Len(MembersOf(Decl.t)) \in Nat
  BY PlaceFacts DEF AddAbstractMethod, At, Running, IInv, Progress
<1>2. CASE Stop("mismatch") \/ Stop("abstractOverride")
  <2>1. "mismatch" \in Outcomes /\ "abstractOverride" \in Outcomes
    BY DEF Outcomes
  <2> QED
    BY <1>2, <2>1, StopRefs DEF AddAbstractMethod
<1>3. CASE ~(Stop("mismatch") \/ Stop("abstractOverride"))
  <2>1. /\ UNCHANGED code
        /\ \E methods : \/ Continue(klass[pc])
                        \/ Continue([klass[pc] EXCEPT !.methods = methods])
    BY <1>3 DEF AddAbstractMethod
  <2>2. PICK methods : \/ Continue(klass[pc])
                       \/ Continue([klass[pc] EXCEPT !.methods = methods])
    BY <2>1
  <2>3. /\ UNCHANGED <<run, pc, code, status, checks>> /\ member' = member + 1
        /\ DOMAIN klass' = DOMAIN klass
        /\ \A k \in DOMAIN klass : /\ klass'[k].super = klass[k].super
                                   /\ klass'[k].refs = klass[k].refs
    BY <1>1, <2>1, <2>2 DEF AddAbstractMethod, Continue, Shape, KlassFields
  <2>4. Laid' = Laid
    BY <1>1, <2>3, LaidContinue
  <2>5. \A k \in DOMAIN klass : SameKinds(k)
    BY <2>3, SameRefs DEF RefInv
  <2>6. CodeOK'
    BY <2>3 DEF CodeOK, RefInv
  <2> QED
    BY <2>3, <2>4, <2>5, <2>6, RefInvKept DEF RefInv
<1> QED
  BY <1>2, <1>3

LEMMA CheckRefs ==
  ASSUME IInv, RefInv, NEW t \in DOMAIN klass, NEW s \in DOMAIN klass, CheckInstance(t, s)
  PROVE  RefInv'
<1>1. /\ klass' = [klass EXCEPT ![s].display[DisplaySize] = t] /\ Shape(s)
      /\ UNCHANGED <<run, pc, member, code, status>> /\ checks < MaxChecks /\ checks' = checks + 1
  BY DEF CheckInstance, IInv
<1>2. /\ DOMAIN klass' = DOMAIN klass
      /\ \A k \in DOMAIN klass : /\ klass'[k].super = klass[k].super
                                 /\ klass'[k].refs = klass[k].refs
  BY <1>1 DEF Shape, KlassFields
<1>3. Laid' = Laid
  BY <1>1, <1>2 DEF Laid, IsClass, TemplateOf
<1>4. \A k \in DOMAIN klass : SameKinds(k)
  BY <1>2, SameRefs DEF RefInv
<1>5. CodeOK'
  BY <1>1, <1>2 DEF CodeOK, RefInv
<1>6. checks' \in 0 .. MaxChecks
  BY <1>1, ClassAssumption DEF RefInv
<1> QED
  BY <1>1, <1>2, <1>3, <1>4, <1>5, <1>6, RefInvKept DEF RefInv

(* A class that is being executed, and the references of its superclass.   *)
LEMMA OwnClass ==
  ASSUME IInv, RefInv, member \in 1 .. Len(MembersOf(Decl.t)) + 1, pc <= Len(run), IsClass(pc)
  PROVE  /\ pc \in Laid \ {0} /\ klass[pc].super = run[pc].super
         /\ Len(klass[run[pc].super].refs) \in Nat
<1>1. pc \in DOMAIN klass /\ pc \in 1 .. Len(run) /\ Len(MembersOf(Decl.t)) \in Nat /\ run \in Runs
  BY PlaceFacts DEF IInv, Progress
<1>2. pc \in Laid \ {0} /\ member > 0
  BY <1>1 DEF Laid
<1>3. run[pc].super \in DOMAIN klass
  BY <1>1, RunFacts, PlaceFacts
<1>4. RefsOK(pc) /\ RefsOK(run[pc].super)
  BY <1>1, <1>3 DEF RefInv
<1> QED
  BY <1>2, <1>4, SequenceFacts DEF RefsOK

LEMMA MethodRefs == ASSUME IInv, RefInv, DefineMethod PROVE RefInv'
<1>1. /\ pc \in DOMAIN klass /\ member \in 1 .. Len(MembersOf(Decl.t)) /\ Shape(pc)
      /\ Len(MembersOf(Decl.t)) \in Nat /\ RefsOK(pc)
      /\ pc <= Len(run) /\ IsClass(pc) /\ UNCHANGED <<run, checks>>
  <2>1. /\ pc \in DOMAIN klass /\ member \in 1 .. Len(MembersOf(Decl.t)) /\ Shape(pc)
        /\ Len(MembersOf(Decl.t)) \in Nat /\ RefsOK(pc)
        /\ pc <= Len(run) /\ UNCHANGED <<run, checks>> /\ Decl.t \in DOMAIN Templates
        /\ MembersOf(Decl.t)[member].k = "method"
    BY PlaceFacts DEF DefineMethod, At, Running, IInv, Progress, RefInv
  <2>2. MembersOf(Decl.t)[member] \in Range(MembersOf(Decl.t))
    BY <2>1, PlaceFacts DEF Range
  <2>3. Templates[Decl.t].kind = "class"
    BY <2>1, <2>2, TemplateAssumption DEF MembersOf
  <2> QED
    BY <2>1, <2>3 DEF IsClass, TemplateOf, Decl
<1>2. CASE Stop("mismatch")
  <2>1. "mismatch" \in Outcomes
    BY DEF Outcomes
  <2> QED
    BY <1>1, <1>2, <2>1, StopRefs
<1>3. CASE ~Stop("mismatch")
  <2> DEFINE k == klass[pc]
             n == Member.name
             entry == [parent |-> pc, refOffset |-> Len(klass[k.super].refs)]
             replaced == ReplaceRefs(k, k.methods[n], NewMethod)
             refs == IF n \in DOMAIN k.methods THEN replaced ELSE k.refs
             r == [k EXCEPT !.refs = refs, !.methods = With(@, n, NewMethod)]
  <2>1. Continue(r) /\ code' = With(code, <<Decl.t, member>>, entry)
    BY <1>3 DEF DefineMethod
  <2>2. r.super = k.super /\ r.refs = refs
    BY <1>1 DEF Shape, KlassFields
  <2>3. /\ DOMAIN refs = DOMAIN k.refs /\ refs = [i \in DOMAIN refs |-> refs[i]]
        /\ \A i \in DOMAIN k.refs :
             refs[i].type = k.refs[i].type
             /\ ("type" \in DOMAIN k.refs[i] => "type" \in DOMAIN refs[i])
    <3>1. /\ DOMAIN replaced = DOMAIN k.refs /\ replaced = [i \in DOMAIN replaced |-> replaced[i]]
          /\ \A i \in DOMAIN k.refs :
               \/ replaced[i] = k.refs[i]
               \/ replaced[i] = [k.refs[i] EXCEPT !.value = NewMethod]
      BY DEF ReplaceRefs
    <3>2. k.refs = [i \in DOMAIN k.refs |-> k.refs[i]] /\ \A i \in DOMAIN k.refs : "type" \in DOMAIN k.refs[i]
      BY <1>1, SequenceFacts DEF RefsOK
    <3> HIDE DEF replaced, k, n
    <3>3. \A i \in DOMAIN k.refs : /\ replaced[i].type = k.refs[i].type
                                   /\ "type" \in DOMAIN replaced[i]
      BY <3>1, <3>2
    <3>4. CASE n \in DOMAIN k.methods
      BY <3>1, <3>3, <3>4
    <3>5. CASE n \notin DOMAIN k.methods
      BY <3>2, <3>5
    <3> QED
      BY <3>4, <3>5
  <2> HIDE DEF r, refs, entry
  <2>4. /\ UNCHANGED <<pc, status>> /\ member' = member + 1 /\ DOMAIN klass' = DOMAIN klass
        /\ klass'[pc] = r /\ \A j \in DOMAIN klass : j # pc => klass'[j] = klass[j]
    BY <1>1, <2>1 DEF Continue
  <2>5. \A j \in DOMAIN klass : SameKinds(j)
    <3>1. SameKinds(pc)
      BY <2>2, <2>3, <2>4 DEF SameKinds
    <3>2. ASSUME NEW j \in DOMAIN klass, j # pc PROVE SameKinds(j)
      BY <2>4, <3>2, SameRefs DEF RefInv
    <3> QED
      BY <3>1, <3>2
  <2>6. CodeOK'
    <3>1. entry.parent = pc /\ entry.refOffset \in Nat
      BY <1>1, OwnClass DEF entry
    <3>2. \A f \in DOMAIN code' : code'[f] = entry \/ (f \in DOMAIN code /\ code'[f] = code[f])
      BY <2>1 DEF With
    <3> QED
      BY <1>1, <2>4, <3>1, <3>2 DEF CodeOK, RefInv
  <2>7. Laid' = Laid
    BY <1>1, <2>4, LaidContinue
  <2> QED
    BY <1>1, <2>4, <2>5, <2>6, <2>7, RefInvKept DEF RefInv
<1> QED
  BY <1>2, <1>3

LEMMA InterfaceRefs == ASSUME IInv, RefInv, EndInterface PROVE RefInv'
<1>1. /\ pc \in DOMAIN klass /\ Shape(pc) /\ ~IsClass(pc) /\ pc \in Nat /\ member > 0
      /\ pc' = pc + 1 /\ UNCHANGED <<run, code, status, checks>>
  BY PlaceFacts DEF EndInterface, Running, IInv, Shape
<1>2. /\ DOMAIN klass' = DOMAIN klass
      /\ \A k \in DOMAIN klass : /\ klass'[k].super = klass[k].super
                                 /\ klass'[k].refs = klass[k].refs
  BY <1>1 DEF EndInterface, Shape, KlassFields
<1>3. Laid' = Laid /\ \A k \in Laid : k < pc
  BY <1>1, <1>2, LineKept, PlaceFacts DEF Laid
<1>4. \A k \in DOMAIN klass : SameKinds(k)
  BY <1>2, SameRefs DEF RefInv
<1>5. CodeOK'
  BY <1>1, <1>2 DEF CodeOK, RefInv
<1> QED
  BY <1>1, <1>2, <1>3, <1>4, <1>5, RefInvKept DEF RefInv

LEMMA DeclareRefs == ASSUME IInv, RefInv, Declare PROVE RefInv'
<1>1. /\ pc <= Len(run) /\ member = -1 /\ UNCHANGED <<run, pc, code, status, checks>>
      /\ member' = (IF TemplateOf(pc).kind = "interface" THEN 1 ELSE 0)
      /\ DOMAIN klass' = DOMAIN klass \cup {pc} /\ klass'[pc].refs = <<>>
      /\ \A k \in DOMAIN klass : k # pc => klass'[k] = klass[k]
  BY DEF Declare, Running, With, NewInterface, NewClass
<1>2. pc \notin DOMAIN klass /\ pc \in Nat /\ pc # 0
  BY <1>1, PlaceFacts
<1>3. Laid' = Laid
  <2>1. pc \notin Laid'
    <3> SUFFICES ASSUME IsClass(pc), member' > 0 PROVE FALSE
      BY <1>1, <1>2, LineKept DEF Laid
    <3> QED
      BY <1>1, <1>2 DEF IsClass
  <2>2. \A k \in DOMAIN klass : k < pc
    BY <1>2, PlaceFacts
  <2>3. \A k : IsClass(k)' <=> IsClass(k)
    BY <1>1, LineKept
  <2> QED
    BY <1>1, <1>2, <2>1, <2>2, <2>3 DEF Laid
<1>4. \A k \in DOMAIN klass : SameKinds(k)
  BY <1>1, <1>2, SameRefs DEF RefInv
<1>5. \A k \in DOMAIN klass : \A j \in 0 .. k : j \in DOMAIN klass
  BY DEF IInv, Progress
<1>6. \A k \in DOMAIN klass : RefsOK(k)'
  BY <1>1, <1>3, <1>4, <1>5, RefsKept DEF RefInv
<1>7. RefsOK(pc)'
  <2>1. pc \notin Laid' /\ klass'[pc].refs = <<>> /\ ASequence(<<>>)
    BY <1>1, <1>2, <1>3 DEF Laid, ASequence
  <2> QED
    BY <1>1, <2>1 DEF RefsOK
<1>8. CodeOK'
  BY <1>1 DEF CodeOK, RefInv
<1> QED
  BY <1>1, <1>6, <1>7, <1>8 DEF RefInv

LEMMA CloseRefs == ASSUME IInv, RefInv, CloseClass PROVE RefInv'
<1> DEFINE k == klass[pc]
           inherited == Len(klass[k.super].refs)
           refs == [i \in DOMAIN k.refs |->
                      IF i <= inherited THEN k.refs[i]
                      ELSE ResolveMember(k, Pending(Decl.t)[i - inherited])]
           r == [k EXCEPT !.refs = refs, !.ready = TRUE]
<1>1. /\ pc \in DOMAIN klass /\ pc \in Nat /\ Shape(pc) /\ RefsOK(pc) /\ IsClass(pc)
      /\ member \in 1 .. Len(MembersOf(Decl.t)) + 1 /\ pc <= Len(run)
      /\ UNCHANGED <<run, checks>> /\ run \in Runs
  <2>1. /\ pc \in DOMAIN klass /\ pc \in Nat /\ Shape(pc) /\ ~klass[pc].interface
        /\ member \in 1 .. Len(MembersOf(Decl.t)) + 1 /\ pc <= Len(run)
        /\ UNCHANGED <<run, checks>> /\ run \in Runs
    BY CloseStarts
  <2>2. RefsOK(pc)
    BY <2>1 DEF RefInv
  <2>3. IsClass(pc)
    BY <2>1 DEF Shape
  <2> QED
    BY <2>1, <2>2, <2>3
<1>2. CASE Stop("undefinedProperty") \/ Stop("unimplemented") \/ Stop("noAbstract")
  <2>1. {"undefinedProperty", "unimplemented", "noAbstract"} \subseteq Outcomes
    BY DEF Outcomes
  <2> QED
    BY <1>1, <1>2, <2>1, StopRefs
<1>3. CASE ~(Stop("undefinedProperty") \/ Stop("unimplemented") \/ Stop("noAbstract"))
  <2>1. /\ \A i \in DOMAIN refs : refs[i].type # "none"
        /\ klass' = [klass EXCEPT ![pc] = r]
        /\ pc' = pc + 1 /\ member' = -1 /\ UNCHANGED <<code, status>>
    BY <1>3 DEF CloseClass
  <2>2. r.super = k.super /\ r.refs = refs
    BY <1>1 DEF Shape, KlassFields
  <2> HIDE DEF r
  <2>3. /\ DOMAIN klass' = DOMAIN klass /\ klass'[pc] = r
        /\ \A j \in DOMAIN klass : j # pc => klass'[j] = klass[j]
    BY <1>1, <2>1
  <2>4. pc \in Laid \ {0} /\ k.super = run[pc].super /\ inherited \in Nat
    BY <1>1, OwnClass
  <2>5. Laid' = Laid
    <3>1. /\ \A x \in DOMAIN klass : x \in Nat /\ x <= pc
          /\ \A x : IsClass(x)' <=> IsClass(x)
      BY <1>1, LineKept, PlaceFacts
    <3>2. member > 0 /\ pc' = pc + 1 /\ pc \in Nat /\ DOMAIN klass' = DOMAIN klass
      BY <1>1, <2>1, <2>3
    <3>3. \A x \in DOMAIN klass : x < pc'
      BY <3>1, <3>2
    <3> QED
      BY <3>1, <3>2, <3>3 DEF Laid
  <2>6. \A j \in DOMAIN klass : \A i \in 0 .. j : i \in DOMAIN klass
    BY DEF IInv, Progress
  <2>7. ASSUME NEW j \in DOMAIN klass, j # pc PROVE RefsOK(j)'
    <3>1. j \in Nat /\ j < pc /\ RefsOK(j)
      BY <1>1, <2>7, PlaceFacts DEF RefInv
    <3>2. \A i \in 0 .. j : SameKinds(i) /\ RefsOK(i)
      BY <2>3, <2>6, <3>1, SameRefs DEF RefInv
    <3> QED
      BY <1>1, <2>5, <3>1, <3>2, RefsKept
  <2>9. ASSUME NEW j, j = pc PROVE RefsOK(j)'
    <3> DEFINE n == Len(k.refs)
    <3>1. n \in Nat /\ DOMAIN k.refs = 1 .. n
      BY <1>1, SequenceFacts DEF RefsOK
    <3>2. DOMAIN refs = 1 .. n /\ refs = [i \in 1 .. n |-> refs[i]]
      BY <3>1
    <3>3. ASSUME NEW i \in 1 .. n
          PROVE  "type" \in DOMAIN refs[i] /\ refs[i].type \in {"field", "method"}
      <4>1. CASE i <= inherited
        <5>1. refs[i] = k.refs[i]
          BY <3>1, <4>1
        <5>2. k.refs[i].type \in {"field", "method"} /\ "type" \in DOMAIN k.refs[i]
          BY <1>1, <2>4, <3>1, <4>1 DEF RefsOK
        <5> QED
          BY <5>1, <5>2
      <4>2. CASE ~(i <= inherited)
        <5> DEFINE p == Pending(Decl.t)[i - inherited]
        <5>1. refs[i] = ResolveMember(k, p)
          BY <3>1, <4>2
        <5>2. refs[i].type # "none"
          BY <2>1, <3>2
        <5> HIDE DEF p, k, refs
        <5>3. /\ "type" \in DOMAIN ResolveMember(k, p)
              /\ ResolveMember(k, p).type \in {"none", "field", "method"}
          BY DEF ResolveMember
        <5> QED
          BY <5>1, <5>2, <5>3
      <4> QED
        BY <4>1, <4>2
    <3> HIDE DEF refs, k, n
    <3>4. ASequence(refs)
      BY <3>1, <3>2, SequenceByDomain
    <3>5. klass'[j].refs = refs /\ klass'[j].super = run[j].super /\ j \in Laid \ {0}
      BY <2>2, <2>3, <2>4, <2>9 DEF k
    <3> QED
      BY <1>1, <2>5, <3>2, <3>3, <3>4, <3>5 DEF RefsOK
  <2>10. CodeOK'
    BY <2>1, <2>3 DEF CodeOK, RefInv
  <2> QED
    BY <1>1, <2>1, <2>3, <2>7, <2>9, <2>10 DEF RefInv
<1> QED
  BY <1>2, <1>3

LEMMA InheritRefs == ASSUME IInv, RefInv, Inherit PROVE RefInv'
<1> DEFINE p == Decl.super
           super == klass[p]
           c == Display(klass[pc], super, super.depth + 1)
           own == [i \in 1..Len(Pending(Decl.t)) |-> Unset]
           refs == super.refs \o own
           rss == Supertypes(p, Decl.impl)
           added == SubSeq(rss, Len(Inherited(p)) + 1, Len(rss))
           outcome == AddInterfaces(super.methods, added)
<1>1. /\ member = 0 /\ pc \in 1 .. Len(run) /\ pc \in DOMAIN klass /\ pc \in Nat
      /\ run \in Runs /\ UNCHANGED <<run, checks>> /\ Shape(pc) /\ IsClass(pc)
      /\ Decl.t \in DOMAIN Templates
  BY PlaceFacts DEF Inherit, Running, IInv, Progress
<1>2. p \in 0 .. pc - 1 /\ IsClass(p) /\ p = run[pc].super /\ p \in Laid /\ p \in DOMAIN klass
  <2>1. p \in 0 .. pc - 1 /\ IsClass(p) /\ p = run[pc].super
    BY <1>1, RunFacts DEF Decl
  <2> HIDE DEF p
  <2> QED
    BY <1>1, <2>1, PlaceFacts DEF Laid
<1>3. /\ RefsOK(p) /\ Len(super.refs) \in Nat /\ DOMAIN super.refs = 1 .. Len(super.refs)
      /\ \A i \in DOMAIN super.refs :
           "type" \in DOMAIN super.refs[i] /\ super.refs[i].type \in {"field", "method"}
  <2>1. RefsOK(p)
    BY <1>2 DEF RefInv
  <2>2. p \in Nat /\ p < pc
    BY <1>1, <1>2
  <2>3. CASE p \in Laid \ {0}
    BY <1>2, <2>1, <2>2, <2>3, SequenceFacts DEF RefsOK
  <2>4. CASE p \notin Laid \ {0}
    <3>1. super.refs = <<>>
      BY <2>1, <2>4 DEF RefsOK
    <3> QED
      BY <2>1, <3>1
  <2> QED
    BY <2>3, <2>4
<1>4. CASE outcome.how # "running"
  <2>1. outcome.how \in Outcomes
    <3> DEFINE S == 0 .. pc
    <3>1. klass[p].rss \in Seq(S) /\ p \in S /\ Decl.impl \in Seq(S)
      <4>1. Decl.impl \in Seq(1 .. pc - 1)
        BY <1>1, RunFacts DEF Decl
      <4>2. klass[p].rss \in Seq(0 .. p)
        BY <1>2 DEF IInv, Shape
      <4> HIDE DEF p
      <4> QED
        BY <1>1, <1>2, <4>1, <4>2
    <3> HIDE DEF p, S
    <3>2. Inherited(p) \in Seq(S) /\ rss \in Seq(S)
      BY <3>1, InheritedList, SupertypesRange
    <3> HIDE DEF rss
    <3>3. Len(Inherited(p)) + 1 \in Nat /\ Len(Inherited(p)) + 1 >= 1 /\ Len(rss) \in Nat
      BY <3>2
    <3>4. \A i \in Len(Inherited(p)) + 1 .. Len(rss) : rss[i] \in S
      BY <3>2, <3>3
    <3>5. added \in Seq(S)
      BY <3>3, <3>4, SubSeqProperties
    <3>6. Len(added) \in Nat
      BY <3>5
    <3> HIDE DEF added
    <3> QED
      BY <3>6, InterfacesOutcome
  <2>2. Stop(outcome.how)
    BY <1>4 DEF Inherit
  <2> HIDE DEF outcome
  <2> QED
    BY <1>1, <2>1, <2>2, StopRefs
<1>5. CASE outcome.how = "running"
  <2> DEFINE r == [c EXCEPT !.super = p, !.rss = rss, !.fields = super.fields,
                            !.methods = outcome.methods, !.refs = refs]
  <2>1. Continue(r) /\ UNCHANGED code
    BY <1>5 DEF Inherit
  <2>2. DOMAIN c = KlassFields
    BY <1>1 DEF Display, Shape, KlassFields
  <2> HIDE DEF c, rss, outcome
  <2>3. r.super = p /\ r.refs = refs
    BY <2>2 DEF KlassFields
  <2> HIDE DEF r
  <2>4. /\ UNCHANGED <<pc, status>> /\ member' = 1 /\ DOMAIN klass' = DOMAIN klass
        /\ klass'[pc] = r
        /\ \A k \in DOMAIN klass : k # pc => klass'[k] = klass[k]
    BY <1>1, <2>1 DEF Continue
  <2>5. Laid' = Laid \cup {pc}
    BY <1>1, <2>4, LineKept, PlaceFacts DEF Laid
  <2>6. \A j \in DOMAIN klass : \A i \in 0 .. j : i \in DOMAIN klass
    BY DEF IInv, Progress
  <2>7. ASSUME NEW j \in DOMAIN klass, j # pc PROVE RefsOK(j)'
    <3>1. j \in Nat /\ j < pc /\ RefsOK(j)
      BY <1>1, <2>7, PlaceFacts DEF RefInv
    <3>2. \A i \in 0 .. j : SameKinds(i) /\ RefsOK(i)
      BY <2>4, <2>6, <3>1, SameRefs DEF RefInv
    <3> QED
      BY <1>1, <2>4, <2>5, <2>7, <3>1, <3>2, RefsKept
  <2>8. ASSUME NEW j, j = pc PROVE RefsOK(j)'
    <3> DEFINE m == Len(super.refs)
               n == Len(Pending(Decl.t))
    <3>1. m \in Nat /\ n \in Nat
      BY <1>1, <1>3, PendingCovers
    <3> DEFINE a == super.refs
               S == Range(a) \cup {Unset}
    <3>2. a \in Seq(S) /\ own \in Seq(S) /\ Len(own) = n /\ \A i \in 1 .. n : own[i] = Unset
      <4>1. a \in Seq(Range(a))
        BY <1>3 DEF RefsOK, ASequence
      <4> HIDE DEF a
      <4> QED
        BY <3>1, <4>1
    <3>3. \A i \in 1 .. m : "type" \in DOMAIN a[i] /\ a[i].type \in {"field", "method"}
      BY <1>3
    <3>4. Len(a) = m /\ refs = a \o own
      OBVIOUS
    <3> HIDE DEF refs, own, a, S, m, n
    <3>5. /\ refs \in Seq(S) /\ Len(refs) = m + n
          /\ \A i \in 1 .. m + n : refs[i] = IF i <= m THEN a[i] ELSE own[i - m]
      BY <3>2, <3>4, ConcatProperties
    <3>6. /\ ASequence(refs) /\ DOMAIN refs = 1 .. m + n
          /\ \A i \in DOMAIN refs : /\ "type" \in DOMAIN refs[i]
                                    /\ i <= m => refs[i].type \in {"field", "method"}
      <4>1. DOMAIN refs = 1 .. m + n /\ refs = [i \in 1 .. m + n |-> refs[i]]
        BY <3>5
      <4>2. ASequence(refs)
        BY <3>1, <4>1, SequenceByDomain
      <4>3. ASSUME NEW i \in 1 .. m + n
            PROVE  "type" \in DOMAIN refs[i] /\ (i <= m => refs[i].type \in {"field", "method"})
        <5>1. CASE i <= m
          BY <3>1, <3>3, <3>5, <5>1
        <5>2. CASE ~(i <= m)
          <6>1. refs[i] = Unset
            BY <3>1, <3>2, <3>5, <5>2
          <6> QED
            BY <5>2, <6>1 DEF Unset
        <5> QED
          BY <5>1, <5>2
      <4> QED
        BY <4>1, <4>2, <4>3
    <3>7. /\ klass'[j].refs = refs /\ klass'[j].super = run[j].super /\ run[j].super = p
          /\ klass'[p].refs = super.refs /\ ~(j < pc)
      BY <1>1, <1>2, <2>3, <2>4, <2>8 DEF refs
    <3>8. Len(klass'[p].refs) = m
      BY <3>7 DEF m
    <3> HIDE DEF p
    <3>9. j \in Laid' \ {0} /\ run'[j].super = p /\ klass'[j].super = run'[j].super /\ ~(j < pc')
      BY <1>1, <2>4, <2>5, <2>8, <3>7
    <3>10. \A i \in DOMAIN refs :
             j < pc' \/ i <= Len(klass'[run'[j].super].refs) => refs[i].type \in {"field", "method"}
      BY <3>6, <3>8, <3>9
    <3>11. klass'[j].refs = refs
      BY <3>7
    <3> QED
      BY <3>6, <3>9, <3>10, <3>11 DEF RefsOK
  <2>9. CodeOK'
    BY <2>1, <2>4 DEF CodeOK, RefInv
  <2> QED
    BY <1>1, <2>4, <2>7, <2>8, <2>9 DEF RefInv
<1> QED
  BY <1>4, <1>5

LEMMA InitRefs == Init => RefInv
<1> SUFFICES ASSUME Init PROVE RefInv
  OBVIOUS
<1>1. /\ DOMAIN klass = {0} /\ klass[0].refs = <<>> /\ code = <<>>
      /\ status = "running" /\ checks = 0
  BY DEF Init, Object, NewClass
<1>2. RefsOK(0)
  BY <1>1 DEF RefsOK, ASequence
<1>3. CodeOK
  BY <1>1 DEF CodeOK
<1>4. status \in Outcomes /\ checks \in 0 .. MaxChecks
  BY <1>1, ClassAssumption DEF Outcomes
<1> QED
  BY <1>1, <1>2, <1>3, <1>4 DEF RefInv

LEMMA RefInductive == IInv /\ RefInv /\ [Next]_vars => RefInv'
<1> SUFFICES ASSUME IInv, RefInv, [Next]_vars PROVE RefInv'
  OBVIOUS
<1>1. CASE UNCHANGED vars
  BY <1>1, StopRefs DEF vars, Stop, RefInv
<1>2. CASE Next
  BY <1>2, DeclareRefs, InheritRefs, FieldRefs, MethodRefs, AbstractRefs, CloseRefs,
     InterfaceRefs, CheckRefs DEF Next
<1> QED
  BY <1>1, <1>2

(* The variables have their types; no reference of a class that is closed  *)
(* is unresolved, whatever its superclass and its overrides (resolveMember *)
(* and closeClass, vm.c).                                                  *)
THEOREM ClassTypes == Spec => []TypeOK
<1>1. ASSUME IInv, RefInv PROVE TypeOK
  <2>1. /\ pc \in 1 .. Len(run) + 1
        /\ member = -1 \/ (pc <= Len(run) /\ member \in 0 .. Len(MembersOf(Decl.t)) + 1)
        /\ status \in Outcomes /\ checks \in 0 .. MaxChecks
    BY <1>1 DEF IInv, Progress, RefInv
  <2>2. ASSUME NEW k \in DOMAIN klass
        PROVE  /\ Range(klass[k].display) \subseteq DOMAIN klass \cup {Nothing}
               /\ Range(klass[k].rss) \subseteq DOMAIN klass
               /\ klass[k].offset \in 0 .. DisplaySize
    <3>1. Shape(k) /\ 0 .. k \subseteq DOMAIN klass
      BY <1>1 DEF IInv, Progress
    <3>2. /\ klass[k].display \in [0 .. DisplaySize -> -1 .. k] /\ klass[k].rss \in Seq(0 .. k)
          /\ klass[k].offset \in 0 .. DisplaySize
      BY <3>1 DEF Shape
    <3>3. Range(klass[k].display) \subseteq -1 .. k /\ Range(klass[k].rss) \subseteq 0 .. k
      <4>1. ASSUME NEW S, NEW q \in Seq(S) PROVE Range(q) \subseteq S
        BY DEF Range
      <4>2. ASSUME NEW S, NEW D, NEW f \in [D -> S] PROVE Range(f) \subseteq S
        BY DEF Range
      <4> QED
        BY <3>2, <4>1, <4>2
    <3>4. \A x \in -1 .. k : x = Nothing \/ x \in 0 .. k
      BY <1>1, PlaceFacts DEF Nothing
    <3> QED
      BY <3>1, <3>2, <3>3, <3>4
  <2>3. ASSUME NEW k \in Closed
        PROVE  \A i \in DOMAIN klass[k].refs : klass[k].refs[i].type \in {"field", "method"}
    <3>1. RefsOK(k) /\ k < pc
      BY <1>1, <2>3 DEF RefInv, IInv, Closed, Shape
    <3>2. CASE k \in Laid \ {0}
      BY <3>1, <3>2 DEF RefsOK
    <3>3. CASE k \notin Laid \ {0}
      BY <3>1, <3>3 DEF RefsOK
    <3> QED
      BY <3>2, <3>3
  <2> QED
    BY <1>1, <2>1, <2>2, <2>3 DEF TypeOK, RefInv, CodeOK, Closed
<1> QED
  BY InitFacts, InitRefs, Inductive, RefInductive, <1>1, PTL DEF Spec

-----------------------------------------------------------------------------
(* The members of class or interface k that have been executed; the        *)
(* declarations whose members it has.                                      *)
Done(k) == IF k < pc THEN Len(Body(k)) ELSE member - 1
Executed(k) == {Body(k)[i] : i \in 1 .. Done(k)}
Built == {k \in DOMAIN klass : k \in Laid \/ ~IsClass(k)}
Holders(k) == IF IsClass(k) THEN Line[k] \ {0} ELSE {k}
Sources(k) == IF IsClass(k) THEN (Line[k] \ {0}) \cup Implemented(k) ELSE {k}

LEMMA BodyFacts ==
  ASSUME run \in Runs, NEW k \in 1 .. Len(run)
  PROVE  /\ Len(Body(k)) \in Nat /\ DOMAIN Body(k) = 1 .. Len(Body(k))
         /\ run[k].t \in DOMAIN Templates
         /\ \A mb \in Range(Body(k)) :
              /\ mb.k # "abstract" => mb.k \in {"field", "method"} /\ IsClass(k)
              /\ mb.k # "method" => mb.refs = <<>>
              /\ mb.refs \in Seq(Range(mb.refs))
              /\ \A ref \in Range(mb.refs) : ref.this \in BOOLEAN
<1>1. run[k].t \in DOMAIN Templates
  BY RunFacts
<1>2. /\ Body(k) \in Seq(Range(Body(k)))
      /\ Templates[run[k].t].kind \in {"class", "interface"}
      /\ \A mb \in Range(Body(k)) :
           /\ mb.k \in (IF Templates[run[k].t].kind = "class" THEN {"field", "method", "abstract"}
                        ELSE {"abstract"})
           /\ mb.k # "method" => mb.refs = <<>>
           /\ mb.refs \in Seq(Range(mb.refs))
           /\ \A ref \in Range(mb.refs) : ref.this \in BOOLEAN
  BY <1>1, TemplateAssumption DEF Body, MembersOf
<1>3. \A mb \in Range(Body(k)) : mb.k # "abstract" => mb.k \in {"field", "method"} /\ IsClass(k)
  BY <1>2 DEF IsClass, TemplateOf
<1> QED
  BY <1>1, <1>2, <1>3

(* Where a member is executed.                                             *)
LEMMA MemberFacts ==
  ASSUME IInv, Running, member > 0, member <= Len(MembersOf(Decl.t))
  PROVE  /\ run \in Runs /\ pc \in 1 .. Len(run) /\ pc \in Nat /\ pc # 0 /\ Len(run) \in Nat
         /\ pc \in DOMAIN klass /\ Shape(pc)
         /\ Body(pc) = MembersOf(Decl.t) /\ Len(Body(pc)) \in Nat
         /\ member \in 1 .. Len(Body(pc)) /\ member \in Nat
         /\ Member = Body(pc)[member] /\ Member \in Range(Body(pc))
         /\ pc \in Built
         /\ Member.k # "abstract" => IsClass(pc) /\ pc \in Laid
<1>1. /\ run \in Runs /\ pc \in 1 .. Len(run) /\ pc \in Nat /\ pc # 0 /\ Len(run) \in Nat
      /\ pc \in DOMAIN klass /\ Shape(pc) /\ Body(pc) = MembersOf(Decl.t)
      /\ Len(Body(pc)) \in Nat /\ member \in 1 .. Len(Body(pc)) /\ member \in Nat
  BY PlaceFacts DEF Running, IInv, Progress, Body, Decl
<1>2. Member = Body(pc)[member] /\ Member \in Range(Body(pc))
  BY <1>1, BodyFacts DEF Member, Range
<1>3. pc \in Built
  BY <1>1 DEF Built, Laid
<1>4. Member.k # "abstract" => IsClass(pc)
  BY <1>1, <1>2, BodyFacts
<1> QED
  BY <1>1, <1>2, <1>3, <1>4 DEF Laid

LEMMA ExecutedKept ==
  ASSUME IInv, UNCHANGED run, pc' \in Nat, pc' >= pc, NEW k \in Nat, k < pc
  PROVE  Executed(k)' = Executed(k) /\ Executed(k) = {Body(k)[i] : i \in 1 .. Len(Body(k))}
<1>1. k < pc'
  BY PlaceFacts
<1>2. Body(k)' = Body(k)
  BY DEF Body, MembersOf
<1> QED
  BY <1>1, <1>2 DEF Executed, Done

LEMMA ExecutedNext ==
  ASSUME IInv, Running, member > 0, member <= Len(MembersOf(Decl.t)),
         UNCHANGED <<run, pc>>, member' = member + 1
  PROVE  /\ Executed(pc)' = Executed(pc) \cup {Member}
         /\ \A k \in 0 .. pc - 1 : Executed(k)' = Executed(k)
<1>1. /\ pc \in Nat /\ Member = Body(pc)[member] /\ member \in Nat /\ member > 0
      /\ Body(pc)' = Body(pc)
  BY MemberFacts DEF Body, MembersOf
<1>2. Executed(pc) = {Body(pc)[i] : i \in 1 .. member - 1}
  BY <1>1 DEF Executed, Done
<1>3. Executed(pc)' = {Body(pc)[i] : i \in 1 .. member}
  <2>1. member' - 1 = member
    BY <1>1
  <2>2. Done(pc)' = member
    BY <1>1, <2>1 DEF Done
  <2> QED
    BY <1>1, <2>2 DEF Executed
<1>4. 1 .. member = (1 .. member - 1) \cup {member}
  BY <1>1
<1>5. ASSUME NEW k \in 0 .. pc - 1 PROVE Executed(k)' = Executed(k)
  BY <1>1, ExecutedKept
<1> QED
  BY <1>1, <1>2, <1>3, <1>4, <1>5

LEMMA ExecutedEnd ==
  ASSUME IInv, pc <= Len(run), member = Len(MembersOf(Decl.t)) + 1, UNCHANGED run, pc' = pc + 1
  PROVE  \A k \in 0 .. pc : Executed(k)' = Executed(k)
<1> SUFFICES ASSUME NEW k \in 0 .. pc PROVE Executed(k)' = Executed(k)
  OBVIOUS
<1>1. pc \in Nat /\ Body(pc) = MembersOf(Decl.t) /\ Len(Body(pc)) \in Nat
  BY PlaceFacts DEF Body, Decl
<1>2. CASE k = pc
  <2>1. Body(k)' = Body(k)
    BY DEF Body, MembersOf
  <2>2. Done(k) = Len(Body(k)) /\ Done(k)' = Len(Body(k))
    BY <1>1, <1>2, <2>1 DEF Done
  <2> QED
    BY <2>1, <2>2 DEF Executed
<1>3. CASE k # pc
  BY <1>1, <1>3, ExecutedKept
<1> QED
  BY <1>2, <1>3

-----------------------------------------------------------------------------
(* What each instruction makes of the tables of the class it works on; the *)
(* other classes stay.                                                     *)
Others == \A k \in DOMAIN klass : k # pc => klass'[k] = klass[k]

LEMMA FieldEffect ==
  ASSUME IInv, DefineField
  PROVE  /\ Running /\ member > 0 /\ member <= Len(MembersOf(Decl.t)) /\ Member.k = "field"
         /\ UNCHANGED <<run, pc, code>> /\ member' = member + 1
         /\ DOMAIN klass' = DOMAIN klass /\ Others
         /\ klass'[pc].fields = With(klass[pc].fields, Member.name, Cardinality(DOMAIN klass[pc].fields))
         /\ klass'[pc].methods = klass[pc].methods /\ klass'[pc].refs = klass[pc].refs
         /\ klass'[pc].super = klass[pc].super /\ klass'[pc].abstract = klass[pc].abstract
<1>1. Running /\ member > 0 /\ member <= Len(MembersOf(Decl.t)) /\ Member.k = "field"
  BY DEF DefineField, At, Member
<1>2. pc \in DOMAIN klass /\ DOMAIN klass[pc] = KlassFields
  BY <1>1, MemberFacts DEF Shape
<1> QED
  BY <1>1, <1>2 DEF DefineField, Continue, KlassFields, FieldIndex, Others

LEMMA MethodEffect ==
  ASSUME IInv, DefineMethod, ~Stop("mismatch")
  PROVE  /\ Running /\ member > 0 /\ member <= Len(MembersOf(Decl.t)) /\ Member.k = "method"
         /\ UNCHANGED <<run, pc>> /\ member' = member + 1
         /\ DOMAIN klass' = DOMAIN klass /\ Others
         /\ klass'[pc].methods = With(klass[pc].methods, Member.name, NewMethod)
         /\ Member.name \in DOMAIN klass[pc].methods =>
              /\ PrototypeMatches(NewMethod, klass[pc].methods[Member.name])
              /\ klass'[pc].refs = ReplaceRefs(klass[pc], klass[pc].methods[Member.name], NewMethod)
         /\ Member.name \notin DOMAIN klass[pc].methods => klass'[pc].refs = klass[pc].refs
         /\ klass'[pc].fields = klass[pc].fields
         /\ klass'[pc].super = klass[pc].super /\ klass'[pc].abstract = klass[pc].abstract
         /\ code' = With(code, <<Decl.t, member>>,
                         [parent |-> pc, refOffset |-> Len(klass[klass[pc].super].refs)])
<1>1. Running /\ member > 0 /\ member <= Len(MembersOf(Decl.t)) /\ Member.k = "method"
  BY DEF DefineMethod, At, Member
<1>2. pc \in DOMAIN klass /\ DOMAIN klass[pc] = KlassFields
  BY <1>1, MemberFacts DEF Shape
<1> DEFINE k == klass[pc]
           n == Member.name
           refs == IF n \in DOMAIN k.methods THEN ReplaceRefs(k, k.methods[n], NewMethod) ELSE k.refs
           methods == With(k.methods, n, NewMethod)
           r == [k EXCEPT !.refs = refs, !.methods = methods]
<1>3. /\ Continue(r)
      /\ n \in DOMAIN k.methods => PrototypeMatches(NewMethod, k.methods[n])
      /\ code' = With(code, <<Decl.t, member>>,
                      [parent |-> pc, refOffset |-> Len(klass[k.super].refs)])
      /\ UNCHANGED run
  BY DEF DefineMethod
<1>4. /\ r.refs = refs /\ r.methods = methods /\ r.fields = k.fields /\ r.super = k.super
      /\ r.abstract = k.abstract
  BY <1>2 DEF KlassFields
<1> HIDE DEF r
<1>5. /\ UNCHANGED pc /\ member' = member + 1
      /\ DOMAIN klass' = DOMAIN klass /\ Others /\ klass'[pc] = r
  BY <1>2, <1>3 DEF Continue, Others
<1> QED
  BY <1>1, <1>3, <1>4, <1>5

LEMMA AbstractEffect ==
  ASSUME IInv, AddAbstractMethod, ~\E how : Stop(how)
  PROVE  /\ Running /\ member > 0 /\ member <= Len(MembersOf(Decl.t)) /\ Member.k = "abstract"
         /\ UNCHANGED <<run, pc, code>> /\ member' = member + 1
         /\ DOMAIN klass' = DOMAIN klass /\ Others
         /\ Member.name \in DOMAIN klass[pc].methods =>
              /\ klass[pc].methods[Member.name].desc
              /\ PrototypeMatches(NewMethodDesc, klass[pc].methods[Member.name])
              /\ klass'[pc].methods = klass[pc].methods
         /\ Member.name \notin DOMAIN klass[pc].methods =>
              klass'[pc].methods = With(klass[pc].methods, Member.name, NewMethodDesc)
         /\ klass'[pc].fields = klass[pc].fields /\ klass'[pc].refs = klass[pc].refs
         /\ klass'[pc].super = klass[pc].super /\ klass'[pc].abstract = klass[pc].abstract
<1>1. Running /\ member > 0 /\ member <= Len(MembersOf(Decl.t)) /\ Member.k = "abstract"
  BY DEF AddAbstractMethod, At, Member
<1>2. pc \in DOMAIN klass /\ DOMAIN klass[pc] = KlassFields
  BY <1>1, MemberFacts DEF Shape
<1> DEFINE k == klass[pc]
           n == Member.name
           r == IF n \in DOMAIN k.methods THEN k
                ELSE [k EXCEPT !.methods = With(@, n, NewMethodDesc)]
<1>3. /\ Continue(r)
      /\ n \in DOMAIN k.methods =>
           k.methods[n].desc /\ PrototypeMatches(NewMethodDesc, k.methods[n])
      /\ UNCHANGED <<run, code>>
  BY DEF AddAbstractMethod, OverridesMethod
<1>4. /\ r.methods = (IF n \in DOMAIN k.methods THEN k.methods
                      ELSE With(k.methods, n, NewMethodDesc))
      /\ r.refs = k.refs /\ r.fields = k.fields /\ r.super = k.super /\ r.abstract = k.abstract
  BY <1>2 DEF KlassFields
<1> HIDE DEF r
<1>5. /\ UNCHANGED pc /\ member' = member + 1
      /\ DOMAIN klass' = DOMAIN klass /\ Others /\ klass'[pc] = r
  BY <1>2, <1>3 DEF Continue, Others
<1> QED
  BY <1>1, <1>3, <1>4, <1>5

LEMMA CloseEffect ==
  ASSUME IInv, RefInv, CloseClass, ~\E how : Stop(how)
  PROVE  LET k == klass[pc]
             s == run[pc].super
             refs == klass'[pc].refs
         IN
         /\ pc \in Laid \ {0} /\ pc \in 1 .. Len(run) /\ pc \in Nat /\ run \in Runs
         /\ member = Len(MembersOf(Decl.t)) + 1 /\ IsClass(pc)
         /\ UNCHANGED <<run, code>> /\ pc' = pc + 1 /\ member' = -1
         /\ DOMAIN klass' = DOMAIN klass /\ Others
         /\ refs = [i \in DOMAIN k.refs |->
                      IF i <= Len(klass[s].refs) THEN k.refs[i]
                      ELSE ResolveMember(k, Pending(run[pc].t)[i - Len(klass[s].refs)])]
         /\ \A i \in DOMAIN refs : refs[i].type # "none"
         /\ ~k.abstract => AbstractMethods(k) = {}
         /\ klass'[pc].methods = k.methods /\ klass'[pc].fields = k.fields
         /\ klass'[pc].super = k.super /\ klass'[pc].abstract = k.abstract
<1> DEFINE k == klass[pc]
           inherited == Len(klass[k.super].refs)
           refs == [i \in DOMAIN k.refs |->
                      IF i <= inherited THEN k.refs[i]
                      ELSE ResolveMember(k, Pending(Decl.t)[i - inherited])]
           r == [k EXCEPT !.refs = refs, !.ready = TRUE]
<1>1. /\ pc \in DOMAIN klass /\ pc \in Nat /\ pc <= Len(run) /\ Shape(pc)
      /\ member = Len(MembersOf(Decl.t)) + 1 /\ member \in 1 .. Len(MembersOf(Decl.t)) + 1
      /\ ~klass[pc].interface /\ UNCHANGED run /\ run \in Runs
  BY CloseStarts
<1>2. IsClass(pc)
  BY <1>1 DEF Shape
<1>3. pc \in Laid \ {0} /\ k.super = run[pc].super /\ pc \in 1 .. Len(run)
  BY <1>1, <1>2, OwnClass, PlaceFacts
<1>4. /\ \A i \in DOMAIN refs : refs[i].type # "none"
      /\ ~k.abstract => AbstractMethods(k) = {}
      /\ klass' = [klass EXCEPT ![pc] = r]
      /\ pc' = pc + 1 /\ member' = -1 /\ UNCHANGED code
  BY DEF CloseClass
<1>5. DOMAIN k = KlassFields
  BY <1>1 DEF Shape
<1> HIDE DEF refs
<1>6. /\ r.refs = refs /\ r.methods = k.methods /\ r.fields = k.fields /\ r.super = k.super
      /\ r.abstract = k.abstract
  BY <1>5 DEF KlassFields
<1> HIDE DEF r
<1>7. DOMAIN klass' = DOMAIN klass /\ Others /\ klass'[pc] = r
  BY <1>1, <1>4 DEF Others
<1>8. refs = [i \in DOMAIN k.refs |->
                IF i <= Len(klass[run[pc].super].refs) THEN k.refs[i]
                ELSE ResolveMember(k, Pending(run[pc].t)[i - Len(klass[run[pc].super].refs)])]
  BY <1>3 DEF refs, Decl
<1> QED
  BY <1>1, <1>2, <1>3, <1>4, <1>6, <1>7, <1>8

LEMMA InterfaceEffect ==
  ASSUME IInv, EndInterface
  PROVE  /\ pc \in DOMAIN klass /\ pc \in 1 .. Len(run) /\ pc \in Nat /\ ~IsClass(pc)
         /\ member = Len(MembersOf(Decl.t)) + 1 /\ run \in Runs
         /\ UNCHANGED <<run, code>> /\ pc' = pc + 1 /\ member' = -1
         /\ DOMAIN klass' = DOMAIN klass /\ Others
         /\ klass'[pc].methods = klass[pc].methods
<1>1. /\ Running /\ member = Len(MembersOf(Decl.t)) + 1 /\ klass[pc].interface
      /\ klass' = [klass EXCEPT ![pc].ready = TRUE] /\ pc' = pc + 1 /\ member' = -1
      /\ UNCHANGED <<run, code>>
  BY DEF EndInterface
<1>2. pc \in DOMAIN klass /\ pc \in 1 .. Len(run) /\ pc \in Nat /\ Shape(pc) /\ run \in Runs
  BY <1>1, PlaceFacts DEF Running, IInv, Progress
<1>3. ~IsClass(pc) /\ DOMAIN klass[pc] = KlassFields
  BY <1>1, <1>2 DEF Shape
<1> QED
  BY <1>1, <1>2, <1>3 DEF KlassFields, Others

LEMMA DeclareEffect ==
  ASSUME IInv, Declare
  PROVE  /\ pc \in 1 .. Len(run) /\ pc \in Nat /\ run \in Runs /\ member = -1
         /\ UNCHANGED <<run, pc, code>> /\ member' = (IF IsClass(pc) THEN 0 ELSE 1)
         /\ DOMAIN klass = 0 .. pc - 1 /\ DOMAIN klass' = 0 .. pc /\ Others
         /\ klass'[pc].methods = <<>>
<1>1. /\ Running /\ member = -1 /\ UNCHANGED <<run, pc, code>>
      /\ member' = (IF TemplateOf(pc).kind = "interface" THEN 1 ELSE 0)
      /\ DOMAIN klass' = DOMAIN klass \cup {pc}
      /\ klass'[pc].methods = <<>>
      /\ \A k \in DOMAIN klass : k # pc => klass'[k] = klass[k]
  BY DEF Declare, With, NewInterface, NewClass
<1>2. /\ pc \in 1 .. Len(run) /\ pc \in Nat /\ run \in Runs /\ DOMAIN klass = 0 .. pc - 1
  BY <1>1, PlaceFacts DEF Running, IInv, Progress
<1>3. run[pc].t \in DOMAIN Templates
  BY <1>2, RunFacts
<1>4. IsClass(pc) <=> TemplateOf(pc).kind # "interface"
  BY <1>2, <1>3, TemplateAssumption DEF IsClass, TemplateOf
<1> QED
  BY <1>1, <1>2, <1>4 DEF Others

(* The interfaces whose methods INHERIT adds.                              *)
Added(s, impl) ==
  SubSeq(Supertypes(s, impl), Len(Inherited(s)) + 1, Len(Supertypes(s, impl)))

LEMMA InheritEffect ==
  ASSUME IInv, Inherit, ~\E how : Stop(how)
  PROVE  LET s == run[pc].super
             r == AddInterfaces(klass[s].methods, Added(s, run[pc].impl))
         IN
         /\ pc \in DOMAIN klass /\ pc \in 1 .. Len(run) /\ pc \in Nat /\ run \in Runs /\ IsClass(pc)
         /\ member = 0 /\ UNCHANGED <<run, pc, code>> /\ member' = 1
         /\ s \in 0 .. pc - 1 /\ s \in Laid
         /\ DOMAIN klass' = DOMAIN klass /\ Others
         /\ r.how = "running" /\ klass'[pc].methods = r.methods
         /\ klass'[pc].fields = klass[s].fields
         /\ klass'[pc].refs = klass[s].refs \o [i \in 1 .. Len(Pending(run[pc].t)) |-> Unset]
<1> DEFINE p == Decl.super
           c == Display(klass[pc], klass[p], klass[p].depth + 1)
           rss == Supertypes(p, Decl.impl)
           added == SubSeq(rss, Len(Inherited(p)) + 1, Len(rss))
           o == AddInterfaces(klass[p].methods, added)
           refs == klass[p].refs \o [i \in 1 .. Len(Pending(Decl.t)) |-> Unset]
           r == [c EXCEPT !.super = p, !.rss = rss, !.fields = klass[p].fields,
                          !.methods = o.methods, !.refs = refs]
<1>1. /\ pc \in DOMAIN klass /\ pc \in 1 .. Len(run) /\ pc \in Nat /\ run \in Runs /\ IsClass(pc)
      /\ member = 0 /\ Shape(pc)
  BY PlaceFacts DEF Inherit, Running, IInv, Progress
<1>2. o.how = "running" /\ Continue(r) /\ UNCHANGED <<run, code>>
  BY DEF Inherit
<1>3. DOMAIN c = KlassFields
  BY <1>1 DEF Display, Shape, KlassFields
<1>4. added = Added(run[pc].super, run[pc].impl) /\ p = run[pc].super /\ Decl.t = run[pc].t
  BY DEF Added, Decl
<1>5. p \in 0 .. pc - 1 /\ p \in Laid
  <2>1. run[pc].super \in 0 .. pc - 1 /\ IsClass(run[pc].super)
    BY <1>1, RunFacts
  <2> HIDE DEF p
  <2>2. p \in 0 .. pc - 1 /\ IsClass(p)
    BY <1>4, <2>1
  <2> QED
    BY <1>1, <2>2, PlaceFacts DEF Laid
<1> HIDE DEF c, rss, added, o, refs, p
<1>6. r.refs = refs /\ r.methods = o.methods /\ r.fields = klass[p].fields
  BY <1>3 DEF KlassFields
<1> HIDE DEF r
<1>7. /\ UNCHANGED pc /\ member' = 1 /\ DOMAIN klass' = DOMAIN klass /\ Others /\ klass'[pc] = r
  BY <1>1, <1>2 DEF Continue, Others
<1>8. o = AddInterfaces(klass[p].methods, added) /\ refs = klass[p].refs \o [i \in 1 .. Len(Pending(Decl.t)) |-> Unset]
  BY DEF o, refs
<1> QED
  BY <1>1, <1>2, <1>4, <1>5, <1>6, <1>7, <1>8

LEMMA CheckEffect ==
  ASSUME IInv, NEW t \in DOMAIN klass, NEW s \in DOMAIN klass, CheckInstance(t, s)
  PROVE  /\ UNCHANGED <<run, pc, member, code>> /\ DOMAIN klass' = DOMAIN klass
         /\ \A k \in DOMAIN klass :
              /\ klass'[k].methods = klass[k].methods /\ klass'[k].fields = klass[k].fields
              /\ klass'[k].refs = klass[k].refs /\ klass'[k].super = klass[k].super
              /\ klass'[k].abstract = klass[k].abstract
<1>1. /\ klass' = [klass EXCEPT ![s].display[DisplaySize] = t] /\ Shape(s)
      /\ UNCHANGED <<run, pc, member, code>>
  BY DEF CheckInstance, IInv
<1> QED
  BY <1>1 DEF Shape, KlassFields

-----------------------------------------------------------------------------
(* The list of supertypes begins with those inherited; the rest are        *)
(* interfaces that the class implements.                                   *)
LEMMA SupertypesSplit ==
  ASSUME NEW S, NEW s, Inherited(s) \in Seq(S), NEW impl \in Seq(S)
  PROVE  LET inherited == Inherited(s)
             rss == Supertypes(s, impl)
         IN /\ Len(rss) >= Len(inherited)
            /\ \A j \in 1 .. Len(inherited) : rss[j] = inherited[j]
            /\ \A j \in Len(inherited) + 1 .. Len(rss) : rss[j] \in Range(impl)
<1> DEFINE n == Len(impl)
           base == Inherited(s)
           upTo[i \in 0 .. n] ==
             IF i = 0 THEN base
             ELSE IF impl[i] \in Range(upTo[i - 1]) THEN upTo[i - 1]
             ELSE Append(upTo[i - 1], impl[i])
           Def(v, i) == IF impl[i] \in Range(v) THEN v ELSE Append(v, impl[i])
<1>1. FiniteNatInductiveDefHypothesis(upTo, base, Def, 0, n)
  BY DEF FiniteNatInductiveDefHypothesis
<1>2. Supertypes(s, impl) = upTo[n]
  BY DEF Supertypes
<1>3. n \in Nat /\ base \in Seq(S) /\ Len(base) \in Nat
  OBVIOUS
<1>4. \A i \in 1 .. n : impl[i] \in S /\ impl[i] \in Range(impl)
  BY DEF Range
<1> HIDE DEF upTo, Def, base, n
<1>5. FiniteNatInductiveDefConclusion(upTo, base, Def, 0, n)
  BY <1>1, <1>3, FiniteNatInductiveDef
<1>6. upTo = [i \in 0 .. n |-> IF i = 0 THEN base ELSE Def(upTo[i - 1], i)]
  BY <1>5 DEF FiniteNatInductiveDefConclusion
<1> DEFINE P(v) == /\ v \in Seq(S) /\ Len(v) >= Len(base)
                   /\ \A j \in 1 .. Len(base) : v[j] = base[j]
                   /\ \A j \in Len(base) + 1 .. Len(v) : v[j] \in Range(impl)
           T == {i \in 0 .. n : P(upTo[i])}
<1>7. 0 \in T
  BY <1>3, <1>6
<1>8. ASSUME NEW i \in 1 .. n, i - 1 \in T PROVE i \in T
  <2> DEFINE v == upTo[i - 1]
             x == impl[i]
  <2>1. P(v) /\ upTo[i] = Def(v, i) /\ x \in S /\ x \in Range(impl)
    BY <1>3, <1>4, <1>6, <1>8
  <2> HIDE DEF v, x
  <2>2. P(Append(v, x))
    <3> DEFINE w == Append(v, x)
    <3>1. w \in Seq(S) /\ Len(w) = Len(v) + 1 /\ Len(v) \in Nat
          /\ \A j \in 1 .. Len(v) : w[j] = v[j]
          /\ w[Len(v) + 1] = x
      BY <2>1
    <3> HIDE DEF w
    <3> QED
      BY <1>3, <2>1, <3>1 DEF w
  <2>3. upTo[i] = v \/ upTo[i] = Append(v, x)
    BY <2>1 DEF Def, x
  <2>4. P(upTo[i])
    BY <2>1, <2>2, <2>3
  <2> HIDE DEF P
  <2> QED
    BY <2>4
<1>9. n \in T
  <2> HIDE DEF T
  <2> QED
    BY <1>3, <1>7, <1>8, StaysIn
<1> QED
  BY <1>2, <1>9 DEF base

LEMMA AddedFacts ==
  ASSUME NEW S, NEW s \in S, klass[s].rss \in Seq(S), NEW impl \in Seq(S)
  PROVE  /\ Len(Added(s, impl)) \in Nat
         /\ \A j \in 1 .. Len(Added(s, impl)) : Added(s, impl)[j] \in Range(impl)
         /\ \A t \in Range(impl) :
              \/ t \in Range(Inherited(s))
              \/ \E j \in 1 .. Len(Added(s, impl)) : Added(s, impl)[j] = t
<1> DEFINE a == Inherited(s)
           rss == Supertypes(s, impl)
           b == Added(s, impl)
<1>1. a \in Seq(S) /\ rss \in Seq(S) /\ Range(rss) = Range(a) \cup Range(impl)
  BY InheritedList, SupertypesRange
<1>2. /\ Len(rss) >= Len(a)
      /\ \A j \in 1 .. Len(a) : rss[j] = a[j]
      /\ \A j \in Len(a) + 1 .. Len(rss) : rss[j] \in Range(impl)
  BY <1>1, SupertypesSplit
<1>3. b = SubSeq(rss, Len(a) + 1, Len(rss))
  BY DEF Added
<1> HIDE DEF a, rss, b
<1>4. Len(a) \in Nat /\ Len(rss) \in Nat /\ DOMAIN rss = 1 .. Len(rss) /\ DOMAIN a = 1 .. Len(a)
  BY <1>1
<1>5. /\ Len(b) = Len(rss) - Len(a)
      /\ \A j \in 1 .. Len(b) : b[j] = rss[Len(a) + j]
  <2>1. \A i \in Len(a) + 1 .. Len(rss) : rss[i] \in S
    BY <1>1, <1>4
  <2>2. Len(a) + 1 >= 1 /\ Len(a) + 1 \in Nat
    BY <1>4
  <2>3. /\ Len(b) = (IF Len(a) + 1 <= Len(rss) THEN Len(rss) - (Len(a) + 1) + 1 ELSE 0)
        /\ \A j \in 1 .. (Len(rss) - (Len(a) + 1) + 1) : b[j] = rss[Len(a) + 1 + j - 1]
    BY <1>3, <1>4, <2>1, <2>2, SubSeqProperties
  <2>4. Len(b) = Len(rss) - Len(a)
    <3> DEFINE x == Len(a)
               y == Len(rss)
    <3>1. x \in Nat /\ y \in Nat /\ y >= x
      BY <1>2, <1>4
    <3>2. Len(b) = IF x + 1 <= y THEN y - (x + 1) + 1 ELSE 0
      BY <2>3
    <3> HIDE DEF x, y
    <3>3. Len(b) = y - x
      BY <3>1, <3>2
    <3> QED
      BY <3>3 DEF x, y
  <2>5. ASSUME NEW j \in 1 .. Len(b) PROVE b[j] = rss[Len(a) + j]
    <3>1. j \in 1 .. (Len(rss) - (Len(a) + 1) + 1) /\ Len(a) + 1 + j - 1 = Len(a) + j
      BY <1>4, <2>4
    <3> QED
      BY <2>3, <3>1
  <2> QED
    BY <2>4, <2>5
<1>6. Len(b) \in Nat
  BY <1>2, <1>4, <1>5
<1>7. ASSUME NEW j \in 1 .. Len(b) PROVE b[j] \in Range(impl)
  <2>1. Len(a) + j \in Len(a) + 1 .. Len(rss)
    BY <1>4, <1>5, <1>6
  <2> QED
    BY <1>2, <1>5, <2>1
<1>8. ASSUME NEW t \in Range(impl), t \notin Range(a) PROVE \E j \in 1 .. Len(b) : b[j] = t
  <2>1. PICK i \in 1 .. Len(rss) : rss[i] = t
    BY <1>1, <1>4 DEF Range
  <2>2. ~(i \in 1 .. Len(a))
    BY <1>2, <1>4, <1>8, <2>1 DEF Range
  <2>3. i - Len(a) \in 1 .. Len(b) /\ Len(a) + (i - Len(a)) = i
    BY <1>4, <1>5, <2>1, <2>2
  <2> QED
    BY <1>5, <2>1, <2>3
<1> QED
  BY <1>6, <1>7, <1>8 DEF a, b

(* What INHERIT makes of the methods of the superclass and the interfaces. *)
LEMMA AddedMethods ==
  ASSUME NEW methods, NEW added, Len(added) \in Nat,
         NEW r, r = AddInterfaces(methods, added), r.how = "running"
  PROVE  /\ \A n \in DOMAIN methods : n \in DOMAIN r.methods /\ r.methods[n] = methods[n]
         /\ \A n \in DOMAIN r.methods \ DOMAIN methods :
              \E j \in 1 .. Len(added) : /\ n \in DOMAIN klass[added[j]].methods
                                         /\ r.methods[n] = klass[added[j]].methods[n]
         /\ \A j \in 1 .. Len(added) : \A n \in DOMAIN klass[added[j]].methods :
              /\ n \in DOMAIN r.methods
              /\ r.methods[n].prototype = klass[added[j]].methods[n].prototype
<1> DEFINE n == Len(added)
           base == [how |-> "running", methods |-> methods]
           upTo[i \in 0..n] == IF i = 0 THEN base ELSE AddInterface(upTo[i - 1], added[i])
           Def(v, i) == AddInterface(v, added[i])
           own(j) == klass[added[j]].methods
<1>1. FiniteNatInductiveDefHypothesis(upTo, base, Def, 0, n)
  BY DEF FiniteNatInductiveDefHypothesis
<1>2. r = upTo[n]
  BY DEF AddInterfaces
<1>3. base.methods = methods /\ DOMAIN base = {"how", "methods"} /\ n \in Nat
  OBVIOUS
<1>4. ASSUME NEW v, NEW i, Def(v, i).how = "running", DOMAIN v = {"how", "methods"}
      PROVE  /\ v.how = "running"
             /\ \A x \in DOMAIN own(i) \cap DOMAIN v.methods : v.methods[x].prototype = own(i)[x].prototype
             /\ Def(v, i).methods = Completed(v.methods, own(i))
  BY <1>4 DEF AddInterface, PrototypeMatches
<1>5. ASSUME NEW v, NEW i, DOMAIN v = {"how", "methods"}
      PROVE  DOMAIN Def(v, i) = {"how", "methods"}
  BY <1>5 DEF AddInterface
<1> HIDE DEF upTo, Def, base, own, n
<1>6. FiniteNatInductiveDefConclusion(upTo, base, Def, 0, n)
  BY <1>1, <1>3, FiniteNatInductiveDef
<1>7. upTo = [i \in 0 .. n |-> IF i = 0 THEN base ELSE Def(upTo[i - 1], i)]
  BY <1>6 DEF FiniteNatInductiveDefConclusion
<1> DEFINE P(M, i) ==
             /\ \A x \in DOMAIN methods : x \in DOMAIN M /\ M[x] = methods[x]
             /\ \A x \in DOMAIN M \ DOMAIN methods :
                  \E j \in 1 .. i : x \in DOMAIN own(j) /\ M[x] = own(j)[x]
             /\ \A j \in 1 .. i : \A x \in DOMAIN own(j) :
                  x \in DOMAIN M /\ M[x].prototype = own(j)[x].prototype
           Q(i) == /\ DOMAIN upTo[i] = {"how", "methods"}
                   /\ upTo[i].how = "running" => P(upTo[i].methods, i)
           T == {i \in 0 .. n : Q(i)}
<1>8. 0 \in T
  BY <1>3, <1>7
<1>9. ASSUME NEW i \in 1 .. n, i - 1 \in T PROVE i \in T
  <2> DEFINE v == upTo[i - 1]
             M == v.methods
             N == upTo[i].methods
  <2>1. upTo[i] = Def(v, i) /\ DOMAIN v = {"how", "methods"}
    BY <1>3, <1>7, <1>9
  <2>2. v.how = "running" => P(M, i - 1)
    BY <1>9
  <2> HIDE DEF v, P
  <2>3. ASSUME upTo[i].how = "running" PROVE P(N, i)
    <3>1. /\ v.how = "running"
          /\ \A x \in DOMAIN own(i) \cap DOMAIN M : M[x].prototype = own(i)[x].prototype
          /\ N = Completed(M, own(i))
      BY <1>4, <2>1, <2>3
    <3> HIDE DEF M, N
    <3>2. P(M, i - 1)
      BY <2>2, <3>1
    <3>3. /\ DOMAIN N = DOMAIN M \cup DOMAIN own(i)
          /\ \A x \in DOMAIN M : N[x] = M[x]
          /\ \A x \in DOMAIN own(i) \ DOMAIN M : N[x] = own(i)[x]
      BY <3>1 DEF Completed
    <3>4. i \in 1 .. i /\ \A j \in 1 .. i : j = i \/ j \in 1 .. i - 1
      BY <1>3
    <3>5. \A j \in 1 .. i - 1 : j \in 1 .. i
      BY <1>3
    <3>6. \A x \in DOMAIN methods : x \in DOMAIN N /\ N[x] = methods[x]
      BY <3>2, <3>3 DEF P
    <3>7. ASSUME NEW x \in DOMAIN N \ DOMAIN methods
          PROVE  \E j \in 1 .. i : x \in DOMAIN own(j) /\ N[x] = own(j)[x]
      <4>1. CASE x \in DOMAIN M
        BY <3>2, <3>3, <3>5, <3>7, <4>1 DEF P
      <4>2. CASE x \notin DOMAIN M
        BY <3>3, <3>4, <3>7, <4>2
      <4> QED
        BY <4>1, <4>2
    <3>8. ASSUME NEW j \in 1 .. i, NEW x \in DOMAIN own(j)
          PROVE  x \in DOMAIN N /\ N[x].prototype = own(j)[x].prototype
      <4>1. CASE j = i
        BY <3>1, <3>3, <3>8, <4>1
      <4>2. CASE j # i
        <5>1. j \in 1 .. i - 1
          BY <3>4, <4>2
        <5> QED
          BY <3>2, <3>3, <3>8, <5>1 DEF P
      <4> QED
        BY <4>1, <4>2
    <3> QED
      BY <3>6, <3>7, <3>8 DEF P
  <2>4. DOMAIN upTo[i] = {"how", "methods"}
    BY <1>5, <2>1
  <2>5. Q(i) /\ i \in 0 .. n
    BY <2>3, <2>4
  <2> HIDE DEF Q
  <2> QED
    BY <2>5
<1>10. n \in T
  <2> HIDE DEF T
  <2> QED
    BY <1>3, <1>8, <1>9, StaysIn
<1>11. P(r.methods, n)
  BY <1>2, <1>10
<1> QED
  BY <1>11 DEF own, n

-----------------------------------------------------------------------------
(* Methods.  Each entry of a method table is a member with the name it is  *)
(* found by: the nearest definition above, or a descriptor while there is  *)
(* none; and every abstract member of a supertype has an entry with its    *)
(* prototype.                                                              *)
Makers(k, n) == {a \in Holders(k) : \E mb \in Executed(a) : mb.k = "method" /\ mb.name = n}

NamesOK(k) ==
  \A n \in DOMAIN klass[k].methods :
    LET m == klass[k].methods[n] IN
    /\ m.owner \in 1 .. Len(run) /\ m.at \in 1 .. Len(Body(m.owner))
    /\ Body(m.owner)[m.at].name = n

NearestOK(k) ==
  \A n :
    LET M == klass[k].methods IN
    /\ Makers(k, n) = {} => (n \in DOMAIN M => M[n].desc)
    /\ Makers(k, n) # {} => /\ n \in DOMAIN M /\ ~M[n].desc
                           /\ M[n].owner \in Makers(k, n)
                           /\ \A b \in Makers(k, n) : b <= M[n].owner

PrototypesOK(k) ==
  \A a \in Sources(k) : \A mb \in Executed(a) :
    mb.k = "abstract" => /\ mb.name \in DOMAIN klass[k].methods
                         /\ klass[k].methods[mb.name].prototype = Declared(mb)

MethodsOK(k) == NamesOK(k) /\ NearestOK(k) /\ PrototypesOK(k)

(* A class that was closed without abstract has none.                      *)
ConcreteOK(k) == k < pc /\ ~klass[k].abstract => AbstractMethods(klass[k]) = {}

MethodInv == (\A k \in Built : MethodsOK(k)) /\ (\A k \in Laid : ConcreteOK(k))

LEMMA SourcesBelow ==
  ASSUME run \in Runs, NEW k \in 0 .. Len(run)
  PROVE  /\ Sources(k) \subseteq 1 .. k /\ Holders(k) \subseteq Sources(k)
         /\ 1 .. k \subseteq 1 .. Len(run)
<1>1. Len(run) \in Nat /\ IsClass(0)
  BY RunFacts DEF IsClass
<1>2. Line[k] \subseteq 0 .. k
  BY LineBelow
<1>3. Implemented(k) \subseteq 1 .. k - 1
  BY ImplementedBelow
<1>4. CASE IsClass(k)
  BY <1>1, <1>2, <1>3, <1>4 DEF Sources, Holders
<1>5. CASE ~IsClass(k)
  BY <1>1, <1>5 DEF Sources, Holders
<1> QED
  BY <1>1, <1>4, <1>5

LEMMA SourcesKept ==
  ASSUME UNCHANGED run
  PROVE  \A k : Holders(k)' = Holders(k) /\ Sources(k)' = Sources(k)
<1>1. Line' = Line /\ \A k : (IsClass(k)' <=> IsClass(k)) /\ Implemented(k)' = Implemented(k)
  BY LineKept
<1> QED
  BY <1>1 DEF Holders, Sources

LEMMA MethodsKept ==
  ASSUME UNCHANGED run, run \in Runs, NEW k \in 0 .. Len(run), MethodsOK(k),
         klass'[k].methods = klass[k].methods,
         \A a \in 1 .. k : Executed(a)' = Executed(a)
  PROVE  MethodsOK(k)'
<1>1. /\ Holders(k)' = Holders(k) /\ Sources(k)' = Sources(k)
      /\ \A a \in Sources(k) : Executed(a)' = Executed(a)
      /\ Holders(k) \subseteq Sources(k)
  BY SourcesBelow, SourcesKept
<1>2. \A n : Makers(k, n)' = Makers(k, n)
  BY <1>1 DEF Makers
<1>3. NamesOK(k)'
  BY DEF MethodsOK, NamesOK, Body, MembersOf
<1>4. NearestOK(k)'
  BY <1>2 DEF MethodsOK, NearestOK
<1>5. PrototypesOK(k)'
  BY <1>1 DEF MethodsOK, PrototypesOK
<1> QED
  BY <1>3, <1>4, <1>5 DEF MethodsOK

LEMMA ConcreteKept ==
  ASSUME NEW k, ConcreteOK(k), k < pc' => k < pc,
         klass'[k].methods = klass[k].methods, klass'[k].abstract = klass[k].abstract
  PROVE  ConcreteOK(k)'
  BY DEF ConcreteOK, AbstractMethods

(* The classes other than the one an instruction works on.                 *)
LEMMA OtherMethods ==
  ASSUME IInv, MethodInv, UNCHANGED run, pc' \in Nat, pc' >= pc, Others
  PROVE  /\ \A k \in Built : k # pc => MethodsOK(k)'
         /\ \A k \in Laid : k # pc => ConcreteOK(k)'
<1>1. /\ run \in Runs /\ pc \in Nat
      /\ \A k \in DOMAIN klass : k \in Nat /\ k <= pc /\ k \in 0 .. Len(run)
  BY PlaceFacts DEF IInv, Progress
<1>2. ASSUME NEW k \in Built, k # pc PROVE MethodsOK(k)'
  <2>1. k \in DOMAIN klass /\ k < pc /\ MethodsOK(k) /\ klass'[k] = klass[k] /\ k \in 0 .. Len(run) /\ k \in Nat
    BY <1>1, <1>2 DEF Built, MethodInv, Others
  <2>2. \A a \in 1 .. k : Executed(a)' = Executed(a)
    BY <1>1, <2>1, ExecutedKept
  <2> QED
    BY <1>1, <2>1, <2>2, MethodsKept
<1>3. ASSUME NEW k \in Laid, k # pc PROVE ConcreteOK(k)'
  <2>1. k \in DOMAIN klass /\ k < pc /\ ConcreteOK(k) /\ klass'[k] = klass[k]
    BY <1>1, <1>3 DEF Laid, MethodInv, Others
  <2> QED
    BY <2>1, ConcreteKept
<1> QED
  BY <1>2, <1>3

LEMMA MemberBuilt ==
  ASSUME IInv, Running, member > 0, member <= Len(MembersOf(Decl.t)),
         UNCHANGED <<run, pc>>, member' = member + 1, DOMAIN klass' = DOMAIN klass
  PROVE  Built' = Built /\ Laid' = Laid
<1>1. member \in Nat
  BY MemberFacts
<1>2. Laid' = Laid
  BY <1>1, LaidContinue
<1> QED
  BY <1>2, LineKept DEF Built

(* A member step keeps the methods when it keeps those of its class.       *)
LEMMA MemberMethods ==
  ASSUME IInv, MethodInv, Running, member > 0, member <= Len(MembersOf(Decl.t)),
         UNCHANGED <<run, pc>>, member' = member + 1, DOMAIN klass' = DOMAIN klass, Others,
         \A k : k = pc => MethodsOK(k)'
  PROVE  MethodInv'
<1>1. Built' = Built /\ Laid' = Laid /\ pc \in Nat
  BY MemberBuilt, MemberFacts
<1>2. /\ \A k \in Built : k # pc => MethodsOK(k)'
      /\ \A k \in Laid : k # pc => ConcreteOK(k)'
  BY <1>1, OtherMethods
<1>3. \A k : k = pc => ConcreteOK(k)'
  BY <1>1 DEF ConcreteOK
<1> QED
  BY <1>1, <1>2, <1>3 DEF MethodInv

LEMMA FieldMethods == ASSUME IInv, MethodInv, DefineField PROVE MethodInv'
<1>1. /\ Running /\ member > 0 /\ member <= Len(MembersOf(Decl.t)) /\ Member.k = "field"
      /\ UNCHANGED <<run, pc, code>> /\ member' = member + 1
      /\ DOMAIN klass' = DOMAIN klass /\ Others
      /\ klass'[pc].methods = klass[pc].methods
  BY FieldEffect
<1>2. /\ run \in Runs /\ pc \in 1 .. Len(run) /\ pc \in Nat /\ pc \in 0 .. Len(run) /\ pc \in Built
      /\ Len(run) \in Nat
  BY <1>1, MemberFacts
<1>3. /\ Executed(pc)' = Executed(pc) \cup {Member}
      /\ \A a \in 0 .. pc - 1 : Executed(a)' = Executed(a)
  BY <1>1, ExecutedNext
<1>4. ASSUME NEW k, k = pc PROVE MethodsOK(k)'
  <2>1. k \in 0 .. Len(run) /\ MethodsOK(k) /\ klass'[k].methods = klass[k].methods
    BY <1>1, <1>2, <1>4 DEF MethodInv
  <2>2. /\ Holders(k)' = Holders(k) /\ Sources(k)' = Sources(k)
        /\ Holders(k) \subseteq Sources(k) /\ Sources(k) \subseteq 1 .. k
    BY <1>1, <1>2, <2>1, SourcesBelow, SourcesKept
  <2>3. \A a \in Sources(k) : Executed(a)' = Executed(a) \/ Executed(a)' = Executed(a) \cup {Member}
    <3> SUFFICES ASSUME NEW a \in Sources(k)
                 PROVE  Executed(a)' = Executed(a) \/ Executed(a)' = Executed(a) \cup {Member}
      OBVIOUS
    <3>1. CASE a = pc
      <4>1. Executed(a)' = Executed(pc)'
        BY <1>1, <3>1
      <4> QED
        BY <1>3, <3>1, <4>1
    <3>2. CASE a # pc
      <4>1. a \in 0 .. pc - 1
        BY <1>2, <1>4, <2>2, <3>2
      <4> QED
        BY <1>3, <4>1
    <3> QED
      BY <3>1, <3>2
  <2>4. \A n : Makers(k, n)' = Makers(k, n)
    BY <1>1, <2>2, <2>3 DEF Makers
  <2>5. NamesOK(k)'
    BY <1>1, <2>1 DEF MethodsOK, NamesOK, Body, MembersOf
  <2>6. NearestOK(k)'
    BY <2>1, <2>4 DEF MethodsOK, NearestOK
  <2>7. PrototypesOK(k)'
    BY <1>1, <2>1, <2>2, <2>3 DEF MethodsOK, PrototypesOK
  <2> QED
    BY <2>5, <2>6, <2>7 DEF MethodsOK
<1> QED
  BY <1>1, <1>4, MemberMethods

(* Nothing of the tables changes.                                          *)
LEMMA StopMethods ==
  ASSUME IInv, MethodInv, UNCHANGED <<run, pc, member, klass>> PROVE MethodInv'
<1>1. Laid' = Laid /\ Built' = Built
  BY DEF Laid, Built, IsClass, TemplateOf
<1>2. \A k : Executed(k)' = Executed(k)
  BY DEF Executed, Done, Body, MembersOf
<1>3. run \in Runs /\ \A k \in Built : k \in 0 .. Len(run)
  BY PlaceFacts DEF Built, IInv, Progress
<1>4. \A k \in Built : MethodsOK(k)'
  BY <1>2, <1>3, MethodsKept DEF MethodInv
<1>5. \A k \in Laid : ConcreteOK(k)'
  BY DEF MethodInv, ConcreteOK, AbstractMethods
<1> QED
  BY <1>1, <1>4, <1>5 DEF MethodInv

LEMMA CheckMethods ==
  ASSUME IInv, MethodInv, NEW t \in DOMAIN klass, NEW s \in DOMAIN klass, CheckInstance(t, s)
  PROVE  MethodInv'
<1>1. /\ UNCHANGED <<run, pc, member, code>> /\ DOMAIN klass' = DOMAIN klass
      /\ \A k \in DOMAIN klass :
           klass'[k].methods = klass[k].methods /\ klass'[k].abstract = klass[k].abstract
  BY CheckEffect
<1>2. Laid' = Laid /\ Built' = Built
  BY <1>1 DEF Laid, Built, IsClass, TemplateOf
<1>3. \A k : Executed(k)' = Executed(k)
  BY <1>1 DEF Executed, Done, Body, MembersOf
<1>4. run \in Runs /\ \A k \in Built : k \in 0 .. Len(run) /\ k \in DOMAIN klass
  BY PlaceFacts DEF Built, IInv, Progress
<1>5. \A k \in Built : MethodsOK(k)'
  BY <1>1, <1>3, <1>4, MethodsKept DEF MethodInv
<1>6. \A k \in Laid : ConcreteOK(k)'
  BY <1>1, ConcreteKept DEF MethodInv, Laid
<1> QED
  BY <1>2, <1>5, <1>6 DEF MethodInv

LEMMA DeclareMethods == ASSUME IInv, MethodInv, Declare PROVE MethodInv'
<1>1. /\ pc \in 1 .. Len(run) /\ pc \in Nat /\ run \in Runs /\ member = -1
      /\ UNCHANGED <<run, pc, code>> /\ member' = (IF IsClass(pc) THEN 0 ELSE 1)
      /\ DOMAIN klass = 0 .. pc - 1 /\ DOMAIN klass' = 0 .. pc /\ Others
      /\ klass'[pc].methods = <<>>
  BY DeclareEffect
<1>2. \A k : (IsClass(k)' <=> IsClass(k)) /\ Holders(k)' = Holders(k) /\ Sources(k)' = Sources(k)
  BY <1>1, LineKept, SourcesKept
<1>3. /\ \A k \in Built : k # pc => MethodsOK(k)'
      /\ \A k \in Laid : k # pc => ConcreteOK(k)'
  BY <1>1, OtherMethods
<1>4. \A k \in Laid' : k \in Laid /\ k # pc
  BY <1>1, <1>2 DEF Laid
<1>5. \A k \in Built' : (k \in Built /\ k # pc) \/ (k = pc /\ ~IsClass(k))
  BY <1>1, <1>2, <1>4 DEF Built
<1>6. ASSUME NEW k, k = pc, ~IsClass(k) PROVE MethodsOK(k)'
  <2>1. DOMAIN klass'[k].methods = {}
    BY <1>1, <1>6
  <2>2. Executed(k)' = {}
    <3>1. Done(k)' = 0
      BY <1>1, <1>6 DEF Done
    <3> QED
      BY <3>1 DEF Executed
  <2>3. Holders(k)' = {k} /\ Sources(k)' = {k}
    BY <1>2, <1>6 DEF Holders, Sources
  <2>4. \A n : Makers(k, n)' = {}
    BY <2>2, <2>3 DEF Makers
  <2> QED
    BY <2>1, <2>2, <2>3, <2>4 DEF MethodsOK, NamesOK, NearestOK, PrototypesOK
<1> QED
  BY <1>3, <1>4, <1>5, <1>6 DEF MethodInv

LEMMA InterfaceMethods == ASSUME IInv, MethodInv, EndInterface PROVE MethodInv'
<1>1. /\ pc \in DOMAIN klass /\ pc \in 1 .. Len(run) /\ pc \in Nat /\ ~IsClass(pc)
      /\ member = Len(MembersOf(Decl.t)) + 1 /\ run \in Runs
      /\ UNCHANGED <<run, code>> /\ pc' = pc + 1 /\ member' = -1
      /\ DOMAIN klass' = DOMAIN klass /\ Others
      /\ klass'[pc].methods = klass[pc].methods
  BY InterfaceEffect
<1>2. /\ \A k \in Built : k # pc => MethodsOK(k)'
      /\ \A k \in Laid : k # pc => ConcreteOK(k)'
  BY <1>1, OtherMethods
<1>3. \A a \in 0 .. pc : Executed(a)' = Executed(a)
  BY <1>1, PlaceFacts, ExecutedEnd
<1>4. ASSUME NEW k, k = pc PROVE MethodsOK(k)'
  <2>1. k \in Built /\ k \in 0 .. Len(run) /\ \A a \in 1 .. k : a \in 0 .. pc
    BY <1>1, <1>4, PlaceFacts DEF Built
  <2> QED
    BY <1>1, <1>3, <1>4, <2>1, MethodsKept DEF MethodInv
<1>5. \A k \in Laid' : k \in Laid /\ k # pc
  BY <1>1, LineKept, PlaceFacts DEF Laid
<1>6. \A k \in Built' : k \in Built
  BY <1>1, <1>5, LineKept DEF Built
<1> QED
  BY <1>2, <1>4, <1>5, <1>6 DEF MethodInv

LEMMA CloseMethods == ASSUME IInv, RefInv, MethodInv, CloseClass PROVE MethodInv'
<1>1. CASE \E how : Stop(how)
  BY <1>1, StopMethods DEF Stop, CloseClass
<1>2. CASE ~\E how : Stop(how)
  <2>1. /\ pc \in Laid \ {0} /\ pc \in 1 .. Len(run) /\ pc \in Nat /\ run \in Runs
        /\ member = Len(MembersOf(Decl.t)) + 1 /\ IsClass(pc)
        /\ UNCHANGED <<run, code>> /\ pc' = pc + 1 /\ member' = -1
        /\ DOMAIN klass' = DOMAIN klass /\ Others
        /\ ~klass[pc].abstract => AbstractMethods(klass[pc]) = {}
        /\ klass'[pc].methods = klass[pc].methods /\ klass'[pc].abstract = klass[pc].abstract
    BY <1>2, CloseEffect
  <2>2. /\ \A k \in Built : k # pc => MethodsOK(k)'
        /\ \A k \in Laid : k # pc => ConcreteOK(k)'
    BY <2>1, OtherMethods
  <2>3. \A a \in 0 .. pc : Executed(a)' = Executed(a)
    BY <2>1, PlaceFacts, ExecutedEnd
  <2>4. ASSUME NEW k, k = pc PROVE MethodsOK(k)' /\ ConcreteOK(k)'
    <3>1. k \in Built /\ k \in 0 .. Len(run) /\ \A a \in 1 .. k : a \in 0 .. pc
      BY <2>1, <2>4, PlaceFacts DEF Built, Laid
    <3>2. MethodsOK(k)'
      BY <2>1, <2>3, <2>4, <3>1, MethodsKept DEF MethodInv
    <3>3. ConcreteOK(k)'
      BY <2>1, <2>4 DEF ConcreteOK, AbstractMethods
    <3> QED
      BY <3>2, <3>3
  <2>5. \A k \in Laid' : k \in Laid
    BY <2>1, LineKept, PlaceFacts DEF Laid
  <2>6. \A k \in Built' : k \in Built
    BY <2>1, <2>5, LineKept DEF Built
  <2> QED
    BY <2>2, <2>4, <2>5, <2>6 DEF MethodInv
<1> QED
  BY <1>1, <1>2

LEMMA MethodMethods == ASSUME IInv, MethodInv, DefineMethod PROVE MethodInv'
<1>1. CASE Stop("mismatch")
  BY <1>1, StopMethods DEF Stop, DefineMethod
<1>2. CASE ~Stop("mismatch")
  <2> DEFINE n == Member.name
             M == klass[pc].methods
             N == klass'[pc].methods
  <2>1. /\ Running /\ member > 0 /\ member <= Len(MembersOf(Decl.t)) /\ Member.k = "method"
        /\ UNCHANGED <<run, pc>> /\ member' = member + 1
        /\ DOMAIN klass' = DOMAIN klass /\ Others
        /\ N = With(M, n, NewMethod)
        /\ n \in DOMAIN M => PrototypeMatches(NewMethod, M[n])
    BY <1>2, MethodEffect
  <2>2. /\ run \in Runs /\ pc \in 1 .. Len(run) /\ pc \in Nat /\ pc \in 0 .. Len(run) /\ pc \in Built
        /\ Len(run) \in Nat /\ Body(pc)[member] = Member /\ member \in 1 .. Len(Body(pc)) /\ IsClass(pc)
    BY <2>1, MemberFacts
  <2>3. /\ Executed(pc)' = Executed(pc) \cup {Member}
        /\ \A a \in 0 .. pc - 1 : Executed(a)' = Executed(a)
    BY <2>1, ExecutedNext
  <2>4. NewMethod.desc = FALSE /\ NewMethod.owner = pc /\ NewMethod.at = member
    BY DEF NewMethod
  <2> HIDE DEF N, M, n
  <2>5. /\ DOMAIN N = DOMAIN M \cup {n} /\ N[n] = NewMethod
        /\ \A x \in DOMAIN M : x # n => N[x] = M[x]
        /\ \A x \in DOMAIN N : x # n => x \in DOMAIN M
    BY <2>1 DEF With
  <2>6. n \in DOMAIN M => NewMethod.prototype = M[n].prototype
    BY <2>1 DEF PrototypeMatches
  <2>7. ASSUME NEW k, k = pc PROVE MethodsOK(k)'
    <3>1. /\ k \in 0 .. Len(run) /\ MethodsOK(k) /\ klass[k].methods = M /\ klass'[k].methods = N
          /\ k \in Nat /\ IsClass(k)
      BY <2>1, <2>2, <2>7 DEF MethodInv, M, N
    <3>2. /\ Holders(k)' = Holders(k) /\ Sources(k)' = Sources(k)
          /\ Holders(k) \subseteq Sources(k) /\ Sources(k) \subseteq 1 .. k /\ k \in Holders(k)
      <4>1. k \in Holders(k)
        BY <2>2, <2>7, <3>1, LineBelow DEF Holders
      <4> QED
        BY <2>1, <2>2, <3>1, <4>1, SourcesBelow, SourcesKept
    <3>3. Executed(k)' = Executed(k) \cup {Member}
      <4>1. Executed(k)' = Executed(pc)'
        BY <2>1, <2>7
      <4> QED
        BY <2>3, <2>7, <4>1
    <3>4. \A a \in Sources(k) : a # k => Executed(a)' = Executed(a)
      BY <2>2, <2>3, <2>7, <3>2
    <3>5. \A x : x # n => Makers(k, x)' = Makers(k, x)
      BY <3>2, <3>3, <3>4 DEF Makers, n
    <3>6. ASSUME NEW x, x = n PROVE k \in Makers(k, x)' /\ \A b \in Makers(k, x)' : b <= k
      <4>1. k \in Makers(k, x)'
        BY <2>1, <3>2, <3>3, <3>6 DEF Makers, n
      <4>2. Makers(k, x)' \subseteq 1 .. k
        BY <3>2 DEF Makers
      <4> QED
        BY <3>1, <4>1, <4>2
    <3>7. NamesOK(k)'
      <4>1. \A a : Body(a)' = Body(a)
        BY <2>1 DEF Body, MembersOf
      <4>2. ASSUME NEW x \in DOMAIN N
            PROVE  /\ N[x].owner \in 1 .. Len(run) /\ N[x].at \in 1 .. Len(Body(N[x].owner))
                   /\ Body(N[x].owner)[N[x].at].name = x
        <5>1. CASE x = n
          BY <2>2, <2>4, <2>5, <5>1 DEF n
        <5>2. CASE x # n
          BY <2>5, <3>1, <5>2 DEF MethodsOK, NamesOK
        <5> QED
          BY <5>1, <5>2
      <4> QED
        BY <2>1, <3>1, <4>1, <4>2 DEF NamesOK
    <3>8. NearestOK(k)'
      <4> SUFFICES ASSUME NEW x
                   PROVE  /\ Makers(k, x)' = {} => (x \in DOMAIN N => N[x].desc)
                          /\ Makers(k, x)' # {} => /\ x \in DOMAIN N /\ ~N[x].desc
                                                  /\ N[x].owner \in Makers(k, x)'
                                                  /\ \A b \in Makers(k, x)' : b <= N[x].owner
        BY <3>1 DEF NearestOK
      <4>1. CASE x = n
        BY <2>4, <2>5, <2>7, <3>6, <4>1
      <4>2. CASE x # n
        BY <2>5, <3>1, <3>5, <4>2 DEF MethodsOK, NearestOK
      <4> QED
        BY <4>1, <4>2
    <3>9. PrototypesOK(k)'
      <4> SUFFICES ASSUME NEW a \in Sources(k), NEW mb \in Executed(a)', mb.k = "abstract"
                   PROVE  mb.name \in DOMAIN N /\ N[mb.name].prototype = Declared(mb)
        BY <3>1, <3>2 DEF PrototypesOK
      <4>1. mb \in Executed(a)
        BY <2>1, <3>3, <3>4
      <4>2. mb.name \in DOMAIN M /\ M[mb.name].prototype = Declared(mb)
        BY <3>1, <4>1 DEF MethodsOK, PrototypesOK
      <4> QED
        BY <2>5, <2>6, <4>2
    <3> QED
      BY <3>7, <3>8, <3>9 DEF MethodsOK
  <2> QED
    BY <2>1, <2>7, MemberMethods
<1> QED
  BY <1>1, <1>2

LEMMA AbstractTables == ASSUME IInv, MethodInv, AddAbstractMethod PROVE MethodInv'
<1>1. CASE \E how : Stop(how)
  BY <1>1, StopMethods DEF Stop, AddAbstractMethod
<1>2. CASE ~\E how : Stop(how)
  <2> DEFINE n == Member.name
             M == klass[pc].methods
             N == klass'[pc].methods
  <2>1. /\ Running /\ member > 0 /\ member <= Len(MembersOf(Decl.t)) /\ Member.k = "abstract"
        /\ UNCHANGED <<run, pc>> /\ member' = member + 1
        /\ DOMAIN klass' = DOMAIN klass /\ Others
        /\ n \in DOMAIN M => M[n].desc /\ PrototypeMatches(NewMethodDesc, M[n]) /\ N = M
        /\ n \notin DOMAIN M => N = With(M, n, NewMethodDesc)
    BY <1>2, AbstractEffect
  <2>2. /\ run \in Runs /\ pc \in 1 .. Len(run) /\ pc \in Nat /\ pc \in 0 .. Len(run) /\ pc \in Built
        /\ Len(run) \in Nat /\ Body(pc)[member] = Member /\ member \in 1 .. Len(Body(pc))
    BY <2>1, MemberFacts
  <2>3. /\ Executed(pc)' = Executed(pc) \cup {Member}
        /\ \A a \in 0 .. pc - 1 : Executed(a)' = Executed(a)
    BY <2>1, ExecutedNext
  <2>4. /\ NewMethodDesc.desc = TRUE /\ NewMethodDesc.owner = pc /\ NewMethodDesc.at = member
        /\ NewMethodDesc.prototype = Declared(Member)
    BY DEF NewMethod, NewMethodDesc
  <2> HIDE DEF N, M, n
  <2>5. /\ DOMAIN N = DOMAIN M \cup {n}
        /\ \A x \in DOMAIN M : N[x] = M[x]
        /\ n \notin DOMAIN M => N[n] = NewMethodDesc
        /\ \A x \in DOMAIN N : x # n => x \in DOMAIN M
    BY <2>1 DEF With
  <2>6. N[n].prototype = Declared(Member)
    BY <2>1, <2>4, <2>5 DEF PrototypeMatches
  <2>7. ASSUME NEW k, k = pc PROVE MethodsOK(k)'
    <3>1. k \in 0 .. Len(run) /\ MethodsOK(k) /\ klass[k].methods = M /\ klass'[k].methods = N
      BY <2>1, <2>2, <2>7 DEF MethodInv, M, N
    <3>2. /\ Holders(k)' = Holders(k) /\ Sources(k)' = Sources(k)
          /\ Holders(k) \subseteq Sources(k) /\ Sources(k) \subseteq 1 .. k
      BY <2>1, <2>2, <3>1, SourcesBelow, SourcesKept
    <3>3. \A a \in Sources(k) : Executed(a)' = Executed(a) \/ Executed(a)' = Executed(a) \cup {Member}
      <4> SUFFICES ASSUME NEW a \in Sources(k)
                   PROVE  Executed(a)' = Executed(a) \/ Executed(a)' = Executed(a) \cup {Member}
        OBVIOUS
      <4>1. CASE a = pc
        <5>1. Executed(a)' = Executed(pc)'
          BY <2>1, <4>1
        <5> QED
          BY <2>3, <4>1, <5>1
      <4>2. CASE a # pc
        <5>1. a \in 0 .. pc - 1
          BY <2>2, <2>7, <3>2, <4>2
        <5> QED
          BY <2>3, <5>1
      <4> QED
        BY <4>1, <4>2
    <3>5. \A x : Makers(k, x)' = Makers(k, x)
      BY <2>1, <3>2, <3>3 DEF Makers
    <3>6. n \notin DOMAIN M => Makers(k, n) = {}
      BY <3>1 DEF MethodsOK, NearestOK
    <3>7. NamesOK(k)'
      <4>1. \A a : Body(a)' = Body(a)
        BY <2>1 DEF Body, MembersOf
      <4>2. ASSUME NEW x \in DOMAIN N
            PROVE  /\ N[x].owner \in 1 .. Len(run) /\ N[x].at \in 1 .. Len(Body(N[x].owner))
                   /\ Body(N[x].owner)[N[x].at].name = x
        <5>1. CASE x \notin DOMAIN M
          BY <2>2, <2>4, <2>5, <5>1 DEF n
        <5>2. CASE x \in DOMAIN M
          BY <2>5, <3>1, <5>2 DEF MethodsOK, NamesOK
        <5> QED
          BY <5>1, <5>2
      <4> QED
        BY <2>1, <3>1, <4>1, <4>2 DEF NamesOK
    <3>8. NearestOK(k)'
      <4> SUFFICES ASSUME NEW x
                   PROVE  /\ Makers(k, x)' = {} => (x \in DOMAIN N => N[x].desc)
                          /\ Makers(k, x)' # {} => /\ x \in DOMAIN N /\ ~N[x].desc
                                                  /\ N[x].owner \in Makers(k, x)'
                                                  /\ \A b \in Makers(k, x)' : b <= N[x].owner
        BY <3>1 DEF NearestOK
      <4>1. CASE x \in DOMAIN M
        BY <2>5, <3>1, <3>5, <4>1 DEF MethodsOK, NearestOK
      <4>2. CASE x \notin DOMAIN M
        <5>1. Makers(k, x) = {}
          BY <3>1, <4>2 DEF MethodsOK, NearestOK
        <5> QED
          BY <2>4, <2>5, <3>5, <4>2, <5>1
      <4> QED
        BY <4>1, <4>2
    <3>9. PrototypesOK(k)'
      <4> SUFFICES ASSUME NEW a \in Sources(k), NEW mb \in Executed(a)', mb.k = "abstract"
                   PROVE  mb.name \in DOMAIN N /\ N[mb.name].prototype = Declared(mb)
        BY <3>1, <3>2 DEF PrototypesOK
      <4>1. CASE mb \in Executed(a)
        <5>1. mb.name \in DOMAIN M /\ M[mb.name].prototype = Declared(mb)
          BY <3>1, <4>1 DEF MethodsOK, PrototypesOK
        <5> QED
          BY <2>5, <5>1
      <4>2. CASE mb \notin Executed(a)
        <5>1. mb = Member
          BY <3>3, <4>2
        <5> QED
          BY <2>5, <2>6, <5>1 DEF n
      <4> QED
        BY <4>1, <4>2
    <3> QED
      BY <3>7, <3>8, <3>9 DEF MethodsOK
  <2> QED
    BY <2>1, <2>7, MemberMethods
<1> QED
  BY <1>1, <1>2

(* An interface declares no method with a body.                            *)
LEMMA InterfaceMakers ==
  ASSUME IInv, NEW i \in 1 .. pc - 1, ~IsClass(i)
  PROVE  i \in Built /\ i \in 1 .. Len(run) /\ Sources(i) = {i} /\ \A n : Makers(i, n) = {}
<1>1. /\ i \in Nat /\ i < pc /\ i \in 1 .. Len(run) /\ i \in DOMAIN klass /\ run \in Runs
  BY PlaceFacts DEF IInv, Progress
<1>2. Executed(i) = {Body(i)[j] : j \in 1 .. Len(Body(i))}
  BY <1>1 DEF Executed, Done
<1>3. \A mb \in Executed(i) : mb \in Range(Body(i))
  BY <1>1, <1>2, BodyFacts DEF Range
<1>4. \A mb \in Executed(i) : mb.k = "abstract"
  BY <1>1, <1>3, BodyFacts
<1>5. Holders(i) = {i} /\ Sources(i) = {i}
  BY DEF Holders, Sources
<1> QED
  BY <1>1, <1>4, <1>5 DEF Makers, Built

(* The members of a class are those of its superclass, its own and those   *)
(* of its interfaces.                                                      *)
LEMMA SourcesSuper ==
  ASSUME run \in Runs, NEW k \in 1 .. Len(run), IsClass(k)
  PROVE  /\ Holders(k) = {k} \cup Holders(run[k].super)
         /\ Sources(k) = {k} \cup Sources(run[k].super) \cup Range(run[k].impl)
<1> DEFINE s == run[k].super
<1>1. Line[k] = {k} \cup Line[s] /\ IsClass(s) /\ k # 0
  BY RunFacts, LineDef
<1>2. Implemented(k) = Implemented(s) \cup Range(run[k].impl)
  BY <1>1 DEF Implemented
<1> QED
  BY <1>1, <1>2 DEF Holders, Sources

LEMMA InheritMethods == ASSUME IInv, MethodInv, Inherit PROVE MethodInv'
<1>1. CASE \E how : Stop(how)
  BY <1>1, StopMethods DEF Stop, Inherit
<1>2. CASE ~\E how : Stop(how)
  <2> DEFINE s == run[pc].super
             impl == run[pc].impl
             added == Added(s, impl)
             M == klass[s].methods
             r == AddInterfaces(M, added)
             N == klass'[pc].methods
  <2>1. /\ pc \in DOMAIN klass /\ pc \in 1 .. Len(run) /\ pc \in Nat /\ run \in Runs /\ IsClass(pc)
        /\ member = 0 /\ UNCHANGED <<run, pc, code>> /\ member' = 1
        /\ s \in 0 .. pc - 1 /\ s \in Laid
        /\ DOMAIN klass' = DOMAIN klass /\ Others
        /\ r.how = "running" /\ N = r.methods
    BY <1>2, InheritEffect
  <2>2. /\ impl \in Seq(1 .. pc - 1) /\ \A i \in Range(impl) : i \in 1 .. pc - 1 /\ ~IsClass(i)
        /\ IsClass(s)
    BY <2>1, RunFacts
  <2> HIDE DEF s, impl, N, M
  <2>3. klass[s].rss \in Seq(0 .. s) /\ TypeInfo(s) /\ MethodsOK(s) /\ s \in Built /\ s \in 0 .. Len(run)
    <3>1. s \in DOMAIN klass /\ s \in Built
      BY <2>1 DEF Laid, Built
    <3> QED
      BY <2>1, <3>1, PlaceFacts DEF IInv, Shape, MethodInv
  <2>4. /\ Len(added) \in Nat
        /\ \A j \in 1 .. Len(added) : added[j] \in Range(impl)
        /\ \A t \in Range(impl) :
             t \in Range(Inherited(s)) \/ \E j \in 1 .. Len(added) : added[j] = t
    <3> DEFINE S == 0 .. pc
    <3>1. s \in S /\ klass[s].rss \in Seq(S) /\ impl \in Seq(S)
      BY <2>1, <2>2, <2>3
    <3> HIDE DEF S
    <3> QED
      BY <3>1, AddedFacts
  <2> HIDE DEF added, r
  <2>5. /\ \A n \in DOMAIN M : n \in DOMAIN N /\ N[n] = M[n]
        /\ \A n \in DOMAIN N \ DOMAIN M :
             \E j \in 1 .. Len(added) : /\ n \in DOMAIN klass[added[j]].methods
                                        /\ N[n] = klass[added[j]].methods[n]
        /\ \A j \in 1 .. Len(added) : \A n \in DOMAIN klass[added[j]].methods :
             n \in DOMAIN N /\ N[n].prototype = klass[added[j]].methods[n].prototype
    <3>1. r = AddInterfaces(M, added)
      BY DEF r
    <3> QED
      BY <2>1, <2>4, <3>1, AddedMethods
  <2>6. ASSUME NEW i \in Range(impl)
        PROVE  i \in Built /\ MethodsOK(i) /\ Sources(i) = {i} /\ i \in 1 .. pc - 1
               /\ \A n : Makers(i, n) = {}
    BY <2>2, InterfaceMakers DEF MethodInv
  <2>7. \A t \in Range(impl) : t \in Range(Inherited(s)) => t \in Sources(s)
    <3> SUFFICES ASSUME NEW t \in Range(impl), t \in Range(Inherited(s)) PROVE t \in Sources(s)
      OBVIOUS
    <3>1. t = s \/ t \in Range(klass[s].rss)
      <4> DEFINE S == 0 .. s
      <4>1. s \in S /\ klass[s].rss \in Seq(S)
        BY <2>1, <2>3
      <4> HIDE DEF S
      <4> QED
        BY <4>1, InheritedList
    <3>2. t \in Range(klass[s].rss) /\ ~IsClass(t) /\ t \in 0 .. s
      <4>1. t \in Range(klass[s].rss) /\ ~IsClass(t)
        BY <2>2, <3>1
      <4> QED
        BY <2>3, <4>1 DEF Range
    <3>3. t \in Line[s] \/ t \in Implemented(s)
      BY <2>3, <3>2 DEF TypeInfo, ListExact
    <3>4. t \notin Line[s]
      BY <2>1, <2>2, <2>3, <3>2, LineBelow
    <3> QED
      BY <2>2, <3>3, <3>4 DEF Sources
  <2>8. ASSUME NEW k, k = pc PROVE MethodsOK(k)'
    <3>1. /\ Holders(k)' = Holders(k) /\ Sources(k)' = Sources(k)
          /\ Holders(k) = {k} \cup Holders(s)
          /\ Sources(k) = {k} \cup Sources(s) \cup Range(impl)
      BY <2>1, <2>8, SourcesKept, SourcesSuper DEF s, impl
    <3>2. Executed(k)' = {}
      <4>1. Done(k)' = 0
        BY <2>1, <2>8 DEF Done
      <4> QED
        BY <4>1 DEF Executed
    <3>3. \A a \in 1 .. pc - 1 : Executed(a)' = Executed(a)
      BY <2>1, ExecutedKept
    <3>4. Holders(s) \subseteq Sources(s) /\ Sources(s) \subseteq 1 .. s
      BY <2>1, <2>3, SourcesBelow
    <3>5. \A a \in Sources(s) : Executed(a)' = Executed(a)
      BY <2>1, <3>3, <3>4
    <3>6. \A n : Makers(k, n)' = Makers(s, n)
      BY <3>1, <3>2, <3>4, <3>5 DEF Makers
    <3>7. klass'[k].methods = N /\ klass[s].methods = M
      BY <2>8 DEF N, M
    <3>8. NamesOK(k)'
      <4>1. \A a : Body(a)' = Body(a)
        BY <2>1 DEF Body, MembersOf
      <4>2. ASSUME NEW x \in DOMAIN N
            PROVE  /\ N[x].owner \in 1 .. Len(run) /\ N[x].at \in 1 .. Len(Body(N[x].owner))
                   /\ Body(N[x].owner)[N[x].at].name = x
        <5>1. CASE x \in DOMAIN M
          BY <2>3, <2>5, <3>7, <5>1 DEF MethodsOK, NamesOK
        <5>2. CASE x \notin DOMAIN M
          <6>1. PICK j \in 1 .. Len(added) : /\ x \in DOMAIN klass[added[j]].methods
                                             /\ N[x] = klass[added[j]].methods[x]
            BY <2>5, <5>2
          <6>2. MethodsOK(added[j])
            BY <2>4, <2>6
          <6> QED
            BY <6>1, <6>2 DEF MethodsOK, NamesOK
        <5> QED
          BY <5>1, <5>2
      <4> QED
        BY <2>1, <3>7, <4>1, <4>2 DEF NamesOK
    <3>9. NearestOK(k)'
      <4> SUFFICES ASSUME NEW x
                   PROVE  /\ Makers(s, x) = {} => (x \in DOMAIN N => N[x].desc)
                          /\ Makers(s, x) # {} => /\ x \in DOMAIN N /\ ~N[x].desc
                                                 /\ N[x].owner \in Makers(s, x)
                                                 /\ \A b \in Makers(s, x) : b <= N[x].owner
        BY <3>6, <3>7 DEF NearestOK
      <4>0. /\ Makers(s, x) = {} => (x \in DOMAIN M => M[x].desc)
            /\ Makers(s, x) # {} => /\ x \in DOMAIN M /\ ~M[x].desc
                                   /\ M[x].owner \in Makers(s, x)
                                   /\ \A b \in Makers(s, x) : b <= M[x].owner
        BY <2>3, <3>7 DEF MethodsOK, NearestOK
      <4>1. CASE x \in DOMAIN M
        BY <2>5, <4>0, <4>1
      <4>2. CASE x \notin DOMAIN M
        <5>1. ASSUME x \in DOMAIN N PROVE N[x].desc
          <6>1. PICK j \in 1 .. Len(added) : /\ x \in DOMAIN klass[added[j]].methods
                                             /\ N[x] = klass[added[j]].methods[x]
            BY <2>5, <4>2, <5>1
          <6>2. MethodsOK(added[j]) /\ Makers(added[j], x) = {}
            BY <2>4, <2>6
          <6> QED
            BY <6>1, <6>2 DEF MethodsOK, NearestOK
        <5> QED
          BY <4>0, <4>2, <5>1
      <4> QED
        BY <4>1, <4>2
    <3>10. PrototypesOK(k)'
      <4> SUFFICES ASSUME NEW a \in Sources(k), NEW mb \in Executed(a)', mb.k = "abstract"
                   PROVE  mb.name \in DOMAIN N /\ N[mb.name].prototype = Declared(mb)
        BY <3>1, <3>7 DEF PrototypesOK
      <4>1. CASE a \in Sources(s)
        <5>1. mb.name \in DOMAIN M /\ M[mb.name].prototype = Declared(mb)
          BY <2>3, <3>5, <3>7, <4>1 DEF MethodsOK, PrototypesOK
        <5> QED
          BY <2>5, <5>1
      <4>2. CASE a \in Range(impl) /\ a \notin Sources(s)
        <5>1. PICK j \in 1 .. Len(added) : added[j] = a
          BY <2>4, <2>7, <4>2
        <5>2. MethodsOK(a) /\ Sources(a) = {a} /\ mb \in Executed(a)
          BY <2>6, <3>3, <4>2
        <5>3. mb.name \in DOMAIN klass[a].methods /\ klass[a].methods[mb.name].prototype = Declared(mb)
          BY <5>2 DEF MethodsOK, PrototypesOK
        <5> QED
          BY <2>5, <5>1, <5>3
      <4>3. CASE a = k
        BY <3>2, <4>3
      <4> QED
        BY <3>1, <4>1, <4>2, <4>3
    <3> QED
      BY <3>8, <3>9, <3>10 DEF MethodsOK
  <2>9. /\ \A k \in Built : k # pc => MethodsOK(k)'
        /\ \A k \in Laid : k # pc => ConcreteOK(k)'
    BY <2>1, OtherMethods
  <2>10. ASSUME NEW k, k = pc PROVE ConcreteOK(k)'
    BY <2>1, <2>10 DEF ConcreteOK
  <2>11. \A k \in Laid' : k \in Laid \/ k = pc
    BY <2>1, LineKept, PlaceFacts DEF Laid
  <2>12. \A k \in Built' : k \in Built \/ k = pc
    BY <2>1, <2>11, LineKept DEF Built
  <2> QED
    BY <2>8, <2>9, <2>10, <2>11, <2>12 DEF MethodInv
<1> QED
  BY <1>1, <1>2

LEMMA InitMethods == Init => MethodInv
<1> SUFFICES ASSUME Init PROVE MethodInv
  OBVIOUS
<1>1. /\ run \in Runs /\ DOMAIN klass = {0} /\ klass[0].methods = <<>> /\ IsClass(0)
  BY DEF Init, Object, NewClass, IsClass
<1>2. DOMAIN klass[0].methods = {} /\ Line[0] = {0}
  BY <1>1, LineDef
<1>3. Holders(0) = {} /\ Sources(0) = {}
  BY <1>1, <1>2 DEF Holders, Sources, Implemented
<1>4. \A n : Makers(0, n) = {}
  BY <1>3 DEF Makers
<1>5. MethodsOK(0)
  BY <1>2, <1>3, <1>4 DEF MethodsOK, NamesOK, NearestOK, PrototypesOK
<1>6. ConcreteOK(0)
  BY <1>2 DEF ConcreteOK, AbstractMethods
<1> QED
  BY <1>1, <1>5, <1>6 DEF MethodInv, Built, Laid

LEMMA MethodInductive == IInv /\ RefInv /\ MethodInv /\ [Next]_vars => MethodInv'
<1> SUFFICES ASSUME IInv, RefInv, MethodInv, [Next]_vars PROVE MethodInv'
  OBVIOUS
<1>1. CASE UNCHANGED vars
  BY <1>1, StopMethods DEF vars
<1>2. CASE Next
  BY <1>2, DeclareMethods, InheritMethods, FieldMethods, MethodMethods, AbstractTables,
     CloseMethods, InterfaceMethods, CheckMethods DEF Next
<1> QED
  BY <1>1, <1>2

-----------------------------------------------------------------------------
(* The fields of a class follow from its template and from the fields of   *)
(* its superclass: two classes made by one template below one superclass   *)
(* number their fields alike.                                              *)
Grown(t, f, i) ==
  LET g[j \in 0 .. Len(MembersOf(t))] ==
        IF j = 0 THEN f
        ELSE IF MembersOf(t)[j].k = "field"
        THEN With(g[j - 1], MembersOf(t)[j].name, Cardinality(DOMAIN g[j - 1]))
        ELSE g[j - 1]
  IN g[i]

LEMMA GrownDef ==
  ASSUME NEW t, NEW f, Len(MembersOf(t)) \in Nat
  PROVE  /\ Grown(t, f, 0) = f
         /\ \A i \in 1 .. Len(MembersOf(t)) :
              Grown(t, f, i) =
                IF MembersOf(t)[i].k = "field"
                THEN With(Grown(t, f, i - 1), MembersOf(t)[i].name,
                          Cardinality(DOMAIN Grown(t, f, i - 1)))
                ELSE Grown(t, f, i - 1)
<1> DEFINE n == Len(MembersOf(t))
           g[j \in 0 .. n] ==
             IF j = 0 THEN f
             ELSE IF MembersOf(t)[j].k = "field"
             THEN With(g[j - 1], MembersOf(t)[j].name, Cardinality(DOMAIN g[j - 1]))
             ELSE g[j - 1]
           Def(v, j) == IF MembersOf(t)[j].k = "field"
                        THEN With(v, MembersOf(t)[j].name, Cardinality(DOMAIN v)) ELSE v
<1>1. FiniteNatInductiveDefHypothesis(g, f, Def, 0, n)
  BY DEF FiniteNatInductiveDefHypothesis
<1>2. \A i : Grown(t, f, i) = g[i]
  BY DEF Grown
<1> HIDE DEF g, Def, n
<1>3. n \in Nat
  BY DEF n
<1>4. FiniteNatInductiveDefConclusion(g, f, Def, 0, n)
  BY <1>1, <1>3, FiniteNatInductiveDef
<1>5. g = [j \in 0 .. n |-> IF j = 0 THEN f ELSE Def(g[j - 1], j)]
  BY <1>4 DEF FiniteNatInductiveDefConclusion
<1>6. g[0] = f /\ \A j \in 1 .. n : g[j] = Def(g[j - 1], j)
  BY <1>3, <1>5
<1> QED
  BY <1>2, <1>6 DEF Def, n

GrowInv ==
  \A k \in Laid \ {0} :
    klass[k].fields = Grown(run[k].t, klass[run[k].super].fields, Done(k))

(* The fields of the classes that an instruction does not work on.         *)
LEMMA OtherGrown ==
  ASSUME IInv, GrowInv, UNCHANGED run, pc' \in Nat, pc' >= pc, NEW k \in Laid \ {0}, k # pc,
         \A j \in DOMAIN klass : j # pc => klass'[j].fields = klass[j].fields
  PROVE  klass'[k].fields = Grown(run[k].t, klass'[run[k].super].fields, Done(k)')
<1>1. /\ run \in Runs /\ pc \in Nat /\ k \in 1 .. Len(run) /\ k \in Nat /\ k < pc /\ k \in DOMAIN klass
  BY PlaceFacts DEF IInv, Progress, Laid
<1>2. run[k].super \in 0 .. k - 1
  BY <1>1, RunFacts
<1>3. run[k].super \in DOMAIN klass /\ run[k].super # pc
  BY <1>1, <1>2, PlaceFacts
<1>4. Done(k)' = Done(k)
  <2>1. Body(k)' = Body(k)
    BY DEF Body, MembersOf
  <2> QED
    BY <1>1, <2>1 DEF Done
<1> QED
  BY <1>1, <1>3, <1>4 DEF GrowInv

(* A member: the fields of its class become what its kind makes of them.   *)
LEMMA MemberGrown ==
  ASSUME IInv, GrowInv, Running, member > 0, member <= Len(MembersOf(Decl.t)),
         UNCHANGED <<run, pc>>, member' = member + 1, DOMAIN klass' = DOMAIN klass, Others,
         klass'[pc].fields = IF Member.k = "field"
                             THEN With(klass[pc].fields, Member.name, Cardinality(DOMAIN klass[pc].fields))
                             ELSE klass[pc].fields
  PROVE  GrowInv'
<1>1. /\ run \in Runs /\ pc \in 1 .. Len(run) /\ pc \in Nat
      /\ Body(pc) = MembersOf(Decl.t) /\ Len(Body(pc)) \in Nat
      /\ member \in 1 .. Len(Body(pc)) /\ member \in Nat /\ Member = Body(pc)[member]
      /\ Laid' = Laid
  BY MemberFacts, MemberBuilt
<1>2. ASSUME NEW k \in Laid \ {0}, k # pc
      PROVE  klass'[k].fields = Grown(run[k].t, klass'[run[k].super].fields, Done(k)')
  BY <1>1, <1>2, OtherGrown DEF Others
<1>3. ASSUME NEW k \in Laid \ {0}, k = pc
      PROVE  klass'[k].fields = Grown(run[k].t, klass'[run[k].super].fields, Done(k)')
  <2> DEFINE s == run[k].super
             f == klass[s].fields
             t == run[k].t
  <2>1. s \in 0 .. k - 1 /\ t = Decl.t
    BY <1>1, <1>3, RunFacts DEF Decl
  <2>2. klass'[s].fields = f
    BY <1>1, <1>3, <2>1, PlaceFacts DEF Others
  <2>3. Done(k) = member - 1 /\ Done(k)' = member
    <3>1. member' - 1 = member
      BY <1>1
    <3> QED
      BY <1>1, <1>3, <3>1 DEF Done
  <2>4. klass[k].fields = Grown(t, f, member - 1)
    BY <1>3, <2>3 DEF GrowInv
  <2>5. Len(MembersOf(t)) \in Nat /\ MembersOf(t) = Body(pc)
    BY <1>1, <2>1
  <2> HIDE DEF f, t, s
  <2>6. Grown(t, f, member) =
          IF MembersOf(t)[member].k = "field"
          THEN With(Grown(t, f, member - 1), MembersOf(t)[member].name,
                    Cardinality(DOMAIN Grown(t, f, member - 1)))
          ELSE Grown(t, f, member - 1)
    <3>1. \A u, g : Len(MembersOf(u)) \in Nat => \A i \in 1 .. Len(MembersOf(u)) :
            Grown(u, g, i) = IF MembersOf(u)[i].k = "field"
                             THEN With(Grown(u, g, i - 1), MembersOf(u)[i].name,
                                       Cardinality(DOMAIN Grown(u, g, i - 1)))
                             ELSE Grown(u, g, i - 1)
      BY GrownDef
    <3>2. member \in 1 .. Len(MembersOf(t)) /\ Len(MembersOf(t)) \in Nat
      BY <1>1, <2>5
    <3> QED
      BY <3>1, <3>2
  <2>7. klass'[k].fields = Grown(t, f, member)
    BY <1>1, <1>3, <2>4, <2>5, <2>6
  <2> QED
    BY <2>2, <2>3, <2>7 DEF f, t, s
<1> QED
  BY <1>1, <1>2, <1>3 DEF GrowInv

LEMMA GrowStop ==
  ASSUME IInv, GrowInv, UNCHANGED <<run, pc, member>>, DOMAIN klass' = DOMAIN klass,
         \A k \in DOMAIN klass : klass'[k].fields = klass[k].fields
  PROVE  GrowInv'
<1>1. Laid' = Laid /\ \A k : Done(k)' = Done(k)
  BY DEF Laid, IsClass, TemplateOf, Done, Body, MembersOf
<1>2. \A k \in Laid \ {0} : k \in DOMAIN klass /\ run[k].super \in DOMAIN klass
  <2> SUFFICES ASSUME NEW k \in Laid \ {0} PROVE k \in DOMAIN klass /\ run[k].super \in DOMAIN klass
    OBVIOUS
  <2>1. k \in DOMAIN klass /\ k \in 1 .. Len(run) /\ run \in Runs /\ k <= pc /\ pc \in Nat
    BY PlaceFacts DEF Laid, IInv, Progress
  <2>2. run[k].super \in 0 .. k - 1
    BY <2>1, RunFacts
  <2> QED
    BY <2>1, <2>2, PlaceFacts
<1> QED
  BY <1>1, <1>2 DEF GrowInv

(* Every instruction keeps that.                                           *)
LEMMA GrowInductive == IInv /\ RefInv /\ GrowInv /\ [Next]_vars => GrowInv'
<1> SUFFICES ASSUME IInv, RefInv, GrowInv, [Next]_vars PROVE GrowInv'
  OBVIOUS
<1>1. ASSUME UNCHANGED <<run, pc, member, klass>> PROVE GrowInv'
  BY <1>1, GrowStop
<1>3. CASE DefineField
  BY <1>3, FieldEffect, MemberGrown
<1>4. CASE DefineMethod
  <2>1. CASE Stop("mismatch")
    BY <1>1, <1>4, <2>1 DEF Stop, DefineMethod
  <2>2. CASE ~Stop("mismatch")
    <3>1. /\ Running /\ member > 0 /\ member <= Len(MembersOf(Decl.t)) /\ Member.k # "field"
          /\ UNCHANGED <<run, pc>> /\ member' = member + 1
          /\ DOMAIN klass' = DOMAIN klass /\ Others
          /\ klass'[pc].fields = klass[pc].fields
      BY <1>4, <2>2, MethodEffect
    <3> QED
      BY <3>1, MemberGrown
  <2> QED
    BY <2>1, <2>2
<1>5. CASE AddAbstractMethod
  <2>1. CASE \E how : Stop(how)
    BY <1>1, <1>5, <2>1 DEF Stop, AddAbstractMethod
  <2>2. CASE ~\E how : Stop(how)
    <3>1. /\ Running /\ member > 0 /\ member <= Len(MembersOf(Decl.t)) /\ Member.k # "field"
          /\ UNCHANGED <<run, pc>> /\ member' = member + 1
          /\ DOMAIN klass' = DOMAIN klass /\ Others
          /\ klass'[pc].fields = klass[pc].fields
      BY <1>5, <2>2, AbstractEffect
    <3> QED
      BY <3>1, MemberGrown
  <2> QED
    BY <2>1, <2>2
<1>6. CASE CloseClass
  <2>1. CASE \E how : Stop(how)
    BY <1>1, <1>6, <2>1 DEF Stop, CloseClass
  <2>2. CASE ~\E how : Stop(how)
    <3>1. /\ pc \in Laid \ {0} /\ pc \in 1 .. Len(run) /\ pc \in Nat /\ run \in Runs
          /\ member = Len(MembersOf(Decl.t)) + 1
          /\ UNCHANGED run /\ pc' = pc + 1 /\ member' = -1
          /\ DOMAIN klass' = DOMAIN klass /\ Others
          /\ klass'[pc].fields = klass[pc].fields
      BY <1>6, <2>2, CloseEffect
    <3>2. \A k \in Laid' : k \in Laid
      BY <3>1, LineKept, PlaceFacts DEF Laid
    <3>3. ASSUME NEW k \in Laid \ {0}, k # pc
          PROVE  klass'[k].fields = Grown(run[k].t, klass'[run[k].super].fields, Done(k)')
      <4>1. pc' \in Nat /\ pc' >= pc
        BY <3>1
      <4>2. \A j \in DOMAIN klass : j # pc => klass'[j].fields = klass[j].fields
        BY <3>1 DEF Others
      <4> QED
        BY <3>1, <3>3, <4>1, <4>2, OtherGrown
    <3>4. ASSUME NEW k \in Laid \ {0}, k = pc
          PROVE  klass'[k].fields = Grown(run[k].t, klass'[run[k].super].fields, Done(k)')
      <4>1. run[k].super \in 0 .. k - 1 /\ Body(k) = MembersOf(Decl.t) /\ Len(Body(k)) \in Nat
        BY <3>1, <3>4, RunFacts, BodyFacts DEF Body, Decl
      <4>2. klass'[run[k].super] = klass[run[k].super]
        BY <3>1, <3>4, <4>1, PlaceFacts DEF Others
      <4>3. Body(k)' = Body(k)
        BY <3>1 DEF Body, MembersOf
      <4>4. Done(k)' = Len(Body(k)) /\ Done(k) = Len(Body(k))
        BY <3>1, <3>4, <4>1, <4>3 DEF Done
      <4> QED
        BY <3>1, <3>4, <4>2, <4>4 DEF GrowInv
    <3> QED
      BY <3>1, <3>2, <3>3, <3>4 DEF GrowInv
  <2> QED
    BY <2>1, <2>2
<1>7. CASE EndInterface
  <2>1. /\ pc \in 1 .. Len(run) /\ pc \in Nat /\ ~IsClass(pc)
        /\ UNCHANGED run /\ pc' = pc + 1 /\ member' = -1
        /\ DOMAIN klass' = DOMAIN klass /\ Others
    BY <1>7, InterfaceEffect
  <2>2. \A k \in Laid' : k \in Laid /\ k # pc
    BY <2>1, LineKept, PlaceFacts DEF Laid
  <2>3. ASSUME NEW k \in Laid \ {0}, k # pc
        PROVE  klass'[k].fields = Grown(run[k].t, klass'[run[k].super].fields, Done(k)')
    BY <2>1, <2>3, OtherGrown DEF Others
  <2> QED
    BY <2>1, <2>2, <2>3 DEF GrowInv
<1>8. CASE Declare
  <2>1. /\ pc \in 1 .. Len(run) /\ pc \in Nat
        /\ UNCHANGED <<run, pc>> /\ member' = (IF IsClass(pc) THEN 0 ELSE 1)
        /\ DOMAIN klass = 0 .. pc - 1 /\ DOMAIN klass' = 0 .. pc /\ Others
    BY <1>8, DeclareEffect
  <2>2. \A k \in Laid' : k \in Laid /\ k # pc
    BY <2>1, LineKept DEF Laid
  <2>3. ASSUME NEW k \in Laid \ {0}, k # pc
        PROVE  klass'[k].fields = Grown(run[k].t, klass'[run[k].super].fields, Done(k)')
    BY <2>1, <2>3, OtherGrown DEF Others
  <2> QED
    BY <2>1, <2>2, <2>3 DEF GrowInv
<1>9. CASE Inherit
  <2>1. CASE \E how : Stop(how)
    BY <1>1, <1>9, <2>1 DEF Stop, Inherit
  <2>2. CASE ~\E how : Stop(how)
    <3> DEFINE s == run[pc].super
    <3>1. /\ pc \in 1 .. Len(run) /\ pc \in Nat /\ run \in Runs
          /\ UNCHANGED <<run, pc>> /\ member' = 1 /\ s \in 0 .. pc - 1
          /\ DOMAIN klass' = DOMAIN klass /\ Others
          /\ klass'[pc].fields = klass[s].fields
      BY <1>9, <2>2, InheritEffect
    <3>2. \A k \in Laid' : k \in Laid \/ k = pc
      BY <3>1, LineKept, PlaceFacts DEF Laid
    <3>3. ASSUME NEW k \in Laid \ {0}, k # pc
          PROVE  klass'[k].fields = Grown(run[k].t, klass'[run[k].super].fields, Done(k)')
      BY <3>1, <3>3, OtherGrown DEF Others
    <3>4. ASSUME NEW k, k = pc
          PROVE  klass'[k].fields = Grown(run[k].t, klass'[run[k].super].fields, Done(k)')
      <4>1. klass'[s] = klass[s]
        BY <3>1, PlaceFacts DEF Others
      <4>2. Done(k)' = 0
        BY <3>1, <3>4 DEF Done
      <4>3. \A f : Grown(run[k].t, f, 0) = f
        <5>1. Len(MembersOf(run[k].t)) \in Nat
          BY <3>1, <3>4, BodyFacts DEF Body
        <5> QED
          BY <5>1, GrownDef
      <4> QED
        BY <3>1, <3>4, <4>1, <4>2, <4>3
    <3> QED
      BY <3>1, <3>2, <3>3, <3>4 DEF GrowInv
  <2> QED
    BY <2>1, <2>2
<1>10. CASE \E t, s \in DOMAIN klass : CheckInstance(t, s)
  <2>1. PICK t \in DOMAIN klass, s \in DOMAIN klass : CheckInstance(t, s)
    BY <1>10
  <2> QED
    BY <2>1, CheckEffect, GrowStop
<1>11. CASE UNCHANGED vars
  BY <1>1, <1>11 DEF vars
<1> QED
  BY <1>3, <1>4, <1>5, <1>6, <1>7, <1>8, <1>9, <1>10, <1>11 DEF Next

LEMMA InitGrown == Init => GrowInv
<1> SUFFICES ASSUME Init PROVE GrowInv
  OBVIOUS
<1>1. DOMAIN klass = {0}
  BY DEF Init
<1> QED
  BY <1>1 DEF GrowInv, Laid

-----------------------------------------------------------------------------
(* The slot of a reference.                                                *)
LEMMA SlotFound ==
  ASSUME NEW t \in DOMAIN Templates, NEW ref, Has(Pending(t), ref)
  PROVE  /\ SlotOf(t, ref) \in 1 .. Len(Pending(t))
         /\ Pending(t)[SlotOf(t, ref)].this = ref.this
         /\ Pending(t)[SlotOf(t, ref)].name = ref.name
<1> DEFINE s == Pending(t)
           I == {i \in 1 .. Len(s) : s[i].this = ref.this /\ s[i].name = ref.name}
<1>1. Len(s) \in Nat /\ DOMAIN s = 1 .. Len(s)
  BY PendingCovers
<1>2. I # {}
  BY <1>1 DEF Has, Range
<1>3. SlotOf(t, ref) = Min(I)
  BY <1>2 DEF SlotOf, SelectInSeq
<1> HIDE DEF s
<1>4. I \subseteq Nat
  BY <1>1
<1> HIDE DEF I
<1>5. \E x \in I : \A y \in I : x <= y
  BY <1>2, <1>4, NatMin
<1>6. Min(I) \in I
  BY <1>5 DEF Min
<1> QED
  BY <1>3, <1>6 DEF I, s

LEMMA PendingField ==
  ASSUME NEW t \in DOMAIN Templates, NEW j \in 1 .. Len(Pending(t)), Pending(t)[j].this
  PROVE  "field" \in Pending(t)[j].allowed
<1>1. Pending(t)[j] \in Entries(t)
  BY PendingCovers
<1>2. PICK ref : Pending(t)[j] = Entry(ref)
  BY <1>1 DEF Entries
<1> QED
  BY <1>2 DEF Entry, Allowed

-----------------------------------------------------------------------------
(* Slots.  The references of a class are those of its superclass and one   *)
(* for each pending property of its own.  In every class k below class a,  *)
(* the slot of the j-th property of a holds what its code expects there:   *)
(* for super the method that the superclass of a has, for this the field   *)
(* of a, or else the method by that name of k.  Those of the class that is *)
(* being declared are empty until it is closed.                            *)
Offset(a) == Len(klass[run[a].super].refs)

LenOK(k) == Len(klass[k].refs) = Offset(k) + Len(Pending(run[k].t))

SlotOK(k, a, j) ==
  LET p == Pending(run[a].t)[j]
      i == Offset(a) + j
      r == klass[k].refs[i]
      own == klass[a].fields
      above == klass[run[a].super].methods
      methods == klass[k].methods
  IN /\ i \in DOMAIN klass[k].refs /\ DOMAIN r = {"type", "this", "value"}
     /\ ~p.this => /\ r.type = "method" /\ ~r.this
                   /\ p.name \in DOMAIN above /\ r.value = above[p.name]
     /\ p.this /\ p.name \in DOMAIN own => r.type = "field" /\ r.value = own[p.name]
     /\ p.this /\ p.name \notin DOMAIN own =>
          /\ r.type = "method" /\ r.this
          /\ p.name \in DOMAIN methods /\ r.value = methods[p.name]

SlotsOK(k) ==
  /\ LenOK(k)
  /\ \A a \in Line[k] \ {0} : a # pc => \A j \in 1 .. Len(Pending(run[a].t)) : SlotOK(k, a, j)

SlotInv == \A k \in Laid \ {0} : SlotsOK(k)

(* A slot that class k takes over from class h.                            *)
LEMMA SlotMoved ==
  ASSUME NEW k, NEW h, NEW a, NEW j, SlotOK(h, a, j), UNCHANGED run,
         klass'[a].fields = klass[a].fields,
         klass'[run[a].super].refs = klass[run[a].super].refs,
         klass'[run[a].super].methods = klass[run[a].super].methods,
         Offset(a) + j \in DOMAIN klass'[k].refs,
         klass'[k].refs[Offset(a) + j] = klass[h].refs[Offset(a) + j],
         \A n \in DOMAIN klass[h].methods :
           n \in DOMAIN klass'[k].methods /\ klass'[k].methods[n] = klass[h].methods[n]
  PROVE  SlotOK(k, a, j)'
<1>1. Pending(run[a].t)' = Pending(run[a].t) /\ Offset(a)' = Offset(a)
  BY DEF Offset
<1> QED
  BY <1>1 DEF SlotOK

(* A laid class, what it extends, and the classes above.                   *)
LEMMA LaidFacts ==
  ASSUME IInv, NEW k \in Laid \ {0}
  PROVE  /\ run \in Runs /\ pc \in Nat /\ k \in 1 .. Len(run) /\ k \in Nat /\ k <= pc /\ IsClass(k)
         /\ k \in DOMAIN klass
         /\ run[k].super \in Laid /\ run[k].super \in 0 .. k - 1 /\ run[k].super # pc
         /\ Line[k] = {k} \cup Line[run[k].super] /\ Line[run[k].super] \subseteq 0 .. k - 1
         /\ \A a \in Line[k] \ {0} : a \in Laid \ {0} /\ a <= k
<1>1. /\ run \in Runs /\ pc \in Nat /\ k \in 1 .. Len(run) /\ k \in Nat /\ k <= pc /\ IsClass(k)
      /\ k \in DOMAIN klass /\ k # 0
  BY PlaceFacts DEF IInv, Progress, Laid
<1>2. run[k].super \in 0 .. k - 1 /\ IsClass(run[k].super)
  BY <1>1, RunFacts
<1>3. run[k].super \in Laid /\ run[k].super # pc
  <2>1. run[k].super \in 0 .. pc - 1 /\ run[k].super < pc
    BY <1>1, <1>2
  <2> QED
    BY <1>2, <2>1, PlaceFacts DEF Laid
<1>4. Line[k] = {k} \cup Line[run[k].super]
  BY <1>1, LineDef
<1>5. Line[run[k].super] \subseteq 0 .. run[k].super /\ \A a \in Line[run[k].super] : IsClass(a)
  <2>1. run[k].super \in 0 .. Len(run)
    BY <1>1, <1>2
  <2> QED
    BY <1>1, <1>2, <2>1, LineBelow
<1>6. Line[run[k].super] \subseteq 0 .. k - 1
  BY <1>1, <1>2, <1>5
<1>7. ASSUME NEW a \in Line[k] \ {0} PROVE a \in Laid \ {0} /\ a <= k
  <2>1. CASE a = k
    BY <1>1, <2>1
  <2>2. CASE a \in Line[run[k].super]
    <3>1. IsClass(a) /\ a \in 0 .. pc - 1 /\ a < pc /\ a <= k
      BY <1>1, <1>5, <1>6, <2>2
    <3> QED
      BY <3>1, PlaceFacts DEF Laid
  <2> QED
    BY <1>4, <2>1, <2>2
<1> QED
  BY <1>1, <1>2, <1>3, <1>4, <1>6, <1>7

(* The slots of a class whose references stay.                             *)
LEMMA SlotsStay ==
  ASSUME IInv, SlotInv, UNCHANGED run, NEW k \in Laid \ {0},
         \A j \in Laid : j = k \/ j # pc => klass'[j].refs = klass[j].refs,
         \A j \in Laid : j # pc => /\ klass'[j].fields = klass[j].fields
                                   /\ klass'[j].methods = klass[j].methods,
         \A n \in DOMAIN klass[k].methods :
           n \in DOMAIN klass'[k].methods /\ klass'[k].methods[n] = klass[k].methods[n],
         \A a \in Line[k] : a # pc' => a # pc
  PROVE  SlotsOK(k)'
<1>1. SlotsOK(k) /\ klass'[k].refs = klass[k].refs
  BY DEF SlotInv
<1>2. Line' = Line /\ run' = run
  BY LineKept
<1>3. LenOK(k)'
  <2>1. klass'[run[k].super].refs = klass[run[k].super].refs
    BY LaidFacts
  <2> QED
    BY <1>1, <2>1 DEF SlotsOK, LenOK, Offset
<1>4. ASSUME NEW a \in Line[k] \ {0}, a # pc', NEW j \in 1 .. Len(Pending(run[a].t))
      PROVE  SlotOK(k, a, j)'
  <2>1. a # pc /\ SlotOK(k, a, j)
    BY <1>1, <1>4 DEF SlotsOK
  <2>2. a \in Laid \ {0} /\ run[a].super \in Laid /\ run[a].super # pc
    <3>1. a \in Laid \ {0}
      BY LaidFacts
    <3> QED
      BY <3>1, LaidFacts
  <2>3. Offset(a) + j \in DOMAIN klass[k].refs
    BY <2>1 DEF SlotOK
  <2> QED
    BY <1>1, <2>1, <2>2, <2>3, SlotMoved
<1>5. \A a : Pending(run[a].t)' = Pending(run[a].t)
  BY <1>2
<1> QED
  BY <1>2, <1>3, <1>4, <1>5 DEF SlotsOK

(* The steps that change no reference.                                     *)
LEMMA SlotsKept ==
  ASSUME IInv, SlotInv, UNCHANGED run, \A k \in Laid' : k \in Laid,
         \A k \in Laid : /\ klass'[k].refs = klass[k].refs
                         /\ k # pc => /\ klass'[k].fields = klass[k].fields
                                      /\ klass'[k].methods = klass[k].methods
                         /\ k # pc' => k # pc
                         /\ \A n \in DOMAIN klass[k].methods :
                              /\ n \in DOMAIN klass'[k].methods
                              /\ klass'[k].methods[n] = klass[k].methods[n]
  PROVE  SlotInv'
<1>1. ASSUME NEW k \in Laid \ {0} PROVE SlotsOK(k)'
  <2>1. \A a \in Line[k] : a # pc' => a # pc
    <3>1. 0 \in Laid /\ 0 # pc
      BY PlaceFacts, LaidFacts DEF Laid, IsClass
    <3> QED
      BY <3>1, LaidFacts
  <2> QED
    BY <2>1, SlotsStay
<1> QED
  BY <1>1 DEF SlotInv

LEMMA StopSlots ==
  ASSUME IInv, SlotInv, UNCHANGED <<run, pc, member, klass>> PROVE SlotInv'
<1>1. \A k \in Laid' : k \in Laid
  BY DEF Laid, IsClass, TemplateOf
<1> QED
  BY <1>1, SlotsKept

LEMMA CheckSlots ==
  ASSUME IInv, SlotInv, NEW t \in DOMAIN klass, NEW s \in DOMAIN klass, CheckInstance(t, s)
  PROVE  SlotInv'
<1>1. /\ UNCHANGED <<run, pc, member>> /\ DOMAIN klass' = DOMAIN klass
      /\ \A k \in DOMAIN klass :
           /\ klass'[k].methods = klass[k].methods /\ klass'[k].fields = klass[k].fields
           /\ klass'[k].refs = klass[k].refs
  BY CheckEffect
<1>2. \A k \in Laid' : k \in Laid
  BY <1>1 DEF Laid, IsClass, TemplateOf
<1>3. \A k \in Laid : k \in DOMAIN klass
  BY DEF Laid
<1> QED
  BY <1>1, <1>2, <1>3, SlotsKept

(* A member that leaves the references and at most adds a method.          *)
LEMMA MemberSlots ==
  ASSUME IInv, SlotInv, Running, member > 0, member <= Len(MembersOf(Decl.t)),
         UNCHANGED <<run, pc>>, member' = member + 1, DOMAIN klass' = DOMAIN klass, Others,
         klass'[pc].refs = klass[pc].refs,
         \A n \in DOMAIN klass[pc].methods :
           n \in DOMAIN klass'[pc].methods /\ klass'[pc].methods[n] = klass[pc].methods[n]
  PROVE  SlotInv'
<1>1. Laid' = Laid
  BY MemberBuilt
<1>2. \A k \in Laid : k \in DOMAIN klass
  BY DEF Laid
<1>3. \A k \in Laid : k # pc => klass'[k] = klass[k]
  BY <1>2 DEF Others
<1> QED
  BY <1>1, <1>3, SlotsKept

LEMMA FieldSlots == ASSUME IInv, SlotInv, DefineField PROVE SlotInv'
<1>1. /\ Running /\ member > 0 /\ member <= Len(MembersOf(Decl.t))
      /\ UNCHANGED <<run, pc>> /\ member' = member + 1
      /\ DOMAIN klass' = DOMAIN klass /\ Others
      /\ klass'[pc].methods = klass[pc].methods /\ klass'[pc].refs = klass[pc].refs
  BY FieldEffect
<1> QED
  BY <1>1, MemberSlots

LEMMA AbstractSlots == ASSUME IInv, SlotInv, AddAbstractMethod PROVE SlotInv'
<1>1. CASE \E how : Stop(how)
  BY <1>1, StopSlots DEF Stop, AddAbstractMethod
<1>2. CASE ~\E how : Stop(how)
  <2>1. /\ Running /\ member > 0 /\ member <= Len(MembersOf(Decl.t))
        /\ UNCHANGED <<run, pc>> /\ member' = member + 1
        /\ DOMAIN klass' = DOMAIN klass /\ Others /\ klass'[pc].refs = klass[pc].refs
        /\ Member.name \in DOMAIN klass[pc].methods => klass'[pc].methods = klass[pc].methods
        /\ Member.name \notin DOMAIN klass[pc].methods =>
             klass'[pc].methods = With(klass[pc].methods, Member.name, NewMethodDesc)
    BY <1>2, AbstractEffect
  <2>2. \A n \in DOMAIN klass[pc].methods :
          n \in DOMAIN klass'[pc].methods /\ klass'[pc].methods[n] = klass[pc].methods[n]
    BY <2>1 DEF With
  <2> QED
    BY <2>1, <2>2, MemberSlots
<1> QED
  BY <1>1, <1>2

LEMMA DeclareSlots == ASSUME IInv, SlotInv, Declare PROVE SlotInv'
<1>1. /\ pc \in 1 .. Len(run) /\ pc \in Nat
      /\ UNCHANGED <<run, pc>> /\ member' = (IF IsClass(pc) THEN 0 ELSE 1)
      /\ DOMAIN klass = 0 .. pc - 1 /\ DOMAIN klass' = 0 .. pc /\ Others
  BY DeclareEffect
<1>2. \A k \in Laid' : k \in Laid /\ k # pc
  BY <1>1, LineKept DEF Laid
<1>3. \A k \in Laid : k # pc /\ k \in DOMAIN klass
  BY <1>1 DEF Laid
<1>4. \A k \in Laid : klass'[k] = klass[k]
  BY <1>1, <1>3 DEF Others
<1> QED
  BY <1>1, <1>2, <1>3, <1>4, SlotsKept

LEMMA InterfaceSlots == ASSUME IInv, SlotInv, EndInterface PROVE SlotInv'
<1>1. /\ pc \in 1 .. Len(run) /\ pc \in Nat /\ ~IsClass(pc)
      /\ UNCHANGED run /\ pc' = pc + 1 /\ member' = -1
      /\ DOMAIN klass' = DOMAIN klass /\ Others
  BY InterfaceEffect
<1>2. \A k \in Laid' : k \in Laid
  BY <1>1, LineKept, PlaceFacts DEF Laid
<1>3. \A k \in Laid : k # pc /\ k \in DOMAIN klass
  BY <1>1 DEF Laid
<1>4. \A k \in Laid : klass'[k] = klass[k]
  BY <1>1, <1>3 DEF Others
<1> QED
  BY <1>1, <1>2, <1>3, <1>4, SlotsKept

(* How far the classes are after a member, and after the end of a class.   *)
LEMMA DoneNext ==
  ASSUME IInv, Running, member > 0, member <= Len(MembersOf(Decl.t)),
         UNCHANGED <<run, pc>>, member' = member + 1, DOMAIN klass' = DOMAIN klass
  PROVE  /\ Laid' = Laid
         /\ \A k \in Laid \ {0} : \A at \in 1 .. Done(k)' :
              at \in 1 .. Done(k) \/ (k = pc /\ at = member)
<1>1. Laid' = Laid
  BY MemberBuilt
<1>2. pc \in Nat /\ member \in Nat /\ member > 0
  BY MemberFacts
<1>3. ASSUME NEW k \in Laid \ {0}, NEW at \in 1 .. Done(k)'
      PROVE  at \in 1 .. Done(k) \/ (k = pc /\ at = member)
  <2>1. k \in Nat /\ k <= pc
    BY LaidFacts
  <2>2. CASE k < pc
    BY <2>2 DEF Done, Body, MembersOf
  <2>3. CASE k = pc
    <3>1. Done(k)' = member /\ Done(k) = member - 1
      BY <1>2, <2>3 DEF Done
    <3>2. at \in 1 .. member
      BY <3>1
    <3> QED
      BY <1>2, <2>3, <3>1, <3>2
  <2> QED
    BY <1>2, <2>1, <2>2, <2>3
<1> QED
  BY <1>1, <1>3

LEMMA DoneEnd ==
  ASSUME IInv, pc \in 1 .. Len(run), member = Len(MembersOf(Decl.t)) + 1, UNCHANGED run,
         pc' = pc + 1, member' = -1, DOMAIN klass' = DOMAIN klass
  PROVE  /\ Laid' = Laid
         /\ \A k \in Laid \ {0} : Done(k)' = Done(k)
<1>1. /\ run \in Runs /\ pc \in Nat /\ pc \in DOMAIN klass /\ Len(MembersOf(Decl.t)) \in Nat
      /\ \A k \in DOMAIN klass : k \in Nat /\ k <= pc
  <2>1. run \in Runs /\ pc \in Nat /\ pc <= Len(run) /\ \A k \in DOMAIN klass : k \in Nat /\ k <= pc
    BY PlaceFacts DEF IInv, Progress
  <2>2. Len(MembersOf(Decl.t)) \in Nat
    BY <2>1, PlaceFacts
  <2>3. member # -1
    BY <2>2
  <2> QED
    BY <2>1, <2>2, <2>3, PlaceFacts
<1>2. member > 0
  BY <1>1
<1>3. Laid' = Laid
  BY <1>1, <1>2, LineKept DEF Laid
<1>4. ASSUME NEW k \in Laid \ {0} PROVE Done(k)' = Done(k)
  <2>1. k \in Nat /\ k <= pc
    BY LaidFacts
  <2>2. CASE k < pc
    BY <1>1, <2>1, <2>2 DEF Done, Body, MembersOf
  <2>3. CASE k = pc
    <3>1. Body(k) = MembersOf(Decl.t) /\ Body(k)' = Body(k)
      BY <2>3 DEF Body, Decl, MembersOf
    <3> QED
      BY <1>1, <2>3, <3>1 DEF Done
  <2> QED
    BY <1>1, <2>1, <2>2, <2>3
<1> QED
  BY <1>3, <1>4

(* What INHERIT is executed for, and the classes that it finds.            *)
LEMMA LaidNext ==
  ASSUME IInv, pc \in DOMAIN klass, pc \in Nat, IsClass(pc), member = 0, member' = 1,
         UNCHANGED <<run, pc>>, DOMAIN klass' = DOMAIN klass
  PROVE  /\ \A k \in Laid' : k = pc \/ k \in Laid
         /\ \A k \in Laid : k \in Laid' /\ k < pc /\ k # pc /\ k \in DOMAIN klass
<1>1. \A k \in DOMAIN klass : k \in Nat /\ k <= pc
  BY PlaceFacts
<1>2. \A k \in Laid : k < pc /\ k # pc /\ k \in DOMAIN klass /\ IsClass(k)
  BY DEF Laid
<1>3. \A k : IsClass(k)' <=> IsClass(k)
  BY LineKept
<1>4. \A k \in Laid' : k \in DOMAIN klass /\ IsClass(k)
  BY <1>3 DEF Laid
<1>5. \A k \in DOMAIN klass : k # pc => k < pc
  BY <1>1
<1> QED
  BY <1>2, <1>3, <1>4, <1>5 DEF Laid

(* INHERIT: the references of the superclass, and empty ones.              *)
LEMMA InheritSlots == ASSUME IInv, RefInv, SlotInv, Inherit PROVE SlotInv'
<1>1. CASE \E how : Stop(how)
  BY <1>1, StopSlots DEF Stop, Inherit
<1>2. CASE ~\E how : Stop(how)
  <2> DEFINE s == run[pc].super
             refs == klass[s].refs
             own == [i \in 1 .. Len(Pending(run[pc].t)) |-> Unset]
             r == AddInterfaces(klass[s].methods, Added(s, run[pc].impl))
  <2>1. /\ pc \in DOMAIN klass /\ pc \in 1 .. Len(run) /\ pc \in Nat /\ run \in Runs /\ IsClass(pc)
        /\ member = 0 /\ UNCHANGED <<run, pc>> /\ member' = 1
        /\ s \in 0 .. pc - 1 /\ s \in Laid
        /\ DOMAIN klass' = DOMAIN klass /\ Others
        /\ r.how = "running" /\ klass'[pc].methods = r.methods
        /\ klass'[pc].refs = refs \o own
    BY <1>2, InheritEffect
  <2>2. \A k \in Laid' : k = pc \/ k \in Laid
    BY <2>1, LaidNext
  <2>3. \A k \in Laid : k # pc /\ k \in DOMAIN klass
    BY <2>1, LaidNext
  <2>4. \A k \in Laid : klass'[k] = klass[k]
    BY <2>1, <2>3 DEF Others
  <2>5. ASSUME NEW k \in Laid \ {0} PROVE SlotsOK(k)'
    BY <2>1, <2>3, <2>4, SlotsStay
  <2>6. /\ refs \in Seq(Range(refs)) /\ Len(refs) \in Nat /\ DOMAIN refs = 1 .. Len(refs)
        /\ Len(Pending(run[pc].t)) \in Nat
    <3>1. s \in DOMAIN klass /\ run[pc].t \in DOMAIN Templates
      BY <2>1, BodyFacts DEF Laid
    <3> QED
      BY <3>1, SequenceFacts, PendingCovers DEF RefInv, RefsOK, ASequence
  <2>7. /\ Len(refs \o own) = Len(refs) + Len(Pending(run[pc].t))
        /\ DOMAIN (refs \o own) = 1 .. Len(refs) + Len(Pending(run[pc].t))
        /\ \A i \in 1 .. Len(refs) : (refs \o own)[i] = refs[i]
    <3>1. own \in Seq({Unset}) /\ Len(own) = Len(Pending(run[pc].t))
      BY <2>6
    <3> HIDE DEF own, refs
    <3> QED
      BY <2>6, <3>1
  <2>8. \A n \in DOMAIN klass[s].methods : n \in DOMAIN r.methods /\ r.methods[n] = klass[s].methods[n]
    <3>1. Len(Added(s, run[pc].impl)) \in Nat
      <4>1. /\ klass[s].rss \in Seq(0 .. s) /\ run[pc].impl \in Seq(1 .. pc - 1)
        BY <2>1, RunFacts DEF IInv, Shape, Laid
      <4> DEFINE S == 0 .. pc
      <4>2. pc \in Nat /\ s \in 0 .. pc - 1
        BY <2>1
      <4> HIDE DEF s
      <4>3. 0 .. s \subseteq S /\ 1 .. pc - 1 \subseteq S /\ s \in S
        BY <4>2
      <4> HIDE DEF S
      <4>4. \A T : T \subseteq S => \A q \in Seq(T) : q \in Seq(S)
        OBVIOUS
      <4>5. klass[s].rss \in Seq(S) /\ run[pc].impl \in Seq(S)
        BY <4>1, <4>3, <4>4
      <4> QED
        BY <4>3, <4>5, AddedFacts
    <3> HIDE DEF r, s
    <3>2. \A m, added : Len(added) \in Nat /\ AddInterfaces(m, added).how = "running" =>
            \A n \in DOMAIN m : /\ n \in DOMAIN AddInterfaces(m, added).methods
                                /\ AddInterfaces(m, added).methods[n] = m[n]
      BY AddedMethods
    <3> QED
      BY <2>1, <3>1, <3>2 DEF r
  <2>9. ASSUME NEW k, k = pc PROVE SlotsOK(k)'
    <3> HIDE DEF refs, own
    <3>1. /\ klass'[run[k].super].refs = klass[run[k].super].refs
          /\ klass'[k].refs = refs \o own /\ Offset(k)' = Len(refs)
      BY <2>1, <2>4, <2>9 DEF Offset, refs
    <3>2. LenOK(k)'
      BY <2>1, <2>7, <2>9, <3>1 DEF LenOK
    <3>3. Line'[k] = {k} \cup Line[s] /\ k # 0
      BY <2>1, <2>9, LineKept, LineDef
    <3>4. ASSUME NEW a \in Line'[k] \ {0}, a # pc', NEW j \in 1 .. Len(Pending(run[a].t))
          PROVE  SlotOK(k, a, j)'
      <4>1. a \in Line[s] /\ a # 0
        BY <2>1, <2>9, <3>3, <3>4
      <4>2. s \in Laid \ {0}
        BY <2>1, <4>1, LineDef
      <4>3. a \in Laid \ {0} /\ a # pc
        BY <2>3, <4>1, <4>2, LaidFacts
      <4>4. SlotOK(s, a, j)
        BY <4>1, <4>2, <4>3 DEF SlotInv, SlotsOK
      <4>5. run[a].super \in Laid
        BY <4>3, LaidFacts
      <4>6. Offset(a) + j \in DOMAIN refs
        BY <4>4 DEF SlotOK, refs
      <4>7. /\ Offset(a) + j \in DOMAIN klass'[k].refs
            /\ klass'[k].refs[Offset(a) + j] = klass[s].refs[Offset(a) + j]
        <5>1. \A i \in DOMAIN refs : i \in DOMAIN (refs \o own) /\ (refs \o own)[i] = refs[i]
          BY <2>6, <2>7
        <5> QED
          BY <3>1, <4>6, <5>1 DEF refs
      <4>8. \A n \in DOMAIN klass[s].methods :
              n \in DOMAIN klass'[k].methods /\ klass'[k].methods[n] = klass[s].methods[n]
        BY <2>1, <2>8, <2>9
      <4> HIDE DEF s, r
      <4> QED
        BY <2>1, <2>4, <4>3, <4>4, <4>5, <4>7, <4>8, SlotMoved
    <3> QED
      BY <2>1, <3>2, <3>4 DEF SlotsOK
  <2> QED
    BY <2>2, <2>5, <2>9 DEF SlotInv
<1> QED
  BY <1>1, <1>2

(* METHOD: the references to the method that is replaced are those of its  *)
(* name.                                                                   *)
LEMMA MethodSlots == ASSUME IInv, RefInv, MethodInv, SlotInv, DefineMethod PROVE SlotInv'
<1>1. CASE Stop("mismatch")
  BY <1>1, StopSlots DEF Stop, DefineMethod
<1>2. CASE ~Stop("mismatch")
  <2> DEFINE n == Member.name
             M == klass[pc].methods
             N == klass'[pc].methods
             s == run[pc].super
  <2>1. /\ Running /\ member > 0 /\ member <= Len(MembersOf(Decl.t)) /\ Member.k = "method"
        /\ UNCHANGED <<run, pc>> /\ member' = member + 1
        /\ DOMAIN klass' = DOMAIN klass /\ Others
        /\ N = With(M, n, NewMethod)
        /\ n \in DOMAIN M => klass'[pc].refs = ReplaceRefs(klass[pc], M[n], NewMethod)
        /\ n \notin DOMAIN M => klass'[pc].refs = klass[pc].refs
    BY <1>2, MethodEffect
  <2>2. CASE n \notin DOMAIN M
    <3>1. \A x \in DOMAIN M : x \in DOMAIN N /\ N[x] = M[x]
      BY <2>1, <2>2 DEF With
    <3> QED
      BY <2>1, <2>2, <3>1, MemberSlots
  <2>3. CASE n \in DOMAIN M
    <3>1. /\ pc \in Laid \ {0} /\ pc \in Built /\ klass[pc].super = s /\ pc \in 1 .. Len(run)
          /\ Laid' = Laid
      <4>1. pc \in Laid \ {0} /\ pc \in Built /\ pc \in DOMAIN klass /\ pc \in 1 .. Len(run)
        BY <2>1, MemberFacts
      <4>2. klass[pc].super = s
        BY <4>1 DEF RefInv, RefsOK
      <4> QED
        BY <2>1, <4>1, <4>2, MemberBuilt
    <3>2. ASSUME NEW k \in Laid \ {0}, k # pc PROVE SlotsOK(k)'
      <4>1. \A j \in Laid : j \in DOMAIN klass
        BY DEF Laid
      <4>2. \A j \in Laid : j # pc => klass'[j] = klass[j]
        BY <2>1, <4>1 DEF Others
      <4>3. pc' = pc /\ UNCHANGED run
        BY <2>1
      <4> QED
        BY <3>2, <4>2, <4>3, SlotsStay
    <3>3. ASSUME NEW k, k = pc PROVE SlotsOK(k)'
      <4>1. /\ s \in Laid /\ s \in 0 .. k - 1 /\ s # pc /\ k \in Laid \ {0}
            /\ Line[k] = {k} \cup Line[s]
            /\ \A a \in Line[k] \ {0} : a \in Laid \ {0} /\ a <= k
        BY <3>1, <3>3, LaidFacts
      <4>2. \A j \in Laid : j # pc => klass'[j] = klass[j]
        BY <2>1 DEF Laid, Others
      <4>3. klass'[k].refs =
              [i \in DOMAIN klass[k].refs |->
                 IF i <= Len(klass[s].refs) /\ klass[k].refs[i].this
                    /\ klass[k].refs[i].type = "method" /\ klass[k].refs[i].value = M[n]
                 THEN [klass[k].refs[i] EXCEPT !.value = NewMethod] ELSE klass[k].refs[i]]
        BY <2>1, <2>3, <3>1, <3>3 DEF ReplaceRefs
      <4>4. SlotsOK(k)
        BY <3>1, <3>3 DEF SlotInv
      <4>5. Line' = Line /\ run' = run /\ pc' = pc /\ \A a : Pending(run[a].t)' = Pending(run[a].t)
        BY <2>1, LineKept
      <4>6. LenOK(k)'
        <5>1. Len(klass'[k].refs) = Len(klass[k].refs)
          <6>1. klass[k].refs \in Seq(Range(klass[k].refs))
            BY <3>1, <3>3 DEF RefInv, RefsOK, ASequence, Laid
          <6>2. Len(klass[k].refs) \in Nat /\ DOMAIN klass[k].refs = 1 .. Len(klass[k].refs)
            BY <6>1
          <6>3. klass'[k].refs = [i \in 1 .. Len(klass[k].refs) |-> klass'[k].refs[i]]
            BY <4>3, <6>2
          <6> QED
            BY <6>2, <6>3, SequenceByDomain
        <5>2. klass'[s] = klass[s]
          BY <4>1, <4>2
        <5> QED
          BY <3>3, <4>4, <4>5, <5>1, <5>2 DEF SlotsOK, LenOK, Offset
      <4>7. \A x \in DOMAIN M : M[x] = M[n] => x = n
        <5>1. NamesOK(pc)
          BY <3>1 DEF MethodInv, MethodsOK
        <5> QED
          BY <2>3, <5>1 DEF NamesOK
      <4>8. N[n] = NewMethod /\ \A x \in DOMAIN M : x \in DOMAIN N /\ (x # n => N[x] = M[x])
        BY <2>1 DEF With
      <4>9. ASSUME NEW a \in Line[k] \ {0}, a # pc', NEW j \in 1 .. Len(Pending(run[a].t))
            PROVE  SlotOK(k, a, j)'
        <5> DEFINE p == Pending(run[a].t)[j]
                   i == Offset(a) + j
                   r == klass[k].refs[i]
                   q == klass'[k].refs[i]
                   above == klass[run[a].super].methods
                   own == klass[a].fields
        <5>1. /\ a \in Line[s] \ {0} /\ a # pc /\ a \in Laid \ {0} /\ s \in Laid \ {0}
              /\ run[a].super \in Laid /\ run[a].super # pc
          <6>1. a \in Line[s] \ {0} /\ a # pc /\ a \in Laid \ {0}
            BY <3>3, <4>1, <4>5, <4>9
          <6>2. s # 0
            BY <3>1, <6>1, LineDef, LaidFacts
          <6> QED
            BY <4>1, <6>1, <6>2, LaidFacts
        <5>2. SlotOK(s, a, j)
          BY <5>1 DEF SlotInv, SlotsOK
        <5>3. SlotOK(k, a, j)
          BY <4>1, <4>4, <5>1 DEF SlotsOK
        <5>4. i <= Len(klass[s].refs)
          <6>1. klass[s].refs \in Seq(Range(klass[s].refs))
            BY <5>1 DEF RefInv, RefsOK, ASequence, Laid
          <6>2. DOMAIN klass[s].refs = 1 .. Len(klass[s].refs) /\ Len(klass[s].refs) \in Nat
            BY <6>1
          <6>3. i \in DOMAIN klass[s].refs
            BY <5>2 DEF SlotOK
          <6> QED
            BY <6>2, <6>3
        <5>5. /\ i \in DOMAIN klass[k].refs /\ DOMAIN r = {"type", "this", "value"}
              /\ ~p.this => /\ r.type = "method" /\ ~r.this
                            /\ p.name \in DOMAIN above /\ r.value = above[p.name]
              /\ p.this /\ p.name \in DOMAIN own => r.type = "field" /\ r.value = own[p.name]
              /\ p.this /\ p.name \notin DOMAIN own =>
                   /\ r.type = "method" /\ r.this
                   /\ p.name \in DOMAIN M /\ r.value = M[p.name]
          BY <3>3, <5>3 DEF SlotOK
        <5>6. q = IF r.this /\ r.type = "method" /\ r.value = M[n]
                  THEN [r EXCEPT !.value = NewMethod] ELSE r
          <6>1. i \in DOMAIN klass[k].refs /\ i <= Len(klass[s].refs)
            BY <5>4, <5>5
          <6> HIDE DEF i, s, n
          <6> QED
            BY <4>3, <6>1
        <5> HIDE DEF i, r, q, p, own, above, M, N, n, s
        <5>7. DOMAIN klass'[k].refs = DOMAIN klass[k].refs
          BY <4>3
        <5>8. DOMAIN q = {"type", "this", "value"} /\ q.type = r.type /\ q.this = r.this
          BY <5>5, <5>6
        <5>9. ~(r.this /\ r.type = "method" /\ r.value = M[n]) => q = r
          BY <5>6
        <5>10. p.this /\ p.name \notin DOMAIN own => p.name \in DOMAIN N /\ q.value = N[p.name]
          <6>1. CASE p.name = n
            BY <4>8, <5>5, <5>6, <6>1
          <6>2. CASE p.name # n
            BY <4>7, <4>8, <5>5, <5>9, <6>2
          <6> QED
            BY <6>1, <6>2
        <5>11. /\ ~p.this => q = r
               /\ p.this /\ p.name \in DOMAIN own => q = r
          BY <5>5, <5>9
        <5>12. /\ i \in DOMAIN klass'[k].refs /\ DOMAIN q = {"type", "this", "value"}
               /\ ~p.this => /\ q.type = "method" /\ ~q.this
                             /\ p.name \in DOMAIN above /\ q.value = above[p.name]
               /\ p.this /\ p.name \in DOMAIN own => q.type = "field" /\ q.value = own[p.name]
               /\ p.this /\ p.name \notin DOMAIN own =>
                    /\ q.type = "method" /\ q.this
                    /\ p.name \in DOMAIN N /\ q.value = N[p.name]
          BY <5>5, <5>7, <5>8, <5>10, <5>11
        <5>13. /\ klass'[run[a].super] = klass[run[a].super] /\ klass'[a] = klass[a]
               /\ Offset(a)' = Offset(a) /\ klass'[k].methods = N
          BY <3>3, <4>2, <4>5, <5>1 DEF Offset, N
        <5> QED
          BY <4>5, <5>12, <5>13 DEF SlotOK, i, q, p, own, above
      <4> QED
        BY <4>5, <4>6, <4>9 DEF SlotsOK
    <3> QED
      BY <3>1, <3>2, <3>3 DEF SlotInv
  <2> QED
    BY <2>2, <2>3
<1> QED
  BY <1>1, <1>2

(* CLOSE_CLASS: the slots of the class itself.                             *)
LEMMA CloseSlots == ASSUME IInv, RefInv, SlotInv, CloseClass PROVE SlotInv'
<1>1. CASE \E how : Stop(how)
  BY <1>1, StopSlots DEF Stop, CloseClass
<1>2. CASE ~\E how : Stop(how)
  <2> DEFINE c == klass[pc]
             s == run[pc].super
             n == Len(klass[s].refs)
             pending == Pending(run[pc].t)
  <2>1. /\ pc \in Laid \ {0} /\ pc \in 1 .. Len(run) /\ pc \in Nat /\ run \in Runs /\ IsClass(pc)
        /\ member = Len(MembersOf(Decl.t)) + 1
        /\ UNCHANGED run /\ pc' = pc + 1 /\ member' = -1
        /\ DOMAIN klass' = DOMAIN klass /\ Others
        /\ klass'[pc].refs = [i \in DOMAIN c.refs |->
                                IF i <= n THEN c.refs[i] ELSE ResolveMember(c, pending[i - n])]
        /\ \A i \in DOMAIN klass'[pc].refs : klass'[pc].refs[i].type # "none"
        /\ klass'[pc].methods = c.methods /\ klass'[pc].fields = c.fields
    BY <1>2, CloseEffect
  <2>2. \A k \in Laid' : k \in Laid
    BY <2>1, DoneEnd
  <2>3. \A k \in Laid : k # pc => klass'[k] = klass[k]
    BY <2>1 DEF Laid, Others
  <2>4. ASSUME NEW k \in Laid \ {0}, k # pc PROVE SlotsOK(k)'
    <3>1. \A a \in Line[k] : a # pc
      <4>1. k <= pc /\ Line[k] \subseteq 0 .. k
        <5>1. k \in 0 .. Len(run) /\ k <= pc
          BY LaidFacts, PlaceFacts
        <5> QED
          BY <2>1, <5>1, LineBelow
      <4>2. k \in Nat /\ pc \in Nat /\ k # pc
        BY <2>4, LaidFacts
      <4>3. pc \notin 0 .. k
        BY <4>1, <4>2
      <4> QED
        BY <4>1, <4>3
    <3> QED
      BY <2>1, <2>3, <2>4, <3>1, SlotsStay
  <2>5. ASSUME NEW k, k = pc PROVE SlotsOK(k)'
    <3>1. /\ s \in Laid /\ s \in 0 .. k - 1 /\ s # pc /\ k \in Laid \ {0}
          /\ Line[k] = {k} \cup Line[s]
          /\ \A a \in Line[k] \ {0} : a \in Laid \ {0} /\ a <= k
      BY <2>1, <2>5, LaidFacts
    <3>2. Line' = Line /\ run' = run /\ \A a : Pending(run[a].t)' = Pending(run[a].t)
      BY <2>1, LineKept
    <3>3. SlotsOK(k) /\ klass'[s] = klass[s]
      BY <2>1, <2>3, <2>5, <3>1 DEF SlotInv
    <3>4. /\ Len(klass[k].refs) \in Nat /\ DOMAIN klass[k].refs = 1 .. Len(klass[k].refs)
          /\ n \in Nat /\ Len(pending) \in Nat
          /\ Len(klass[k].refs) = n + Len(pending)
          /\ DOMAIN klass[s].refs = 1 .. n
      <4>1. ASequence(klass[k].refs) /\ ASequence(klass[s].refs)
        BY <3>1 DEF RefInv, RefsOK, Laid
      <4>2. Len(pending) \in Nat
        BY <2>1, BodyFacts, PendingCovers
      <4>3. Len(klass[k].refs) = n + Len(pending)
        BY <2>5, <3>3 DEF SlotsOK, LenOK, Offset
      <4> HIDE DEF s, pending
      <4> QED
        BY <4>1, <4>2, <4>3, SequenceFacts
    <3>5. LenOK(k)'
      <4>1. klass'[k].refs = [i \in 1 .. Len(klass[k].refs) |-> klass'[k].refs[i]]
        BY <2>1, <2>5, <3>4
      <4>2. Len(klass'[k].refs) = Len(klass[k].refs)
        BY <3>4, <4>1, SequenceByDomain
      <4> QED
        BY <2>5, <3>2, <3>3, <4>2 DEF SlotsOK, LenOK, Offset
    <3>6. ASSUME NEW a \in Line[k] \ {0}, a # k, NEW j \in 1 .. Len(Pending(run[a].t))
          PROVE  SlotOK(k, a, j)'
      <4>1. /\ a \in Line[s] \ {0} /\ a # pc /\ a \in Laid \ {0} /\ s \in Laid \ {0}
            /\ run[a].super \in Laid /\ run[a].super # pc
        <5>1. a \in Line[s] \ {0} /\ a # pc /\ a \in Laid \ {0}
          BY <2>5, <3>1, <3>6
        <5>2. s # 0
          BY <2>1, <5>1, LineDef
        <5> QED
          BY <3>1, <5>1, <5>2, LaidFacts
      <4>2. SlotOK(s, a, j) /\ SlotOK(k, a, j)
        BY <3>1, <3>3, <4>1 DEF SlotInv, SlotsOK
      <4>3. Offset(a) + j \in 1 .. n /\ Offset(a) + j \in DOMAIN klass[k].refs
        BY <3>4, <4>2 DEF SlotOK
      <4>4. /\ Offset(a) + j \in DOMAIN klass'[k].refs
            /\ klass'[k].refs[Offset(a) + j] = klass[k].refs[Offset(a) + j]
        <5> DEFINE x == Offset(a) + j
        <5>1. x \in DOMAIN klass[k].refs /\ x <= n
          BY <4>3
        <5> HIDE DEF x, n, s, pending
        <5>2. x \in DOMAIN klass'[k].refs /\ klass'[k].refs[x] = klass[k].refs[x]
          BY <2>1, <2>5, <5>1
        <5> QED
          BY <5>2 DEF x
      <4>5. klass'[k].methods = klass[k].methods
        BY <2>1, <2>5
      <4>6. klass'[a] = klass[a] /\ klass'[run[a].super] = klass[run[a].super]
        BY <2>3, <4>1
      <4> QED
        BY <2>1, <4>2, <4>4, <4>5, <4>6, SlotMoved
    <3>7. ASSUME NEW j \in 1 .. Len(pending) PROVE SlotOK(k, k, j)'
      <4> DEFINE p == pending[j]
                 q == klass'[k].refs[n + j]
      <4>1. n + j \in DOMAIN klass[k].refs /\ ~(n + j <= n) /\ (n + j) - n = j
        <5>1. j \in 1 .. Len(pending) /\ DOMAIN klass[k].refs = 1 .. n + Len(pending)
          BY <3>4
        <5> HIDE DEF n, pending
        <5> QED
          BY <3>4, <5>1
      <4>2. n + j \in DOMAIN klass'[k].refs /\ q = ResolveMember(klass[k], p)
        BY <2>1, <2>5, <4>1
      <4>3. q.type # "none"
        BY <2>1, <2>5, <4>2
      <4>4. p.this => "field" \in p.allowed
        BY <2>1, BodyFacts, PendingField
      <4>5. klass[k].super = s
        BY <2>5, <3>1 DEF RefInv, RefsOK, Laid
      <4> HIDE DEF p, q
      <4>6. /\ DOMAIN q = {"type", "this", "value"}
            /\ ~p.this => /\ q.type = "method" /\ ~q.this
                          /\ p.name \in DOMAIN klass[s].methods /\ q.value = klass[s].methods[p.name]
            /\ p.this /\ p.name \in DOMAIN klass[k].fields =>
                 q.type = "field" /\ q.value = klass[k].fields[p.name]
            /\ p.this /\ p.name \notin DOMAIN klass[k].fields =>
                 /\ q.type = "method" /\ q.this
                 /\ p.name \in DOMAIN klass[k].methods /\ q.value = klass[k].methods[p.name]
        BY <4>2, <4>3, <4>4, <4>5 DEF ResolveMember
      <4>7. /\ klass'[k].methods = klass[k].methods /\ klass'[k].fields = klass[k].fields
            /\ Offset(k)' = n /\ klass'[run[k].super] = klass[s]
        BY <2>1, <2>5, <3>2, <3>3 DEF Offset
      <4>8. Pending(run[k].t)'[j] = p
        BY <2>5, <3>2 DEF p
      <4> QED
        BY <2>5, <3>2, <4>2, <4>6, <4>7, <4>8 DEF SlotOK, q
    <3> QED
      BY <2>5, <3>2, <3>5, <3>6, <3>7 DEF SlotsOK
  <2> QED
    BY <2>2, <2>4, <2>5 DEF SlotInv
<1> QED
  BY <1>1, <1>2

(* Every instruction keeps the slots.                                      *)
LEMMA SlotInductive == IInv /\ RefInv /\ MethodInv /\ SlotInv /\ [Next]_vars => SlotInv'
<1> SUFFICES ASSUME IInv, RefInv, MethodInv, SlotInv, [Next]_vars PROVE SlotInv'
  OBVIOUS
<1>1. CASE \E t, s \in DOMAIN klass : CheckInstance(t, s)
  BY <1>1, CheckSlots
<1>2. CASE UNCHANGED vars
  BY <1>2, StopSlots DEF vars
<1> QED
  BY <1>1, <1>2, DeclareSlots, InheritSlots, FieldSlots, MethodSlots, AbstractSlots, CloseSlots,
     InterfaceSlots DEF Next

LEMMA InitSlots == Init => SlotInv
<1> SUFFICES ASSUME Init PROVE SlotInv
  OBVIOUS
<1>1. DOMAIN klass = {0}
  BY DEF Init
<1> QED
  BY <1>1 DEF SlotInv, Laid

-----------------------------------------------------------------------------
(* Function objects.  A method that has been executed has one, which       *)
(* refers to a class that its template made, by the offset of that class.  *)
CodeInv ==
  /\ \A f \in DOMAIN code : /\ code[f].parent \in Laid \ {0}
                            /\ run[code[f].parent].t = f[1]
                            /\ code[f].refOffset = Offset(code[f].parent)
  /\ \A k \in Laid \ {0} : \A at \in 1 .. Done(k) :
       Body(k)[at].k = "method" => <<run[k].t, at>> \in DOMAIN code

LEMMA CodeKept ==
  ASSUME IInv, CodeInv, UNCHANGED <<run, code>>, \A k \in Laid : k \in Laid',
         \A k \in Laid : k # pc => klass'[k].refs = klass[k].refs,
         \A k \in Laid' \ {0} : \A at \in 1 .. Done(k)' :
           Body(k)[at].k = "method" => k \in Laid /\ at \in 1 .. Done(k)
  PROVE  CodeInv'
<1>1. \A k \in Laid \ {0} : Offset(k)' = Offset(k)
  BY LaidFacts DEF Offset
<1>2. \A k : Body(k)' = Body(k)
  BY DEF Body, MembersOf
<1>3. \A f \in DOMAIN code : /\ code[f].parent \in Laid' \ {0}
                            /\ run[code[f].parent].t = f[1]
                            /\ code[f].refOffset = Offset(code[f].parent)'
  BY <1>1 DEF CodeInv
<1>4. \A k \in Laid' \ {0} : \A at \in 1 .. Done(k)' :
        Body(k)[at].k = "method" => <<run[k].t, at>> \in DOMAIN code
  BY DEF CodeInv
<1> QED
  BY <1>2, <1>3, <1>4 DEF CodeInv

LEMMA StopCode ==
  ASSUME IInv, CodeInv, UNCHANGED <<run, pc, member, code>>, DOMAIN klass' = DOMAIN klass,
         \A k \in DOMAIN klass : klass'[k].refs = klass[k].refs
  PROVE  CodeInv'
<1>1. Laid' = Laid /\ \A k \in Laid : k \in DOMAIN klass
  BY DEF Laid, IsClass, TemplateOf
<1>2. \A k : Done(k)' = Done(k)
  BY DEF Done, Body, MembersOf
<1> QED
  BY <1>1, <1>2, CodeKept

(* A member that is no method.                                             *)
LEMMA MemberCode ==
  ASSUME IInv, CodeInv, Running, member > 0, member <= Len(MembersOf(Decl.t)), Member.k # "method",
         UNCHANGED <<run, pc, code>>, member' = member + 1, DOMAIN klass' = DOMAIN klass, Others
  PROVE  CodeInv'
<1>1. /\ Laid' = Laid
      /\ \A k \in Laid \ {0} : \A at \in 1 .. Done(k)' :
           at \in 1 .. Done(k) \/ (k = pc /\ at = member)
  BY DoneNext
<1>2. Body(pc)[member] = Member
  BY MemberFacts
<1>3. \A k \in Laid : k # pc => klass'[k] = klass[k]
  BY DEF Laid, Others
<1> QED
  BY <1>1, <1>2, <1>3, CodeKept

LEMMA MethodCode == ASSUME IInv, RefInv, CodeInv, DefineMethod PROVE CodeInv'
<1>1. CASE Stop("mismatch")
  BY <1>1, StopCode DEF Stop, DefineMethod
<1>2. CASE ~Stop("mismatch")
  <2> DEFINE s == run[pc].super
             g == <<run[pc].t, member>>
             fn == [parent |-> pc, refOffset |-> Len(klass[s].refs)]
  <2>1. /\ Running /\ member > 0 /\ member <= Len(MembersOf(Decl.t)) /\ Member.k = "method"
        /\ UNCHANGED <<run, pc>> /\ member' = member + 1
        /\ DOMAIN klass' = DOMAIN klass /\ Others
        /\ code' = With(code, <<Decl.t, member>>,
                        [parent |-> pc, refOffset |-> Len(klass[klass[pc].super].refs)])
    BY <1>2, MethodEffect
  <2>2. pc \in Laid \ {0} /\ pc \in DOMAIN klass
    BY <2>1, MemberFacts
  <2>3. klass[pc].super = s
    BY <2>2 DEF RefInv, RefsOK
  <2>4. code' = With(code, g, fn)
    BY <2>1, <2>3 DEF Decl
  <2>5. /\ Laid' = Laid
        /\ \A k \in Laid \ {0} : \A at \in 1 .. Done(k)' :
             at \in 1 .. Done(k) \/ (k = pc /\ at = member)
    BY <2>1, DoneNext
  <2>6. \A k \in Laid \ {0} : Offset(k)' = Offset(k)
    <3>1. \A k \in Laid : k # pc => klass'[k] = klass[k]
      BY <2>1 DEF Laid, Others
    <3> QED
      BY <2>1, <3>1, LaidFacts DEF Offset
  <2>7. \A k : Body(k)' = Body(k)
    BY <2>1 DEF Body, MembersOf
  <2>8. Offset(pc) = Len(klass[s].refs)
    BY DEF Offset
  <2> HIDE DEF s
  <2>9. /\ DOMAIN code' = DOMAIN code \cup {g} /\ code'[g] = fn
        /\ \A f \in DOMAIN code : f # g => code'[f] = code[f]
    BY <2>4 DEF With
  <2>10. ASSUME NEW f \in DOMAIN code'
         PROVE  /\ code'[f].parent \in Laid \ {0}
                /\ run[code'[f].parent].t = f[1]
                /\ code'[f].refOffset = Offset(code'[f].parent)
    <3>1. CASE f = g
      BY <2>2, <2>8, <2>9, <3>1
    <3>2. CASE f # g
      BY <2>9, <2>10, <3>2 DEF CodeInv
    <3> QED
      BY <3>1, <3>2
  <2>11. ASSUME NEW f \in DOMAIN code', NEW x, x = code'[f].parent
         PROVE  /\ x \in Laid' \ {0} /\ run'[x].t = f[1]
                /\ code'[f].refOffset = Offset(x)'
    <3>1. x \in Laid \ {0} /\ run[x].t = f[1] /\ code'[f].refOffset = Offset(x)
      BY <2>10, <2>11
    <3>2. Offset(x)' = Offset(x)
      BY <2>6, <3>1
    <3> QED
      BY <2>1, <2>5, <3>1, <3>2
  <2>12. \A k \in Laid \ {0} : \A at \in 1 .. Done(k)' :
           Body(k)[at].k = "method" => <<run[k].t, at>> \in DOMAIN code'
    <3> SUFFICES ASSUME NEW k \in Laid \ {0}, NEW at \in 1 .. Done(k)', Body(k)[at].k = "method"
                 PROVE  <<run[k].t, at>> \in DOMAIN code'
      OBVIOUS
    <3>1. CASE at \in 1 .. Done(k)
      BY <2>9, <3>1 DEF CodeInv
    <3>2. CASE k = pc /\ at = member
      BY <2>9, <3>2
    <3> QED
      BY <2>5, <3>1, <3>2
  <2>13. \A f \in DOMAIN code' : /\ code'[f].parent \in Laid' \ {0}
                                 /\ run'[code'[f].parent].t = f[1]
                                 /\ code'[f].refOffset = Len(klass'[run'[code'[f].parent].super].refs)
    BY <2>11 DEF Offset
  <2>14. \A k \in Laid' \ {0} : \A at \in 1 .. Done(k)' :
           Body(k)'[at].k = "method" => <<run'[k].t, at>> \in DOMAIN code'
    BY <2>1, <2>5, <2>7, <2>12
  <2> QED
    BY <2>13, <2>14 DEF CodeInv, Offset
<1> QED
  BY <1>1, <1>2

(* Every instruction keeps the function objects.                           *)
LEMMA CodeInductive == IInv /\ RefInv /\ CodeInv /\ [Next]_vars => CodeInv'
<1> SUFFICES ASSUME IInv, RefInv, CodeInv, [Next]_vars PROVE CodeInv'
  OBVIOUS
<1>1. ASSUME UNCHANGED <<run, pc, member, klass, code>> PROVE CodeInv'
  BY <1>1, StopCode
<1>2. CASE Declare
  <2>1. /\ pc \in 1 .. Len(run) /\ pc \in Nat /\ member = -1
        /\ UNCHANGED <<run, pc, code>> /\ member' = (IF IsClass(pc) THEN 0 ELSE 1)
        /\ DOMAIN klass = 0 .. pc - 1 /\ DOMAIN klass' = 0 .. pc /\ Others
    BY <1>2, DeclareEffect
  <2>2. Laid' = Laid /\ \A k \in Laid : k < pc /\ k # pc
    BY <2>1, LineKept DEF Laid
  <2>3. \A k \in Laid : klass'[k] = klass[k]
    BY <2>1, <2>2 DEF Laid, Others
  <2>4. \A k \in Laid : Done(k)' = Done(k)
    BY <2>1, <2>2 DEF Done, Body, MembersOf
  <2> QED
    BY <2>1, <2>2, <2>3, <2>4, CodeKept
<1>3. CASE Inherit
  <2>1. CASE \E how : Stop(how)
    BY <1>1, <1>3, <2>1 DEF Stop, Inherit
  <2>2. CASE ~\E how : Stop(how)
    <3>1. /\ pc \in DOMAIN klass /\ pc \in 1 .. Len(run) /\ pc \in Nat /\ IsClass(pc)
          /\ member = 0 /\ UNCHANGED <<run, pc, code>> /\ member' = 1
          /\ DOMAIN klass' = DOMAIN klass /\ Others
      BY <1>3, <2>2, InheritEffect
    <3>2. \A k \in Laid' : k = pc \/ k \in Laid
      BY <3>1, LineKept, PlaceFacts DEF Laid
    <3>3. \A k \in Laid : k \in Laid' /\ k < pc /\ k # pc
      BY <3>1, LineKept DEF Laid
    <3>4. \A k \in Laid : klass'[k] = klass[k]
      BY <3>1, <3>3 DEF Laid, Others
    <3>5. \A k \in Laid : Done(k)' = Done(k)
      BY <3>1, <3>3 DEF Done, Body, MembersOf
    <3>6. \A k : k = pc => Done(k)' = 0
      BY <3>1 DEF Done
    <3> QED
      BY <3>1, <3>2, <3>3, <3>4, <3>5, <3>6, CodeKept
  <2> QED
    BY <2>1, <2>2
<1>4. CASE DefineField
  <2>1. /\ Running /\ member > 0 /\ member <= Len(MembersOf(Decl.t)) /\ Member.k # "method"
        /\ UNCHANGED <<run, pc, code>> /\ member' = member + 1
        /\ DOMAIN klass' = DOMAIN klass /\ Others
    BY <1>4, FieldEffect
  <2> QED
    BY <2>1, MemberCode
<1>5. CASE DefineMethod
  BY <1>5, MethodCode
<1>6. CASE AddAbstractMethod
  <2>1. CASE \E how : Stop(how)
    BY <1>1, <1>6, <2>1 DEF Stop, AddAbstractMethod
  <2>2. CASE ~\E how : Stop(how)
    <3>1. /\ Running /\ member > 0 /\ member <= Len(MembersOf(Decl.t)) /\ Member.k # "method"
          /\ UNCHANGED <<run, pc, code>> /\ member' = member + 1
          /\ DOMAIN klass' = DOMAIN klass /\ Others
      BY <1>6, <2>2, AbstractEffect
    <3> QED
      BY <3>1, MemberCode
  <2> QED
    BY <2>1, <2>2
<1>7. CASE CloseClass
  <2>1. CASE \E how : Stop(how)
    BY <1>1, <1>7, <2>1 DEF Stop, CloseClass
  <2>2. CASE ~\E how : Stop(how)
    <3>1. /\ pc \in 1 .. Len(run) /\ member = Len(MembersOf(Decl.t)) + 1
          /\ UNCHANGED <<run, code>> /\ pc' = pc + 1 /\ member' = -1
          /\ DOMAIN klass' = DOMAIN klass /\ Others
      BY <1>7, <2>2, CloseEffect
    <3>2. Laid' = Laid /\ \A k \in Laid \ {0} : Done(k)' = Done(k)
      BY <3>1, DoneEnd
    <3>3. \A k \in Laid : k # pc => klass'[k] = klass[k]
      BY <3>1 DEF Laid, Others
    <3> QED
      BY <3>1, <3>2, <3>3, CodeKept
  <2> QED
    BY <2>1, <2>2
<1>8. CASE EndInterface
  <2>1. /\ pc \in 1 .. Len(run) /\ member = Len(MembersOf(Decl.t)) + 1
        /\ UNCHANGED <<run, code>> /\ pc' = pc + 1 /\ member' = -1
        /\ DOMAIN klass' = DOMAIN klass /\ Others
    BY <1>8, InterfaceEffect
  <2>2. Laid' = Laid /\ \A k \in Laid \ {0} : Done(k)' = Done(k)
    BY <2>1, DoneEnd
  <2>3. \A k \in Laid : k # pc => klass'[k] = klass[k]
    BY <2>1 DEF Laid, Others
  <2> QED
    BY <2>1, <2>2, <2>3, CodeKept
<1>9. CASE \E t, s \in DOMAIN klass : CheckInstance(t, s)
  <2>1. PICK t \in DOMAIN klass, s \in DOMAIN klass : CheckInstance(t, s)
    BY <1>9
  <2> QED
    BY <2>1, CheckEffect, StopCode
<1>10. CASE UNCHANGED vars
  BY <1>1, <1>10 DEF vars
<1> QED
  BY <1>2, <1>3, <1>4, <1>5, <1>6, <1>7, <1>8, <1>9, <1>10 DEF Next

LEMMA InitCode == Init => CodeInv
<1> SUFFICES ASSUME Init PROVE CodeInv
  OBVIOUS
<1>1. DOMAIN klass = {0} /\ DOMAIN code = {}
  BY DEF Init
<1> QED
  BY <1>1 DEF CodeInv, Laid

-----------------------------------------------------------------------------
(* Between the declarations everything that is there is closed.            *)
LEMMA BetweenFacts ==
  ASSUME IInv, member = -1
  PROVE  /\ run \in Runs /\ pc \in Nat /\ Closed = DOMAIN klass /\ Built = DOMAIN klass
         /\ \A k \in DOMAIN klass : k < pc /\ k # pc /\ k \in 0 .. Len(run) /\ (IsClass(k) <=> k \in Laid)
         /\ \A k \in DOMAIN klass \ {0} :
              /\ k \in 1 .. Len(run) /\ Done(k) = Len(Body(k)) /\ Executed(k) = Range(Body(k))
<1>1. /\ run \in Runs /\ pc \in Nat /\ DOMAIN klass = 0 .. pc - 1 /\ Len(run) \in Nat
      /\ pc <= Len(run) + 1
  BY PlaceFacts DEF IInv, Progress
<1>2. \A k \in DOMAIN klass : k < pc /\ k # pc /\ k \in 0 .. Len(run)
  BY <1>1
<1>3. Closed = DOMAIN klass
  BY <1>2 DEF Closed, IInv, Shape
<1>4. Built = DOMAIN klass /\ \A k \in DOMAIN klass : (IsClass(k) <=> k \in Laid)
  BY <1>2 DEF Built, Laid
<1>5. ASSUME NEW k \in DOMAIN klass \ {0}
      PROVE  /\ k \in 1 .. Len(run) /\ Done(k) = Len(Body(k)) /\ Executed(k) = Range(Body(k))
  <2>1. k \in 1 .. Len(run) /\ k < pc
    BY <1>1
  <2>2. DOMAIN Body(k) = 1 .. Len(Body(k))
    BY <1>1, <2>1, BodyFacts
  <2>3. Done(k) = Len(Body(k))
    BY <2>1 DEF Done
  <2> QED
    BY <2>1, <2>2, <2>3 DEF Executed, Range
<1> QED
  BY <1>1, <1>2, <1>3, <1>4, <1>5

(* A class that is not abstract has the methods that are asked of it.      *)
LEMMA CompleteSound ==
  ASSUME IInv, MethodInv, member = -1, NEW s \in Closed, IsClass(s), ~klass[s].abstract
  PROVE  Complete(s)
<1>1. s \in DOMAIN klass /\ s \in Built /\ s \in Laid /\ s < pc
  BY BetweenFacts
<1>2. PrototypesOK(s) /\ AbstractMethods(klass[s]) = {}
  BY <1>1 DEF MethodInv, MethodsOK, ConcreteOK
<1> SUFFICES ASSUME NEW a \in DeclaredSupertypes(s) \ {0},
                    NEW mb \in Range(MembersOf(run[a].t)), mb.k = "abstract"
             PROVE  /\ mb.name \in DOMAIN klass[s].methods
                    /\ ~klass[s].methods[mb.name].desc
                    /\ klass[s].methods[mb.name].prototype = Declared(mb)
  BY DEF Complete
<1>3. a \in Sources(s)
  BY DEF DeclaredSupertypes, Sources, Implemented
<1>4. a \in DOMAIN klass \ {0}
  <2>1. s \in 0 .. Len(run) /\ run \in Runs /\ s \in Nat
    BY <1>1, BetweenFacts, PlaceFacts
  <2>2. a \in 1 .. s
    BY <1>3, <2>1, SourcesBelow
  <2>3. a \in 0 .. pc - 1 /\ a # 0
    BY <1>1, <2>1, <2>2, PlaceFacts
  <2> QED
    BY <2>3, PlaceFacts
<1>5. mb \in Executed(a)
  BY <1>4, BetweenFacts DEF Body
<1> QED
  BY <1>2, <1>3, <1>5 DEF PrototypesOK, AbstractMethods

(* The methods of a class are the nearest definitions.                     *)
LEMMA NamesSound ==
  ASSUME IInv, MethodInv, member = -1, NEW k \in Closed, IsClass(k), NEW n \in DOMAIN klass[k].methods
  PROVE  Names(k, n, klass[k].methods[n])
<1> DEFINE m == klass[k].methods[n]
           D == Definers(k, n)
<1>1. k \in DOMAIN klass /\ k \in Built /\ k \in 0 .. Len(run) /\ run \in Runs /\ k \in Nat /\ k < pc
  BY BetweenFacts, PlaceFacts
<1>2. NamesOK(k) /\ NearestOK(k)
  BY <1>1 DEF MethodInv, MethodsOK
<1>3. \A a \in Line[k] \ {0} : a \in DOMAIN klass \ {0} /\ a \in Nat
  <2>1. Line[k] \subseteq 0 .. k
    BY <1>1, LineBelow
  <2>2. \A a \in Line[k] : a \in 0 .. pc - 1 /\ a \in Nat
    BY <1>1, <2>1, PlaceFacts
  <2> QED
    BY <2>2, PlaceFacts
<1>4. D = Makers(k, n)
  <2>1. \A a \in Line[k] \ {0} : Executed(a) = Range(MembersOf(run[a].t))
    BY <1>3, BetweenFacts DEF Body
  <2> QED
    BY <2>1 DEF Definers, Declares, Makers, Holders
<1>5. D \subseteq Nat
  BY <1>3 DEF Definers, Declares
<1>6. D = {} => m.desc
  BY <1>2, <1>4 DEF NearestOK
<1>7. D # {} => ~m.desc /\ m.owner \in D /\ \A b \in D : b <= m.owner
  BY <1>2, <1>4 DEF NearestOK
<1>8. D # {} => m.owner = Max(D)
  <2> HIDE DEF D, m
  <2>1. ASSUME D # {} PROVE m.owner = Max(D)
    <3>1. m.owner \in D /\ \A y \in D : m.owner >= y
      BY <1>5, <1>7, <2>1
    <3>2. Max(D) \in D /\ \A y \in D : Max(D) >= y
      BY <3>1 DEF Max
    <3>3. \A x, y \in Nat : x >= y /\ y >= x => x = y
      OBVIOUS
    <3>4. m.owner \in Nat /\ Max(D) \in Nat /\ m.owner >= Max(D) /\ Max(D) >= m.owner
      BY <1>5, <3>1, <3>2
    <3> QED
      BY <3>3, <3>4
  <2> QED
    BY <2>1
<1>9. MembersOf(run[m.owner].t)[m.at].name = n
  BY <1>2 DEF NamesOK, Body
<1> QED
  BY <1>6, <1>7, <1>8, <1>9 DEF Names

(* A template that runs twice extends the same class both times.  When it  *)
(* does not, the function objects that its classes share keep the offset   *)
(* of the class that was made last (defineMethod, vm.c).                   *)
Steady ==
  \A j, k \in Closed \ {0} : IsClass(j) /\ run[j].t = run[k].t => run[j].super = run[k].super

DispatchInv == RefInv /\ FieldInv /\ MethodInv /\ GrowInv /\ SlotInv /\ CodeInv

(* The class that the code of a method refers to has the same layout as    *)
(* the one that defines the method.                                        *)
LEMMA ParentFacts ==
  ASSUME IInv, GrowInv, CodeInv, Steady, member = -1, NEW a \in Laid \ {0},
         NEW at \in 1 .. Len(Body(a)), Body(a)[at].k = "method",
         NEW fn, fn = code[<<run[a].t, at>>]
  PROVE  /\ fn.parent \in Laid \ {0} /\ run[fn.parent].t = run[a].t
         /\ run[fn.parent].super = run[a].super /\ fn.refOffset = Offset(a)
         /\ Offset(fn.parent) = Offset(a)
         /\ klass[fn.parent].fields = klass[a].fields
<1> DEFINE f == <<run[a].t, at>>
<1>1. \A k \in Laid \ {0} : /\ k \in DOMAIN klass \ {0} /\ k \in Closed \ {0} /\ IsClass(k)
                            /\ Done(k) = Len(Body(k))
  BY BetweenFacts DEF Laid
<1>2. f \in DOMAIN code
  BY <1>1 DEF CodeInv
<1>3. ASSUME NEW p, p = code[f].parent
      PROVE  /\ p \in Laid \ {0} /\ run[p].t = run[a].t /\ run[p].super = run[a].super
             /\ code[f].refOffset = Offset(a) /\ Offset(p) = Offset(a)
             /\ klass[p].fields = klass[a].fields
  <2>1. p \in Laid \ {0} /\ run[p].t = run[a].t /\ code[f].refOffset = Offset(p)
    BY <1>2, <1>3 DEF CodeInv
  <2>2. run[p].super = run[a].super
    BY <1>1, <2>1 DEF Steady
  <2>3. Offset(p) = Offset(a)
    BY <2>2 DEF Offset
  <2>4. Done(p) = Done(a)
    BY <1>1, <2>1 DEF Body
  <2>5. klass[p].fields = klass[a].fields
    BY <2>1, <2>2, <2>4 DEF GrowInv
  <2> QED
    BY <2>1, <2>2, <2>3, <2>5
<1> QED
  BY <1>3

(* What an instruction of a method of class a finds in an instance of s.   *)
LEMMA DispatchSound ==
  ASSUME IInv, DispatchInv, FieldLayout, Steady, member = -1, NEW s \in Closed, IsClass(s),
         NEW a \in Line[s] \ {0}, NEW at \in DOMAIN MembersOf(run[a].t),
         NEW ref \in Range(MembersOf(run[a].t)[at].refs)
  PROVE  Dispatches(s, a, at, ref)
<1> DEFINE fn == code[<<run[a].t, at>>]
           P == fn.parent
           j == SlotOf(run[a].t, ref)
           above == run[a].super
<1>1. s \in DOMAIN klass /\ s \in Laid /\ s \in 0 .. Len(run) /\ run \in Runs /\ s # 0
  <2>1. s \in DOMAIN klass /\ s \in Laid /\ s \in 0 .. Len(run) /\ run \in Runs
    BY BetweenFacts
  <2> QED
    BY <2>1, LineDef
<1>2. /\ a \in Laid \ {0} /\ a \in DOMAIN klass /\ a # pc /\ a \in 1 .. Len(run) /\ a \in Closed /\ IsClass(a)
      /\ s # pc
  <2>1. a \in Laid \ {0}
    BY <1>1, LaidFacts
  <2> QED
    BY <1>1, <2>1, BetweenFacts DEF Laid
<1>3. at \in 1 .. Len(Body(a)) /\ Body(a)[at] \in Range(Body(a)) /\ Body(a)[at].k = "method"
  <2>1. at \in 1 .. Len(Body(a)) /\ Body(a)[at] \in Range(Body(a))
    BY <1>1, <1>2, BodyFacts DEF Body, Range
  <2>2. Body(a)[at].refs # <<>>
    BY DEF Range, Body
  <2> QED
    BY <1>1, <1>2, <2>1, <2>2, BodyFacts
<1>4. /\ P \in Laid \ {0} /\ run[P].t = run[a].t /\ run[P].super = above
      /\ fn.refOffset = Offset(a) /\ Offset(P) = Offset(a) /\ klass[P].fields = klass[a].fields
  BY <1>2, <1>3, ParentFacts DEF DispatchInv
<1>5. /\ j \in 1 .. Len(Pending(run[a].t))
      /\ Pending(run[a].t)[j].this = ref.this /\ Pending(run[a].t)[j].name = ref.name
  <2>1. run[a].t \in DOMAIN Templates
    BY <1>1, <1>2, BodyFacts
  <2>2. Has(Pending(run[a].t), ref)
    BY <1>3, <2>1, PendingCovers DEF Body
  <2> QED
    BY <2>1, <2>2, SlotFound
<1>6. SlotOK(s, a, j)
  BY <1>1, <1>2, <1>5 DEF DispatchInv, SlotInv, SlotsOK
<1> HIDE DEF j, P, fn
<1>7. SlotOK(P, P, j)
  <2>1. P \in Line[P] \ {0} /\ P # pc
    BY <1>4, LaidFacts, BetweenFacts DEF Laid
  <2>2. j \in 1 .. Len(Pending(run[P].t))
    BY <1>4, <1>5
  <2> QED
    BY <1>4, <2>1, <2>2 DEF DispatchInv, SlotInv, SlotsOK
<1>8. \A holder \in {s, P} :
        LET i == Offset(a) + j
            r == klass[holder].refs[i]
            M == klass[above].methods
        IN /\ i \in DOMAIN klass[holder].refs
           /\ ~ref.this => r.type = "method" /\ ref.name \in DOMAIN M /\ r.value = M[ref.name]
           /\ ref.this /\ ref.name \in DOMAIN klass[a].fields =>
                r.type = "field" /\ r.value = klass[a].fields[ref.name]
  BY <1>4, <1>5, <1>6, <1>7 DEF SlotOK
<1>9. LET i == Offset(a) + j
          r == klass[s].refs[i]
      IN ref.this /\ ref.name \notin DOMAIN klass[a].fields =>
           /\ r.type = "method"
           /\ ref.name \in DOMAIN klass[s].methods /\ r.value = klass[s].methods[ref.name]
  BY <1>5, <1>6 DEF SlotOK
<1>10. /\ DOMAIN klass[a].fields = Fields(a)
       /\ \A n \in DOMAIN klass[a].fields : klass[s].fields[n] = klass[a].fields[n]
  BY <1>2 DEF FieldLayout
<1>11. \A n \in DOMAIN klass[above].methods : Names(above, n, klass[above].methods[n])
  <2>1. above \in Laid
    BY <1>2, LaidFacts
  <2>2. above \in Closed /\ IsClass(above)
    BY <2>1, BetweenFacts DEF Laid
  <2> QED
    BY <2>2, NamesSound DEF DispatchInv
<1>12. \A n \in DOMAIN klass[s].methods : Names(s, n, klass[s].methods[n])
  BY NamesSound DEF DispatchInv
<1> DEFINE holder == IF ref.kind = "call" THEN s ELSE P
           i == Offset(a) + j
           r == klass[holder].refs[i]
<1>13. holder \in {s, P}
  OBVIOUS
<1>14. ~ref.this => /\ i \in DOMAIN klass[holder].refs /\ r.type = "method"
                    /\ Names(above, ref.name, r.value)
  BY <1>8, <1>11, <1>13
<1>15. ref.this /\ ref.name \in Fields(a) =>
         /\ i \in DOMAIN klass[holder].refs /\ r.type = "field"
         /\ r.value = klass[s].fields[ref.name]
  BY <1>8, <1>10, <1>13
<1>16. ref.this /\ ref.name \notin Fields(a) /\ ref.kind = "call" =>
         /\ i \in DOMAIN klass[holder].refs /\ r.type = "method"
         /\ Names(s, ref.name, r.value)
  BY <1>8, <1>9, <1>10, <1>12, <1>13
<1> HIDE DEF holder, i, r
<1>17. /\ code[<<run[a].t, at>>].refOffset + SlotOf(run[a].t, ref) = i
       /\ (IF ref.kind = "call" THEN s ELSE code[<<run[a].t, at>>].parent) = holder
       /\ r = klass[holder].refs[i]
  BY <1>4 DEF i, j, r, holder, P, fn
<1> QED
  BY <1>14, <1>15, <1>16, <1>17 DEF Dispatches

(* As long as no class declares a field that is there already and a        *)
(* template extends the same class whenever it runs, a class that can be   *)
(* instantiated has every method that is asked of it, a name stands for    *)
(* its nearest definition, and the numbers in the code of a method reach   *)
(* the members that its source names (resolveMember, defineMethod,         *)
(* addAbstractMethod, inherit and closeClass, vm.c).                       *)
THEOREM MembersDispatched == Spec => [](Unshadowed /\ Unrepeated /\ Steady => DispatchExact)
<1>1. Init => IInv /\ DispatchInv
  BY InitFacts, InitRefs, InitFields, InitMethods, InitGrown, InitSlots, InitCode DEF DispatchInv
<1>2. IInv /\ DispatchInv /\ [Next]_vars => IInv' /\ DispatchInv'
  BY Inductive, RefInductive, FieldInductive, MethodInductive, GrowInductive, SlotInductive,
     CodeInductive DEF DispatchInv
<1>3. IInv /\ DispatchInv => (Unshadowed /\ Unrepeated /\ Steady => DispatchExact)
  <2> SUFFICES ASSUME IInv, DispatchInv, Unshadowed, Unrepeated, Steady, member = -1,
                      NEW s \in Closed, IsClass(s)
               PROVE  /\ ~klass[s].abstract => Complete(s)
                      /\ \A n \in DOMAIN klass[s].methods : Names(s, n, klass[s].methods[n])
                      /\ \A a \in Line[s] \ {0} : \A at \in DOMAIN MembersOf(run[a].t) :
                           \A ref \in Range(MembersOf(run[a].t)[at].refs) : Dispatches(s, a, at, ref)
    BY DEF DispatchExact
  <2>1. FieldLayout
    BY LayoutSound DEF DispatchInv
  <2>2. ~klass[s].abstract => Complete(s)
    BY CompleteSound DEF DispatchInv
  <2>3. \A n \in DOMAIN klass[s].methods : Names(s, n, klass[s].methods[n])
    BY NamesSound DEF DispatchInv
  <2>4. \A a \in Line[s] \ {0} : \A at \in DOMAIN MembersOf(run[a].t) :
          \A ref \in Range(MembersOf(run[a].t)[at].refs) : Dispatches(s, a, at, ref)
    BY <2>1, DispatchSound
  <2> QED
    BY <2>2, <2>3, <2>4
<1> QED
  BY <1>1, <1>2, <1>3, PTL DEF Spec
=============================================================================
