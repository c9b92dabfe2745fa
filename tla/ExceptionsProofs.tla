-------------------------- MODULE ExceptionsProofs --------------------------
(***************************************************************************)
(* Finally blocks run exactly once and exceptions are caught by the        *)
(* innermost matching try, for every set of try statements and exceptions, *)
(* any nesting and any depth of calls: theorems of Exceptions.tla, for     *)
(* programs in which no outer handler of a frame acts on an exception that *)
(* an inner one has let pass.                                              *)
(***************************************************************************)
EXTENDS Exceptions, SequenceTheorems, FiniteSetTheorems, TLAPS

(* Programs that do not meet the flaw of the handler stack.                *)
Careful == Avoid = {"outerHandler"}

Position == Seq([try : Try, part : Parts])

TryBlock == [try : Try, at : Position, caught : BOOLEAN, ran : {0, 1}]

CallFrame ==
  [kind : Script \cup {"native"}, pos : Position, handlers : Seq(TryBlock)]

CCall ==
  [kind : {"propagate"}, frame : Nat, exc : Exc, level : Nat]
    \cup [kind : {"unroll"}, frame : Nat, level : Nat, target : Nat, returns : BOOLEAN]

(* The j-th try block of a frame says which part of the j-th region around *)
(* its ip is being executed, and knows the regions around that one.        *)
Tells(f, j) ==
  /\ f.handlers[j].try = f.pos[j].try
  /\ Len(f.handlers[j].at) = j - 1
  /\ \A i \in 1 .. j - 1 : f.handlers[j].at[i] = f.pos[i]
  /\ f.pos[j].part = "body" => ~f.handlers[j].caught
  /\ f.pos[j].part = "catch" => f.handlers[j].caught
  /\ f.pos[j].part = "finally" <=> f.handlers[j].ran = 1

Sound(f) ==
  /\ f \in CallFrame
  /\ Len(f.handlers) <= Len(f.pos) /\ Len(f.handlers) <= MaxHandlers
  /\ \A j \in 1 .. Len(f.handlers) : Tells(f, j)
  /\ f.kind = "native" => f.pos = <<>>

(* The regions and the handlers of a frame agree but while its handlers    *)
(* are unrolled.                                                           *)
Whole(f) == Len(f.handlers) = Len(f.pos)

Unrolling == pc = "c" /\ TopCall.kind = "unroll"

FramesSound ==
  /\ \A k \in 1 .. Len(frames) : Sound(frames[k])
  /\ \A k \in 1 .. Len(frames) : (k = Len(frames) /\ Unrolling) \/ Whole(frames[k])
  /\ pc # "ended" => frames # <<>> /\ frames[1].kind = "start"

(* The calls that wait for the finally block that they run.                *)
Waiting == {n \in 1 .. Len(calls) : n < Len(calls) \/ pc # "c"}

Before(a, b) == a.frame < b.frame \/ (a.frame = b.frame /\ a.level < b.level)

Lets(h, e) == h.caught \/ e \notin Catches[h.try]

Waits(n) ==
  LET c == calls[n] IN
    /\ c.frame \in 1 .. Len(frames)
    /\ c.level \in 1 .. Len(frames[c.frame].handlers)
    /\ frames[c.frame].handlers[c.level].ran = 1
    /\ c.kind = "propagate" => Lets(frames[c.frame].handlers[c.level], c.exc)
    /\ c.kind = "unroll" =>
         /\ c.target < c.level
         /\ c.returns => c.target = 0
         /\ \A j \in c.target + 1 .. c.level - 1 : frames[c.frame].handlers[j].ran = 0

(* Finally blocks run for the calls that wait, and for no other.           *)
Passed(k, j) ==
  pc = "c" /\ TopCall.kind = "propagate" /\ k = Len(frames) /\ j > TopCall.level

Ordered == \A m, n \in Waiting : m < n => Before(calls[m], calls[n])

Covered ==
  \A k \in 1 .. Len(frames) : \A j \in 1 .. Len(frames[k].handlers) :
    frames[k].handlers[j].ran = 1 =>
      \/ Passed(k, j)
      \/ \E n \in Waiting : calls[n].frame = k /\ calls[n].level = j

WaitsSound == (\A n \in Waiting : Waits(n)) /\ Ordered /\ Covered

(* The call that is under way.                                             *)
AtWork ==
  pc = "c" =>
    /\ calls # <<>> /\ TopCall.frame = Len(frames)
    /\ TopCall.kind = "propagate" =>
         /\ TopCall.level <= Len(TopFrame.handlers)
         /\ \A j \in TopCall.level + 1 .. Len(TopFrame.handlers) :
              /\ Lets(TopFrame.handlers[j], TopCall.exc)
              /\ TopFrame.handlers[j].try \notin WithFinally \/ TopFrame.handlers[j].ran = 1
    /\ TopCall.kind = "unroll" =>
         /\ TopCall.level = Len(TopFrame.handlers) /\ TopCall.target <= TopCall.level
         /\ TopCall.returns => TopCall.target = 0
         /\ \A j \in TopCall.target + 1 .. TopCall.level : TopFrame.handlers[j].ran = 0

AtEnd ==
  pc = "done" =>
    /\ calls # <<>> /\ TopCall.frame = Len(frames)
    /\ TopCall.level = Len(TopFrame.handlers)

(* Something between the finally block that call m runs and the place      *)
(* <<frame, level>> catches e.                                             *)
Caught(m, frame, level, e) ==
  \E k \in calls[m].frame .. frame : \E j \in 1 .. Len(frames[k].handlers) :
    /\ ~Lets(frames[k].handlers[j], e)
    /\ k = calls[m].frame => j > calls[m].level
    /\ k = frame => j <= level

AimedCalls ==
  \A n \in 2 .. Len(calls) :
    calls[n].kind = "propagate" =>
      Caught(n - 1, calls[n].frame, calls[n].level, calls[n].exc)

AimedFailure ==
  pc = "fail" /\ calls # <<>> =>
    Caught(Len(calls), Len(frames), Len(TopFrame.handlers), exc)

Aimed == AimedCalls /\ AimedFailure

Propagations(c) == {n \in 1 .. Len(c) : c[n].kind = "propagate"}

Typed ==
  /\ frames \in Seq(CallFrame) /\ calls \in Seq(CCall) /\ exc \in Exc
  /\ pc \in {"run", "c", "done", "fail", "crashed", "exited", "ended"}
  /\ handling = Cardinality(Propagations(calls))

IInv == Typed /\ FramesSound /\ WaitsSound /\ AtWork /\ AtEnd /\ Aimed

-----------------------------------------------------------------------------
(* The data of a frame.                                                    *)
Fr(kind, pos, handlers) == [kind |-> kind, pos |-> pos, handlers |-> handlers]

LEMMA FrameFacts ==
  ASSUME NEW f \in CallFrame
  PROVE  /\ f.kind \in Script \cup {"native"} /\ f.pos \in Position
         /\ f.handlers \in Seq(TryBlock) /\ f = Fr(f.kind, f.pos, f.handlers)
         /\ Len(f.pos) \in Nat /\ Len(f.handlers) \in Nat
         /\ \A i \in 1 .. Len(f.pos) : f.pos[i] \in [try : Try, part : Parts]
         /\ \A j \in 1 .. Len(f.handlers) : f.handlers[j] \in TryBlock
<1>1. /\ f.kind \in Script \cup {"native"} /\ f.pos \in Position
      /\ f.handlers \in Seq(TryBlock) /\ f = Fr(f.kind, f.pos, f.handlers)
  BY DEF CallFrame, Fr
<1>2. Len(f.pos) \in Nat /\ \A i \in 1 .. Len(f.pos) : f.pos[i] \in [try : Try, part : Parts]
  BY <1>1, LenProperties, ElementOfSeq DEF Position
<1>3. Len(f.handlers) \in Nat /\ \A j \in 1 .. Len(f.handlers) : f.handlers[j] \in TryBlock
  BY <1>1, LenProperties, ElementOfSeq
<1> QED
  BY <1>1, <1>2, <1>3

LEMMA MakeFrame ==
  ASSUME NEW kind \in Script \cup {"native"}, NEW pos \in Position,
         NEW handlers \in Seq(TryBlock), NEW f, f = Fr(kind, pos, handlers)
  PROVE  f \in CallFrame /\ f.kind = kind /\ f.pos = pos /\ f.handlers = handlers
  BY DEF Fr, CallFrame

LEMMA Reframed ==
  ASSUME NEW f \in CallFrame, NEW pos, NEW handlers
  PROVE  [f EXCEPT !.pos = pos, !.handlers = handlers] = Fr(f.kind, pos, handlers)
<1> DEFINE g == [f EXCEPT !.pos = pos]
<1>1. f = Fr(f.kind, f.pos, f.handlers)
  BY FrameFacts
<1>2. g = Fr(f.kind, pos, f.handlers)
  BY <1>1 DEF Fr
<1> HIDE DEF g
<1>3. [g EXCEPT !.handlers = handlers] = Fr(f.kind, pos, handlers)
  BY <1>2 DEF Fr
<1> QED
  BY <1>3 DEF g

LEMMA BlockFacts ==
  ASSUME NEW h \in TryBlock
  PROVE  /\ h.try \in Try /\ h.at \in Position /\ h.caught \in BOOLEAN /\ h.ran \in {0, 1}
         /\ Len(h.at) \in Nat
<1>1. h.try \in Try /\ h.at \in Position /\ h.caught \in BOOLEAN /\ h.ran \in {0, 1}
  BY DEF TryBlock
<1> QED
  BY <1>1, LenProperties DEF Position

LEMMA Written ==
  ASSUME NEW S, NEW s \in Seq(S), NEW i \in 1 .. Len(s), NEW v \in S,
         NEW t, t = [s EXCEPT ![i] = v]
  PROVE  /\ t \in Seq(S) /\ Len(t) = Len(s) /\ t[i] = v
         /\ \A j \in 1 .. Len(s) : j # i => t[j] = s[j]
  BY ExceptSeq

LEMMA Begun ==
  ASSUME NEW S, NEW s \in Seq(S), NEW n \in 0 .. Len(s), NEW t, t = SubSeq(s, 1, n)
  PROVE  t \in Seq(S) /\ Len(t) = n /\ \A i \in 1 .. n : t[i] = s[i]
<1>1. Len(s) \in Nat /\ \A i \in 1 .. Len(s) : s[i] \in S
  BY LenProperties, ElementOfSeq
<1>2. /\ SubSeq(s, 1, n) \in Seq(S)
      /\ Len(SubSeq(s, 1, n)) = IF 1 <= n THEN n - 1 + 1 ELSE 0
      /\ \A i \in 1 .. n - 1 + 1 : SubSeq(s, 1, n)[i] = s[1 + i - 1]
  BY <1>1, SubSeqProperties
<1>3. n - 1 + 1 = n /\ \A i \in 1 .. n : 1 + i - 1 = i
  BY <1>1
<1>4. Len(t) = n
  BY <1>1, <1>2
<1> QED
  BY <1>2, <1>3, <1>4

LEMMA FrontFacts ==
  ASSUME NEW S, NEW s \in Seq(S), s # <<>>, NEW t, t = Front(s)
  PROVE  /\ Len(s) \in Nat \ {0} /\ t \in Seq(S) /\ Len(t) = Len(s) - 1
         /\ \A i \in 1 .. Len(s) - 1 : t[i] = s[i]
<1>1. Len(s) \in Nat /\ Len(s) # 0
  BY LenProperties, EmptySeq
<1> DEFINE n == Len(s) - 1
<1>2. n \in 0 .. Len(s) /\ t = SubSeq(s, 1, n) /\ n = Len(s) - 1
  BY <1>1 DEF Front
<1> HIDE DEF n
<1>3. t \in Seq(S) /\ Len(t) = n /\ \A i \in 1 .. n : t[i] = s[i]
  BY <1>2, Begun
<1> QED
  BY <1>1, <1>2, <1>3

-----------------------------------------------------------------------------
(* What happens to the frame on top.                                       *)
Entered(f, t) ==
  Fr(f.kind, Append(f.pos, Region(t, "body")), Append(f.handlers, Handler(t, f.pos)))

Marked(f, part, h) ==
  Fr(f.kind, Append(h.at, Region(h.try, part)), [f.handlers EXCEPT ![Len(f.handlers)] = h])

Dropped(f) == Fr(f.kind, f.pos, Front(f.handlers))

Shrunk(f, n) == Fr(f.kind, SubSeq(f.pos, 1, n), f.handlers)

(* The first n handlers are as they were.                                  *)
Alike(g, f, n) ==
  n <= Len(g.handlers) /\ \A j \in 1 .. n : g.handlers[j] = f.handlers[j]

LEMMA SoundFacts ==
  ASSUME NEW f, Sound(f)
  PROVE  /\ f \in CallFrame /\ f.kind \in Script \cup {"native"} /\ f.pos \in Position
         /\ f.handlers \in Seq(TryBlock) /\ Len(f.pos) \in Nat /\ Len(f.handlers) \in Nat
         /\ Len(f.handlers) <= Len(f.pos) /\ Len(f.handlers) <= MaxHandlers
         /\ \A i \in 1 .. Len(f.pos) : f.pos[i] \in [try : Try, part : Parts]
         /\ \A j \in 1 .. Len(f.handlers) : f.handlers[j] \in TryBlock
         /\ \A j \in 1 .. Len(f.handlers) : Tells(f, j)
         /\ f.kind = "native" => f.pos = <<>> /\ f.handlers = <<>> /\ Len(f.handlers) = 0
<1>1. f \in CallFrame
  BY DEF Sound
<1>2. /\ f.kind \in Script \cup {"native"} /\ f.pos \in Position
      /\ f.handlers \in Seq(TryBlock) /\ Len(f.pos) \in Nat /\ Len(f.handlers) \in Nat
      /\ \A i \in 1 .. Len(f.pos) : f.pos[i] \in [try : Try, part : Parts]
      /\ \A j \in 1 .. Len(f.handlers) : f.handlers[j] \in TryBlock
  BY <1>1, FrameFacts
<1>3. ASSUME f.kind = "native" PROVE f.pos = <<>> /\ f.handlers = <<>> /\ Len(f.handlers) = 0
  <2>1. f.pos = <<>> /\ Len(f.handlers) <= Len(f.pos)
    BY <1>3 DEF Sound
  <2>2. Len(f.pos) = 0
    BY <2>1, EmptySeq
  <2>3. Len(f.handlers) = 0
    BY <1>2, <2>1, <2>2
  <2> QED
    BY <1>2, <2>1, <2>3, EmptySeq
<1> QED
  BY <1>1, <1>2, <1>3 DEF Sound

LEMMA FreshSound ==
  ASSUME NEW kind \in Script \cup {"native"}, NEW f, f = Frame(kind)
  PROVE  Sound(f) /\ Whole(f) /\ f.kind = kind /\ Len(f.handlers) = 0
<1> DEFINE e == <<>>
<1>1. e \in Position /\ e \in Seq(TryBlock) /\ Len(e) = 0
  BY EmptySeq DEF Position
<1>2. f = Fr(kind, e, e)
  BY DEF Frame, Fr
<1> HIDE DEF e
<1>3. f \in CallFrame /\ f.kind = kind /\ f.pos = e /\ f.handlers = e
  BY <1>1, <1>2 DEF Fr, CallFrame
<1> QED
  BY <1>1, <1>3, ExceptionsAssumption DEF Sound, Whole

LEMMA EnteredSound ==
  ASSUME NEW f, Sound(f), Whole(f), f.kind # "native", NEW t \in Try,
         Len(f.handlers) < MaxHandlers, NEW g, g = Entered(f, t)
  PROVE  /\ Sound(g) /\ Whole(g) /\ g.kind = f.kind /\ Alike(g, f, Len(f.handlers))
         /\ Len(g.handlers) = Len(f.handlers) + 1
         /\ g.handlers[Len(f.handlers) + 1].ran = 0
<1> DEFINE n == Len(f.handlers)
           pos == Append(f.pos, Region(t, "body"))
           new == Handler(t, f.pos)
           handlers == Append(f.handlers, new)
<1>1. /\ f.kind \in Script \cup {"native"} /\ f.pos \in Position /\ n \in Nat
      /\ f.handlers \in Seq(TryBlock) /\ Len(f.pos) = n
      /\ \A j \in 1 .. n : Tells(f, j)
  BY SoundFacts DEF Whole
<1>2. Region(t, "body") \in [try : Try, part : Parts]
  BY DEF Region, Parts
<1>3. new \in TryBlock
  BY <1>1 DEF Handler, TryBlock
<1>4. /\ pos \in Position /\ Len(pos) = n + 1 /\ pos[n + 1] = Region(t, "body")
      /\ \A i \in 1 .. n : pos[i] = f.pos[i]
  BY <1>1, <1>2, AppendProperties DEF Position
<1> HIDE DEF pos, new
<1>5. /\ handlers \in Seq(TryBlock) /\ Len(handlers) = n + 1 /\ handlers[n + 1] = new
      /\ \A i \in 1 .. n : handlers[i] = f.handlers[i]
  BY <1>1, <1>3, AppendProperties
<1>6. g = Fr(f.kind, pos, handlers)
  BY DEF Entered, pos, new
<1> HIDE DEF handlers
<1>7. g \in CallFrame /\ g.kind = f.kind /\ g.pos = pos /\ g.handlers = handlers
  BY <1>1, <1>4, <1>5, <1>6, MakeFrame
<1>8. ASSUME NEW j \in 1 .. n + 1 PROVE Tells(g, j)
  <2>1. CASE j = n + 1
    <3>1. /\ new.try = t /\ new.at = f.pos /\ new.caught = FALSE /\ new.ran = 0
      BY DEF new, Handler
    <3>2. pos[j].try = t /\ pos[j].part = "body"
      BY <1>4, <2>1 DEF Region
    <3>3. \A i \in 1 .. j - 1 : i \in 1 .. n
      BY <1>1, <2>1
    <3> QED
      BY <1>1, <1>4, <1>5, <1>7, <2>1, <3>1, <3>2, <3>3 DEF Tells
  <2>2. CASE j \in 1 .. n
    <3>1. Tells(f, j) /\ pos[j] = f.pos[j] /\ handlers[j] = f.handlers[j]
      BY <1>1, <1>4, <1>5, <2>2
    <3>2. \A i \in 1 .. j - 1 : pos[i] = f.pos[i]
      BY <1>1, <1>4, <2>2
    <3> QED
      BY <1>7, <3>1, <3>2 DEF Tells
  <2> QED
    BY <1>1, <2>1, <2>2
<1>9. Sound(g) /\ Whole(g)
  <2>1. n + 1 <= MaxHandlers
    BY <1>1, ExceptionsAssumption
  <2>2. Len(g.handlers) = n + 1 /\ Len(g.pos) = n + 1 /\ n + 1 <= n + 1
    BY <1>1, <1>4, <1>5, <1>7
  <2> HIDE DEF n
  <2> QED
    BY <1>7, <1>8, <2>1, <2>2 DEF Sound, Whole
<1>10. Alike(g, f, n)
  BY <1>1, <1>5, <1>7 DEF Alike
<1>11. new.ran = 0
  BY DEF new, Handler
<1> QED
  BY <1>5, <1>7, <1>9, <1>10, <1>11

(* Its innermost handler is marked and its catch clause or finally block   *)
(* is what the frame executes.                                             *)
Marks(h, old, part) ==
  /\ h \in TryBlock /\ h.try = old.try /\ h.at = old.at /\ part \in Parts \ {"body"}
  /\ part = "catch" => h.caught
  /\ part = "finally" <=> h.ran = 1

LEMMA MarkedSound ==
  ASSUME NEW f, Sound(f), NEW n, n = Len(f.handlers), n # 0, NEW part, NEW h,
         Marks(h, f.handlers[n], part), NEW g, g = Marked(f, part, h)
  PROVE  /\ Sound(g) /\ Whole(g) /\ g.kind = f.kind /\ Alike(g, f, n - 1)
         /\ Len(g.handlers) = n /\ g.handlers[n] = h
<1> DEFINE R == Region(h.try, part)
           pos == Append(h.at, R)
           handlers == [f.handlers EXCEPT ![n] = h]
<1>1. /\ f.kind \in Script \cup {"native"} /\ f.pos \in Position /\ n \in Nat
      /\ f.handlers \in Seq(TryBlock) /\ n <= MaxHandlers /\ n <= Len(f.pos)
      /\ \A j \in 1 .. n : Tells(f, j)
  BY SoundFacts
<1>2. /\ n \in 1 .. n /\ f.kind # "native" /\ h \in TryBlock /\ h.try = f.handlers[n].try
      /\ h.at = f.handlers[n].at /\ part \in Parts
  BY <1>1, SoundFacts DEF Marks
<1>3. /\ h.at \in Position /\ Len(h.at) = n - 1 /\ h.try \in Try
      /\ \A i \in 1 .. n - 1 : h.at[i] = f.pos[i]
  BY <1>1, <1>2, BlockFacts DEF Tells
<1>4. R \in [try : Try, part : Parts] /\ R.try = h.try /\ R.part = part
  BY <1>2, <1>3 DEF Region
<1> HIDE DEF R
<1>5. /\ pos \in Position /\ Len(pos) = n /\ pos[n] = R
      /\ \A i \in 1 .. n - 1 : pos[i] = f.pos[i]
  <2>1. /\ pos \in Position /\ Len(pos) = Len(h.at) + 1 /\ pos[Len(h.at) + 1] = R
        /\ \A i \in 1 .. Len(h.at) : pos[i] = h.at[i]
    BY <1>3, <1>4, AppendProperties DEF Position
  <2>2. Len(h.at) + 1 = n
    BY <1>1, <1>3
  <2> QED
    BY <1>3, <2>1, <2>2
<1>6. /\ handlers \in Seq(TryBlock) /\ Len(handlers) = n /\ handlers[n] = h
      /\ \A j \in 1 .. n : j # n => handlers[j] = f.handlers[j]
  BY <1>1, <1>2, Written
<1>7. g = Fr(f.kind, pos, handlers)
  BY DEF Marked, R
<1> HIDE DEF pos, handlers
<1>8. g \in CallFrame /\ g.kind = f.kind /\ g.pos = pos /\ g.handlers = handlers
  BY <1>1, <1>5, <1>6, <1>7, MakeFrame
<1>9. ASSUME NEW j \in 1 .. n PROVE Tells(g, j)
  <2>1. CASE j = n
    <3>1. /\ (part = "body" => ~h.caught) /\ (part = "catch" => h.caught)
          /\ (part = "finally" <=> h.ran = 1)
      BY DEF Marks
    <3> QED
      BY <1>3, <1>4, <1>5, <1>6, <1>8, <2>1, <3>1 DEF Tells
  <2>2. CASE j # n
    <3>1. j \in 1 .. n - 1 /\ Tells(f, j) /\ \A i \in 1 .. j - 1 : i \in 1 .. n - 1
      BY <1>1, <2>2
    <3> QED
      BY <1>5, <1>6, <1>8, <2>2, <3>1 DEF Tells
  <2> QED
    BY <2>1, <2>2
<1>10. Sound(g) /\ Whole(g)
  BY <1>1, <1>2, <1>5, <1>6, <1>8, <1>9 DEF Sound, Whole
<1>11. Alike(g, f, n - 1)
  <2>1. \A j \in 1 .. n - 1 : j \in 1 .. n /\ j # n
    BY <1>1
  <2>2. \A j \in 1 .. n - 1 : g.handlers[j] = f.handlers[j]
    BY <1>6, <1>8, <2>1
  <2>3. n - 1 <= Len(g.handlers)
    BY <1>1, <1>6, <1>8
  <2> QED
    BY <1>8, <2>2, <2>3 DEF Alike
<1> QED
  BY <1>6, <1>8, <1>10, <1>11

LEMMA DroppedSound ==
  ASSUME NEW f, Sound(f), NEW n, n = Len(f.handlers), n # 0, NEW g, g = Dropped(f)
  PROVE  /\ Sound(g) /\ g.kind = f.kind /\ Alike(g, f, n - 1)
         /\ Len(g.handlers) = n - 1 /\ g.pos = f.pos
<1> DEFINE handlers == Front(f.handlers)
<1>1. /\ f.kind \in Script \cup {"native"} /\ f.pos \in Position /\ n \in Nat
      /\ f.handlers \in Seq(TryBlock) /\ n <= MaxHandlers /\ n <= Len(f.pos)
      /\ \A j \in 1 .. n : Tells(f, j) /\ f.kind # "native" /\ f.handlers # <<>>
      /\ Len(f.pos) \in Nat
  <2>1. f.handlers # <<>>
    BY EmptySeq
  <2> QED
    BY <2>1, SoundFacts
<1>2. f.kind # "native"
  BY SoundFacts
<1>3. /\ handlers \in Seq(TryBlock) /\ Len(handlers) = n - 1
      /\ \A i \in 1 .. n - 1 : handlers[i] = f.handlers[i]
  BY <1>1, FrontFacts
<1>4. g = Fr(f.kind, f.pos, handlers)
  BY DEF Dropped
<1> HIDE DEF handlers
<1>5. g \in CallFrame /\ g.kind = f.kind /\ g.pos = f.pos /\ g.handlers = handlers
  BY <1>1, <1>3, <1>4, MakeFrame
<1>6. ASSUME NEW j \in 1 .. n - 1 PROVE Tells(g, j)
  <2>1. Tells(f, j) /\ handlers[j] = f.handlers[j]
    BY <1>1, <1>3
  <2> QED
    BY <1>5, <2>1 DEF Tells
<1>7. n - 1 <= MaxHandlers /\ n - 1 <= Len(f.pos)
  BY <1>1, ExceptionsAssumption
<1>8. Sound(g)
  BY <1>2, <1>3, <1>5, <1>6, <1>7 DEF Sound
<1> QED
  BY <1>1, <1>3, <1>5, <1>8 DEF Alike

LEMMA ShrunkSound ==
  ASSUME NEW f, Sound(f), NEW n, n = Len(f.handlers), NEW g, g = Shrunk(f, n)
  PROVE  Sound(g) /\ Whole(g) /\ g.kind = f.kind /\ g.handlers = f.handlers
<1> DEFINE pos == SubSeq(f.pos, 1, n)
<1>1. /\ f.kind \in Script \cup {"native"} /\ f.pos \in Position /\ n \in Nat
      /\ f.handlers \in Seq(TryBlock) /\ n <= MaxHandlers /\ n <= Len(f.pos)
      /\ \A j \in 1 .. n : Tells(f, j) /\ Len(f.pos) \in Nat
      /\ f.kind = "native" => f.pos = <<>> /\ Len(f.handlers) = 0
  BY SoundFacts
<1>2. pos \in Position /\ Len(pos) = n /\ \A i \in 1 .. n : pos[i] = f.pos[i]
  <2> DEFINE old == f.pos
             S == [try : Try, part : Parts]
  <2>1. n \in 0 .. Len(old) /\ pos = SubSeq(old, 1, n) /\ old \in Seq(S)
    BY <1>1 DEF Position
  <2> HIDE DEF pos, old, S
  <2>2. pos \in Seq(S) /\ Len(pos) = n /\ \A i \in 1 .. n : pos[i] = old[i]
    BY <2>1, Begun
  <2> QED
    BY <2>2 DEF Position, old, S
<1>3. g = Fr(f.kind, pos, f.handlers)
  BY DEF Shrunk
<1> HIDE DEF pos
<1>4. g \in CallFrame /\ g.kind = f.kind /\ g.pos = pos /\ g.handlers = f.handlers
  BY <1>1, <1>2, <1>3, MakeFrame
<1>5. ASSUME NEW j \in 1 .. n PROVE Tells(g, j)
  <2>1. Tells(f, j) /\ j \in 1 .. n /\ \A i \in 1 .. j - 1 : i \in 1 .. n
    BY <1>1
  <2> QED
    BY <1>2, <1>4, <2>1 DEF Tells
<1>6. f.kind = "native" => pos = <<>>
  BY <1>1, <1>2, EmptySeq DEF Position
<1> QED
  BY <1>1, <1>2, <1>4, <1>5, <1>6 DEF Sound, Whole

-----------------------------------------------------------------------------
(* The C calls.                                                            *)
LEMMA CallFacts ==
  ASSUME NEW c \in CCall
  PROVE  /\ c.kind \in {"propagate", "unroll"} /\ c.frame \in Nat /\ c.level \in Nat
         /\ c.kind = "propagate" => c.exc \in Exc
         /\ c.kind = "unroll" => c.target \in Nat /\ c.returns \in BOOLEAN
  BY DEF CCall

(* d is the call c further on.                                             *)
Onward(d, c, frame, level) ==
  /\ d \in CCall /\ d.kind = c.kind /\ d.frame = frame /\ d.level = level
  /\ c.kind = "propagate" => d.exc = c.exc
  /\ c.kind = "unroll" => d.target = c.target /\ d.returns = c.returns

LEMMA LevelSet ==
  ASSUME NEW c \in CCall, NEW l \in Nat, NEW d, d = [c EXCEPT !.level = l]
  PROVE  Onward(d, c, c.frame, l)
<1>1. CASE c \in [kind : {"propagate"}, frame : Nat, exc : Exc, level : Nat]
  BY <1>1 DEF Onward, CCall
<1>2. CASE c \in [kind : {"unroll"}, frame : Nat, level : Nat, target : Nat, returns : BOOLEAN]
  BY <1>2 DEF Onward, CCall
<1> QED
  BY <1>1, <1>2 DEF CCall

LEMMA FrameSet ==
  ASSUME NEW c \in CCall, NEW k \in Nat, NEW d, d = [c EXCEPT !.frame = k]
  PROVE  Onward(d, c, k, c.level)
<1>1. CASE c \in [kind : {"propagate"}, frame : Nat, exc : Exc, level : Nat]
  BY <1>1 DEF Onward, CCall
<1>2. CASE c \in [kind : {"unroll"}, frame : Nat, level : Nat, target : Nat, returns : BOOLEAN]
  BY <1>2 DEF Onward, CCall
<1> QED
  BY <1>1, <1>2 DEF CCall

(* One more propagateException, one fewer, or as many.                     *)
LEMMA PropagationsFinite ==
  ASSUME NEW c \in Seq(CCall)
  PROVE  IsFiniteSet(Propagations(c)) /\ Cardinality(Propagations(c)) \in Nat
<1>1. Len(c) \in Nat
  BY LenProperties
<1>2. IsFiniteSet(1 .. Len(c))
  BY <1>1, FS_Interval
<1>3. Propagations(c) \subseteq 1 .. Len(c)
  BY DEF Propagations
<1>4. IsFiniteSet(Propagations(c))
  BY <1>2, <1>3, FS_Subset
<1> QED
  BY <1>4, FS_CardinalityType

LEMMA CountAppend ==
  ASSUME NEW c \in Seq(CCall), NEW x \in CCall, NEW d, d = Append(c, x)
  PROVE  Cardinality(Propagations(d)) =
           Cardinality(Propagations(c)) + (IF x.kind = "propagate" THEN 1 ELSE 0)
<1> DEFINE l == Len(c) + 1
           A == Propagations(c)
           B == Propagations(d)
<1>1. /\ Len(c) \in Nat /\ l \in Nat /\ Len(d) = l /\ d[l] = x
      /\ \A i \in 1 .. Len(c) : d[i] = c[i]
  BY LenProperties, AppendProperties
<1>2. l \notin A /\ 1 .. l = 1 .. Len(c) \cup {l}
  BY <1>1 DEF Propagations
<1>3. IsFiniteSet(A) /\ Cardinality(A) \in Nat
  BY PropagationsFinite
<1>4. CASE x.kind = "propagate"
  <2>1. B = A \cup {l}
    BY <1>1, <1>2, <1>4 DEF Propagations
  <2>2. Cardinality(A \cup {l}) = Cardinality(A) + 1
    BY <1>2, <1>3, FS_AddElement
  <2> QED
    BY <1>4, <2>1, <2>2
<1>5. CASE x.kind # "propagate"
  <2>1. B = A
    BY <1>1, <1>2, <1>5 DEF Propagations
  <2> QED
    BY <1>3, <1>5, <2>1
<1> QED
  BY <1>4, <1>5

LEMMA CountFront ==
  ASSUME NEW c \in Seq(CCall), c # <<>>, NEW d, d = Front(c), NEW x, x = c[Len(c)]
  PROVE  Cardinality(Propagations(d)) =
           Cardinality(Propagations(c)) - (IF x.kind = "propagate" THEN 1 ELSE 0)
<1>1. /\ Len(c) \in Nat \ {0} /\ d \in Seq(CCall) /\ Len(d) = Len(c) - 1
      /\ \A i \in 1 .. Len(c) - 1 : d[i] = c[i]
  BY FrontFacts
<1>2. x \in CCall
  BY <1>1, ElementOfSeq
<1> DEFINE e == Append(d, x)
<1>3. /\ e \in Seq(CCall) /\ Len(e) = Len(d) + 1 /\ e[Len(d) + 1] = x
      /\ \A i \in 1 .. Len(d) : e[i] = d[i]
  BY <1>1, <1>2, AppendProperties
<1>4. e = c
  <2>1. Len(e) = Len(c)
    BY <1>1, <1>3
  <2>2. ASSUME NEW i \in 1 .. Len(e) PROVE e[i] = c[i]
    BY <1>1, <1>3
  <2> QED
    BY <1>3, <2>1, <2>2, SeqEqual
<1> HIDE DEF e
<1>5. Cardinality(Propagations(c)) =
        Cardinality(Propagations(d)) + (IF x.kind = "propagate" THEN 1 ELSE 0)
  BY <1>1, <1>2, <1>4, CountAppend DEF e
<1>6. Cardinality(Propagations(d)) \in Nat
  BY <1>1, PropagationsFinite
<1> QED
  BY <1>5, <1>6

LEMMA CountSame ==
  ASSUME NEW c, NEW d, Len(d) = Len(c), \A i \in 1 .. Len(c) : d[i].kind = c[i].kind
  PROVE  Cardinality(Propagations(d)) = Cardinality(Propagations(c))
  BY DEF Propagations

-----------------------------------------------------------------------------
(* The state between two steps.                                            *)
LEMMA StateFacts ==
  ASSUME IInv
  PROVE  /\ frames \in Seq(CallFrame) /\ calls \in Seq(CCall) /\ exc \in Exc
         /\ Len(frames) \in Nat /\ Len(calls) \in Nat
         /\ \A k \in 1 .. Len(frames) : Sound(frames[k])
         /\ \A n \in 1 .. Len(calls) : calls[n] \in CCall
         /\ pc # "ended" => /\ frames # <<>> /\ Len(frames) \in Nat \ {0}
                            /\ Len(frames) \in 1 .. Len(frames) /\ 1 \in 1 .. Len(frames)
                            /\ frames[1].kind = "start" /\ Sound(TopFrame)
<1>1. /\ frames \in Seq(CallFrame) /\ calls \in Seq(CCall) /\ exc \in Exc
      /\ \A k \in 1 .. Len(frames) : Sound(frames[k])
      /\ pc # "ended" => frames # <<>> /\ frames[1].kind = "start"
  BY DEF IInv, Typed, FramesSound
<1>2. Len(frames) \in Nat /\ Len(calls) \in Nat
  BY <1>1, LenProperties
<1>3. \A n \in 1 .. Len(calls) : calls[n] \in CCall
  BY <1>1, ElementOfSeq
<1>4. ASSUME pc # "ended"
      PROVE  /\ frames # <<>> /\ Len(frames) \in Nat \ {0} /\ frames[1].kind = "start"
             /\ Len(frames) \in 1 .. Len(frames) /\ 1 \in 1 .. Len(frames)
             /\ Sound(TopFrame)
  <2>1. frames # <<>> /\ frames[1].kind = "start"
    BY <1>1, <1>4
  <2>2. Len(frames) # 0
    BY <1>1, <2>1, EmptySeq
  <2>3. Len(frames) \in 1 .. Len(frames) /\ 1 \in 1 .. Len(frames)
    BY <1>2, <2>2
  <2> QED
    BY <1>1, <1>2, <2>1, <2>2, <2>3 DEF TopFrame
<1> QED
  BY <1>1, <1>2, <1>3, <1>4

LEMMA WaitsFacts ==
  ASSUME IInv, NEW n \in Waiting
  PROVE  /\ n \in 1 .. Len(calls) /\ calls[n] \in CCall
         /\ calls[n].frame \in 1 .. Len(frames) /\ Sound(frames[calls[n].frame])
         /\ calls[n].level \in 1 .. Len(frames[calls[n].frame].handlers)
         /\ frames[calls[n].frame].handlers[calls[n].level].ran = 1
         /\ Waits(n)
<1>1. n \in 1 .. Len(calls) /\ Waits(n)
  BY DEF Waiting, IInv, WaitsSound
<1> QED
  BY <1>1, StateFacts DEF Waits

(* What call n waits for is as it was.                                     *)
Held(n) ==
  /\ calls'[n] = calls[n] /\ calls[n].frame <= Len(frames')
  /\ \A k \in 1 .. calls[n].frame - 1 : frames'[k] = frames[k]
  /\ Alike(frames'[calls[n].frame], frames[calls[n].frame], calls[n].level)

LEMMA HeldWaits ==
  ASSUME IInv, NEW n \in Waiting, Held(n),
         Len(frames') \in Nat, \A k \in 1 .. Len(frames') : Len(frames'[k].handlers) \in Nat
  PROVE  Waits(n)'
<1> DEFINE c == calls[n]
           f == frames[c.frame]
           g == frames'[c.frame]
<1>1. /\ c \in CCall /\ c.frame \in 1 .. Len(frames) /\ Len(f.handlers) \in Nat
      /\ c.level \in 1 .. Len(f.handlers) /\ Waits(n)
  BY WaitsFacts, SoundFacts
<1>2. /\ calls'[n] = c /\ c.frame <= Len(frames') /\ c.level <= Len(g.handlers)
      /\ \A j \in 1 .. c.level : g.handlers[j] = f.handlers[j]
  BY DEF Held, Alike
<1>3. c.frame \in 1 .. Len(frames') /\ c.level \in 1 .. Len(g.handlers) /\ c.level \in 1 .. c.level
  BY <1>1, <1>2
<1>4. g.handlers[c.level] = f.handlers[c.level]
  BY <1>2, <1>3
<1>5. /\ f.handlers[c.level].ran = 1
      /\ c.kind = "propagate" => Lets(f.handlers[c.level], c.exc)
      /\ c.kind = "unroll" =>
           /\ c.target < c.level /\ (c.returns => c.target = 0)
           /\ \A j \in c.target + 1 .. c.level - 1 : f.handlers[j].ran = 0
  BY <1>1 DEF Waits
<1>6. ASSUME c.kind = "unroll", NEW j \in c.target + 1 .. c.level - 1
      PROVE  g.handlers[j].ran = 0
  <2>1. c.target \in Nat
    BY <1>1, <1>6, CallFacts
  <2>2. j \in 1 .. c.level
    BY <1>1, <2>1
  <2> QED
    BY <1>2, <1>5, <1>6, <2>2
<1> HIDE DEF c, f
<1> SUFFICES LET d == calls'[n] IN
      /\ d.frame \in 1 .. Len(frames')
      /\ d.level \in 1 .. Len(frames'[d.frame].handlers)
      /\ frames'[d.frame].handlers[d.level].ran = 1
      /\ d.kind = "propagate" => Lets(frames'[d.frame].handlers[d.level], d.exc)
      /\ d.kind = "unroll" =>
           /\ d.target < d.level
           /\ d.returns => d.target = 0
           /\ \A j \in d.target + 1 .. d.level - 1 : frames'[d.frame].handlers[j].ran = 0
  BY DEF Waits, Lets
<1> QED
  BY <1>2, <1>3, <1>4, <1>5, <1>6

LEMMA HeldCaught ==
  ASSUME IInv, NEW n \in Waiting, n >= 2, Held(n), calls'[n - 1] = calls[n - 1],
         calls[n].kind = "propagate",
         Len(frames') \in Nat, \A k \in 1 .. Len(frames') : Len(frames'[k].handlers) \in Nat
  PROVE  Caught(n - 1, calls[n].frame, calls[n].level, calls[n].exc)'
<1> DEFINE c == calls[n]
           b == calls[n - 1]
<1>1. /\ n \in 2 .. Len(calls) /\ c \in CCall /\ c.frame \in 1 .. Len(frames)
      /\ c.level \in 1 .. Len(frames[c.frame].handlers) /\ c.frame \in Nat
  BY WaitsFacts, CallFacts
<1>2. n - 1 \in 1 .. Len(calls) /\ n - 1 \in Waiting
  BY <1>1, StateFacts DEF Waiting
<1>3. b.frame \in 1 .. Len(frames) /\ b.level \in Nat
  BY <1>2, WaitsFacts, CallFacts
<1>4. Caught(n - 1, c.frame, c.level, c.exc)
  BY <1>1 DEF IInv, Aimed, AimedCalls
<1>5. PICK k \in b.frame .. c.frame : \E j \in 1 .. Len(frames[k].handlers) :
        /\ ~Lets(frames[k].handlers[j], c.exc)
        /\ k = b.frame => j > b.level
        /\ k = c.frame => j <= c.level
  BY <1>4 DEF Caught
<1>6. PICK j \in 1 .. Len(frames[k].handlers) :
        /\ ~Lets(frames[k].handlers[j], c.exc)
        /\ k = b.frame => j > b.level
        /\ k = c.frame => j <= c.level
  BY <1>5
<1>7. calls'[n] = c /\ calls'[n - 1] = b
  BY DEF Held
<1>8. j \in 1 .. Len(frames'[k].handlers) /\ frames'[k].handlers[j] = frames[k].handlers[j]
  <2>1. CASE k = c.frame
    <3>1. /\ c.level <= Len(frames'[k].handlers)
          /\ \A i \in 1 .. c.level : frames'[k].handlers[i] = frames[k].handlers[i]
          /\ c.frame <= Len(frames')
      BY <2>1 DEF Held, Alike
    <3>2. k \in 1 .. Len(frames')
      BY <1>1, <2>1, <3>1
    <3>3. Len(frames'[k].handlers) \in Nat
      BY <3>2
    <3> HIDE DEF c, b
    <3>4. c.level \in Nat /\ j <= c.level /\ j \in Nat
      BY <1>1, <1>6, <2>1, CallFacts
    <3>5. j \in 1 .. c.level
      BY <1>6, <3>4
    <3> QED
      BY <3>1, <3>3, <3>4, <3>5
  <2>2. CASE k # c.frame
    <3>1. k \in 1 .. c.frame - 1
      <4>1. c.frame \in Nat /\ b.frame \in Nat /\ b.frame >= 1
        BY <1>1, <1>3, StateFacts
      <4>2. k \in b.frame .. c.frame
        OBVIOUS
      <4> HIDE DEF c, b
      <4> QED
        BY <2>2, <4>1, <4>2
    <3>2. frames'[k] = frames[k]
      BY <3>1 DEF Held
    <3> QED
      BY <3>2, <1>6
  <2> QED
    BY <2>1, <2>2
<1> HIDE DEF c, b
<1> SUFFICES \E k1 \in calls'[n - 1].frame .. calls'[n].frame : \E j1 \in 1 .. Len(frames'[k1].handlers) :
      /\ ~Lets(frames'[k1].handlers[j1], calls'[n].exc)
      /\ k1 = calls'[n - 1].frame => j1 > calls'[n - 1].level
      /\ k1 = calls'[n].frame => j1 <= calls'[n].level
  BY DEF Caught, Lets
<1> QED
  BY <1>5, <1>6, <1>7, <1>8

(* The invariant of the next state from what the step changes: the first N *)
(* calls wait before and after it.                                         *)
Fresh(N) ==
  \A n \in Waiting' : n > N =>
    /\ n = N + 1 /\ Waits(n)'
    /\ \A m \in 1 .. N : Before(calls[m], calls'[n])

FreshAim(N) ==
  \A n \in 2 .. Len(calls') : n > N /\ calls'[n].kind = "propagate" =>
    Caught(n - 1, calls[n].frame, calls[n].level, calls[n].exc)'

HeldUpTo(N) ==
  /\ N <= Len(calls) /\ N <= Len(calls')
  /\ 1 .. N \subseteq Waiting
  /\ \A n \in 1 .. N : Held(n)

LEMMA Preserved ==
  ASSUME IInv, Typed', FramesSound', Covered', AtWork', AtEnd', AimedFailure',
         NEW N \in Nat, HeldUpTo(N), Fresh(N), FreshAim(N)
  PROVE  IInv'
<1>1. /\ frames' \in Seq(CallFrame) /\ calls' \in Seq(CCall)
      /\ \A k \in 1 .. Len(frames') : Sound(frames'[k])
  BY DEF Typed, FramesSound, Sound, Tells
<1>2. /\ Len(frames') \in Nat /\ Len(calls') \in Nat
      /\ \A k \in 1 .. Len(frames') : Len(frames'[k].handlers) \in Nat
  BY <1>1, LenProperties, SoundFacts
<1>3. ASSUME NEW n \in 1 .. N PROVE Waits(n)' /\ calls'[n] = calls[n]
  <2>1. n \in Waiting /\ Held(n)
    BY DEF HeldUpTo
  <2>2. Waits(n)'
    BY <1>2, <2>1, HeldWaits
  <2> QED
    BY <2>1, <2>2 DEF Held
<1>4. \A n \in Waiting' : n \in Nat /\ n >= 1 /\ n <= Len(calls')
  BY <1>2 DEF Waiting
<1>5. ASSUME NEW n \in Waiting' PROVE Waits(n)'
  <2>1. CASE n > N
    BY <2>1 DEF Fresh
  <2>2. CASE n <= N
    BY <1>3, <1>4, <2>2
  <2> QED
    BY <1>4, <2>1, <2>2
<1>6. ASSUME NEW m \in Waiting', NEW n \in Waiting', m < n PROVE Before(calls[m], calls[n])'
  <2>1. CASE n > N
    <3>1. n = N + 1 /\ \A i \in 1 .. N : Before(calls[i], calls'[n])
      BY <2>1 DEF Fresh
    <3>2. m \in 1 .. N
      BY <1>4, <1>6, <3>1
    <3> QED
      BY <1>3, <3>1, <3>2 DEF Before
  <2>2. CASE n <= N
    <3>1. m \in 1 .. N /\ n \in 1 .. N
      BY <1>4, <1>6, <2>2
    <3>2. m \in Waiting /\ n \in Waiting
      BY <3>1 DEF HeldUpTo
    <3>3. Before(calls[m], calls[n])
      BY <1>6, <3>2 DEF IInv, WaitsSound, Ordered
    <3> QED
      BY <1>3, <3>1, <3>3 DEF Before
  <2> QED
    BY <1>4, <2>1, <2>2
<1>7. ASSUME NEW n \in 2 .. Len(calls'), calls'[n].kind = "propagate"
      PROVE  Caught(n - 1, calls[n].frame, calls[n].level, calls[n].exc)'
  <2>1. CASE n > N
    BY <1>7, <2>1 DEF FreshAim
  <2>2. CASE n <= N
    <3>1. n \in 1 .. N /\ n - 1 \in 1 .. N
      BY <1>7, <2>2
    <3>2. n \in Waiting /\ Held(n) /\ calls'[n - 1] = calls[n - 1] /\ calls[n].kind = "propagate"
      BY <1>3, <1>7, <3>1 DEF HeldUpTo
    <3> QED
      BY <1>2, <1>7, <3>2, HeldCaught
  <2> QED
    BY <1>2, <2>1, <2>2
<1>8. WaitsSound'
  BY <1>5, <1>6 DEF WaitsSound, Ordered
<1>9. Aimed'
  BY <1>7 DEF Aimed, AimedCalls
<1> QED
  BY <1>8, <1>9 DEF IInv

-----------------------------------------------------------------------------
(* How a step changes the frames.                                          *)
LEMMA Wholes ==
  ASSUME IInv
  PROVE  /\ \A k \in 1 .. Len(frames) : k # Len(frames) => Whole(frames[k])
         /\ pc # "c" => \A k \in 1 .. Len(frames) : Whole(frames[k])
         /\ pc = "c" /\ TopCall.kind = "propagate" => \A k \in 1 .. Len(frames) : Whole(frames[k])
  BY DEF IInv, FramesSound, Unrolling

LEMMA TopSet ==
  ASSUME IInv, pc # "ended", NEW g, Sound(g), g.kind = TopFrame.kind, SetTopFrame(g)
  PROVE  /\ frames' \in Seq(CallFrame) /\ Len(frames') = Len(frames) /\ frames' # <<>>
         /\ frames'[Len(frames)] = g /\ TopFrame' = g
         /\ \A k \in 1 .. Len(frames) : k # Len(frames) => frames'[k] = frames[k]
         /\ \A k \in 1 .. Len(frames) : Sound(frames'[k])
         /\ frames'[1].kind = "start"
<1>1. /\ frames \in Seq(CallFrame) /\ Len(frames) \in 1 .. Len(frames) /\ Len(frames) \in Nat
      /\ \A k \in 1 .. Len(frames) : Sound(frames[k])
      /\ 1 \in 1 .. Len(frames) /\ frames[1].kind = "start"
  BY StateFacts
<1>2. g \in CallFrame
  BY DEF Sound
<1>3. frames' = [frames EXCEPT ![Len(frames)] = g]
  BY DEF SetTopFrame
<1>4. /\ frames' \in Seq(CallFrame) /\ Len(frames') = Len(frames) /\ frames'[Len(frames)] = g
      /\ \A k \in 1 .. Len(frames) : k # Len(frames) => frames'[k] = frames[k]
  BY <1>1, <1>2, <1>3, Written
<1>5. TopFrame' = g
  BY <1>4 DEF TopFrame
<1>6. frames'[1].kind = "start"
  BY <1>1, <1>4 DEF TopFrame
<1>7. frames' # <<>>
  BY <1>1, <1>4, EmptySeq
<1> QED
  BY <1>1, <1>4, <1>5, <1>6, <1>7

LEMMA Pushed ==
  ASSUME IInv, pc # "ended", NEW kind \in Script \cup {"native"},
         frames' = Append(frames, Frame(kind))
  PROVE  /\ frames' \in Seq(CallFrame) /\ Len(frames') = Len(frames) + 1 /\ frames' # <<>>
         /\ Len(frames'[Len(frames) + 1].handlers) = 0
         /\ Whole(frames'[Len(frames) + 1])
         /\ \A k \in 1 .. Len(frames) : frames'[k] = frames[k]
         /\ \A k \in 1 .. Len(frames) + 1 : Sound(frames'[k])
         /\ frames'[1].kind = "start"
<1>1. /\ frames \in Seq(CallFrame) /\ Len(frames) \in Nat
      /\ \A k \in 1 .. Len(frames) : Sound(frames[k])
      /\ 1 \in 1 .. Len(frames) /\ frames[1].kind = "start"
  BY StateFacts
<1> DEFINE g == Frame(kind)
<1>2. Sound(g) /\ Whole(g) /\ Len(g.handlers) = 0
  BY FreshSound
<1> HIDE DEF g
<1>3. g \in CallFrame /\ frames' = Append(frames, g)
  BY <1>2 DEF Sound, g
<1>4. /\ frames' \in Seq(CallFrame) /\ Len(frames') = Len(frames) + 1
      /\ frames'[Len(frames) + 1] = g
      /\ \A k \in 1 .. Len(frames) : frames'[k] = frames[k]
  BY <1>1, <1>3, AppendProperties
<1>5. ASSUME NEW k \in 1 .. Len(frames) + 1 PROVE Sound(frames'[k])
  <2>1. k = Len(frames) + 1 \/ k \in 1 .. Len(frames)
    BY <1>1
  <2> QED
    BY <1>1, <1>2, <1>4, <2>1
<1>6. frames' # <<>>
  BY <1>1, <1>4, EmptySeq
<1> QED
  BY <1>1, <1>2, <1>4, <1>5, <1>6

LEMMA Popped ==
  ASSUME IInv, pc # "ended", frames' = Front(frames)
  PROVE  /\ frames' \in Seq(CallFrame) /\ Len(frames') = Len(frames) - 1
         /\ \A k \in 1 .. Len(frames) - 1 : frames'[k] = frames[k]
         /\ \A k \in 1 .. Len(frames') : Sound(frames'[k]) /\ Whole(frames'[k])
         /\ Len(frames) # 1 => /\ frames' # <<>> /\ frames'[1].kind = "start"
                               /\ Len(frames) - 1 \in 1 .. Len(frames)
                               /\ TopFrame' = frames[Len(frames) - 1]
<1>1. /\ frames \in Seq(CallFrame) /\ Len(frames) \in Nat \ {0} /\ frames # <<>>
      /\ \A k \in 1 .. Len(frames) : Sound(frames[k])
      /\ \A k \in 1 .. Len(frames) : k # Len(frames) => Whole(frames[k])
      /\ frames[1].kind = "start"
  BY StateFacts, Wholes
<1>2. /\ frames' \in Seq(CallFrame) /\ Len(frames') = Len(frames) - 1
      /\ \A k \in 1 .. Len(frames) - 1 : frames'[k] = frames[k]
  BY <1>1, FrontFacts
<1>3. ASSUME NEW k \in 1 .. Len(frames') PROVE Sound(frames'[k]) /\ Whole(frames'[k])
  <2>1. k \in 1 .. Len(frames) - 1 /\ k \in 1 .. Len(frames) /\ k # Len(frames)
    BY <1>1, <1>2
  <2> QED
    BY <1>1, <1>2, <2>1
<1>4. ASSUME Len(frames) # 1
      PROVE  /\ frames' # <<>> /\ frames'[1].kind = "start"
             /\ Len(frames) - 1 \in 1 .. Len(frames)
             /\ TopFrame' = frames[Len(frames) - 1]
  <2>1. 1 \in 1 .. Len(frames) - 1 /\ Len(frames') # 0 /\ Len(frames) - 1 \in 1 .. Len(frames)
        /\ Len(frames) - 1 \in 1 .. Len(frames) - 1
    BY <1>1, <1>2, <1>4
  <2> QED
    BY <1>1, <1>2, <2>1, EmptySeq DEF TopFrame
<1> QED
  BY <1>1, <1>2, <1>3, <1>4

LEMMA HeldBelow ==
  ASSUME IInv, NEW n \in Waiting, calls'[n] = calls[n],
         calls[n].frame <= Len(frames'),
         \A k \in 1 .. calls[n].frame : frames'[k] = frames[k]
  PROVE  Held(n)
<1>1. /\ calls[n].frame \in 1 .. Len(frames) /\ calls[n].level \in 1 .. Len(frames[calls[n].frame].handlers)
      /\ Len(frames[calls[n].frame].handlers) \in Nat /\ calls[n].frame \in 1 .. calls[n].frame
      /\ \A k \in 1 .. calls[n].frame - 1 : k \in 1 .. calls[n].frame
  BY WaitsFacts, SoundFacts, StateFacts
<1>2. frames'[calls[n].frame] = frames[calls[n].frame]
  BY <1>1
<1>3. calls[n].level <= Len(frames[calls[n].frame].handlers)
  BY <1>1
<1> QED
  BY <1>1, <1>2, <1>3 DEF Held, Alike

LEMMA HeldTop ==
  ASSUME IInv, NEW n \in Waiting, calls'[n] = calls[n], Len(frames') = Len(frames),
         \A k \in 1 .. Len(frames) : k # Len(frames) => frames'[k] = frames[k],
         NEW L \in Nat, Alike(frames'[Len(frames)], frames[Len(frames)], L),
         Len(frames'[Len(frames)].handlers) \in Nat,
         calls[n].frame = Len(frames) => calls[n].level <= L
  PROVE  Held(n)
<1>1. /\ calls[n].frame \in 1 .. Len(frames) /\ Len(frames) \in Nat
      /\ calls[n].level \in Nat
  BY WaitsFacts, StateFacts, CallFacts
<1>2. CASE calls[n].frame = Len(frames)
  <2>1. \A k \in 1 .. calls[n].frame - 1 : frames'[k] = frames[k]
    BY <1>1, <1>2
  <2>2. calls[n].frame <= Len(frames')
    BY <1>1, <1>2
  <2>3. Alike(frames'[calls[n].frame], frames[calls[n].frame], calls[n].level)
    BY <1>1, <1>2 DEF Alike
  <2> QED
    BY <2>1, <2>2, <2>3 DEF Held
<1>3. CASE calls[n].frame # Len(frames)
  <2>1. calls[n].frame <= Len(frames') /\ \A k \in 1 .. calls[n].frame : frames'[k] = frames[k]
    BY <1>1, <1>3
  <2> QED
    BY <2>1, HeldBelow
<1> QED
  BY <1>2, <1>3

-----------------------------------------------------------------------------
(* The call under way, and those that wait.                                *)
LEMMA WorkFacts ==
  ASSUME IInv, pc = "c"
  PROVE  /\ calls # <<>> /\ Len(calls) \in Nat \ {0} /\ TopCall \in CCall
         /\ Len(calls) \in 1 .. Len(calls) /\ Len(calls) - 1 \in Nat
         /\ Waiting = 1 .. Len(calls) - 1
         /\ TopCall.frame = Len(frames)
         /\ TopCall.kind = "propagate" =>
              /\ TopCall.level <= Len(TopFrame.handlers)
              /\ \A j \in TopCall.level + 1 .. Len(TopFrame.handlers) :
                   /\ Lets(TopFrame.handlers[j], TopCall.exc)
                   /\ TopFrame.handlers[j].try \notin WithFinally \/ TopFrame.handlers[j].ran = 1
         /\ TopCall.kind = "unroll" =>
              /\ TopCall.level = Len(TopFrame.handlers) /\ TopCall.target <= TopCall.level
              /\ TopCall.returns => TopCall.target = 0
              /\ \A j \in TopCall.target + 1 .. TopCall.level : TopFrame.handlers[j].ran = 0
<1>1. calls # <<>> /\ calls \in Seq(CCall) /\ Len(calls) \in Nat
  BY StateFacts DEF IInv, AtWork
<1>2. Len(calls) \in Nat \ {0}
  BY <1>1, EmptySeq
<1>3. Len(calls) \in 1 .. Len(calls) /\ Len(calls) - 1 \in Nat
  BY <1>2
<1>4. TopCall \in CCall
  BY <1>3, StateFacts DEF TopCall
<1>5. Waiting = 1 .. Len(calls) - 1
  BY <1>2 DEF Waiting
<1> QED
  BY <1>1, <1>2, <1>3, <1>4, <1>5 DEF IInv, AtWork

LEMMA IdleFacts ==
  ASSUME IInv, pc # "c"
  PROVE  Waiting = 1 .. Len(calls)
  BY DEF Waiting

LEMMA Ahead ==
  ASSUME IInv, pc = "c", TopCall.kind = "propagate" \/ TopCall.target < TopCall.level,
         NEW n \in Waiting
  PROVE  Before(calls[n], TopCall)
<1>1. /\ Len(calls) \in Nat \ {0} /\ TopCall \in CCall /\ Waiting = 1 .. Len(calls) - 1
      /\ TopCall.frame = Len(frames) /\ Len(frames) \in Nat
  BY WorkFacts, StateFacts
<1>2. /\ n \in 1 .. Len(calls) - 1 /\ calls[n] \in CCall
      /\ calls[n].frame \in 1 .. Len(frames) /\ calls[n].level \in Nat
      /\ calls[n].level \in 1 .. Len(frames[calls[n].frame].handlers)
      /\ frames[calls[n].frame].handlers[calls[n].level].ran = 1
  BY <1>1, WaitsFacts, CallFacts
<1>3. CASE TopCall.kind = "propagate"
  <2> DEFINE b == Len(calls) - 1
  <2>1. /\ b \in Waiting /\ b \in 1 .. Len(calls) /\ b + 1 = Len(calls)
        /\ Len(calls) \in 2 .. Len(calls) /\ calls[Len(calls)] = TopCall
        /\ n = b \/ n < b
    BY <1>1, <1>2 DEF TopCall
  <2>2. calls[b].frame \in Nat /\ calls[b].level \in Nat
    BY <2>1, WaitsFacts, CallFacts
  <2>3. Caught(b, TopCall.frame, TopCall.level, TopCall.exc)
    BY <1>3, <2>1 DEF IInv, Aimed, AimedCalls
  <2>4. n = b \/ Before(calls[n], calls[b])
    BY <2>1 DEF IInv, WaitsSound, Ordered
  <2> HIDE DEF b
  <2>5. PICK k \in calls[b].frame .. TopCall.frame :
          \E j \in 1 .. Len(frames[k].handlers) :
            (k = calls[b].frame => j > calls[b].level) /\ (k = TopCall.frame => j <= TopCall.level)
    BY <2>3 DEF Caught
  <2>6. TopCall.frame \in Nat /\ TopCall.level \in Nat
    BY <1>1, CallFacts
  <2>7. Before(calls[b], TopCall)
    BY <2>2, <2>5, <2>6 DEF Before
  <2>8. calls[n].frame \in Nat /\ calls[n].level \in Nat
    BY <1>2
  <2>9. CASE n = b
    BY <2>7, <2>9
  <2>10. CASE Before(calls[n], calls[b])
    BY <2>2, <2>6, <2>7, <2>8, <2>10 DEF Before
  <2> QED
    BY <2>4, <2>9, <2>10
<1>4. CASE TopCall.kind # "propagate"
  <2>1. /\ TopCall.kind = "unroll" /\ TopCall.level \in Nat /\ TopCall.target \in Nat
        /\ TopCall.target < TopCall.level
    BY <1>1, <1>4, CallFacts
  <2>2. /\ TopCall.level = Len(TopFrame.handlers)
        /\ \A j \in TopCall.target + 1 .. TopCall.level : TopFrame.handlers[j].ran = 0
    BY <2>1, WorkFacts
  <2>3. ASSUME calls[n].frame = Len(frames) PROVE calls[n].level < TopCall.level
    <3>1. TopFrame.handlers[calls[n].level].ran = 1 /\ calls[n].level <= TopCall.level
      BY <1>2, <2>2, <2>3 DEF TopFrame
    <3>2. ~ calls[n].level \in TopCall.target + 1 .. TopCall.level
      BY <2>2, <3>1
    <3> QED
      BY <1>2, <2>1, <3>1, <3>2
  <2> QED
    BY <1>1, <1>2, <2>1, <2>3 DEF Before
<1> QED
  BY <1>3, <1>4

LEMMA NoneOnTop ==
  ASSUME IInv, pc # "ended", Len(TopFrame.handlers) = 0, NEW n \in Waiting
  PROVE  calls[n].frame \in 1 .. Len(frames) - 1
<1>1. /\ calls[n].frame \in 1 .. Len(frames) /\ Len(frames) \in Nat
      /\ calls[n].level \in 1 .. Len(frames[calls[n].frame].handlers)
  BY WaitsFacts, StateFacts
<1>2. calls[n].frame # Len(frames)
  BY <1>1 DEF TopFrame
<1> QED
  BY <1>1, <1>2

-----------------------------------------------------------------------------
LEMMA MakeFrames ==
  ASSUME \A k \in 1 .. Len(frames') : Sound(frames'[k]),
         \A k \in 1 .. Len(frames') : (k = Len(frames') /\ Unrolling') \/ Whole(frames'[k]),
         pc' # "ended" => frames' # <<>> /\ frames'[1].kind = "start"
  PROVE  FramesSound'
  BY DEF FramesSound, Sound, Tells, Whole

(* A step that only ends or stops the bytecode under way.                  *)
LEMMA Stays ==
  ASSUME IInv, pc \in {"run", "fail"}, UNCHANGED <<frames, calls, exc, handling>>,
         pc' \in {"exited", "crashed", "done"},
         pc' = "done" =>
           calls # <<>> /\ TopCall.frame = Len(frames) /\ TopCall.level = Len(TopFrame.handlers)
  PROVE  IInv'
<1> DEFINE N == Len(calls)
<1>1. /\ N \in Nat /\ Waiting = 1 .. N /\ \A k \in 1 .. Len(frames) : Whole(frames[k])
      /\ \A k \in 1 .. Len(frames) : Sound(frames[k]) /\ frames[1].kind = "start"
      /\ frames # <<>> /\ frames[1].kind = "start"
  BY IdleFacts, StateFacts, Wholes
<1>2. Waiting' = 1 .. N
  BY DEF Waiting
<1>3. Typed'
  BY DEF IInv, Typed, Propagations
<1>4. FramesSound'
  BY <1>1, MakeFrames
<1>5. Covered'
  BY <1>1, <1>2 DEF IInv, WaitsSound, Covered, Passed
<1>6. AtWork' /\ AtEnd' /\ AimedFailure'
  BY DEF AtWork, AtEnd, AimedFailure, TopCall, TopFrame
<1>7. HeldUpTo(N)
  <2>1. ASSUME NEW n \in 1 .. N PROVE Held(n)
    <3>1. n \in Waiting /\ calls[n].frame \in 1 .. Len(frames) /\ Len(frames) \in Nat
      BY <1>1, WaitsFacts, StateFacts
    <3> QED
      BY <3>1, HeldBelow
  <2> QED
    BY <1>1, <2>1 DEF HeldUpTo
<1>8. Fresh(N)
  BY <1>1, <1>2 DEF Fresh
<1>9. FreshAim(N)
  BY <1>1 DEF FreshAim
<1> QED
  BY <1>1, <1>3, <1>4, <1>5, <1>6, <1>7, <1>8, <1>9, Preserved

(* A step that calls propagateException or unrollExceptionHandlerStack.    *)
LEMMA Started ==
  ASSUME IInv, pc \in {"run", "fail"}, NEW c \in CCall, calls' = Append(calls, c),
         UNCHANGED <<frames, exc>>, pc' = "c",
         handling' = handling + (IF c.kind = "propagate" THEN 1 ELSE 0),
         c.frame = Len(frames), c.level = Len(TopFrame.handlers),
         c.kind = "propagate" /\ calls # <<>> =>
           Caught(Len(calls), Len(frames), Len(TopFrame.handlers), c.exc),
         c.kind = "unroll" =>
           /\ c.target <= c.level
           /\ c.returns => c.target = 0
           /\ \A j \in c.target + 1 .. c.level : TopFrame.handlers[j].ran = 0
  PROVE  IInv'
<1> DEFINE N == Len(calls)
<1>1. /\ N \in Nat /\ Waiting = 1 .. N /\ \A k \in 1 .. Len(frames) : Whole(frames[k])
      /\ \A k \in 1 .. Len(frames) : Sound(frames[k]) /\ frames[1].kind = "start"
      /\ frames # <<>> /\ frames[1].kind = "start" /\ calls \in Seq(CCall)
      /\ Sound(TopFrame) /\ Len(TopFrame.handlers) \in Nat
  BY IdleFacts, StateFacts, Wholes, SoundFacts
<1>2. /\ calls' \in Seq(CCall) /\ Len(calls') = N + 1 /\ calls'[N + 1] = c
      /\ \A n \in 1 .. N : calls'[n] = calls[n]
  BY <1>1, AppendProperties
<1>3. Waiting' = 1 .. N /\ TopCall' = c /\ calls' # <<>> /\ TopFrame' = TopFrame
  BY <1>1, <1>2, EmptySeq DEF Waiting, TopCall, TopFrame
<1>4. Typed'
  <2>1. Cardinality(Propagations(calls')) =
          Cardinality(Propagations(calls)) + (IF c.kind = "propagate" THEN 1 ELSE 0)
    BY <1>1, CountAppend
  <2>2. handling' = Cardinality(Propagations(calls'))
    BY <2>1 DEF IInv, Typed
  <2> QED
    BY <1>2, <2>2 DEF IInv, Typed, Propagations
<1>5. FramesSound'
  BY <1>1, MakeFrames
<1>6. Covered'
  <2>1. ASSUME NEW k \in 1 .. Len(frames), NEW j \in 1 .. Len(frames[k].handlers),
               frames[k].handlers[j].ran = 1
        PROVE  \E n \in Waiting' : calls'[n].frame = k /\ calls'[n].level = j
    <3>1. \E n \in Waiting : calls[n].frame = k /\ calls[n].level = j
      BY <2>1 DEF IInv, WaitsSound, Covered, Passed
    <3> QED
      BY <1>1, <1>2, <1>3, <3>1
  <2> QED
    BY <2>1 DEF Covered
<1>7. AtWork'
  <2>1. ~ \E j \in c.level + 1 .. Len(TopFrame.handlers) : TRUE
    BY <1>1
  <2>2. c.level <= Len(TopFrame.handlers)
    BY <1>1
  <2> QED
    BY <1>3, <2>1, <2>2 DEF AtWork
<1>8. AtEnd' /\ AimedFailure'
  BY DEF AtEnd, AimedFailure
<1>9. HeldUpTo(N)
  <2>1. ASSUME NEW n \in 1 .. N PROVE Held(n)
    <3>1. /\ n \in Waiting /\ calls[n].frame \in 1 .. Len(frames) /\ Len(frames) \in Nat
          /\ calls'[n] = calls[n]
      BY <1>1, <1>2, WaitsFacts, StateFacts
    <3> QED
      BY <3>1, HeldBelow
  <2> QED
    BY <1>1, <1>2, <2>1 DEF HeldUpTo
<1>10. Fresh(N)
  BY <1>1, <1>3 DEF Fresh
<1>11. FreshAim(N)
  <2>1. ASSUME NEW n \in 2 .. Len(calls'), n > N, calls'[n].kind = "propagate"
        PROVE  Caught(n - 1, calls[n].frame, calls[n].level, calls[n].exc)'
    <3>1. n = N + 1 /\ calls'[n] = c /\ n - 1 = N /\ N \in 1 .. N /\ calls # <<>>
      BY <1>1, <1>2, <2>1, EmptySeq
    <3>2. Caught(N, Len(frames), Len(TopFrame.handlers), c.exc)
      BY <2>1, <3>1
    <3>3. calls'[n - 1] = calls[N]
      BY <1>2, <3>1
    <3>4. \E k \in calls[N].frame .. c.frame : \E j \in 1 .. Len(frames[k].handlers) :
            /\ ~Lets(frames[k].handlers[j], c.exc)
            /\ k = calls[N].frame => j > calls[N].level
            /\ k = c.frame => j <= c.level
      BY <3>2 DEF Caught
    <3> SUFFICES \E k \in calls'[n - 1].frame .. calls'[n].frame : \E j \in 1 .. Len(frames'[k].handlers) :
            /\ ~Lets(frames'[k].handlers[j], calls'[n].exc)
            /\ k = calls'[n - 1].frame => j > calls'[n - 1].level
            /\ k = calls'[n].frame => j <= calls'[n].level
      BY DEF Caught, Lets
    <3> QED
      BY <3>1, <3>3, <3>4
  <2> QED
    BY <2>1 DEF FreshAim
<1> QED
  BY <1>1, <1>4, <1>5, <1>6, <1>7, <1>8, <1>9, <1>10, <1>11, Preserved

(* An exception that a try statement of the source catches inside the      *)
(* finally block in progress meets a handler that catches it, above the    *)
(* one that runs the block.                                                *)
LEMMA InsideCaught ==
  ASSUME IInv, pc = "run", NEW e, StaysInside(e), calls # <<>>
  PROVE  Caught(Len(calls), Len(frames), Len(TopFrame.handlers), e)
<1> DEFINE b == Len(calls)
<1>1. /\ b \in Nat /\ b # 0 /\ b \in Waiting /\ Len(frames) \in Nat
      /\ \A k \in 1 .. Len(frames) : Sound(frames[k]) /\ Whole(frames[k])
  BY StateFacts, IdleFacts, EmptySeq, Wholes
<1>2. /\ TopCall = calls[b] /\ calls[b].frame \in 1 .. Len(frames)
      /\ calls[b].level \in 1 .. Len(frames[calls[b].frame].handlers)
      /\ frames[calls[b].frame].handlers[calls[b].level].ran = 1
  BY <1>1, WaitsFacts DEF TopCall
<1> HIDE DEF b
<1>3. PICK k \in calls[b].frame .. Len(frames) : \E j \in DOMAIN frames[k].pos :
        /\ frames[k].pos[j].part = "body" /\ e \in Catches[frames[k].pos[j].try]
        /\ k = calls[b].frame => ~InFinally(SubSeq(frames[k].pos, j, Len(frames[k].pos)))
  BY <1>2 DEF StaysInside
<1>4. PICK j \in DOMAIN frames[k].pos :
        /\ frames[k].pos[j].part = "body" /\ e \in Catches[frames[k].pos[j].try]
        /\ k = calls[b].frame => ~InFinally(SubSeq(frames[k].pos, j, Len(frames[k].pos)))
  BY <1>3
<1> DEFINE f == frames[k]
           pos == f.pos
           S == [try : Try, part : Parts]
<1>5. k \in 1 .. Len(frames)
  BY <1>1, <1>2
<1>6. /\ f.handlers \in Seq(TryBlock) /\ pos \in Seq(S) /\ Len(pos) \in Nat
      /\ Len(f.handlers) = Len(pos) /\ \A i \in 1 .. Len(f.handlers) : Tells(f, i)
  BY <1>1, <1>5, SoundFacts DEF Whole, Position
<1>7. j \in 1 .. Len(f.handlers) /\ ~Lets(f.handlers[j], e)
  <2>1. j \in 1 .. Len(f.handlers)
    BY <1>4, <1>6, LenProperties
  <2>2. f.handlers[j].try = f.pos[j].try /\ ~f.handlers[j].caught
    BY <1>4, <1>6, <2>1 DEF Tells
  <2> QED
    BY <1>4, <2>1, <2>2 DEF Lets
<1>8. ASSUME k = calls[b].frame, ~(j > calls[b].level) PROVE FALSE
  <2> DEFINE l == calls[b].level
             s == SubSeq(pos, j, Len(pos))
  <2>1. l \in 1 .. Len(f.handlers) /\ f.handlers[l].ran = 1 /\ j <= l /\ l \in Nat /\ j \in Nat
    BY <1>2, <1>7, <1>8
  <2>2. pos[l].part = "finally"
    BY <1>6, <2>1 DEF Tells
  <2> HIDE DEF l, f, pos, S
  <2>3. l \in Nat /\ j \in Nat /\ 1 <= j /\ j <= l /\ l <= Len(pos) /\ Len(pos) \in Nat
    BY <1>6, <1>7, <2>1
  <2> DEFINE m == (l - j) + 1
  <2>4. s[m] = pos[l] /\ s \in Seq(S) /\ m \in 1 .. Len(s)
    <3>1. \A i \in 1 .. Len(pos) : pos[i] \in S
      BY <1>6, ElementOfSeq
    <3>2. \A i \in j .. Len(pos) : pos[i] \in S
      BY <2>3, <3>1
    <3>3. j \in Int /\ Len(pos) \in Int /\ j <= Len(pos)
      BY <2>3
    <3>4. /\ s \in Seq(S) /\ Len(s) = Len(pos) - j + 1
          /\ \A i \in 1 .. Len(pos) - j + 1 : s[i] = pos[j + i - 1]
      BY <3>2, <3>3, SubSeqProperties
    <3>5. m \in 1 .. Len(pos) - j + 1 /\ j + m - 1 = l
      BY <2>3
    <3> HIDE DEF m, s
    <3> QED
      BY <3>4, <3>5
  <2>5. DOMAIN s = 1 .. Len(s)
    BY <2>4, LenProperties
  <2>6. m \in DOMAIN s /\ s[m].part = "finally"
    BY <2>2, <2>4, <2>5
  <2> HIDE DEF s, m
  <2>7. InFinally(s)
    BY <2>6 DEF InFinally
  <2> QED
    BY <1>4, <1>8, <2>7 DEF s, f, pos
<1>9. k = Len(frames) => j <= Len(TopFrame.handlers)
  BY <1>7, <1>6 DEF TopFrame
<1> QED
  BY <1>3, <1>4, <1>7, <1>8, <1>9 DEF Caught, b

-----------------------------------------------------------------------------
LEMMA ThrowStep ==
  ASSUME IInv, pc \in {"run", "fail"}, NEW e \in Exc, ThrowIn(e),
         calls # <<>> => Caught(Len(calls), Len(frames), Len(TopFrame.handlers), e)
  PROVE  IInv'
<1>1. CASE \E k \in 1 .. Len(frames) : frames[k].kind = "native"
  <2>1. pc' = "crashed" /\ UNCHANGED <<frames, calls, exc, handling>>
    BY <1>1 DEF ThrowIn
  <2> QED
    BY <2>1, Stays
<1>2. CASE ~ \E k \in 1 .. Len(frames) : frames[k].kind = "native"
  <2> DEFINE c == [kind |-> "propagate", frame |-> Len(frames), exc |-> e,
                   level |-> Len(TopFrame.handlers)]
  <2>1. Len(frames) \in Nat /\ Len(TopFrame.handlers) \in Nat
    BY StateFacts, SoundFacts
  <2>2. /\ c \in CCall /\ c.kind = "propagate" /\ c.frame = Len(frames)
        /\ c.level = Len(TopFrame.handlers) /\ c.exc = e
    BY <2>1 DEF CCall
  <2>3. /\ calls' = Append(calls, c) /\ UNCHANGED <<frames, exc>> /\ pc' = "c"
        /\ handling' = handling + 1
    BY <1>2 DEF ThrowIn
  <2> HIDE DEF c
  <2>4. handling' = handling + (IF c.kind = "propagate" THEN 1 ELSE 0)
    BY <2>2, <2>3
  <2> QED
    BY <2>2, <2>3, <2>4, Started
<1> QED
  BY <1>1, <1>2

LEMMA ThrowHolds ==
  ASSUME IInv, Throw
  PROVE  IInv'
<1>1. PICK e \in Exc : StaysInside(e) /\ ThrowIn(e)
  BY DEF Throw
<1>2. pc = "run"
  BY DEF Throw, Running
<1>3. calls # <<>> => Caught(Len(calls), Len(frames), Len(TopFrame.handlers), e)
  BY <1>1, <1>2, InsideCaught
<1> QED
  BY <1>1, <1>2, <1>3, ThrowStep

LEMMA ErrorStep ==
  ASSUME IInv, pc = "run", RuntimeError
  PROVE  IInv'
<1>1. CASE handling > 0
  <2>1. pc' = "exited" /\ UNCHANGED <<frames, calls, exc, handling>>
    BY <1>1 DEF RuntimeError
  <2> QED
    BY <2>1, Stays
<1>2. CASE ~(handling > 0)
  <2>1. StaysInside(RuntimeExc) /\ ThrowIn(RuntimeExc) /\ RuntimeExc \in Exc
    BY <1>2, ExceptionsAssumption DEF RuntimeError
  <2>2. calls # <<>> => Caught(Len(calls), Len(frames), Len(TopFrame.handlers), RuntimeExc)
    BY <2>1, InsideCaught
  <2> QED
    BY <2>1, <2>2, ThrowStep
<1> QED
  BY <1>1, <1>2

LEMMA FaultHolds ==
  ASSUME IInv, Fault
  PROVE  IInv'
  BY ErrorStep DEF Fault, Running

LEMMA FailScriptHolds ==
  ASSUME IInv, FailScript
  PROVE  IInv'
<1>1. PICK e : e = exc
  OBVIOUS
<1>2. e \in Exc /\ pc = "fail" /\ ThrowIn(e)
  BY <1>1, StateFacts DEF FailScript
<1>3. calls # <<>> => Caught(Len(calls), Len(frames), Len(TopFrame.handlers), e)
  BY <1>1, <1>2 DEF IInv, Aimed, AimedFailure
<1> QED
  BY <1>2, <1>3, ThrowStep

LEMMA UnrollStep ==
  ASSUME IInv, pc = "run", NEW n \in Nat, NEW returns \in BOOLEAN, StartUnroll(n, returns),
         n <= Len(TopFrame.pos), returns => n = 0,
         \A m \in n + 1 .. Len(TopFrame.pos) : TopFrame.pos[m].part # "finally"
  PROVE  IInv'
<1> DEFINE c == [kind |-> "unroll", frame |-> Len(frames), level |-> Len(TopFrame.handlers),
                 target |-> n, returns |-> returns]
<1>1. /\ Len(frames) \in Nat /\ Len(TopFrame.handlers) \in Nat
      /\ Len(TopFrame.handlers) = Len(TopFrame.pos)
      /\ \A j \in 1 .. Len(TopFrame.handlers) :
           Tells(TopFrame, j) /\ TopFrame.handlers[j] \in TryBlock
  BY StateFacts, SoundFacts, Wholes DEF Whole, TopFrame
<1>2. /\ c \in CCall /\ c.kind = "unroll" /\ c.frame = Len(frames)
      /\ c.level = Len(TopFrame.handlers) /\ c.target = n /\ c.returns = returns
  BY <1>1 DEF CCall
<1>3. /\ calls' = Append(calls, c) /\ UNCHANGED <<frames, exc>> /\ pc' = "c"
      /\ handling' = handling
  BY DEF StartUnroll
<1>4. ASSUME NEW j \in n + 1 .. Len(TopFrame.handlers) PROVE TopFrame.handlers[j].ran = 0
  <2>1. j \in 1 .. Len(TopFrame.handlers) /\ TopFrame.pos[j].part # "finally"
    BY <1>1
  <2>2. Tells(TopFrame, j) /\ TopFrame.handlers[j].ran \in {0, 1}
    BY <1>1, <2>1, BlockFacts
  <2> QED
    BY <2>1, <2>2 DEF Tells
<1> HIDE DEF c
<1>5. handling' = handling + (IF c.kind = "propagate" THEN 1 ELSE 0)
  <2>1. handling \in Nat
    BY StateFacts, PropagationsFinite DEF IInv, Typed
  <2> QED
    BY <1>2, <1>3, <2>1
<1>6. c.target <= c.level /\ (c.returns => c.target = 0)
  BY <1>1, <1>2
<1>7. \A j \in c.target + 1 .. c.level : TopFrame.handlers[j].ran = 0
  BY <1>2, <1>4
<1> QED
  BY <1>2, <1>3, <1>5, <1>6, <1>7, Started

LEMMA LeaveHolds ==
  ASSUME IInv, Leave
  PROVE  IInv'
<1>1. pc = "run" /\ Len(TopFrame.pos) \in Nat
  BY StateFacts, SoundFacts DEF Leave, Running
<1>2. PICK n \in 0 .. Len(TopFrame.pos) - 1 :
        /\ \A m \in n + 1 .. Len(TopFrame.pos) : TopFrame.pos[m].part # "finally"
        /\ StartUnroll(n, FALSE)
  BY DEF Leave
<1>3. n \in Nat /\ n <= Len(TopFrame.pos)
  BY <1>1
<1> QED
  BY <1>1, <1>2, <1>3, UnrollStep

(* The finally block that ends is the one that the latest call waits for.  *)
LEMMA FinallyEndHolds ==
  ASSUME IInv, FinallyEnd
  PROVE  IInv'
<1> DEFINE L == Len(TopFrame.handlers)
           N == Len(calls)
<1>1. /\ pc = "run" /\ pc' = "done" /\ UNCHANGED <<frames, calls, exc, handling>>
      /\ TopFrame.pos # <<>> /\ TopFrame.pos[Len(TopFrame.pos)].part = "finally"
  BY DEF FinallyEnd, Running
<1>2. /\ Len(frames) \in 1 .. Len(frames) /\ Len(frames) \in Nat /\ L \in Nat
      /\ Len(TopFrame.pos) = L
      /\ \A j \in 1 .. L : Tells(TopFrame, j)
      /\ TopFrame.pos \in Position /\ Waiting = 1 .. N /\ N \in Nat
  BY <1>1, StateFacts, SoundFacts, Wholes, IdleFacts DEF Whole, TopFrame
<1>3. L # 0 /\ L \in 1 .. L
  BY <1>1, <1>2, EmptySeq DEF Position
<1>4. TopFrame.handlers[L].ran = 1
  BY <1>1, <1>2, <1>3 DEF Tells
<1>5. PICK n \in Waiting : calls[n].frame = Len(frames) /\ calls[n].level = L
  BY <1>1, <1>2, <1>3, <1>4 DEF IInv, WaitsSound, Covered, Passed, TopFrame
<1>6. N \in Waiting /\ TopCall = calls[N] /\ (n = N \/ n < N)
  BY <1>2, <1>5 DEF TopCall
<1>7. /\ TopCall.frame \in 1 .. Len(frames) /\ TopCall.level \in Nat
      /\ TopCall.level \in 1 .. Len(frames[TopCall.frame].handlers)
  BY <1>6, WaitsFacts, CallFacts
<1>8. TopCall.frame = Len(frames) /\ TopCall.level = L
  <2>1. CASE n = N
    BY <1>5, <1>6, <2>1
  <2>2. CASE n < N
    <3>1. Before(calls[n], TopCall)
      BY <1>6, <2>2 DEF IInv, WaitsSound, Ordered
    <3>2. TopCall.frame = Len(frames) /\ L < TopCall.level
      BY <1>2, <1>5, <1>7, <3>1 DEF Before
    <3> QED
      BY <1>2, <1>7, <3>2 DEF TopFrame
  <2> QED
    BY <1>6, <2>1, <2>2
<1>9. calls # <<>>
  BY <1>2, <1>5, EmptySeq
<1> QED
  BY <1>1, <1>8, <1>9, Stays

-----------------------------------------------------------------------------
(* A step that pushes, pops or changes a frame, the calls stay.            *)
LEMMA SameCalls ==
  ASSUME IInv, pc \in {"run", "fail"}, UNCHANGED <<calls, handling>>, exc' \in Exc,
         pc' \in {"run", "fail", "ended"}, frames' \in Seq(CallFrame),
         \A k \in 1 .. Len(frames') : Sound(frames'[k]) /\ Whole(frames'[k]),
         pc' # "ended" => frames' # <<>> /\ frames'[1].kind = "start",
         \A n \in 1 .. Len(calls) : Held(n),
         \A k \in 1 .. Len(frames') : \A j \in 1 .. Len(frames'[k].handlers) :
           frames'[k].handlers[j].ran = 1 =>
             /\ k \in 1 .. Len(frames) /\ j \in 1 .. Len(frames[k].handlers)
             /\ frames[k].handlers[j].ran = 1,
         AimedFailure'
  PROVE  IInv'
<1> DEFINE N == Len(calls)
<1>1. N \in Nat /\ Waiting = 1 .. N
  BY IdleFacts, StateFacts
<1>2. Waiting' = 1 .. N
  BY DEF Waiting
<1>3. Typed'
  BY DEF IInv, Typed, Propagations
<1>4. FramesSound'
  BY MakeFrames
<1>5. Covered'
  <2>1. ASSUME NEW k \in 1 .. Len(frames'), NEW j \in 1 .. Len(frames'[k].handlers),
               frames'[k].handlers[j].ran = 1
        PROVE  \E n \in Waiting' : calls'[n].frame = k /\ calls'[n].level = j
    <3>1. \E n \in Waiting : calls[n].frame = k /\ calls[n].level = j
      BY <2>1 DEF IInv, WaitsSound, Covered, Passed
    <3> QED
      BY <1>1, <1>2, <3>1
  <2> QED
    BY <2>1 DEF Covered
<1>6. AtWork' /\ AtEnd'
  BY DEF AtWork, AtEnd
<1>7. HeldUpTo(N)
  BY <1>1 DEF HeldUpTo
<1>8. Fresh(N)
  BY <1>1, <1>2 DEF Fresh
<1>9. FreshAim(N)
  BY <1>1 DEF FreshAim
<1> QED
  BY <1>1, <1>3, <1>4, <1>5, <1>6, <1>7, <1>8, <1>9, Preserved

LEMMA EnterTryHolds ==
  ASSUME IInv, NEW t \in Try, EnterTry(t)
  PROVE  IInv'
<1> DEFINE f == TopFrame
           n == Len(f.handlers)
<1>1. /\ pc = "run" /\ f.kind # "native" /\ Sound(f) /\ Whole(f) /\ n \in Nat
      /\ n <= MaxHandlers /\ Len(f.pos) = n /\ Len(frames) \in 1 .. Len(frames)
      /\ f = Fr(f.kind, f.pos, f.handlers)
  BY StateFacts, SoundFacts, FrameFacts, Wholes DEF EnterTry, Running, Script, Whole, TopFrame
<1>2. CASE n = MaxHandlers
  <2>1. RuntimeError
    BY <1>2 DEF EnterTry
  <2> QED
    BY <1>1, <2>1, ErrorStep
<1>3. CASE n # MaxHandlers
  <2> DEFINE g == Entered(f, t)
  <2>1. n < MaxHandlers
    BY <1>1, <1>3, ExceptionsAssumption
  <2>2. UNCHANGED <<calls, pc, exc, handling>>
    BY <1>3 DEF EnterTry
  <2>3. SetTopFrame(g)
    <3> DEFINE new == Handler(t, f.pos)
               level == Len(f.pos) + 1
    <3>1. SetTopFrame([f EXCEPT !.pos = Append(@, Region(t, "body")),
                                !.handlers = IF level > Len(@) THEN Append(@, new)
                                             ELSE [@ EXCEPT ![level] = new]])
      BY <1>3 DEF EnterTry
    <3> DEFINE p == Append(f.pos, Region(t, "body"))
               h == IF level > Len(f.handlers) THEN Append(f.handlers, new)
                    ELSE [f.handlers EXCEPT ![level] = new]
    <3>2. SetTopFrame([f EXCEPT !.pos = p, !.handlers = h])
      BY <3>1
    <3>3. h = Append(f.handlers, new)
      BY <1>1
    <3>4. f \in CallFrame
      BY <1>1, SoundFacts
    <3> HIDE DEF f, p, h
    <3>5. [f EXCEPT !.pos = p, !.handlers = h] = Fr(f.kind, p, h)
      BY <3>4, Reframed
    <3>6. g = Fr(f.kind, p, h)
      BY <3>3 DEF Entered, p
    <3> QED
      BY <3>2, <3>5, <3>6
  <2> HIDE DEF g
  <2>4. /\ Sound(g) /\ Whole(g) /\ g.kind = f.kind /\ Alike(g, f, n) /\ Len(g.handlers) = n + 1
        /\ g.handlers[n + 1].ran = 0
    BY <1>1, <2>1, EnteredSound DEF g
  <2>5. /\ frames' \in Seq(CallFrame) /\ Len(frames') = Len(frames) /\ frames' # <<>>
        /\ frames'[Len(frames)] = g
        /\ \A k \in 1 .. Len(frames) : k # Len(frames) => frames'[k] = frames[k]
        /\ \A k \in 1 .. Len(frames) : Sound(frames'[k])
        /\ frames'[1].kind = "start"
    BY <1>1, <2>3, <2>4, TopSet
  <2>6. \A k \in 1 .. Len(frames') : Sound(frames'[k]) /\ Whole(frames'[k])
    BY <1>1, <2>4, <2>5, Wholes
  <2>7. ASSUME NEW m \in 1 .. Len(calls) PROVE Held(m)
    <3>1. m \in Waiting /\ calls'[m] = calls[m]
      BY <1>1, <2>2, IdleFacts
    <3>2. calls[m].frame = Len(frames) => calls[m].level <= n
      BY <1>1, <3>1, WaitsFacts DEF TopFrame
    <3>3. Len(g.handlers) \in Nat /\ Alike(frames'[Len(frames)], frames[Len(frames)], n)
      BY <1>1, <2>4, <2>5 DEF TopFrame
    <3> QED
      BY <1>1, <2>5, <3>1, <3>2, <3>3, HeldTop
  <2>8. ASSUME NEW k \in 1 .. Len(frames'), NEW j \in 1 .. Len(frames'[k].handlers),
               frames'[k].handlers[j].ran = 1
        PROVE  /\ k \in 1 .. Len(frames) /\ j \in 1 .. Len(frames[k].handlers)
               /\ frames[k].handlers[j].ran = 1
    <3>1. CASE k = Len(frames)
      <4>1. frames'[k] = g /\ frames[k] = f
        BY <2>5, <3>1 DEF TopFrame
      <4>2. j \in 1 .. n + 1 /\ j # n + 1
        BY <1>1, <2>4, <2>8, <4>1
      <4>3. j \in 1 .. n
        BY <1>1, <4>2
      <4> QED
        BY <2>4, <2>5, <2>8, <4>1, <4>3 DEF Alike
    <3>2. CASE k # Len(frames)
      BY <2>5, <2>8, <3>2
    <3> QED
      BY <3>1, <3>2
  <2>9. AimedFailure'
    BY <1>1, <2>2 DEF AimedFailure
  <2>10. exc' \in Exc /\ pc' = "run"
    BY <1>1, <2>2, StateFacts
  <2> QED
    BY <1>1, <2>2, <2>5, <2>6, <2>7, <2>8, <2>9, <2>10, SameCalls
<1> QED
  BY <1>2, <1>3

LEMMA CallHolds ==
  ASSUME IInv, Call
  PROVE  IInv'
<1>1. pc = "run" /\ UNCHANGED <<calls, pc, exc, handling>>
  BY DEF Call
<1>2. PICK kind \in Script \cup {"native"} : frames' = Append(frames, Frame(kind))
  BY DEF Call, Script
<1>3. /\ frames' \in Seq(CallFrame) /\ Len(frames') = Len(frames) + 1 /\ frames' # <<>>
      /\ Len(frames'[Len(frames) + 1].handlers) = 0
      /\ Whole(frames'[Len(frames) + 1])
      /\ \A k \in 1 .. Len(frames) : frames'[k] = frames[k]
      /\ \A k \in 1 .. Len(frames) + 1 : Sound(frames'[k])
      /\ frames'[1].kind = "start"
  BY <1>1, <1>2, Pushed
<1>4. /\ Len(frames) \in Nat
      /\ \A k \in 1 .. Len(frames') : k = Len(frames) + 1 \/ k \in 1 .. Len(frames)
  BY <1>3, StateFacts
<1>5. \A k \in 1 .. Len(frames') : Sound(frames'[k]) /\ Whole(frames'[k])
  BY <1>1, <1>3, <1>4, Wholes
<1>6. ASSUME NEW m \in 1 .. Len(calls) PROVE Held(m)
  <2>1. m \in Waiting /\ calls'[m] = calls[m] /\ calls[m].frame \in 1 .. Len(frames)
    BY <1>1, IdleFacts, WaitsFacts
  <2>2. calls[m].frame <= Len(frames') /\ \A k \in 1 .. calls[m].frame : frames'[k] = frames[k]
    BY <1>3, <1>4, <2>1
  <2> QED
    BY <2>1, <2>2, HeldBelow
<1>7. ASSUME NEW k \in 1 .. Len(frames'), NEW j \in 1 .. Len(frames'[k].handlers),
             frames'[k].handlers[j].ran = 1
      PROVE  /\ k \in 1 .. Len(frames) /\ j \in 1 .. Len(frames[k].handlers)
             /\ frames[k].handlers[j].ran = 1
  BY <1>3, <1>4, <1>7
<1>8. AimedFailure' /\ exc' \in Exc /\ pc' = "run"
  BY <1>1, StateFacts DEF AimedFailure
<1> QED
  BY <1>1, <1>3, <1>5, <1>6, <1>7, <1>8, SameCalls

(* An exception caught below the frame on top.                             *)
LEMMA CaughtNext ==
  ASSUME IInv, pc # "ended", NEW m \in Waiting, NEW e, NEW level \in Nat,
         Caught(m, Len(frames), level, e),
         level = 0 \/ Len(TopFrame.handlers) = 0
  PROVE  /\ Len(frames) # 1
         /\ Caught(m, Len(frames) - 1, Len(frames[Len(frames) - 1].handlers), e)
<1>1. PICK k \in calls[m].frame .. Len(frames) : \E j \in 1 .. Len(frames[k].handlers) :
        /\ ~Lets(frames[k].handlers[j], e)
        /\ k = calls[m].frame => j > calls[m].level
        /\ k = Len(frames) => j <= level
  BY DEF Caught
<1>2. PICK j \in 1 .. Len(frames[k].handlers) :
        /\ ~Lets(frames[k].handlers[j], e)
        /\ k = calls[m].frame => j > calls[m].level
        /\ k = Len(frames) => j <= level
  BY <1>1
<1>3. calls[m].frame \in 1 .. Len(frames) /\ Len(frames) \in Nat
  BY WaitsFacts, StateFacts
<1>4. k # Len(frames)
  BY <1>2 DEF TopFrame
<1>5. k \in calls[m].frame .. Len(frames) - 1 /\ Len(frames) # 1 /\ k \in 1 .. Len(frames)
  <2> DEFINE b == calls[m].frame
             l == Len(frames)
  <2>1. k \in b .. l /\ b \in 1 .. l /\ l \in Nat /\ k # l
    BY <1>3, <1>4
  <2> HIDE DEF b, l
  <2>2. k \in b .. l - 1 /\ l # 1 /\ k \in 1 .. l
    BY <2>1
  <2> QED
    BY <2>2 DEF b, l
<1>6. k = Len(frames) - 1 => j <= Len(frames[Len(frames) - 1].handlers)
  BY <1>2, <1>5, StateFacts, SoundFacts
<1> QED
  BY <1>2, <1>5, <1>6 DEF Caught

LEMMA PoppedBare ==
  ASSUME IInv, pc \in {"run", "fail"}, Len(TopFrame.handlers) = 0, frames' = Front(frames),
         UNCHANGED <<calls, handling>>, exc' \in Exc, pc' \in {"run", "fail", "ended"},
         pc' # "ended" => Len(frames) # 1,
         NEW e, e = exc',
         pc' = "fail" /\ calls # <<>> => Caught(Len(calls), Len(frames), 0, e)
  PROVE  IInv'
<1>1. /\ frames' \in Seq(CallFrame) /\ Len(frames') = Len(frames) - 1
      /\ \A k \in 1 .. Len(frames) - 1 : frames'[k] = frames[k]
      /\ \A k \in 1 .. Len(frames') : Sound(frames'[k]) /\ Whole(frames'[k])
      /\ Len(frames) # 1 => /\ frames' # <<>> /\ frames'[1].kind = "start"
                            /\ Len(frames) - 1 \in 1 .. Len(frames)
                            /\ TopFrame' = frames[Len(frames) - 1]
  BY Popped
<1>2. Len(frames) \in Nat \ {0} /\ Waiting = 1 .. Len(calls) /\ Len(calls) \in Nat
  BY StateFacts, IdleFacts
<1>3. ASSUME NEW m \in 1 .. Len(calls) PROVE Held(m) /\ calls[m].frame \in 1 .. Len(frames) - 1
  <2>1. m \in Waiting /\ calls'[m] = calls[m] /\ calls[m].frame \in 1 .. Len(frames) - 1
    BY <1>2, NoneOnTop
  <2>2. calls[m].frame <= Len(frames') /\ \A k \in 1 .. calls[m].frame : frames'[k] = frames[k]
    BY <1>1, <1>2, <2>1
  <2> QED
    BY <2>1, <2>2, HeldBelow
<1>4. ASSUME NEW k \in 1 .. Len(frames'), NEW j \in 1 .. Len(frames'[k].handlers),
             frames'[k].handlers[j].ran = 1
      PROVE  /\ k \in 1 .. Len(frames) /\ j \in 1 .. Len(frames[k].handlers)
             /\ frames[k].handlers[j].ran = 1
  <2>1. k \in 1 .. Len(frames) - 1 /\ k \in 1 .. Len(frames)
    BY <1>1, <1>2
  <2> QED
    BY <1>1, <1>4, <2>1
<1>5. AimedFailure'
  <2>1. ASSUME pc' = "fail", calls # <<>>
        PROVE  Caught(Len(calls), Len(frames), Len(TopFrame.handlers), exc)'
    <3> DEFINE m == Len(calls)
               below == Len(frames) - 1
    <3>1. m \in Waiting /\ m \in 1 .. Len(calls) /\ calls[m].frame \in 1 .. below
      BY <1>2, <1>3, <2>1, EmptySeq, StateFacts
    <3>2. Caught(m, below, Len(frames[below].handlers), e)
      BY <2>1, <3>1, CaughtNext
    <3>3. /\ Len(frames') = below /\ TopFrame' = frames[below]
          /\ \A k \in calls[m].frame .. below : frames'[k] = frames[k]
      <4>1. below \in Nat /\ \A k \in calls[m].frame .. below : k \in 1 .. below
        BY <1>2, <3>1
      <4> QED
        BY <1>1, <2>1, <4>1
    <3> HIDE DEF m, below
    <3>4. \E k \in calls[m].frame .. below : \E j \in 1 .. Len(frames[k].handlers) :
            /\ ~Lets(frames[k].handlers[j], e)
            /\ k = calls[m].frame => j > calls[m].level
            /\ k = below => j <= Len(frames[below].handlers)
      BY <3>2 DEF Caught
    <3>5. \E k \in calls'[m].frame .. Len(frames') : \E j \in 1 .. Len(frames'[k].handlers) :
            /\ ~Lets(frames'[k].handlers[j], exc')
            /\ k = calls'[m].frame => j > calls'[m].level
            /\ k = Len(frames') => j <= Len(TopFrame'.handlers)
      BY <3>3, <3>4
    <3> QED
      BY <3>5 DEF Caught, Lets, m
  <2> QED
    BY <2>1 DEF AimedFailure
<1> QED
  BY <1>1, <1>3, <1>4, <1>5, SameCalls

LEMMA ReturnHolds ==
  ASSUME IInv, Return
  PROVE  IInv'
<1>1. /\ pc = "run" /\ ~InFinally(TopFrame.pos) /\ Sound(TopFrame) /\ TopFrame.pos \in Position
      /\ Len(TopFrame.pos) \in Nat
  BY StateFacts, SoundFacts DEF Return, Running
<1>2. CASE TopFrame.pos = <<>>
  <2>1. ReturnFrame /\ UNCHANGED calls
    BY <1>2 DEF Return
  <2>2. Len(TopFrame.handlers) = 0
    <3>1. Len(TopFrame.pos) = 0 /\ Len(TopFrame.handlers) <= Len(TopFrame.pos)
          /\ Len(TopFrame.handlers) \in Nat
      BY <1>1, <1>2, EmptySeq, SoundFacts
    <3> QED
      BY <3>1
  <2>3. /\ frames' = Front(frames) /\ UNCHANGED <<calls, handling>> /\ exc' \in Exc
        /\ pc' \in {"run", "fail", "ended"} /\ pc' # "fail"
        /\ pc' # "ended" => Len(frames) # 1
    BY <2>1, StateFacts DEF ReturnFrame
  <2> QED
    BY <1>1, <2>2, <2>3, PoppedBare
<1>3. CASE TopFrame.pos # <<>>
  <2>1. StartUnroll(0, TRUE)
    BY <1>3 DEF Return
  <2>2. DOMAIN TopFrame.pos = 1 .. Len(TopFrame.pos)
    BY <1>1, LenProperties DEF Position
  <2>3. \A m \in 0 + 1 .. Len(TopFrame.pos) : TopFrame.pos[m].part # "finally"
    BY <1>1, <2>2 DEF InFinally
  <2> DEFINE z == 0
             yes == TRUE
  <2>4. StartUnroll(z, yes)
    BY <2>1
  <2>5. yes \in BOOLEAN
    OBVIOUS
  <2> HIDE DEF yes
  <2>6. /\ z \in Nat /\ z = 0 /\ z <= Len(TopFrame.pos)
        /\ \A m \in z + 1 .. Len(TopFrame.pos) : TopFrame.pos[m].part # "finally"
    BY <1>1, <2>3
  <2> HIDE DEF z
  <2> QED
    BY <1>1, <2>4, <2>5, <2>6, UnrollStep
<1> QED
  BY <1>2, <1>3

LEMMA NativeFacts ==
  ASSUME IInv, pc # "ended", TopFrame.kind = "native"
  PROVE  Len(TopFrame.handlers) = 0 /\ Len(frames) # 1
<1>1. Len(TopFrame.handlers) = 0 /\ frames[1].kind = "start"
  BY StateFacts, SoundFacts
<1> QED
  BY <1>1 DEF TopFrame

LEMMA NativeReturnHolds ==
  ASSUME IInv, NativeReturn
  PROVE  IInv'
<1>1. /\ pc = "run" /\ TopFrame.kind = "native" /\ frames' = Front(frames)
      /\ UNCHANGED <<calls, pc, exc, handling>>
  BY DEF NativeReturn, Running
<1>2. Len(TopFrame.handlers) = 0 /\ Len(frames) # 1 /\ exc' \in Exc
  BY <1>1, NativeFacts, StateFacts
<1> QED
  BY <1>1, <1>2, PoppedBare

LEMMA NativeRaisesStep ==
  ASSUME IInv, pc = "run", TopFrame.kind = "native", NEW e \in Exc, NativeRaises(e)
  PROVE  IInv'
<1>1. /\ StaysInside(e) /\ frames' = Front(frames) /\ exc' = e /\ pc' = "fail"
      /\ UNCHANGED <<calls, handling>>
  BY DEF NativeRaises
<1>2. Len(TopFrame.handlers) = 0 /\ Len(frames) # 1
  BY NativeFacts
<1>3. calls # <<>> => Caught(Len(calls), Len(frames), 0, e)
  BY <1>1, <1>2, InsideCaught
<1> QED
  BY <1>1, <1>2, <1>3, PoppedBare

LEMMA NativeFaultHolds ==
  ASSUME IInv, NativeFault
  PROVE  IInv'
<1>1. pc = "run" /\ TopFrame.kind = "native" /\ RuntimeExc \in Exc
  BY ExceptionsAssumption DEF NativeFault, Running
<1>2. CASE handling > 0
  <2>1. pc' = "exited" /\ UNCHANGED <<frames, calls, exc, handling>>
    BY <1>2 DEF NativeFault
  <2> QED
    BY <1>1, <2>1, Stays
<1>3. CASE ~(handling > 0)
  BY <1>1, <1>3, NativeRaisesStep DEF NativeFault
<1> QED
  BY <1>2, <1>3

LEMMA NativeOomHolds ==
  ASSUME IInv, NativeOom
  PROVE  IInv'
  BY ExceptionsAssumption, NativeRaisesStep DEF NativeOom, Running

LEMMA FailNativeHolds ==
  ASSUME IInv, FailNative
  PROVE  IInv'
<1>1. /\ pc = "fail" /\ TopFrame.kind = "native" /\ frames' = Front(frames)
      /\ UNCHANGED <<calls, pc, exc, handling>>
  BY DEF FailNative
<1>2. Len(TopFrame.handlers) = 0 /\ Len(frames) # 1 /\ exc' \in Exc
  BY <1>1, NativeFacts, StateFacts
<1>3. PICK e : e = exc'
  OBVIOUS
<1>4. calls # <<>> => Caught(Len(calls), Len(frames), 0, e)
  BY <1>1, <1>2, <1>3 DEF IInv, Aimed, AimedFailure
<1> QED
  BY <1>1, <1>2, <1>3, <1>4, PoppedBare

-----------------------------------------------------------------------------
(* How a step changes the calls.                                           *)
LEMMA CallsPopped ==
  ASSUME IInv, pc = "c", calls' = Front(calls)
  PROVE  /\ calls' \in Seq(CCall) /\ Len(calls') = Len(calls) - 1
         /\ \A n \in 1 .. Len(calls) - 1 : calls'[n] = calls[n]
         /\ Cardinality(Propagations(calls')) =
              handling - (IF TopCall.kind = "propagate" THEN 1 ELSE 0)
<1>1. calls \in Seq(CCall) /\ calls # <<>>
  BY StateFacts, WorkFacts
<1>2. /\ calls' \in Seq(CCall) /\ Len(calls') = Len(calls) - 1
      /\ \A n \in 1 .. Len(calls) - 1 : calls'[n] = calls[n]
  BY <1>1, FrontFacts
<1>3. Cardinality(Propagations(calls')) =
        Cardinality(Propagations(calls)) - (IF TopCall.kind = "propagate" THEN 1 ELSE 0)
  BY <1>1, CountFront DEF TopCall
<1> QED
  BY <1>2, <1>3 DEF IInv, Typed

LEMMA CallsSet ==
  ASSUME IInv, calls # <<>>, NEW d, NEW frame, NEW level, Onward(d, TopCall, frame, level),
         calls' = [calls EXCEPT ![Len(calls)] = d]
  PROVE  /\ calls' \in Seq(CCall) /\ Len(calls') = Len(calls) /\ TopCall' = d
         /\ calls'[Len(calls)] = d /\ Len(calls) \in Nat \ {0}
         /\ \A n \in 1 .. Len(calls) - 1 : calls'[n] = calls[n]
         /\ Cardinality(Propagations(calls')) = handling
<1>1. calls \in Seq(CCall) /\ Len(calls) \in Nat \ {0} /\ Len(calls) \in 1 .. Len(calls)
  BY StateFacts, EmptySeq
<1>2. d \in CCall /\ d.kind = TopCall.kind
  BY DEF Onward
<1>3. /\ calls' \in Seq(CCall) /\ Len(calls') = Len(calls) /\ calls'[Len(calls)] = d
      /\ \A n \in 1 .. Len(calls) : n # Len(calls) => calls'[n] = calls[n]
  BY <1>1, <1>2, Written
<1>4. Cardinality(Propagations(calls')) = Cardinality(Propagations(calls))
  <2>1. \A n \in 1 .. Len(calls) : calls'[n].kind = calls[n].kind
    BY <1>2, <1>3 DEF TopCall
  <2> QED
    BY <1>3, <2>1, CountSame
<1>5. TopCall' = d
  BY <1>3 DEF TopCall
<1>6. \A n \in 1 .. Len(calls) - 1 : n \in 1 .. Len(calls) /\ n # Len(calls)
  BY <1>1
<1> QED
  BY <1>1, <1>3, <1>4, <1>5, <1>6 DEF IInv, Typed

LEMMA CallsLevel ==
  ASSUME IInv, calls # <<>>, NEW level \in Nat, SetLevel(level)
  PROVE  /\ calls' \in Seq(CCall) /\ Len(calls') = Len(calls)
         /\ TopCall' = calls'[Len(calls)] /\ Len(calls) \in Nat \ {0}
         /\ Onward(TopCall', TopCall, TopCall.frame, level)
         /\ \A n \in 1 .. Len(calls) - 1 : calls'[n] = calls[n]
         /\ Cardinality(Propagations(calls')) = handling
<1> DEFINE d == [TopCall EXCEPT !.level = level]
<1>1. TopCall \in CCall
  BY StateFacts, EmptySeq DEF TopCall
<1>2. calls' = [calls EXCEPT ![Len(calls)] = d]
  BY DEF SetLevel, TopCall
<1>3. Onward(d, TopCall, TopCall.frame, level)
  BY <1>1, LevelSet
<1> HIDE DEF d
<1> QED
  BY <1>2, <1>3, CallsSet

(* Where the exception under way is caught, when a handler lets it pass.   *)
LEMMA TopCaught ==
  ASSUME IInv, pc # "ended", Len(calls) >= 2, TopCall.kind = "propagate",
         TopCall.frame = Len(frames), TopCall \in CCall,
         Lets(TopFrame.handlers[TopCall.level], TopCall.exc)
  PROVE  Caught(Len(calls) - 1, Len(frames), TopCall.level - 1, TopCall.exc)
<1> DEFINE b == Len(calls) - 1
           l == TopCall.level
<1>1. Len(calls) \in Nat /\ Len(calls) \in 2 .. Len(calls) /\ l \in Nat
  BY StateFacts, CallFacts
<1>2. Caught(b, Len(frames), l, TopCall.exc)
  BY <1>1 DEF IInv, Aimed, AimedCalls, TopCall
<1> HIDE DEF b, l
<1>3. PICK k \in calls[b].frame .. Len(frames) : \E j \in 1 .. Len(frames[k].handlers) :
        /\ ~Lets(frames[k].handlers[j], TopCall.exc)
        /\ k = calls[b].frame => j > calls[b].level
        /\ k = Len(frames) => j <= l
  BY <1>2 DEF Caught
<1>4. PICK j \in 1 .. Len(frames[k].handlers) :
        /\ ~Lets(frames[k].handlers[j], TopCall.exc)
        /\ k = calls[b].frame => j > calls[b].level
        /\ k = Len(frames) => j <= l
  BY <1>3
<1>5. k = Len(frames) => j # l
  BY <1>4 DEF TopFrame, l
<1>6. k = Len(frames) => j <= l - 1
  BY <1>1, <1>4, <1>5
<1> QED
  BY <1>3, <1>4, <1>6 DEF Caught, b, l

(* It is still caught there after a step that keeps what lies below.       *)
LEMMA CaughtMoved ==
  ASSUME NEW n, NEW e, NEW F \in Nat, NEW l \in Nat, Caught(n - 1, F, l, e),
         calls'[n - 1] = calls[n - 1], calls[n - 1].frame \in Nat,
         \A k \in calls[n - 1].frame .. F : k # F => frames'[k] = frames[k],
         Alike(frames'[F], frames[F], l), Len(frames'[F].handlers) \in Nat,
         calls'[n].frame = F, calls'[n].level \in Nat, calls'[n].level >= l, calls'[n].exc = e
  PROVE  Caught(n - 1, calls[n].frame, calls[n].level, calls[n].exc)'
<1> DEFINE b == calls[n - 1]
<1>1. PICK k \in b.frame .. F : \E j \in 1 .. Len(frames[k].handlers) :
        /\ ~Lets(frames[k].handlers[j], e)
        /\ k = b.frame => j > b.level
        /\ k = F => j <= l
  BY DEF Caught
<1>2. PICK j \in 1 .. Len(frames[k].handlers) :
        /\ ~Lets(frames[k].handlers[j], e)
        /\ k = b.frame => j > b.level
        /\ k = F => j <= l
  BY <1>1
<1>3. j \in 1 .. Len(frames'[k].handlers) /\ frames'[k].handlers[j] = frames[k].handlers[j]
  <2>1. CASE k = F
    <3>1. /\ l <= Len(frames'[F].handlers)
          /\ \A i \in 1 .. l : frames'[F].handlers[i] = frames[F].handlers[i]
      BY DEF Alike
    <3>2. j \in 1 .. l
      BY <1>2, <2>1
    <3> QED
      BY <2>1, <3>1, <3>2
  <2>2. CASE k # F
    BY <1>1, <1>2, <2>2
  <2> QED
    BY <2>1, <2>2
<1>4. k = F => j <= calls'[n].level
  BY <1>2
<1> SUFFICES \E k1 \in calls'[n - 1].frame .. calls'[n].frame : \E j1 \in 1 .. Len(frames'[k1].handlers) :
      /\ ~Lets(frames'[k1].handlers[j1], calls'[n].exc)
      /\ k1 = calls'[n - 1].frame => j1 > calls'[n - 1].level
      /\ k1 = calls'[n].frame => j1 <= calls'[n].level
  BY DEF Caught, Lets
<1> QED
  BY <1>1, <1>2, <1>3, <1>4

-----------------------------------------------------------------------------
(* A step that ends the call under way.                                    *)
LEMMA CallEnds ==
  ASSUME IInv, pc = "c", calls' = Front(calls),
         handling' = handling - (IF TopCall.kind = "propagate" THEN 1 ELSE 0),
         exc' \in Exc, pc' \in {"run", "fail", "ended"}, frames' \in Seq(CallFrame),
         \A k \in 1 .. Len(frames') : Sound(frames'[k]) /\ Whole(frames'[k]),
         pc' # "ended" => frames' # <<>> /\ frames'[1].kind = "start",
         \A n \in 1 .. Len(calls) - 1 : Held(n),
         \A k \in 1 .. Len(frames') : \A j \in 1 .. Len(frames'[k].handlers) :
           frames'[k].handlers[j].ran = 1 =>
             /\ k \in 1 .. Len(frames) /\ j \in 1 .. Len(frames[k].handlers)
             /\ frames[k].handlers[j].ran = 1 /\ ~Passed(k, j),
         AimedFailure'
  PROVE  IInv'
<1> DEFINE N == Len(calls) - 1
<1>1. N \in Nat /\ Waiting = 1 .. N /\ Len(calls) \in Nat
  BY WorkFacts
<1>2. /\ calls' \in Seq(CCall) /\ Len(calls') = N
      /\ \A n \in 1 .. N : calls'[n] = calls[n]
      /\ handling' = Cardinality(Propagations(calls'))
  BY CallsPopped
<1>3. Waiting' = 1 .. N
  BY <1>2 DEF Waiting
<1>4. Typed'
  BY <1>2 DEF IInv, Typed, Propagations
<1>5. FramesSound'
  BY MakeFrames
<1>6. Covered'
  <2>1. ASSUME NEW k \in 1 .. Len(frames'), NEW j \in 1 .. Len(frames'[k].handlers),
               frames'[k].handlers[j].ran = 1
        PROVE  \E n \in Waiting' : calls'[n].frame = k /\ calls'[n].level = j
    <3>1. \E n \in Waiting : calls[n].frame = k /\ calls[n].level = j
      BY <2>1 DEF IInv, WaitsSound, Covered
    <3> QED
      BY <1>1, <1>2, <1>3, <3>1
  <2> QED
    BY <2>1 DEF Covered
<1>7. AtWork' /\ AtEnd'
  BY DEF AtWork, AtEnd
<1>8. HeldUpTo(N)
  BY <1>1, <1>2 DEF HeldUpTo
<1>9. Fresh(N)
  BY <1>1, <1>3 DEF Fresh
<1>10. FreshAim(N)
  BY <1>1, <1>2 DEF FreshAim
<1> QED
  BY <1>1, <1>4, <1>5, <1>6, <1>7, <1>8, <1>9, <1>10, Preserved

(* The finally block of the handler visited has not run.                   *)
LEMMA NotRun ==
  ASSUME IInv, pc = "c", TopCall.level = Len(TopFrame.handlers), TopCall.level > 0,
         TopCall.kind = "propagate" \/ TopCall.target < TopCall.level
  PROVE  /\ Visited \in TryBlock /\ Visited.ran = 0
         /\ TopCall.level \in 1 .. Len(TopFrame.handlers)
<1> DEFINE L == TopCall.level
<1>1. /\ L \in Nat /\ Len(frames) \in 1 .. Len(frames) /\ Len(frames) \in Nat
      /\ TopCall.frame = Len(frames)
  BY StateFacts, WorkFacts, CallFacts
<1>2. L \in 1 .. Len(TopFrame.handlers)
  BY <1>1
<1>3. Visited \in TryBlock
  BY <1>2, StateFacts, SoundFacts DEF Visited
<1>4. ASSUME Visited.ran = 1 PROVE FALSE
  <2>1. ~Passed(Len(frames), L)
    BY <1>1 DEF Passed
  <2>2. PICK n \in Waiting : calls[n].frame = Len(frames) /\ calls[n].level = L
    BY <1>1, <1>2, <1>4, <2>1 DEF IInv, WaitsSound, Covered, Visited, TopFrame
  <2>3. Before(calls[n], TopCall)
    BY Ahead
  <2> QED
    BY <1>1, <2>2, <2>3 DEF Before
<1>5. Visited.ran \in {0, 1}
  BY <1>3, BlockFacts
<1> QED
  BY <1>2, <1>3, <1>4, <1>5

LEMMA PropagateCatchHolds ==
  ASSUME Careful, IInv, PropagateCatch
  PROVE  IInv'
<1> DEFINE f == TopFrame
           n == TopCall.level
           old == Visited
           yes == TRUE
           h == [old EXCEPT !.caught = yes]
           g == Marked(f, "catch", h)
           N == Len(calls) - 1
<1>1. /\ pc = "c" /\ TopCall.kind = "propagate" /\ n > 0 /\ ActsAlone
      /\ calls' = Front(calls) /\ handling' = handling - 1
      /\ pc' = "run" /\ UNCHANGED exc
      /\ SetTopFrame([f EXCEPT !.pos = Append(old.at, Region(old.try, "catch")),
                               !.handlers[n].caught = TRUE])
  BY DEF PropagateCatch, CallStep
<1>2. n = Len(f.handlers)
  BY <1>1 DEF ActsAlone, Careful
<1>3. /\ Sound(f) /\ Whole(f) /\ f.handlers \in Seq(TryBlock) /\ n \in Nat
      /\ f \in CallFrame /\ Len(frames) \in 1 .. Len(frames) /\ Len(frames) \in Nat
  BY <1>1, <1>2, StateFacts, SoundFacts, Wholes DEF TopFrame
<1>4. old \in TryBlock /\ old.ran = 0 /\ n \in 1 .. n /\ old = f.handlers[n]
  BY <1>1, <1>2, NotRun DEF Visited
<1>5. yes \in BOOLEAN
  OBVIOUS
<1>6. yes
  OBVIOUS
<1> HIDE DEF yes
<1>7. /\ h \in TryBlock /\ h.try = old.try /\ h.at = old.at /\ h.ran = 0 /\ h.caught = yes
  <2> HIDE DEF old
  <2> QED
    BY <1>4, <1>5 DEF TryBlock
<1>8. SetTopFrame(g)
  <2> DEFINE pos == Append(old.at, Region(old.try, "catch"))
             handlers == [f.handlers EXCEPT ![n] = h]
  <2>1. SetTopFrame([f EXCEPT !.pos = pos, !.handlers = handlers])
    BY <1>1, <1>2 DEF yes, Visited
  <2> HIDE DEF f, pos, handlers
  <2>2. [f EXCEPT !.pos = pos, !.handlers = handlers] = Fr(f.kind, pos, handlers)
    BY <1>3, Reframed
  <2>3. g = Fr(f.kind, pos, handlers)
    BY <1>2, <1>7 DEF Marked, pos, handlers
  <2> QED
    BY <2>1, <2>2, <2>3
<1> HIDE DEF h
<1>9. Marks(h, f.handlers[n], "catch")
  BY <1>4, <1>6, <1>7 DEF Marks, Parts
<1> HIDE DEF g
<1>10. n # 0
  BY <1>1
<1>11. /\ Sound(g) /\ Whole(g) /\ g.kind = f.kind /\ Alike(g, f, n - 1)
       /\ Len(g.handlers) = n /\ g.handlers[n] = h
  BY <1>2, <1>3, <1>9, <1>10, MarkedSound DEF g
<1>12. /\ frames' \in Seq(CallFrame) /\ Len(frames') = Len(frames) /\ frames' # <<>>
       /\ frames'[Len(frames)] = g
       /\ \A k \in 1 .. Len(frames) : k # Len(frames) => frames'[k] = frames[k]
       /\ \A k \in 1 .. Len(frames) : Sound(frames'[k])
       /\ frames'[1].kind = "start"
  BY <1>1, <1>8, <1>11, TopSet
<1>13. \A k \in 1 .. Len(frames') : Sound(frames'[k]) /\ Whole(frames'[k])
  BY <1>11, <1>12, Wholes
<1>14. ASSUME NEW m \in 1 .. N PROVE Held(m)
  <2>1. m \in Waiting /\ calls'[m] = calls[m] /\ TopCall.frame = Len(frames)
        /\ calls[m].level \in Nat /\ calls[m].frame \in Nat
    BY <1>1, WorkFacts, CallsPopped, WaitsFacts, CallFacts
  <2>2. calls[m].frame = Len(frames) => calls[m].level <= n - 1
    BY <1>1, <1>3, <2>1, Ahead DEF Before
  <2>3. /\ Len(frames'[Len(frames)].handlers) \in Nat /\ n - 1 \in Nat
        /\ Alike(frames'[Len(frames)], frames[Len(frames)], n - 1)
    BY <1>3, <1>10, <1>11, <1>12 DEF TopFrame
  <2> QED
    BY <1>12, <2>1, <2>2, <2>3, HeldTop
<1>15. ASSUME NEW k \in 1 .. Len(frames'), NEW j \in 1 .. Len(frames'[k].handlers),
              frames'[k].handlers[j].ran = 1
       PROVE  /\ k \in 1 .. Len(frames) /\ j \in 1 .. Len(frames[k].handlers)
              /\ frames[k].handlers[j].ran = 1 /\ ~Passed(k, j)
  <2>1. CASE k = Len(frames)
    <3>1. frames'[k] = g /\ frames[k] = f
      BY <1>12, <2>1 DEF TopFrame
    <3>2. j \in 1 .. n /\ j # n
      BY <1>7, <1>11, <1>15, <3>1
    <3>3. j \in 1 .. n - 1 /\ ~(j > TopCall.level)
      BY <1>3, <3>2
    <3> QED
      BY <1>2, <1>11, <1>12, <1>15, <3>1, <3>2, <3>3 DEF Alike, Passed
  <2>2. CASE k # Len(frames)
    BY <1>12, <1>15, <2>2 DEF Passed
  <2> QED
    BY <2>1, <2>2
<1>16. AimedFailure' /\ exc' \in Exc
  BY <1>1, StateFacts DEF AimedFailure
<1>17. handling' = handling - (IF TopCall.kind = "propagate" THEN 1 ELSE 0)
  BY <1>1
<1> QED
  BY <1>1, <1>12, <1>13, <1>14, <1>15, <1>16, <1>17, CallEnds

LEMMA UnrollEndHolds ==
  ASSUME IInv, UnrollEnd
  PROVE  IInv'
<1> DEFINE f == TopFrame
           n == TopCall.target
           N == Len(calls) - 1
<1>1. /\ pc = "c" /\ TopCall.kind = "unroll" /\ TopCall.level <= n /\ calls' = Front(calls)
  BY DEF UnrollEnd, CallStep
<1>2. /\ TopCall \in CCall /\ TopCall.level = Len(f.handlers) /\ n <= TopCall.level
      /\ TopCall.returns => n = 0
      /\ TopCall.level \in Nat /\ n \in Nat /\ TopCall.returns \in BOOLEAN
      /\ Waiting = 1 .. N /\ N \in Nat /\ Sound(f) /\ Len(frames) \in Nat \ {0}
  BY <1>1, WorkFacts, CallFacts, StateFacts
<1>3. n = Len(f.handlers)
  BY <1>1, <1>2
<1>4. handling \in Nat
  BY StateFacts, PropagationsFinite DEF IInv, Typed
<1>5. \A m \in 1 .. N : calls'[m] = calls[m] /\ m \in Waiting
  BY <1>1, <1>2, CallsPopped
<1>6. \A k, j : ~Passed(k, j)
  BY <1>1 DEF Passed
<1>7. CASE TopCall.returns
  <2>1. /\ frames' = Front(frames) /\ pc' = IF Len(frames) = 1 THEN "ended" ELSE "run"
        /\ UNCHANGED <<exc, handling>>
    BY <1>7 DEF UnrollEnd, ReturnFrame
  <2>2. Len(f.handlers) = 0
    BY <1>2, <1>3, <1>7
  <2>3. /\ frames' \in Seq(CallFrame) /\ Len(frames') = Len(frames) - 1
        /\ \A k \in 1 .. Len(frames) - 1 : frames'[k] = frames[k]
        /\ \A k \in 1 .. Len(frames') : Sound(frames'[k]) /\ Whole(frames'[k])
        /\ Len(frames) # 1 => frames' # <<>> /\ frames'[1].kind = "start"
    BY <1>1, <2>1, Popped
  <2>4. ASSUME NEW m \in 1 .. N PROVE Held(m)
    <3>1. calls[m].frame \in 1 .. Len(frames) - 1
      BY <1>1, <1>5, <2>2, NoneOnTop
    <3>2. calls[m].frame <= Len(frames') /\ \A k \in 1 .. calls[m].frame : frames'[k] = frames[k]
      BY <1>2, <2>3, <3>1
    <3> QED
      BY <1>5, <3>2, HeldBelow
  <2>5. ASSUME NEW k \in 1 .. Len(frames'), NEW j \in 1 .. Len(frames'[k].handlers),
               frames'[k].handlers[j].ran = 1
        PROVE  /\ k \in 1 .. Len(frames) /\ j \in 1 .. Len(frames[k].handlers)
               /\ frames[k].handlers[j].ran = 1 /\ ~Passed(k, j)
    <3>1. k \in 1 .. Len(frames) - 1 /\ k \in 1 .. Len(frames)
      BY <1>2, <2>3
    <3> QED
      BY <1>6, <2>3, <2>5, <3>1
  <2>6. /\ AimedFailure' /\ exc' \in Exc /\ pc' \in {"run", "fail", "ended"}
        /\ pc' # "ended" => Len(frames) # 1
    BY <2>1, StateFacts DEF AimedFailure
  <2>7. handling' = handling - (IF TopCall.kind = "propagate" THEN 1 ELSE 0)
    BY <1>1, <1>4, <2>1
  <2> QED
    BY <1>1, <2>3, <2>4, <2>5, <2>6, <2>7, CallEnds
<1>8. CASE ~TopCall.returns
  <2> DEFINE g == Shrunk(f, n)
  <2>1. /\ SetTopFrame([f EXCEPT !.pos = SubSeq(@, 1, n)])
        /\ pc' = "run" /\ UNCHANGED <<exc, handling>>
    BY <1>8 DEF UnrollEnd
  <2>2. SetTopFrame(g)
    <3>1. f = Fr(f.kind, f.pos, f.handlers)
      BY <1>2, SoundFacts, FrameFacts
    <3> DEFINE pos == SubSeq(f.pos, 1, n)
    <3>2. [f EXCEPT !.pos = pos] = Fr(f.kind, pos, f.handlers)
      <4> HIDE DEF f, pos
      <4> QED
        BY <3>1 DEF Fr
    <3>3. g = Fr(f.kind, pos, f.handlers)
      BY DEF Shrunk
    <3> QED
      BY <2>1, <3>2, <3>3
  <2> HIDE DEF g
  <2>3. Sound(g) /\ Whole(g) /\ g.kind = f.kind /\ g.handlers = f.handlers
    BY <1>2, <1>3, ShrunkSound DEF g
  <2>4. /\ frames' \in Seq(CallFrame) /\ Len(frames') = Len(frames) /\ frames' # <<>>
        /\ frames'[Len(frames)] = g
        /\ \A k \in 1 .. Len(frames) : k # Len(frames) => frames'[k] = frames[k]
        /\ \A k \in 1 .. Len(frames) : Sound(frames'[k])
        /\ frames'[1].kind = "start"
    BY <1>1, <2>2, <2>3, TopSet
  <2>5. \A k \in 1 .. Len(frames') : Sound(frames'[k]) /\ Whole(frames'[k])
    BY <2>3, <2>4, Wholes
  <2>6. ASSUME NEW m \in 1 .. N PROVE Held(m)
    <3>1. calls[m].frame = Len(frames) => calls[m].level <= n
      BY <1>3, <1>5, WaitsFacts DEF TopFrame
    <3>2. /\ Len(frames'[Len(frames)].handlers) \in Nat
          /\ Alike(frames'[Len(frames)], frames[Len(frames)], n)
      BY <1>2, <1>3, <2>3, <2>4 DEF Alike, TopFrame
    <3> QED
      BY <1>2, <1>5, <2>4, <3>1, <3>2, HeldTop
  <2>7. ASSUME NEW k \in 1 .. Len(frames'), NEW j \in 1 .. Len(frames'[k].handlers),
               frames'[k].handlers[j].ran = 1
        PROVE  /\ k \in 1 .. Len(frames) /\ j \in 1 .. Len(frames[k].handlers)
               /\ frames[k].handlers[j].ran = 1 /\ ~Passed(k, j)
    <3>1. frames'[k].handlers = frames[k].handlers
      BY <2>3, <2>4 DEF TopFrame
    <3> QED
      BY <1>6, <2>4, <2>7, <3>1
  <2>8. AimedFailure' /\ exc' \in Exc
    BY <2>1, StateFacts DEF AimedFailure
  <2>9. handling' = handling - (IF TopCall.kind = "propagate" THEN 1 ELSE 0)
    BY <1>1, <1>4, <2>1
  <2> QED
    BY <1>1, <2>1, <2>4, <2>5, <2>6, <2>7, <2>8, <2>9, CallEnds
<1> QED
  BY <1>2, <1>7, <1>8

(* With no handler left to visit, no call waits in the frame on top.       *)
LEMMA NoneInFrame ==
  ASSUME IInv, pc = "c", TopCall.kind = "propagate", TopCall.level = 0, NEW n \in Waiting
  PROVE  calls[n].frame \in 1 .. Len(frames) - 1
<1>1. /\ calls[n].frame \in 1 .. Len(frames) /\ Len(frames) \in Nat /\ calls[n].level \in Nat
      /\ TopCall.frame = Len(frames) /\ Before(calls[n], TopCall)
  BY WaitsFacts, StateFacts, CallFacts, WorkFacts, Ahead
<1> QED
  BY <1>1 DEF Before

LEMMA PropagateOutHolds ==
  ASSUME IInv, PropagateOut
  PROVE  IInv'
<1> DEFINE N == Len(calls) - 1
           below == Len(frames) - 1
<1>1. /\ pc = "c" /\ TopCall.kind = "propagate" /\ TopCall.level = 0
      /\ frames' = Front(frames) /\ calls' = Front(calls)
      /\ handling' = handling - 1 /\ exc' = TopCall.exc
      /\ pc' = IF Len(frames) = 1 THEN "ended" ELSE "fail"
  BY DEF PropagateOut, CallStep
<1>2. /\ Waiting = 1 .. N /\ N \in Nat /\ Len(frames) \in Nat \ {0} /\ TopCall \in CCall
      /\ TopCall.exc \in Exc /\ TopCall.frame = Len(frames) /\ calls \in Seq(CCall)
      /\ Len(calls) \in Nat
  BY <1>1, WorkFacts, StateFacts, CallFacts
<1>3. /\ frames' \in Seq(CallFrame) /\ Len(frames') = below
      /\ \A k \in 1 .. below : frames'[k] = frames[k]
      /\ \A k \in 1 .. Len(frames') : Sound(frames'[k]) /\ Whole(frames'[k])
      /\ Len(frames) # 1 => /\ frames' # <<>> /\ frames'[1].kind = "start"
                            /\ TopFrame' = frames[below]
  BY <1>1, Popped
<1>4. /\ calls' \in Seq(CCall) /\ Len(calls') = N
      /\ \A m \in 1 .. N : calls'[m] = calls[m]
  BY <1>1, CallsPopped
<1>5. ASSUME NEW m \in 1 .. N PROVE Held(m) /\ calls[m].frame \in 1 .. below
  <2>1. m \in Waiting /\ calls[m].frame \in 1 .. below
    BY <1>1, <1>2, NoneInFrame
  <2>2. calls[m].frame <= Len(frames') /\ \A k \in 1 .. calls[m].frame : frames'[k] = frames[k]
    BY <1>2, <1>3, <2>1
  <2> QED
    BY <1>4, <2>1, <2>2, HeldBelow
<1>6. ASSUME NEW k \in 1 .. Len(frames'), NEW j \in 1 .. Len(frames'[k].handlers),
             frames'[k].handlers[j].ran = 1
      PROVE  /\ k \in 1 .. Len(frames) /\ j \in 1 .. Len(frames[k].handlers)
             /\ frames[k].handlers[j].ran = 1 /\ ~Passed(k, j)
  <2>1. k \in 1 .. below /\ k \in 1 .. Len(frames) /\ k # Len(frames)
    BY <1>2, <1>3
  <2> QED
    BY <1>3, <1>6, <2>1 DEF Passed
<1>7. AimedFailure'
  <2>1. ASSUME pc' = "fail", calls' # <<>>
        PROVE  Caught(Len(calls), Len(frames), Len(TopFrame.handlers), exc)'
    <3>1. Len(calls') # 0
      BY <1>4, <2>1, EmptySeq
    <3>2. /\ N \in 1 .. N /\ N \in Waiting /\ Len(calls) \in 2 .. Len(calls)
      BY <1>2, <1>4, <3>1
    <3>3. Caught(N, Len(frames), 0, TopCall.exc)
      BY <1>1, <1>2, <3>2 DEF IInv, Aimed, AimedCalls, TopCall
    <3>4. Len(frames) # 1 /\ Caught(N, below, Len(frames[below].handlers), TopCall.exc)
      BY <1>1, <3>2, <3>3, CaughtNext
    <3>5. /\ Len(calls') = N /\ calls'[N] = calls[N] /\ Len(frames') = below
          /\ TopFrame' = frames[below] /\ exc' = TopCall.exc
          /\ \A k \in calls[N].frame .. below : frames'[k] = frames[k]
      <4>1. calls[N].frame \in 1 .. below
        BY <1>5, <3>2
      <4>2. below \in Nat /\ \A k \in calls[N].frame .. below : k \in 1 .. below
        BY <1>2, <4>1
      <4> QED
        BY <1>1, <1>3, <1>4, <3>2, <3>4, <4>2
    <3> HIDE DEF N, below
    <3>6. \E k \in calls[N].frame .. below : \E j \in 1 .. Len(frames[k].handlers) :
            /\ ~Lets(frames[k].handlers[j], TopCall.exc)
            /\ k = calls[N].frame => j > calls[N].level
            /\ k = below => j <= Len(frames[below].handlers)
      BY <3>4 DEF Caught
    <3>7. \E k \in calls'[N].frame .. Len(frames') : \E j \in 1 .. Len(frames'[k].handlers) :
            /\ ~Lets(frames'[k].handlers[j], exc')
            /\ k = calls'[N].frame => j > calls'[N].level
            /\ k = Len(frames') => j <= Len(TopFrame'.handlers)
      BY <3>5, <3>6
    <3> QED
      BY <3>5, <3>7 DEF Caught, Lets
  <2> QED
    BY <2>1 DEF AimedFailure
<1>8. /\ handling' = handling - (IF TopCall.kind = "propagate" THEN 1 ELSE 0)
      /\ exc' \in Exc /\ pc' \in {"run", "fail", "ended"}
      /\ pc' # "ended" => frames' # <<>> /\ frames'[1].kind = "start"
  BY <1>1, <1>2, <1>3
<1> QED
  BY <1>1, <1>3, <1>5, <1>6, <1>7, <1>8, CallEnds

-----------------------------------------------------------------------------
(* propagateException goes on to the next outer handler of the frame.      *)
LEMMA GoesOn ==
  ASSUME IInv, pc \in {"c", "done"}, TopCall.kind = "propagate", calls # <<>>,
         TopCall.frame = Len(frames), TopCall.level \in 1 .. Len(TopFrame.handlers),
         Lets(Visited, TopCall.exc), Visited.try \notin WithFinally \/ Visited.ran = 1,
         \A j \in TopCall.level + 1 .. Len(TopFrame.handlers) :
           /\ Lets(TopFrame.handlers[j], TopCall.exc)
           /\ TopFrame.handlers[j].try \notin WithFinally \/ TopFrame.handlers[j].ran = 1,
         SetLevel(TopCall.level - 1), pc' = "c", UNCHANGED <<frames, exc, handling>>
  PROVE  IInv'
<1> DEFINE N == Len(calls) - 1
           l == TopCall.level
           up == l - 1
           d == TopCall'
<1>1. /\ Len(calls) \in Nat \ {0} /\ TopCall \in CCall /\ l \in Nat /\ up \in Nat
      /\ Sound(TopFrame) /\ Len(TopFrame.handlers) \in Nat
      /\ \A k \in 1 .. Len(frames) : Sound(frames[k]) /\ Whole(frames[k])
      /\ Len(frames) \in Nat /\ frames # <<>> /\ frames[1].kind = "start"
      /\ TopCall.exc \in Exc
  <2>1. Len(calls) \in Nat \ {0} /\ Len(calls) \in 1 .. Len(calls)
    BY StateFacts, EmptySeq
  <2>2. TopCall \in CCall
    BY <2>1, StateFacts DEF TopCall
  <2>3. l \in Nat /\ up \in Nat
    BY <2>2, CallFacts
  <2> QED
    BY <2>1, <2>2, <2>3, StateFacts, SoundFacts, CallFacts, Wholes
<1> HIDE DEF up
<1>2. /\ calls' \in Seq(CCall) /\ Len(calls') = Len(calls) /\ d = calls'[Len(calls)]
      /\ Onward(d, TopCall, TopCall.frame, up)
      /\ \A n \in 1 .. N : calls'[n] = calls[n]
      /\ Cardinality(Propagations(calls')) = handling
  BY <1>1, CallsLevel DEF up
<1>3. d.kind = "propagate" /\ d.frame = Len(frames) /\ d.level = up /\ d.exc = TopCall.exc
  BY <1>2 DEF Onward
<1> HIDE DEF d
<1>4. /\ Waiting' = 1 .. N /\ N \in Nat /\ 1 .. N \subseteq Waiting
      /\ \A n \in Waiting : n \in 1 .. N \/ n = Len(calls)
  BY <1>1, <1>2 DEF Waiting
<1>5. TopFrame' = TopFrame /\ calls' # <<>>
  BY <1>1, <1>2, EmptySeq DEF TopFrame
<1>6. Typed'
  BY <1>2 DEF IInv, Typed, Propagations
<1>7. FramesSound'
  BY <1>1, MakeFrames
<1>8. Covered'
  <2>1. ASSUME NEW k \in 1 .. Len(frames), NEW j \in 1 .. Len(frames[k].handlers),
               frames[k].handlers[j].ran = 1
        PROVE  \/ k = Len(frames) /\ j > up
               \/ \E n \in Waiting' : calls'[n].frame = k /\ calls'[n].level = j
    <3>1. j \in Nat /\ l \in Nat /\ up = l - 1
      BY <1>1 DEF up
    <3>2. CASE Passed(k, j)
      <4>1. k = Len(frames) /\ j > l
        BY <3>2 DEF Passed
      <4> QED
        BY <3>1, <4>1
    <3>3. CASE ~Passed(k, j)
      <4>1. PICK n \in Waiting : calls[n].frame = k /\ calls[n].level = j
        BY <2>1, <3>3 DEF IInv, WaitsSound, Covered
      <4>2. CASE n \in 1 .. N
        BY <1>2, <1>4, <4>1, <4>2
      <4>3. CASE n = Len(calls)
        <5>1. k = Len(frames) /\ j = l
          BY <4>1, <4>3 DEF TopCall
        <5> QED
          BY <3>1, <5>1
      <4> QED
        BY <1>4, <4>2, <4>3
    <3> QED
      BY <3>2, <3>3
  <2>2. pc' = "c" /\ TopCall' = d
    BY DEF d
  <2> QED
    BY <1>3, <2>1, <2>2 DEF Covered, Passed
<1>9. AtWork'
  <2>1. up <= Len(TopFrame.handlers)
    BY <1>1 DEF up
  <2>2. ASSUME NEW j \in up + 1 .. Len(TopFrame.handlers)
        PROVE  /\ Lets(TopFrame.handlers[j], TopCall.exc)
               /\ TopFrame.handlers[j].try \notin WithFinally \/ TopFrame.handlers[j].ran = 1
    <3>1. j = l \/ j \in l + 1 .. Len(TopFrame.handlers)
      BY <1>1 DEF up
    <3> QED
      BY <3>1 DEF Visited
  <2>3. TopCall' = d
    BY DEF d
  <2> QED
    BY <1>3, <1>5, <2>1, <2>2, <2>3 DEF AtWork, Lets
<1>10. AtEnd' /\ AimedFailure'
  BY DEF AtEnd, AimedFailure
<1>11. HeldUpTo(N)
  <2>1. ASSUME NEW n \in 1 .. N PROVE Held(n)
    <3>1. /\ n \in Waiting /\ calls'[n] = calls[n] /\ calls[n].frame \in 1 .. Len(frames)
      BY <1>2, <1>4, WaitsFacts
    <3>2. calls[n].frame <= Len(frames')
      BY <1>1, <3>1
    <3> QED
      BY <3>1, <3>2, HeldBelow
  <2> QED
    BY <1>1, <1>2, <1>4, <2>1 DEF HeldUpTo
<1>12. Fresh(N)
  BY <1>4 DEF Fresh
<1>13. FreshAim(N)
  <2>1. ASSUME NEW n \in 2 .. Len(calls'), n > N, calls'[n].kind = "propagate"
        PROVE  Caught(n - 1, calls[n].frame, calls[n].level, calls[n].exc)'
    <3>1. n = Len(calls) /\ Len(calls) >= 2 /\ n - 1 = N /\ N \in 1 .. N /\ n - 1 \in 1 .. N
      BY <1>1, <1>2, <2>1
    <3> DEFINE e == TopCall.exc
               F == Len(frames)
    <3>2. Caught(n - 1, F, up, e)
      BY <1>1, <3>1, TopCaught DEF Visited, up
    <3>3. calls'[n - 1] = calls[n - 1] /\ calls[n - 1].frame \in Nat
      <4>1. n - 1 \in Waiting /\ n - 1 \in 1 .. N
        BY <1>4, <3>1
      <4>2. calls[n - 1] \in CCall
        BY <4>1, WaitsFacts
      <4> QED
        BY <1>2, <4>1, <4>2, CallFacts
    <3>4. calls'[n] = d
      BY <1>2, <3>1
    <3>5. calls'[n].frame = F /\ calls'[n].level = up /\ calls'[n].exc = e
      BY <1>3, <3>4
    <3>6. Alike(frames'[F], frames[F], up) /\ Len(frames'[F].handlers) \in Nat /\ F \in Nat
      BY <1>1 DEF Alike, TopFrame, up
    <3> HIDE DEF e, F
    <3>7. up \in Nat /\ calls'[n].level \in Nat /\ calls'[n].level >= up
      BY <1>1, <3>5
    <3>8. \A k \in calls[n - 1].frame .. F : k # F => frames'[k] = frames[k]
      OBVIOUS
    <3> QED
      BY <3>2, <3>3, <3>5, <3>6, <3>7, <3>8, CaughtMoved
  <2> QED
    BY <2>1 DEF FreshAim
<1> QED
  BY <1>4, <1>6, <1>7, <1>8, <1>9, <1>10, <1>11, <1>12, <1>13, Preserved

LEMMA PropagateFinallyDoneHolds ==
  ASSUME IInv, PropagateFinallyDone
  PROVE  IInv'
<1> DEFINE n == Len(calls)
<1>1. /\ pc = "done" /\ TopCall.kind = "propagate" /\ SetLevel(TopCall.level - 1)
      /\ pc' = "c" /\ UNCHANGED <<frames, exc, handling>>
  BY DEF PropagateFinallyDone
<1>2. calls # <<>> /\ TopCall.frame = Len(frames) /\ TopCall.level = Len(TopFrame.handlers)
  BY <1>1 DEF IInv, AtEnd
<1>3. n \in Waiting /\ TopCall = calls[n]
  BY <1>1, <1>2, StateFacts, IdleFacts, EmptySeq DEF TopCall
<1>4. Waits(n) /\ TopCall.level \in 1 .. Len(frames[TopCall.frame].handlers)
  BY <1>3, WaitsFacts
<1>5. /\ TopCall.level \in 1 .. Len(TopFrame.handlers)
      /\ Visited.ran = 1 /\ Lets(Visited, TopCall.exc)
  BY <1>1, <1>2, <1>3, <1>4 DEF Waits, Visited, TopFrame
<1>6. ~ \E j \in TopCall.level + 1 .. Len(TopFrame.handlers) : TRUE
  <2>1. Len(TopFrame.handlers) \in Nat
    BY <1>1, StateFacts, SoundFacts
  <2> QED
    BY <1>2, <2>1
<1> QED
  BY <1>1, <1>2, <1>5, <1>6, GoesOn

(* The frame is released, the handlers of its caller come next.            *)
LEMMA PropagateFrameHolds ==
  ASSUME IInv, PropagateFrame
  PROVE  IInv'
<1> DEFINE N == Len(calls) - 1
           below == Len(frames) - 1
           level == Len(frames[below].handlers)
           d == [[TopCall EXCEPT !.level = level] EXCEPT !.frame = below]
<1>1. /\ pc = "c" /\ TopCall.kind = "propagate" /\ TopCall.level = 0 /\ TopFrame.kind = "inter"
      /\ frames' = Front(frames) /\ UNCHANGED <<pc, exc, handling>>
      /\ calls' = [calls EXCEPT ![Len(calls)].level = Len(frames[Len(frames) - 1].handlers),
                                ![Len(calls)].frame = @ - 1]
  BY DEF PropagateFrame, CallStep
<1>2. /\ Waiting = 1 .. N /\ N \in Nat /\ Len(frames) \in Nat \ {0} /\ TopCall \in CCall
      /\ TopCall.exc \in Exc /\ TopCall.frame = Len(frames) /\ calls \in Seq(CCall)
      /\ Len(calls) \in Nat \ {0} /\ calls # <<>> /\ Len(calls) \in 1 .. Len(calls)
  BY <1>1, WorkFacts, StateFacts, CallFacts
<1>3. Len(frames) # 1
  BY <1>1, StateFacts DEF TopFrame
<1>4. /\ frames' \in Seq(CallFrame) /\ Len(frames') = below
      /\ \A k \in 1 .. below : frames'[k] = frames[k]
      /\ \A k \in 1 .. Len(frames') : Sound(frames'[k]) /\ Whole(frames'[k])
      /\ frames' # <<>> /\ frames'[1].kind = "start" /\ below \in 1 .. Len(frames)
      /\ TopFrame' = frames[below]
  BY <1>1, <1>3, Popped
<1>5. below \in Nat /\ level \in Nat
  BY <1>2, <1>4, StateFacts, SoundFacts
<1>6. calls' = [calls EXCEPT ![Len(calls)] = d]
  <2> DEFINE mid == [TopCall EXCEPT !.level = level]
             first == [calls EXCEPT ![Len(calls)] = mid]
  <2>1. calls' = [first EXCEPT ![Len(calls)].frame = @ - 1]
    BY <1>1 DEF TopCall
  <2>2. first \in Seq(CCall) /\ first[Len(calls)] = mid
    <3>1. mid \in CCall
      BY <1>2, <1>5, LevelSet DEF Onward
    <3> HIDE DEF mid
    <3> QED
      BY <1>2, <3>1, Written
  <2>3. mid.frame = Len(frames)
    BY <1>2, <1>5, LevelSet DEF Onward
  <2>4. calls' = [first EXCEPT ![Len(calls)] = [mid EXCEPT !.frame = below]]
    <3> HIDE DEF first, mid
    <3> QED
      BY <2>1, <2>2, <2>3
  <2> HIDE DEF mid
  <2>5. [first EXCEPT ![Len(calls)] = [mid EXCEPT !.frame = below]]
          = [calls EXCEPT ![Len(calls)] = [mid EXCEPT !.frame = below]]
    <3> DEFINE v == [mid EXCEPT !.frame = below]
    <3> HIDE DEF v
    <3>1. [first EXCEPT ![Len(calls)] = v] = [calls EXCEPT ![Len(calls)] = v]
      BY <1>2
    <3> QED
      BY <3>1 DEF v
  <2> QED
    BY <2>4, <2>5 DEF mid
<1>7. Onward(d, TopCall, below, level)
  <2> DEFINE mid == [TopCall EXCEPT !.level = level]
  <2>1. Onward(mid, TopCall, TopCall.frame, level)
    BY <1>2, <1>5, LevelSet
  <2> HIDE DEF mid, level, below
  <2>2. Onward([mid EXCEPT !.frame = below], mid, below, mid.level)
    BY <1>5, <2>1, FrameSet DEF Onward
  <2>3. d = [mid EXCEPT !.frame = below]
    BY DEF mid
  <2> QED
    BY <1>1, <2>1, <2>2, <2>3 DEF Onward
<1> HIDE DEF d
<1>8. /\ calls' \in Seq(CCall) /\ Len(calls') = Len(calls) /\ TopCall' = d
      /\ calls'[Len(calls)] = d
      /\ \A n \in 1 .. N : calls'[n] = calls[n]
      /\ Cardinality(Propagations(calls')) = handling
  BY <1>2, <1>6, <1>7, CallsSet
<1>9. d.kind = "propagate" /\ d.frame = below /\ d.level = level /\ d.exc = TopCall.exc
  BY <1>1, <1>7 DEF Onward
<1>10. Waiting' = 1 .. N
  BY <1>1, <1>2, <1>8 DEF Waiting
<1>11. Typed'
  BY <1>1, <1>4, <1>8 DEF IInv, Typed, Propagations
<1>12. FramesSound'
  BY <1>4, MakeFrames
<1>13. ASSUME NEW n \in 1 .. N PROVE Held(n)
  <2>1. n \in Waiting /\ calls[n].frame \in 1 .. below
    BY <1>1, <1>2, NoneInFrame
  <2>2. calls[n].frame <= Len(frames') /\ \A k \in 1 .. calls[n].frame : frames'[k] = frames[k]
    BY <1>4, <1>5, <2>1
  <2> QED
    BY <1>8, <2>1, <2>2, HeldBelow
<1>14. Covered'
  <2>1. ASSUME NEW k \in 1 .. Len(frames'), NEW j \in 1 .. Len(frames'[k].handlers),
               frames'[k].handlers[j].ran = 1
        PROVE  \E n \in Waiting' : calls'[n].frame = k /\ calls'[n].level = j
    <3>1. /\ k \in 1 .. below /\ k \in 1 .. Len(frames) /\ k # Len(frames)
          /\ frames'[k] = frames[k]
      BY <1>2, <1>4
    <3>2. ~Passed(k, j)
      BY <3>1 DEF Passed
    <3>3. \E n \in Waiting : calls[n].frame = k /\ calls[n].level = j
      BY <2>1, <3>1, <3>2 DEF IInv, WaitsSound, Covered
    <3> QED
      BY <1>2, <1>8, <1>10, <3>3
  <2> QED
    BY <2>1 DEF Covered
<1>15. AtWork'
  <2>1. calls' # <<>>
    BY <1>2, <1>8, EmptySeq
  <2>2. ~ \E j \in level + 1 .. level : TRUE
    BY <1>5
  <2>3. d.level = Len(TopFrame'.handlers) /\ d.level <= Len(TopFrame'.handlers)
    BY <1>4, <1>5, <1>9
  <2>4. d.frame = Len(frames')
    BY <1>4, <1>9
  <2>5. Len(TopFrame'.handlers) = level
    BY <1>4
  <2> HIDE DEF level, below
  <2> QED
    BY <1>8, <1>9, <2>1, <2>2, <2>3, <2>4, <2>5 DEF AtWork
<1>16. AtEnd' /\ AimedFailure'
  BY <1>1 DEF AtEnd, AimedFailure
<1>17. HeldUpTo(N)
  BY <1>2, <1>8, <1>13 DEF HeldUpTo
<1>18. Fresh(N)
  BY <1>2, <1>10 DEF Fresh
<1>19. FreshAim(N)
  <2>1. ASSUME NEW n \in 2 .. Len(calls'), n > N, calls'[n].kind = "propagate"
        PROVE  Caught(n - 1, calls[n].frame, calls[n].level, calls[n].exc)'
    <3> DEFINE e == TopCall.exc
    <3>1. n = Len(calls) /\ n - 1 = N /\ n - 1 \in 1 .. N /\ Len(calls) \in 2 .. Len(calls)
      BY <1>2, <1>8, <2>1
    <3>2. /\ n - 1 \in Waiting /\ calls'[n - 1] = calls[n - 1]
          /\ calls[n - 1].frame \in 1 .. below /\ calls[n - 1].frame \in Nat
      <4>1. n - 1 \in Waiting /\ calls'[n - 1] = calls[n - 1]
        BY <1>2, <1>8, <3>1
      <4> QED
        BY <1>1, <4>1, NoneInFrame, WaitsFacts, CallFacts
    <3>3. Caught(n - 1, Len(frames), 0, e)
      BY <1>1, <1>2, <3>1 DEF IInv, Aimed, AimedCalls, TopCall
    <3>4. Caught(n - 1, below, level, e)
      BY SMTT(30), <1>1, <3>2, <3>3, CaughtNext
    <3>5. \A k \in calls[n - 1].frame .. below : k # below => frames'[k] = frames[k]
      <4>1. \A k \in calls[n - 1].frame .. below : k \in 1 .. below
        BY <1>5, <3>2
      <4> QED
        BY <1>4, <4>1
    <3>6. frames'[below] = frames[below]
      <4>1. below \in 1 .. below
        BY <1>4, <1>5
      <4> QED
        BY <1>4, <4>1
    <3>7. Len(frames'[below].handlers) \in Nat /\ Alike(frames'[below], frames[below], level)
      BY <1>5, <3>6 DEF Alike
    <3>8. calls'[n].frame = below /\ calls'[n].level = level /\ calls'[n].exc = e
      BY <1>8, <1>9, <3>1
    <3> HIDE DEF e, below, level
    <3>9. calls'[n].level \in Nat /\ calls'[n].level >= level
      BY <1>5, <3>8
    <3> QED
      BY <1>5, <3>2, <3>4, <3>5, <3>7, <3>8, <3>9, CaughtMoved
  <2> QED
    BY <2>1 DEF FreshAim
<1> QED
  BY <1>2, <1>11, <1>12, <1>14, <1>15, <1>16, <1>17, <1>18, <1>19, Preserved

(* A finally block is run for the call under way.                          *)
LEMMA RunStep ==
  ASSUME IInv, pc = "c", RunFinally, TopCall.level = Len(TopFrame.handlers), TopCall.level > 0,
         TopCall.kind = "propagate" => Lets(Visited, TopCall.exc),
         TopCall.kind = "unroll" => TopCall.target < TopCall.level
  PROVE  IInv'
<1> DEFINE f == TopFrame
           n == TopCall.level
           old == Visited
           h == [old EXCEPT !.ran = 1]
           g == Marked(f, "finally", h)
           L == Len(calls)
           N == Len(calls) - 1
<1>1. /\ pc' = "run" /\ UNCHANGED <<calls, exc, handling>>
      /\ SetTopFrame([f EXCEPT !.pos = Append(old.at, Region(old.try, "finally")),
                               !.handlers[n].ran = @ + 1])
  BY DEF RunFinally
<1>2. /\ Waiting = 1 .. N /\ N \in Nat /\ TopCall \in CCall /\ n \in Nat
      /\ TopCall.frame = Len(frames) /\ L \in Nat \ {0} /\ calls # <<>>
      /\ TopCall = calls[L] /\ TopCall.kind \in {"propagate", "unroll"}
  BY WorkFacts, CallFacts DEF TopCall
<1>3. /\ Sound(f) /\ f.handlers \in Seq(TryBlock)
      /\ f \in CallFrame /\ Len(frames) \in 1 .. Len(frames) /\ Len(frames) \in Nat
  BY StateFacts, SoundFacts DEF TopFrame
<1>4. TopCall.kind = "propagate" \/ TopCall.target < TopCall.level
  BY <1>2
<1>5. old \in TryBlock /\ old.ran = 0 /\ n \in 1 .. n /\ old = f.handlers[n] /\ n # 0
  BY <1>2, <1>4, NotRun DEF Visited
<1>6. /\ h \in TryBlock /\ h.try = old.try /\ h.at = old.at /\ h.ran = 1 /\ h.caught = old.caught
  <2> HIDE DEF old
  <2> QED
    BY <1>5 DEF TryBlock
<1>7. SetTopFrame(g)
  <2> DEFINE pos == Append(old.at, Region(old.try, "finally"))
             handlers == [f.handlers EXCEPT ![n] = h]
             wrote == [f.handlers EXCEPT ![n].ran = @ + 1]
  <2>1. SetTopFrame([f EXCEPT !.pos = pos, !.handlers = wrote])
    BY <1>1
  <2>2. wrote = handlers
    <3> DEFINE s == f.handlers
               v == [s[n] EXCEPT !.ran = @ + 1]
    <3>1. v = h
      BY <1>5 DEF Visited
    <3>2. wrote = [s EXCEPT ![n] = v]
      OBVIOUS
    <3> HIDE DEF v, h
    <3> QED
      BY <3>1, <3>2
  <2> HIDE DEF f, pos, handlers, wrote
  <2>3. [f EXCEPT !.pos = pos, !.handlers = handlers] = Fr(f.kind, pos, handlers)
    BY <1>3, Reframed
  <2>4. g = Fr(f.kind, pos, handlers)
    BY <1>6 DEF Marked, pos, handlers, f
  <2> QED
    BY <2>1, <2>2, <2>3, <2>4
<1> HIDE DEF h
<1>8. Marks(h, f.handlers[n], "finally")
  BY <1>5, <1>6 DEF Marks, Parts
<1> HIDE DEF g
<1>9. /\ Sound(g) /\ Whole(g) /\ g.kind = f.kind /\ Alike(g, f, n - 1)
      /\ Len(g.handlers) = n /\ g.handlers[n] = h
  BY <1>3, <1>5, <1>8, MarkedSound DEF g
<1>10. /\ frames' \in Seq(CallFrame) /\ Len(frames') = Len(frames) /\ frames' # <<>>
       /\ frames'[Len(frames)] = g
       /\ \A k \in 1 .. Len(frames) : k # Len(frames) => frames'[k] = frames[k]
       /\ \A k \in 1 .. Len(frames) : Sound(frames'[k])
       /\ frames'[1].kind = "start"
  BY <1>7, <1>9, TopSet
<1>11. \A k \in 1 .. Len(frames') : Sound(frames'[k]) /\ Whole(frames'[k])
  BY <1>9, <1>10, Wholes
<1>12. /\ Len(frames'[Len(frames)].handlers) \in Nat /\ n - 1 \in Nat
       /\ Alike(frames'[Len(frames)], frames[Len(frames)], n - 1)
  BY <1>2, <1>5, <1>9, <1>10 DEF TopFrame
<1>13. Typed'
  BY <1>1, <1>10 DEF IInv, Typed, Propagations
<1>14. FramesSound'
  BY <1>10, <1>11, MakeFrames
<1>15. Waiting' = 1 .. L
  BY <1>1 DEF Waiting
<1>16. ASSUME NEW m \in 1 .. N
       PROVE  Held(m) /\ Before(calls[m], TopCall) /\ m \in Waiting
  <2>1. m \in Waiting /\ calls'[m] = calls[m] /\ calls[m].level \in Nat /\ calls[m].frame \in Nat
    BY <1>1, <1>2, WaitsFacts, CallFacts
  <2>2. Before(calls[m], TopCall)
    BY <1>4, <2>1, Ahead
  <2>3. calls[m].frame = Len(frames) => calls[m].level <= n - 1
    BY <1>2, <1>3, <2>1, <2>2 DEF Before
  <2>4. Held(m)
    BY <1>10, <1>12, <2>1, <2>3, HeldTop
  <2> QED
    BY <2>1, <2>2, <2>4
<1>17. HeldUpTo(N)
  BY <1>1, <1>2, <1>16 DEF HeldUpTo
<1>18. Waits(L)'
  <2>1. /\ calls'[L] = TopCall /\ TopCall.frame \in 1 .. Len(frames')
        /\ n \in 1 .. Len(frames'[TopCall.frame].handlers)
        /\ frames'[TopCall.frame].handlers[n].ran = 1
    BY <1>1, <1>2, <1>3, <1>5, <1>6, <1>9, <1>10
  <2>2. TopCall.kind = "propagate" => Lets(frames'[TopCall.frame].handlers[n], TopCall.exc)
    BY <1>2, <1>6, <1>9, <1>10 DEF Lets
  <2>3. ASSUME TopCall.kind = "unroll"
        PROVE  /\ TopCall.target < n /\ (TopCall.returns => TopCall.target = 0)
               /\ \A j \in TopCall.target + 1 .. n - 1 : frames'[TopCall.frame].handlers[j].ran = 0
    <3>1. /\ TopCall.returns => TopCall.target = 0
          /\ \A j \in TopCall.target + 1 .. n : f.handlers[j].ran = 0
          /\ TopCall.target \in Nat
      BY <1>2, <2>3, WorkFacts, CallFacts
    <3>2. ASSUME NEW j \in TopCall.target + 1 .. n - 1
          PROVE  frames'[TopCall.frame].handlers[j].ran = 0
      <4>1. j \in TopCall.target + 1 .. n /\ j \in 1 .. n - 1
        BY <1>2, <3>1
      <4> QED
        BY <1>2, <1>9, <1>10, <3>1, <4>1 DEF Alike
    <3> QED
      BY <2>3, <3>1, <3>2
  <2> HIDE DEF n, L
  <2> SUFFICES LET c == calls'[L] IN
        /\ c.frame \in 1 .. Len(frames')
        /\ c.level \in 1 .. Len(frames'[c.frame].handlers)
        /\ frames'[c.frame].handlers[c.level].ran = 1
        /\ c.kind = "propagate" => Lets(frames'[c.frame].handlers[c.level], c.exc)
        /\ c.kind = "unroll" =>
             /\ c.target < c.level
             /\ c.returns => c.target = 0
             /\ \A j \in c.target + 1 .. c.level - 1 : frames'[c.frame].handlers[j].ran = 0
    BY <1>1 DEF Waits, Lets, L
  <2> QED
    BY <2>1, <2>2, <2>3 DEF n
<1>19. Fresh(N)
  <2>1. ASSUME NEW m \in Waiting', m > N
        PROVE  m = N + 1 /\ Waits(m)' /\ \A i \in 1 .. N : Before(calls[i], calls'[m])
    <3>1. m = L /\ L = N + 1
      BY <1>2, <1>15, <2>1
    <3>2. calls'[L] = TopCall
      BY <1>1, <1>2
    <3>3. \A i \in 1 .. N : Before(calls[i], calls'[m])
      BY <1>16, <3>1, <3>2
    <3>4. Waits(m)'
      <4> HIDE DEF L
      <4> QED
        BY <1>1, <1>18, <3>1 DEF Waits, L
    <3> QED
      BY <3>1, <3>3, <3>4
  <2> QED
    BY <2>1 DEF Fresh
<1>20. Covered'
  <2>1. ASSUME NEW k \in 1 .. Len(frames'), NEW j \in 1 .. Len(frames'[k].handlers),
               frames'[k].handlers[j].ran = 1
        PROVE  \E m \in 1 .. L : calls[m].frame = k /\ calls[m].level = j
    <3>1. CASE k = Len(frames) /\ j = n
      BY <1>2, <3>1
    <3>2. CASE ~(k = Len(frames) /\ j = n)
      <4>1. /\ k \in 1 .. Len(frames) /\ j \in 1 .. Len(frames[k].handlers)
            /\ frames[k].handlers[j].ran = 1 /\ ~Passed(k, j)
        <5>1. CASE k = Len(frames)
          <6>1. frames'[k] = g /\ frames[k] = f
            BY <1>10, <5>1 DEF TopFrame
          <6>2. j \in 1 .. n /\ j # n
            BY <1>9, <2>1, <3>2, <5>1, <6>1
          <6>3. j \in 1 .. n - 1 /\ ~(j > TopCall.level)
            BY <1>2, <6>2
          <6> QED
            BY <1>9, <1>10, <2>1, <6>1, <6>2, <6>3 DEF Alike, Passed
        <5>2. CASE k # Len(frames)
          BY <1>10, <2>1, <5>2 DEF Passed
        <5> QED
          BY <5>1, <5>2
      <4>2. \E m \in Waiting : calls[m].frame = k /\ calls[m].level = j
        BY <4>1 DEF IInv, WaitsSound, Covered
      <4>3. 1 .. N \subseteq 1 .. L
        BY <1>2
      <4> QED
        BY <1>2, <4>2, <4>3
    <3> QED
      BY <3>1, <3>2
  <2> QED
    BY <1>1, <1>15, <2>1 DEF Covered
<1>21. AtWork' /\ AtEnd' /\ AimedFailure'
  BY <1>1 DEF AtWork, AtEnd, AimedFailure
<1>22. FreshAim(N)
  <2>1. ASSUME NEW m \in 2 .. Len(calls'), m > N, calls'[m].kind = "propagate"
        PROVE  Caught(m - 1, calls[m].frame, calls[m].level, calls[m].exc)'
    <3> DEFINE e == TopCall.exc
               F == Len(frames)
               up == n - 1
    <3>1. m = L /\ L >= 2 /\ m - 1 = N /\ m - 1 \in 1 .. N
      BY <1>1, <1>2, <2>1
    <3>2. calls'[m] = TopCall /\ TopCall.kind = "propagate"
      BY <1>1, <1>2, <2>1, <3>1
    <3>3. Caught(m - 1, F, up, e)
      BY <1>2, <3>1, <3>2, TopCaught DEF Visited
    <3>4. calls'[m - 1] = calls[m - 1] /\ calls[m - 1].frame \in Nat
      <4>1. m - 1 \in Waiting
        BY <1>2, <3>1
      <4> QED
        BY <1>1, <4>1, WaitsFacts, CallFacts
    <3>5. Alike(frames'[F], frames[F], up) /\ Len(frames'[F].handlers) \in Nat /\ F \in Nat
          /\ up \in Nat
      BY <1>3, <1>12
    <3>6. calls'[m].frame = F /\ calls'[m].level = n /\ calls'[m].exc = e
      BY <1>2, <3>2
    <3>7. calls'[m].level \in Nat /\ calls'[m].level >= up
      BY <1>2, <3>6
    <3>8. \A k \in calls[m - 1].frame .. F : k # F => frames'[k] = frames[k]
      <4>1. \A k \in calls[m - 1].frame .. F : k \in 1 .. Len(frames)
        <5>1. m - 1 \in Waiting
          BY <1>2, <3>1
        <5>2. calls[m - 1].frame \in 1 .. Len(frames)
          BY <5>1, WaitsFacts
        <5> QED
          BY <1>3, <5>2
      <4> QED
        BY <1>10, <4>1
    <3> HIDE DEF e, F, up
    <3> QED
      BY <3>3, <3>4, <3>5, <3>6, <3>7, <3>8, CaughtMoved
  <2> QED
    BY <2>1 DEF FreshAim
<1> QED
  BY <1>2, <1>13, <1>14, <1>17, <1>19, <1>20, <1>21, <1>22, Preserved

LEMMA PropagatePastHolds ==
  ASSUME Careful, IInv, PropagatePast
  PROVE  IInv'
<1>1. /\ pc = "c" /\ TopCall.kind = "propagate" /\ TopCall.level > 0
      /\ Lets(Visited, TopCall.exc)
  BY DEF PropagatePast, CallStep, Lets
<1>2. /\ calls # <<>> /\ TopCall.frame = Len(frames) /\ TopCall \in CCall
      /\ TopCall.level <= Len(TopFrame.handlers) /\ TopCall.level \in Nat
      /\ Len(TopFrame.handlers) \in Nat
      /\ \A j \in TopCall.level + 1 .. Len(TopFrame.handlers) :
           /\ Lets(TopFrame.handlers[j], TopCall.exc)
           /\ TopFrame.handlers[j].try \notin WithFinally \/ TopFrame.handlers[j].ran = 1
  BY <1>1, WorkFacts, CallFacts, StateFacts, SoundFacts
<1>3. TopCall.level \in 1 .. Len(TopFrame.handlers)
  BY <1>1, <1>2
<1>4. CASE Visited.try \in WithFinally
  <2>1. RunFinally /\ TopCall.level = Len(TopFrame.handlers)
    BY <1>4 DEF PropagatePast, ActsAlone, Careful
  <2> QED
    BY <1>1, <2>1, RunStep
<1>5. CASE Visited.try \notin WithFinally
  <2>1. SetLevel(TopCall.level - 1) /\ pc' = "c" /\ UNCHANGED <<frames, exc, handling>>
    BY <1>1, <1>5 DEF PropagatePast
  <2> QED
    BY <1>1, <1>2, <1>3, <1>5, <2>1, GoesOn
<1> QED
  BY <1>4, <1>5

(* unrollExceptionHandlerStack pops the innermost handler of the frame.    *)
LEMMA DropStep ==
  ASSUME IInv, pc \in {"c", "done"}, TopCall.kind = "unroll", calls # <<>>,
         TopCall.frame = Len(frames), TopCall.level = Len(TopFrame.handlers),
         TopCall.target < TopCall.level,
         TopCall.returns => TopCall.target = 0,
         \A j \in TopCall.target + 1 .. TopCall.level - 1 : TopFrame.handlers[j].ran = 0,
         \A m \in Waiting : m < Len(calls) => Before(calls[m], TopCall),
         DropHandler
  PROVE  IInv'
<1> DEFINE f == TopFrame
           n == TopCall.level
           up == n - 1
           g == Dropped(f)
           L == Len(calls)
           N == Len(calls) - 1
           d == TopCall'
<1>1. /\ SetTopFrame([f EXCEPT !.handlers = Front(@)]) /\ SetLevel(TopCall.level - 1)
      /\ pc' = "c" /\ UNCHANGED <<exc, handling>>
  BY DEF DropHandler
<1>2. /\ L \in Nat \ {0} /\ TopCall \in CCall /\ n \in Nat /\ TopCall.target \in Nat
      /\ TopCall = calls[L] /\ N \in Nat /\ L \in 1 .. L
  <2>1. L \in Nat \ {0} /\ L \in 1 .. L
    BY StateFacts, EmptySeq
  <2>2. TopCall \in CCall
    BY <2>1, StateFacts DEF TopCall
  <2> QED
    BY <2>1, <2>2, CallFacts DEF TopCall
<1>3. n # 0 /\ up \in Nat
  BY <1>2
<1>4. /\ Sound(f) /\ f.handlers \in Seq(TryBlock) /\ f = Fr(f.kind, f.pos, f.handlers)
      /\ f \in CallFrame /\ Len(frames) \in 1 .. Len(frames) /\ Len(frames) \in Nat
  BY StateFacts, SoundFacts, FrameFacts DEF TopFrame
<1>5. SetTopFrame(g)
  <2> DEFINE handlers == Front(f.handlers)
  <2>1. SetTopFrame([f EXCEPT !.handlers = handlers])
    BY <1>1
  <2>2. g = Fr(f.kind, f.pos, handlers)
    BY DEF Dropped
  <2> HIDE DEF f, handlers, g
  <2>3. [f EXCEPT !.handlers = handlers] = Fr(f.kind, f.pos, handlers)
    BY <1>4 DEF Fr
  <2> QED
    BY <2>1, <2>2, <2>3
<1> HIDE DEF g
<1>6. /\ Sound(g) /\ g.kind = f.kind /\ Alike(g, f, up) /\ Len(g.handlers) = up
  BY <1>3, <1>4, DroppedSound DEF g
<1>7. /\ frames' \in Seq(CallFrame) /\ Len(frames') = Len(frames) /\ frames' # <<>>
      /\ frames'[Len(frames)] = g /\ TopFrame' = g
      /\ \A k \in 1 .. Len(frames) : k # Len(frames) => frames'[k] = frames[k]
      /\ \A k \in 1 .. Len(frames) : Sound(frames'[k])
      /\ frames'[1].kind = "start"
  BY <1>5, <1>6, TopSet
<1>8. /\ calls' \in Seq(CCall) /\ Len(calls') = L /\ d = calls'[L]
      /\ Onward(d, TopCall, TopCall.frame, up)
      /\ \A m \in 1 .. N : calls'[m] = calls[m]
      /\ Cardinality(Propagations(calls')) = handling
  BY <1>1, <1>3, CallsLevel
<1>9. /\ d.kind = "unroll" /\ d.frame = Len(frames) /\ d.level = up
      /\ d.target = TopCall.target /\ d.returns = TopCall.returns
  BY <1>8 DEF Onward
<1>10. /\ Waiting' = 1 .. N /\ 1 .. N \subseteq Waiting
       /\ \A m \in Waiting : m \in 1 .. N \/ m = L
  BY <1>1, <1>2, <1>8 DEF Waiting
<1>11. Typed'
  BY <1>1, <1>7, <1>8 DEF IInv, Typed, Propagations
<1>12. Unrolling'
  BY <1>1, <1>9 DEF Unrolling
<1> HIDE DEF d
<1>13. FramesSound'
  <2>1. \A k \in 1 .. Len(frames') : k # Len(frames') => Whole(frames'[k])
    BY <1>7, Wholes
  <2> QED
    BY <1>7, <1>12, <2>1, MakeFrames
<1>14. ASSUME NEW m \in 1 .. N PROVE Held(m)
  <2>1. m \in Waiting /\ calls'[m] = calls[m] /\ calls[m].level \in Nat /\ m < L
    <3>1. m \in Waiting /\ calls'[m] = calls[m]
      BY <1>8, <1>10
    <3>2. m < L
      BY <1>2
    <3> HIDE DEF N, L
    <3> QED
      BY <3>1, <3>2, WaitsFacts, CallFacts
  <2>2. Before(calls[m], TopCall)
    BY <2>1
  <2>3. calls[m].frame = Len(frames) => calls[m].level <= up
    BY <1>2, <1>4, <2>1, <2>2 DEF Before
  <2>4. Alike(frames'[Len(frames)], frames[Len(frames)], up)
        /\ Len(frames'[Len(frames)].handlers) \in Nat
    BY <1>3, <1>6, <1>7 DEF TopFrame
  <2> QED
    BY <1>3, <1>7, <2>1, <2>3, <2>4, HeldTop
<1>15. HeldUpTo(N)
  BY <1>2, <1>8, <1>10, <1>14 DEF HeldUpTo
<1>16. Fresh(N)
  BY <1>2, <1>10 DEF Fresh
<1>17. Covered'
  <2>1. ASSUME NEW k \in 1 .. Len(frames'), NEW j \in 1 .. Len(frames'[k].handlers),
               frames'[k].handlers[j].ran = 1
        PROVE  \E m \in Waiting' : calls'[m].frame = k /\ calls'[m].level = j
    <3>1. /\ k \in 1 .. Len(frames) /\ j \in 1 .. Len(frames[k].handlers)
          /\ frames[k].handlers[j].ran = 1
          /\ k = Len(frames) => j # n
      <4>1. CASE k = Len(frames)
        <5>1. frames'[k] = g /\ frames[k] = f
          BY <1>7, <4>1 DEF TopFrame
        <5>2. j \in 1 .. up /\ j \in 1 .. n /\ j # n
          BY <1>2, <1>6, <2>1, <5>1
        <5> QED
          BY <1>6, <1>7, <2>1, <5>1, <5>2 DEF Alike
      <4>2. CASE k # Len(frames)
        BY <1>7, <2>1, <4>2
      <4> QED
        BY <4>1, <4>2
    <3>2. ~Passed(k, j)
      BY DEF Passed
    <3>3. PICK m \in Waiting : calls[m].frame = k /\ calls[m].level = j
      BY <3>1, <3>2 DEF IInv, WaitsSound, Covered
    <3>4. m # L
      BY <1>2, <3>1, <3>3
    <3> QED
      BY <1>8, <1>10, <3>3, <3>4
  <2> QED
    BY <2>1 DEF Covered
<1>18. AtWork'
  <2>1. TopCall' = d /\ calls' # <<>>
    BY <1>2, <1>8, EmptySeq DEF d
  <2>2. d.level = Len(g.handlers) /\ d.target <= d.level
    BY <1>2, <1>6, <1>9
  <2>3. ASSUME NEW j \in d.target + 1 .. d.level PROVE g.handlers[j].ran = 0
    <3>1. j \in TopCall.target + 1 .. TopCall.level - 1 /\ j \in 1 .. up
      BY <1>2, <1>9
    <3> QED
      BY <1>6, <3>1 DEF Alike
  <2> QED
    BY <1>7, <1>9, <2>1, <2>2, <2>3 DEF AtWork
<1>19. AtEnd' /\ AimedFailure'
  BY <1>1 DEF AtEnd, AimedFailure
<1>20. FreshAim(N)
  <2>1. \A m \in 2 .. Len(calls') : m > N => calls'[m] = d
    BY <1>2, <1>8
  <2> QED
    BY <1>9, <2>1 DEF FreshAim
<1> QED
  BY <1>2, <1>11, <1>13, <1>15, <1>16, <1>17, <1>18, <1>19, <1>20, Preserved

LEMMA UnrollVisitHolds ==
  ASSUME IInv, UnrollVisit
  PROVE  IInv'
<1>1. pc = "c" /\ TopCall.kind = "unroll" /\ TopCall.level > TopCall.target
  BY DEF UnrollVisit, CallStep
<1>2. /\ calls # <<>> /\ TopCall.frame = Len(frames) /\ TopCall \in CCall
      /\ TopCall.level = Len(TopFrame.handlers) /\ (TopCall.returns => TopCall.target = 0)
      /\ \A j \in TopCall.target + 1 .. TopCall.level : TopFrame.handlers[j].ran = 0
      /\ TopCall.level \in Nat /\ TopCall.target \in Nat
  BY <1>1, WorkFacts, CallFacts
<1>3. TopCall.target < TopCall.level /\ TopCall.level > 0
  BY <1>1, <1>2
<1>4. CASE Visited.try \in WithFinally
  BY <1>1, <1>2, <1>3, <1>4, RunStep DEF UnrollVisit
<1>5. CASE Visited.try \notin WithFinally
  <2>1. DropHandler
    BY <1>5 DEF UnrollVisit
  <2>2. \A m \in Waiting : m < Len(calls) => Before(calls[m], TopCall)
    BY <1>1, <1>3, Ahead
  <2>3. \A j \in TopCall.target + 1 .. TopCall.level - 1 : TopFrame.handlers[j].ran = 0
    BY <1>2
  <2> QED
    BY <1>1, <1>2, <1>3, <2>1, <2>2, <2>3, DropStep
<1> QED
  BY <1>4, <1>5

LEMMA UnrollFinallyDoneHolds ==
  ASSUME IInv, UnrollFinallyDone
  PROVE  IInv'
<1> DEFINE n == Len(calls)
<1>1. pc = "done" /\ TopCall.kind = "unroll" /\ DropHandler
  BY DEF UnrollFinallyDone
<1>2. calls # <<>> /\ TopCall.frame = Len(frames) /\ TopCall.level = Len(TopFrame.handlers)
  BY <1>1 DEF IInv, AtEnd
<1>3. n \in Waiting /\ TopCall = calls[n]
  BY <1>1, <1>2, StateFacts, IdleFacts, EmptySeq DEF TopCall
<1>4. Waits(n)
  BY <1>3, WaitsFacts
<1>5. /\ TopCall.target < TopCall.level /\ (TopCall.returns => TopCall.target = 0)
      /\ \A j \in TopCall.target + 1 .. TopCall.level - 1 : TopFrame.handlers[j].ran = 0
  BY <1>1, <1>2, <1>3, <1>4 DEF Waits, TopFrame
<1>6. \A m \in Waiting : m < Len(calls) => Before(calls[m], TopCall)
  BY <1>3 DEF IInv, WaitsSound, Ordered
<1> QED
  BY <1>1, <1>2, <1>5, <1>6, DropStep

-----------------------------------------------------------------------------
LEMMA InitHolds ==
  ASSUME Init
  PROVE  IInv
<1> DEFINE s == "start"
           f == Frame(s)
<1>1. /\ frames = <<f>> /\ calls = <<>> /\ pc = "run" /\ exc = RuntimeExc /\ handling = 0
  BY DEF Init
<1>2. Sound(f) /\ Whole(f) /\ f.kind = s /\ Len(f.handlers) = 0
  <2>1. s \in Script \cup {"native"}
    BY DEF Script
  <2> HIDE DEF s
  <2> QED
    BY <2>1, FreshSound
<1>3. f \in CallFrame
  BY <1>2 DEF Sound
<1> HIDE DEF f
<1>4. /\ frames \in Seq(CallFrame) /\ Len(frames) = 1 /\ frames[1] = f /\ frames # <<>>
      /\ 1 .. Len(frames) = {1}
  BY <1>1, <1>3
<1>5. calls \in Seq(CCall) /\ Len(calls) = 0 /\ 1 .. Len(calls) = {} /\ 2 .. Len(calls) = {}
  BY <1>1
<1>6. Cardinality(Propagations(calls)) = 0
  BY <1>5, FS_EmptySet DEF Propagations
<1>7. Typed
  BY <1>1, <1>4, <1>5, <1>6, ExceptionsAssumption DEF Typed
<1>8. FramesSound
  BY <1>1, <1>2, <1>4 DEF FramesSound
<1>9. Waiting = {}
  BY <1>5 DEF Waiting
<1>10. WaitsSound
  <2>1. ~ \E k \in 1 .. Len(frames) : \E j \in 1 .. Len(frames[k].handlers) : TRUE
    BY <1>2, <1>4
  <2> QED
    BY <1>9, <2>1 DEF WaitsSound, Ordered, Covered
<1>11. AtWork /\ AtEnd /\ Aimed
  BY <1>1, <1>5 DEF AtWork, AtEnd, Aimed, AimedCalls, AimedFailure
<1> QED
  BY <1>7, <1>8, <1>10, <1>11 DEF IInv

LEMMA StutterHolds ==
  ASSUME IInv, UNCHANGED vars
  PROVE  IInv'
<1>1. UNCHANGED <<frames, calls, pc, exc, handling>>
  BY DEF vars
<1>2. Typed' /\ FramesSound'
  BY <1>1 DEF IInv, Typed, FramesSound, Propagations, Unrolling, TopCall, Sound, Whole, Tells
<1>3. WaitsSound'
  <2>1. Waiting' = Waiting
    BY <1>1 DEF Waiting
  <2>2. ASSUME NEW n, Waits(n) PROVE Waits(n)'
    BY <1>1, <2>2 DEF Waits, Lets
  <2>3. ASSUME NEW m, NEW n, Before(calls[m], calls[n]) PROVE Before(calls'[m], calls'[n])
    BY <1>1, <2>3
  <2>4. ASSUME NEW k, NEW j, Passed(k, j) PROVE Passed(k, j)'
    BY <1>1, <2>4 DEF Passed, TopCall
  <2>5. Ordered'
    BY <2>1, <2>3 DEF IInv, WaitsSound, Ordered, Before
  <2>6. Covered'
    BY <1>1, <2>1, <2>4 DEF IInv, WaitsSound, Covered
  <2> QED
    BY <2>1, <2>2, <2>5, <2>6 DEF IInv, WaitsSound
<1>4. AtWork' /\ AtEnd'
  BY <1>1 DEF IInv, AtWork, AtEnd, TopCall, TopFrame, Lets
<1>5. Aimed'
  BY <1>1 DEF IInv, Aimed, AimedCalls, AimedFailure, Caught, TopFrame, Lets
<1> QED
  BY <1>2, <1>3, <1>4, <1>5 DEF IInv

LEMMA NextHolds ==
  ASSUME Careful, IInv, Next
  PROVE  IInv'
<1>1. CASE \E t \in Try : EnterTry(t)
  BY <1>1, EnterTryHolds
<1>2. CASE Throw \/ Fault \/ Leave \/ Return \/ FinallyEnd
  BY <1>2, ThrowHolds, FaultHolds, LeaveHolds, ReturnHolds, FinallyEndHolds
<1>3. CASE Call \/ NativeReturn \/ NativeFault \/ NativeOom \/ FailNative \/ FailScript
  BY <1>3, CallHolds, NativeReturnHolds, NativeFaultHolds, NativeOomHolds, FailNativeHolds,
     FailScriptHolds
<1>4. CASE Propagate
  BY <1>4, PropagateCatchHolds, PropagatePastHolds, PropagateFinallyDoneHolds,
     PropagateFrameHolds, PropagateOutHolds DEF Propagate
<1>5. CASE Unroll
  BY <1>5, UnrollVisitHolds, UnrollFinallyDoneHolds, UnrollEndHolds DEF Unroll
<1> QED
  BY <1>1, <1>2, <1>3, <1>4, <1>5 DEF Next

(* The inductive invariant of the interpreter's exception handling.        *)
LEMMA IInvHolds ==
  ASSUME Careful
  PROVE  Spec => []IInv
<1>1. Init => IInv
  BY InitHolds
<1>2. IInv /\ [Next]_vars => IInv'
  BY NextHolds, StutterHolds
<1> QED
  BY <1>1, <1>2, PTL DEF Spec

-----------------------------------------------------------------------------
(* The invariants.                                                         *)
LEMMA TypesFollow ==
  ASSUME IInv
  PROVE  TypeOK
<1>1. ASSUME NEW k \in 1 .. Len(frames)
      PROVE  /\ frames[k].kind \in Script \cup {"native"}
             /\ Len(frames[k].handlers) <= MaxHandlers
             /\ \A m \in DOMAIN frames[k].pos : frames[k].pos[m].part \in Parts
  <2>1. Sound(frames[k])
    BY StateFacts
  <2>2. /\ frames[k].kind \in Script \cup {"native"} /\ frames[k].pos \in Position
        /\ Len(frames[k].handlers) <= MaxHandlers
        /\ \A m \in 1 .. Len(frames[k].pos) : frames[k].pos[m] \in [try : Try, part : Parts]
    BY <2>1, SoundFacts
  <2>3. DOMAIN frames[k].pos = 1 .. Len(frames[k].pos)
    BY <2>2, LenProperties DEF Position
  <2> QED
    BY <2>2, <2>3
<1>2. \A n \in 1 .. Len(calls) : calls[n].kind \in {"propagate", "unroll"}
  BY StateFacts, CallFacts
<1>3. /\ pc \in {"run", "c", "done", "fail", "crashed", "exited", "ended"} /\ exc \in Exc
      /\ handling = Cardinality({n \in 1 .. Len(calls) : calls[n].kind = "propagate"})
  BY DEF IInv, Typed, Propagations
<1> QED
  BY <1>1, <1>2, <1>3 DEF TypeOK

LEMMA OnceFollows ==
  ASSUME IInv
  PROVE  FinallyAtMostOnce
<1>1. ASSUME NEW k \in 1 .. Len(frames), NEW j \in DOMAIN frames[k].handlers
      PROVE  frames[k].handlers[j].ran <= 1
  <2>1. frames[k].handlers \in Seq(TryBlock) /\ Sound(frames[k])
    BY StateFacts, SoundFacts
  <2>2. j \in 1 .. Len(frames[k].handlers)
    BY <2>1, LenProperties
  <2>3. frames[k].handlers[j] \in TryBlock
    BY <2>1, <2>2, SoundFacts
  <2>4. frames[k].handlers[j].ran \in {0, 1}
    BY <2>3, BlockFacts
  <2> QED
    BY <2>4
<1> QED
  BY <1>1 DEF FinallyAtMostOnce

LEMMA MirrorFollows ==
  ASSUME IInv
  PROVE  HandlersMirror
<1>1. ASSUME NEW k \in 1 .. Len(frames), k < Len(frames) \/ pc = "run"
      PROVE  LET f == frames[k] IN
               /\ Len(f.handlers) = Len(f.pos)
               /\ \A j \in DOMAIN f.pos :
                    /\ f.handlers[j].try = f.pos[j].try
                    /\ f.pos[j].part = "body" => ~f.handlers[j].caught
                    /\ f.pos[j].part = "catch" => f.handlers[j].caught
                    /\ f.pos[j].part = "finally" <=> f.handlers[j].ran > 0
  <2> DEFINE f == frames[k]
  <2>1. Whole(f)
    BY <1>1, StateFacts, Wholes
  <2>2. /\ Len(f.handlers) = Len(f.pos) /\ f.pos \in Position
        /\ \A j \in 1 .. Len(f.handlers) : Tells(f, j) /\ f.handlers[j] \in TryBlock
    BY <2>1, StateFacts, SoundFacts DEF Whole
  <2>3. DOMAIN f.pos = 1 .. Len(f.handlers)
    BY <2>2, LenProperties DEF Position
  <2>4. ASSUME NEW j \in DOMAIN f.pos
        PROVE  /\ f.handlers[j].try = f.pos[j].try
               /\ f.pos[j].part = "body" => ~f.handlers[j].caught
               /\ f.pos[j].part = "catch" => f.handlers[j].caught
               /\ f.pos[j].part = "finally" <=> f.handlers[j].ran > 0
    <3>1. Tells(f, j) /\ f.handlers[j] \in TryBlock
      BY <2>2, <2>3
    <3>2. f.handlers[j].ran = 1 <=> f.handlers[j].ran > 0
      BY <3>1, BlockFacts
    <3> HIDE DEF f
    <3> QED
      BY <3>1, <3>2 DEF Tells
  <2> QED
    BY <2>2, <2>4
<1> QED
  BY <1>1 DEF HandlersMirror

-----------------------------------------------------------------------------
(* The handlers that a step takes away.                                    *)
Finished(h) == h.try \notin WithFinally \/ h.ran > 0

NoneSkipped ==
  \A k \in 1 .. Len(frames) : \A j \in DOMAIN frames[k].handlers :
    (k > Len(frames') \/ j > Len(frames'[k].handlers)) => Finished(frames[k].handlers[j])

LEMMA NoneLost ==
  ASSUME IInv, Len(frames') >= Len(frames), Len(frames') \in Nat,
         \A k \in 1 .. Len(frames) :
           /\ Len(frames'[k].handlers) \in Nat
           /\ Len(frames'[k].handlers) >= Len(frames[k].handlers)
  PROVE  NoneSkipped
<1>1. ASSUME NEW k \in 1 .. Len(frames), NEW j \in DOMAIN frames[k].handlers
      PROVE  ~(k > Len(frames') \/ j > Len(frames'[k].handlers))
  <2>1. j \in 1 .. Len(frames[k].handlers) /\ Len(frames) \in Nat
        /\ Len(frames[k].handlers) \in Nat
    BY StateFacts, SoundFacts, LenProperties
  <2> QED
    BY <2>1
<1> QED
  BY <1>1 DEF NoneSkipped

LEMMA FramesStay ==
  ASSUME IInv, frames' = frames
  PROVE  NoneSkipped
  BY StateFacts, SoundFacts, NoneLost

(* When the frame on top is released.                                      *)
LEMMA TopReleased ==
  ASSUME IInv, pc # "ended", frames' = Front(frames),
         \A j \in 1 .. Len(TopFrame.handlers) : Finished(TopFrame.handlers[j])
  PROVE  NoneSkipped
<1>1. ASSUME NEW k \in 1 .. Len(frames), NEW j \in DOMAIN frames[k].handlers,
             k > Len(frames') \/ j > Len(frames'[k].handlers)
      PROVE  Finished(frames[k].handlers[j])
  <2>1. j \in 1 .. Len(frames[k].handlers) /\ Len(frames) \in Nat \ {0}
        /\ Len(frames[k].handlers) \in Nat
    BY StateFacts, SoundFacts, LenProperties
  <2>2. Len(frames') = Len(frames) - 1 /\ \A i \in 1 .. Len(frames) - 1 : frames'[i] = frames[i]
    BY Popped
  <2>3. CASE k = Len(frames)
    BY <2>1, <2>3 DEF TopFrame
  <2>4. CASE k # Len(frames)
    BY <1>1, <2>1, <2>2, <2>4
  <2> QED
    BY <2>3, <2>4
<1> QED
  BY <1>1 DEF NoneSkipped

(* When the frame on top changes.                                          *)
LEMMA TopChanged ==
  ASSUME IInv, pc # "ended", NEW g, SetTopFrame(g), Len(g.handlers) \in Nat,
         \A j \in 1 .. Len(TopFrame.handlers) :
           j > Len(g.handlers) => Finished(TopFrame.handlers[j])
  PROVE  NoneSkipped
<1>1. /\ Len(frames) \in Nat \ {0} /\ Len(frames) \in 1 .. Len(frames)
      /\ frames \in Seq(CallFrame)
  BY StateFacts
<1>2. /\ frames' = [frames EXCEPT ![Len(frames)] = g] /\ DOMAIN frames = 1 .. Len(frames)
  BY <1>1, LenProperties DEF SetTopFrame
<1>3. /\ frames'[Len(frames)] = g /\ DOMAIN frames' = 1 .. Len(frames)
      /\ \A k \in 1 .. Len(frames) : k # Len(frames) => frames'[k] = frames[k]
  BY <1>1, <1>2
<1>4. Len(frames') = Len(frames)
  BY <1>1, <1>2
<1>5. ASSUME NEW k \in 1 .. Len(frames), NEW j \in DOMAIN frames[k].handlers,
             k > Len(frames') \/ j > Len(frames'[k].handlers)
      PROVE  Finished(frames[k].handlers[j])
  <2>1. j \in 1 .. Len(frames[k].handlers) /\ Len(frames[k].handlers) \in Nat
    BY StateFacts, SoundFacts, LenProperties
  <2>2. j > Len(frames'[k].handlers)
    <3>1. ~(k > Len(frames))
      BY <1>1
    <3> QED
      BY <1>4, <1>5, <3>1
  <2>3. k = Len(frames)
    <3>1. CASE k # Len(frames)
      <4>1. j > Len(frames[k].handlers)
        BY <1>3, <2>2, <3>1
      <4> QED
        BY <2>1, <4>1
    <3> QED
      BY <3>1
  <2>4. j > Len(g.handlers) /\ frames[k] = TopFrame
    BY <1>3, <2>2, <2>3 DEF TopFrame
  <2> QED
    BY <2>1, <2>4
<1> QED
  BY <1>5 DEF NoneSkipped

LEMMA DroppedFinished ==
  ASSUME IInv, pc # "ended", DropHandler, Len(TopFrame.handlers) # 0,
         Finished(TopFrame.handlers[Len(TopFrame.handlers)])
  PROVE  NoneSkipped
<1> DEFINE f == TopFrame
           n == Len(f.handlers)
           g == [f EXCEPT !.handlers = Front(@)]
<1>1. SetTopFrame(g)
  BY DEF DropHandler
<1>2. f.handlers \in Seq(TryBlock) /\ n \in Nat /\ f = Fr(f.kind, f.pos, f.handlers)
      /\ f.handlers # <<>>
  BY StateFacts, SoundFacts, FrameFacts, EmptySeq
<1>3. g.handlers = Front(f.handlers)
  <2> HIDE DEF f
  <2> QED
    BY <1>2 DEF Fr
<1>4. Len(g.handlers) = n - 1
  BY <1>2, <1>3, FrontFacts
<1>5. \A j \in 1 .. n : j > n - 1 => Finished(f.handlers[j])
  BY <1>2
<1>6. n - 1 \in Nat
  BY <1>2
<1> HIDE DEF g
<1> QED
  BY <1>1, <1>4, <1>5, <1>6, TopChanged

LEMMA RunKeeps ==
  ASSUME IInv, pc = "c", RunFinally
  PROVE  NoneSkipped
<1> DEFINE f == TopFrame
           l == TopCall.level
           pos == Append(Visited.at, Region(Visited.try, "finally"))
           handlers == [f.handlers EXCEPT ![l].ran = @ + 1]
           g == [f EXCEPT !.pos = pos, !.handlers = handlers]
<1>1. SetTopFrame(g)
  BY DEF RunFinally
<1>2. f \in CallFrame /\ f.handlers \in Seq(TryBlock) /\ Len(f.handlers) \in Nat
  BY StateFacts, SoundFacts
<1>3. Len(handlers) = Len(f.handlers)
  BY <1>2
<1>4. g.handlers = handlers
  <2> HIDE DEF f, pos, handlers
  <2>1. g = Fr(f.kind, pos, handlers)
    BY <1>2, Reframed
  <2> HIDE DEF g
  <2> QED
    BY <2>1 DEF Fr
<1> HIDE DEF g
<1>5. \A j \in 1 .. Len(f.handlers) : ~(j > Len(g.handlers))
  BY <1>2, <1>3, <1>4
<1> QED
  BY <1>1, <1>2, <1>3, <1>4, <1>5, TopChanged

LEMMA CatchKeeps ==
  ASSUME IInv, PropagateCatch
  PROVE  NoneSkipped
<1> DEFINE f == TopFrame
           l == TopCall.level
           pos == Append(Visited.at, Region(Visited.try, "catch"))
           handlers == [f.handlers EXCEPT ![l].caught = TRUE]
           g == [f EXCEPT !.pos = pos, !.handlers = handlers]
<1>1. SetTopFrame(g) /\ pc = "c"
  BY DEF PropagateCatch, CallStep
<1>2. f \in CallFrame /\ f.handlers \in Seq(TryBlock) /\ Len(f.handlers) \in Nat
  BY <1>1, StateFacts, SoundFacts
<1>3. Len(handlers) = Len(f.handlers)
  BY <1>2
<1>4. g.handlers = handlers
  <2> HIDE DEF f, pos, handlers
  <2>1. g = Fr(f.kind, pos, handlers)
    BY <1>2, Reframed
  <2> HIDE DEF g
  <2> QED
    BY <2>1 DEF Fr
<1> HIDE DEF g
<1>5. \A j \in 1 .. Len(f.handlers) : ~(j > Len(g.handlers))
  BY <1>2, <1>3, <1>4
<1> QED
  BY <1>1, <1>2, <1>3, <1>4, <1>5, TopChanged

LEMMA EnterKeeps ==
  ASSUME IInv, NEW t \in Try, EnterTry(t)
  PROVE  NoneSkipped
<1> DEFINE f == TopFrame
           new == Handler(t, f.pos)
           level == Len(f.pos) + 1
           pos == Append(f.pos, Region(t, "body"))
           handlers == IF level > Len(f.handlers) THEN Append(f.handlers, new)
                       ELSE [f.handlers EXCEPT ![level] = new]
           g == [f EXCEPT !.pos = pos, !.handlers = handlers]
<1>1. pc = "run"
  BY DEF EnterTry, Running
<1>2. f \in CallFrame /\ f.handlers \in Seq(TryBlock) /\ Len(f.handlers) \in Nat
  BY <1>1, StateFacts, SoundFacts
<1>3. CASE Len(f.handlers) = MaxHandlers
  <2>1. frames' = frames
    BY <1>3 DEF EnterTry, RuntimeError, ThrowIn
  <2> QED
    BY <2>1, FramesStay
<1>4. CASE Len(f.handlers) # MaxHandlers
  <2>1. SetTopFrame(g)
    BY <1>4 DEF EnterTry
  <2>2. Len(handlers) \in Nat /\ Len(handlers) >= Len(f.handlers)
    <3>1. Len(Append(f.handlers, new)) = Len(f.handlers) + 1
      BY <1>2
    <3>2. Len([f.handlers EXCEPT ![level] = new]) = Len(f.handlers)
      BY <1>2
    <3> HIDE DEF level, new
    <3> QED
      BY <1>2, <3>1, <3>2
  <2>3. g.handlers = handlers
    <3> HIDE DEF f, pos, handlers
    <3>1. g = Fr(f.kind, pos, handlers)
      BY <1>2, Reframed
    <3> HIDE DEF g
    <3> QED
      BY <3>1 DEF Fr
  <2> HIDE DEF g, handlers
  <2>4. \A j \in 1 .. Len(f.handlers) : ~(j > Len(g.handlers))
    BY <1>2, <2>2, <2>3
  <2> QED
    BY <1>1, <2>1, <2>2, <2>3, <2>4, TopChanged
<1> QED
  BY <1>3, <1>4

LEMMA BareReleased ==
  ASSUME IInv, pc # "ended", frames' = Front(frames), Len(TopFrame.handlers) = 0
  PROVE  NoneSkipped
  BY TopReleased

LEMMA NextSkipsNone ==
  ASSUME IInv, Next
  PROVE  NoneSkipped
<1>1. CASE \E t \in Try : EnterTry(t)
  BY <1>1, EnterKeeps
<1>2. CASE Throw \/ Fault \/ Leave \/ FinallyEnd \/ FailScript
  <2>1. frames' = frames
    BY <1>2 DEF Throw, Fault, Leave, FinallyEnd, FailScript, ThrowIn, RuntimeError, StartUnroll
  <2> QED
    BY <2>1, FramesStay
<1>3. CASE Return
  <2>1. pc = "run" /\ Sound(TopFrame)
    BY <1>3, StateFacts DEF Return, Running
  <2>2. CASE TopFrame.pos = <<>>
    <3>1. frames' = Front(frames)
      BY <1>3, <2>2 DEF Return, ReturnFrame
    <3>2. Len(TopFrame.pos) = 0
      BY <2>2, EmptySeq
    <3>3. Len(TopFrame.handlers) = 0
      BY <2>1, <3>2, SoundFacts
    <3> QED
      BY <2>1, <3>1, <3>3, BareReleased
  <2>3. CASE TopFrame.pos # <<>>
    <3>1. frames' = frames
      BY <1>3, <2>3 DEF Return, StartUnroll
    <3> QED
      BY <3>1, FramesStay
  <2> QED
    BY <2>2, <2>3
<1>4. CASE Call
  <2>1. PICK kind \in Script \cup {"native"} : frames' = Append(frames, Frame(kind))
    BY <1>4 DEF Call, Script
  <2>2. pc # "ended"
    BY <1>4 DEF Call
  <2>3. Len(frames') = Len(frames) + 1 /\ \A k \in 1 .. Len(frames) : frames'[k] = frames[k]
    BY <2>1, <2>2, Pushed
  <2>4. /\ Len(frames) \in Nat
        /\ \A k \in 1 .. Len(frames) : Len(frames[k].handlers) \in Nat
    BY StateFacts, SoundFacts
  <2> QED
    BY <2>3, <2>4, NoneLost
<1>5. CASE NativeReturn \/ NativeFault \/ NativeOom \/ FailNative
  <2>1. pc # "ended" /\ TopFrame.kind = "native" /\ (frames' = Front(frames) \/ frames' = frames)
    BY <1>5 DEF NativeReturn, NativeFault, NativeOom, FailNative, NativeRaises, Running
  <2>2. Len(TopFrame.handlers) = 0
    BY <2>1, NativeFacts
  <2> QED
    BY <2>1, <2>2, BareReleased, FramesStay
<1>6. CASE PropagateCatch
  BY <1>6, CatchKeeps
<1>7. CASE PropagatePast \/ PropagateFinallyDone
  <2>1. frames' = frames \/ (pc = "c" /\ RunFinally)
    BY <1>7 DEF PropagatePast, PropagateFinallyDone, CallStep
  <2> QED
    BY <2>1, FramesStay, RunKeeps
<1>8. CASE PropagateFrame \/ PropagateOut
  <2>1. pc = "c" /\ TopCall.kind = "propagate" /\ TopCall.level = 0 /\ frames' = Front(frames)
    BY <1>8 DEF PropagateFrame, PropagateOut, CallStep
  <2>2. \A j \in TopCall.level + 1 .. Len(TopFrame.handlers) :
          TopFrame.handlers[j].try \notin WithFinally \/ TopFrame.handlers[j].ran = 1
    BY <2>1, WorkFacts
  <2>3. \A j \in 1 .. Len(TopFrame.handlers) : Finished(TopFrame.handlers[j])
    <3>1. TopCall.level + 1 = 1
      BY <2>1
    <3> QED
      BY <2>2, <3>1 DEF Finished
  <2> QED
    BY <2>1, <2>3, TopReleased
<1>9. CASE UnrollVisit
  <2>1. pc = "c" /\ TopCall.kind = "unroll" /\ TopCall.level > TopCall.target
    BY <1>9 DEF UnrollVisit, CallStep
  <2>2. TopCall.level = Len(TopFrame.handlers) /\ TopCall.target \in Nat /\ TopCall.level \in Nat
    BY <2>1, WorkFacts, CallFacts
  <2>3. CASE Visited.try \in WithFinally
    BY <1>9, <2>1, <2>3, RunKeeps DEF UnrollVisit
  <2>4. CASE Visited.try \notin WithFinally
    <3>1. DropHandler
      BY <1>9, <2>4 DEF UnrollVisit
    <3>2. Len(TopFrame.handlers) # 0
      BY <2>1, <2>2
    <3>3. Finished(TopFrame.handlers[Len(TopFrame.handlers)])
      BY <2>2, <2>4 DEF Finished, Visited
    <3> QED
      BY <2>1, <3>1, <3>2, <3>3, DroppedFinished
  <2> QED
    BY <2>3, <2>4
<1>10. CASE UnrollFinallyDone
  <2> DEFINE n == Len(calls)
  <2>1. pc = "done" /\ DropHandler
    BY <1>10 DEF UnrollFinallyDone
  <2>2. calls # <<>> /\ TopCall.frame = Len(frames) /\ TopCall.level = Len(TopFrame.handlers)
    BY <2>1 DEF IInv, AtEnd
  <2>3. n \in Waiting /\ TopCall = calls[n]
    BY <2>1, <2>2, StateFacts, IdleFacts, EmptySeq DEF TopCall
  <2>4. /\ frames[TopCall.frame].handlers[TopCall.level].ran = 1
        /\ TopCall.level \in 1 .. Len(frames[TopCall.frame].handlers)
    BY <2>3, WaitsFacts
  <2>5. TopFrame.handlers[Len(TopFrame.handlers)].ran > 0
    BY <2>2, <2>4 DEF TopFrame
  <2>6. Finished(TopFrame.handlers[Len(TopFrame.handlers)])
    BY <2>5 DEF Finished
  <2>7. Len(TopFrame.handlers) # 0
    BY <2>2, <2>4 DEF TopFrame
  <2> QED
    BY <2>1, <2>6, <2>7, DroppedFinished
<1>11. CASE UnrollEnd
  <2>1. pc = "c" /\ TopCall.kind = "unroll" /\ TopCall.level <= TopCall.target
    BY <1>11 DEF UnrollEnd, CallStep
  <2>2. /\ TopCall.level = Len(TopFrame.handlers) /\ (TopCall.returns => TopCall.target = 0)
        /\ TopCall.level \in Nat
    BY <2>1, WorkFacts, CallFacts
  <2>3. CASE TopCall.returns
    <3>1. frames' = Front(frames)
      BY <1>11, <2>3 DEF UnrollEnd, ReturnFrame
    <3>2. Len(TopFrame.handlers) = 0
      BY <2>1, <2>2, <2>3
    <3> QED
      BY <2>1, <3>1, <3>2, BareReleased
  <2>4. CASE ~TopCall.returns
    <3> DEFINE f == TopFrame
               g == [f EXCEPT !.pos = SubSeq(@, 1, TopCall.target)]
    <3>1. SetTopFrame(g)
      BY <1>11, <2>4 DEF UnrollEnd
    <3>2. g.handlers = f.handlers
      <4>1. f = Fr(f.kind, f.pos, f.handlers)
        BY <2>1, StateFacts, SoundFacts, FrameFacts
      <4> HIDE DEF f
      <4> QED
        BY <4>1 DEF Fr
    <3> HIDE DEF g
    <3>3. Len(g.handlers) \in Nat /\ \A j \in 1 .. Len(f.handlers) : ~(j > Len(g.handlers))
      BY <2>2, <3>2
    <3> QED
      BY <2>1, <3>1, <3>3, TopChanged
  <2> QED
    BY <2>3, <2>4
<1> QED
  BY <1>1, <1>2, <1>3, <1>4, <1>5, <1>6, <1>7, <1>8, <1>9, <1>10, <1>11
  DEF Next, Propagate, Unroll

-----------------------------------------------------------------------------
(* What a try block that the loop of propagateException visits encloses.   *)
LEMMA VisitedEncloses ==
  ASSUME IInv, pc = "c", TopCall.kind = "propagate", TopCall.level > 0
  PROVE  /\ Visited \in TryBlock /\ Tells(TopFrame, TopCall.level)
         /\ TopCall.level \in 1 .. Len(TopFrame.pos)
         /\ Encloses(Visited) <=> TopFrame.pos[TopCall.level].part = "body"
<1> DEFINE f == TopFrame
           n == TopCall.level
           h == Visited
           pos == f.pos
           S == [try : Try, part : Parts]
           R == Region(h.try, "body")
           body == Append(h.at, R)
<1>1. /\ n \in Nat /\ n <= Len(f.handlers) /\ Len(f.handlers) \in Nat
      /\ Sound(f) /\ Whole(f)
  BY WorkFacts, CallFacts, StateFacts, SoundFacts, Wholes DEF TopFrame
<1>2. /\ n \in 1 .. Len(f.handlers) /\ Len(pos) = Len(f.handlers) /\ pos \in Seq(S)
      /\ n \in 1 .. Len(pos)
  <2>1. n \in 1 .. Len(f.handlers)
    BY <1>1
  <2>2. Len(pos) = Len(f.handlers)
    BY <1>1 DEF Whole
  <2>3. pos \in Seq(S)
    BY <1>1, SoundFacts DEF Position
  <2> QED
    BY <2>1, <2>2, <2>3
<1>3. h = f.handlers[n] /\ h \in TryBlock /\ Tells(f, n) /\ \A i \in 1 .. Len(pos) : pos[i] \in S
  BY <1>1, <1>2, SoundFacts DEF Visited
<1>4. /\ h.try = pos[n].try /\ Len(h.at) = n - 1 /\ \A i \in 1 .. n - 1 : h.at[i] = pos[i]
  BY <1>3 DEF Tells
<1>5. h.at \in Seq(S) /\ R \in S /\ R.try = h.try /\ R.part = "body"
  <2>1. h.at \in Seq(S) /\ h.try \in Try
    BY <1>3, BlockFacts DEF Position
  <2> QED
    BY <2>1 DEF Region, Parts
<1> HIDE DEF h, R, pos, S, n
<1>6. /\ body \in Seq(S) /\ Len(body) = n /\ body[n] = R
      /\ \A i \in 1 .. n - 1 : body[i] = h.at[i]
  <2>1. /\ body \in Seq(S) /\ Len(body) = Len(h.at) + 1 /\ body[Len(h.at) + 1] = R
        /\ \A i \in 1 .. Len(h.at) : body[i] = h.at[i]
    BY <1>5, AppendProperties
  <2>2. Len(h.at) + 1 = n
    BY <1>1, <1>4
  <2> QED
    BY <1>4, <2>1, <2>2
<1> HIDE DEF body
<1> DEFINE sub == SubSeq(pos, 1, n)
<1>7. sub \in Seq(S) /\ Len(sub) = n /\ \A i \in 1 .. n : sub[i] = pos[i]
  <2>1. n \in 0 .. Len(pos)
    BY <1>1, <1>2
  <2> QED
    BY <1>2, <2>1, Begun
<1> HIDE DEF sub
<1>8. ASSUME pos[n].part = "body" PROVE sub = body
  <2>1. pos[n] = R
    <3>1. pos[n] \in S /\ R \in S
      BY <1>2, <1>3, <1>5
    <3>2. pos[n].try = R.try /\ pos[n].part = R.part
      BY <1>4, <1>5, <1>8
    <3> QED
      BY <3>1, <3>2 DEF S
  <2>2. ASSUME NEW i \in 1 .. Len(sub) PROVE sub[i] = body[i]
    <3>1. i = n \/ i \in 1 .. n - 1
      BY <1>1, <1>7
    <3> QED
      BY <1>4, <1>6, <1>7, <2>1, <2>2, <3>1
  <2> QED
    BY <1>6, <1>7, <2>2, SeqEqual
<1>9. ASSUME sub = body PROVE pos[n].part = "body"
  <2>1. n \in 1 .. n
    BY <1>2
  <2>2. pos[n] = R
    BY <1>6, <1>7, <1>9, <2>1
  <2> QED
    BY <1>5, <2>2
<1>10. Encloses(h) <=> sub = body
  <2>1. Len(body) <= Len(pos)
    BY <1>1, <1>2, <1>6
  <2>2. Encloses(h) <=> (Len(body) <= Len(pos) /\ SubSeq(pos, 1, Len(body)) = body)
    BY DEF Encloses, body, R, pos, f
  <2>3. SubSeq(pos, 1, Len(body)) = sub
    BY <1>6 DEF sub
  <2> QED
    BY <2>1, <2>2, <2>3
<1>11. Encloses(h) <=> pos[n].part = "body"
  BY <1>8, <1>9, <1>10
<1> QED
  BY <1>2, <1>3, <1>11 DEF h, pos, n

LEMMA CaughtByEnclosing ==
  ASSUME Careful, IInv, PropagateCatch
  PROVE  Encloses(Visited)
<1> DEFINE n == TopCall.level
           f == TopFrame
<1>1. pc = "c" /\ TopCall.kind = "propagate" /\ n > 0 /\ ~Visited.caught /\ ActsAlone
  BY DEF PropagateCatch, CallStep
<1>2. n = Len(f.handlers)
  BY <1>1 DEF ActsAlone, Careful
<1>3. Visited.ran = 0
  BY <1>1, <1>2, NotRun
<1>4. /\ Tells(f, n) /\ n \in 1 .. Len(f.pos)
      /\ Encloses(Visited) <=> f.pos[n].part = "body"
  BY <1>1, VisitedEncloses
<1>5. f.pos[n].part \in Parts
  BY <1>1, <1>4, StateFacts, SoundFacts
<1>6. f.pos[n].part # "catch" /\ f.pos[n].part # "finally"
  BY <1>1, <1>3, <1>4 DEF Tells, Visited
<1> QED
  BY <1>4, <1>5, <1>6 DEF Parts

LEMMA PassesOthers ==
  ASSUME IInv, PropagatePast
  PROVE  ~(Encloses(Visited) /\ TopCall.exc \in Catches[Visited.try])
<1> DEFINE n == TopCall.level
           f == TopFrame
<1>1. /\ pc = "c" /\ TopCall.kind = "propagate" /\ n > 0
      /\ Visited.caught \/ TopCall.exc \notin Catches[Visited.try]
  BY DEF PropagatePast, CallStep
<1>2. Tells(f, n) /\ (Encloses(Visited) <=> f.pos[n].part = "body")
  BY <1>1, VisitedEncloses
<1>3. Visited.caught => f.pos[n].part # "body"
  BY <1>2 DEF Tells, Visited
<1> QED
  BY <1>1, <1>2, <1>3

LEMMA LeavesNone ==
  ASSUME IInv, PropagateFrame, NEW m \in DOMAIN TopFrame.pos, TopFrame.pos[m].part = "body"
  PROVE  TopCall.exc \notin Catches[TopFrame.pos[m].try]
<1> DEFINE f == TopFrame
<1>1. pc = "c" /\ TopCall.kind = "propagate" /\ TopCall.level = 0
  BY DEF PropagateFrame, CallStep
<1>2. /\ f.pos \in Position /\ Len(f.pos) = Len(f.handlers)
      /\ \A j \in 1 .. Len(f.handlers) : Tells(f, j)
  BY <1>1, StateFacts, SoundFacts, Wholes DEF Whole, TopFrame
<1>3. m \in 1 .. Len(f.handlers)
  BY <1>2, LenProperties DEF Position
<1>4. TopCall.level + 1 = 1
  BY <1>1
<1>5. Lets(f.handlers[m], TopCall.exc)
  BY <1>1, <1>3, <1>4, WorkFacts
<1> QED
  BY <1>2, <1>3, <1>5 DEF Tells, Lets

-----------------------------------------------------------------------------
(* The variables keep their types, a frame never holds more handlers than  *)
(* its array has room for, and handlingException counts the calls of       *)
(* propagateException in progress (vm.c:858-936, 985).                     *)
THEOREM ExceptionTypes ==
  ASSUME Careful
  PROVE  Spec => []TypeOK
<1>1. Spec => []IInv
  BY IInvHolds
<1>2. IInv => TypeOK
  BY TypesFollow
<1> QED
  BY <1>1, <1>2, PTL

(* No finally block runs twice for one execution of its statement, however *)
(* it is left (vm.c:914-932, 956-971).                                     *)
THEOREM FinallyOnce ==
  ASSUME Careful
  PROVE  Spec => []FinallyAtMostOnce
<1>1. Spec => []IInv
  BY IInvHolds
<1>2. IInv => FinallyAtMostOnce
  BY OnceFollows
<1> QED
  BY <1>1, <1>2, PTL

(* While bytecode runs, the handler stack of every frame mirrors the try   *)
(* statements around its ip (vm.c:981-998).                                *)
THEOREM MirrorsSource ==
  ASSUME Careful
  PROVE  Spec => []HandlersMirror
<1>1. Spec => []IInv
  BY IInvHolds
<1>2. IInv => HandlersMirror
  BY MirrorFollows
<1> QED
  BY <1>1, <1>2, PTL

(* No handler disappears before its finally block has run, also when whole *)
(* frames are released (vm.c:858-936, 956-971).                            *)
THEOREM FinallyAlways ==
  ASSUME Careful
  PROVE  Spec => FinallyNotSkipped
<1> DEFINE Sk == \A k \in 1 .. Len(frames) : \A j \in DOMAIN frames[k].handlers :
             (k > Len(frames') \/ j > Len(frames'[k].handlers)) =>
                \/ frames[k].handlers[j].try \notin WithFinally
                \/ frames[k].handlers[j].ran > 0
<1>1. Spec => []IInv
  BY IInvHolds
<1>2. IInv /\ [Next]_vars => [Sk]_vars
  BY NextSkipsNone DEF NoneSkipped, Finished
<1>3. Spec => [][Sk]_vars
  BY <1>1, <1>2, PTL DEF Spec
<1> QED
  BY <1>3 DEF FinallyNotSkipped

(* An exception is caught by the innermost try statement whose body        *)
(* encloses the instruction and whose clauses match, by no other, and none *)
(* is missed (vm.c:867-911).                                               *)
THEOREM CatchesExact ==
  ASSUME Careful
  PROVE  Spec => CatchExact
<1> DEFINE Ex ==
      /\ PropagateCatch => Encloses(Visited)
      /\ PropagatePast => ~(Encloses(Visited) /\ TopCall.exc \in Catches[Visited.try])
      /\ PropagateFrame =>
           \A m \in DOMAIN TopFrame.pos :
             TopFrame.pos[m].part = "body" =>
                TopCall.exc \notin Catches[TopFrame.pos[m].try]
<1>1. Spec => []IInv
  BY IInvHolds
<1>2. IInv /\ [Next]_vars => [Ex]_vars
  BY CaughtByEnclosing, PassesOthers, LeavesNone
<1>3. Spec => [][Ex]_vars
  BY <1>1, <1>2, PTL DEF Spec
<1> QED
  BY <1>3 DEF CatchExact
=============================================================================
