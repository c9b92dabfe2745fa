------------------------------ MODULE Classes -------------------------------
(***************************************************************************)
(* Classes and interfaces: what the compiler numbers (the properties that  *)
(* a class body reaches through this and super, compiler.c) and what the   *)
(* instructions CLASS, INHERIT, FIELD, METHOD, ABS_METHOD and CLOSE_CLASS  *)
(* build at run time (vm.c): the display and the list of supertypes behind *)
(* instanceof, the tables of fields and methods, and the member references *)
(* through which compiled methods reach them.                              *)
(*                                                                         *)
(* Templates are the declarations as compiled; a run is the order in which *)
(* they are executed, each with the values that its extends and implements *)
(* clauses evaluate to.  A template that runs twice makes two classes that *)
(* share the function objects of its methods.  Klass k is made by run[k];  *)
(* 0 is the builtin class Object.                                          *)
(***************************************************************************)
EXTENDS Integers, FiniteSets, SequencesExt

CONSTANTS
  Templates,      \* a sequence of declarations
  Runs,           \* sequences of [t, super, impl]: a template and its supertypes
  DisplaySize,    \* ELOX_CLASS_DISPLAY_SIZE
  MaxChecks       \* bound: instanceof tests that change a cache

ASSUME ClassAssumption == DisplaySize \in Nat \ {0} /\ MaxChecks \in Nat

(* What the compiler emits: the body of an interface declares methods, and *)
(* only methods have code, which refers to members.                        *)
ASSUME TemplateAssumption ==
  \A t \in DOMAIN Templates :
    LET members == Templates[t].members IN
    /\ Templates[t].kind \in {"class", "interface"} /\ Templates[t].abstract \in BOOLEAN
    /\ members \in Seq(Range(members))
    /\ \A mb \in Range(members) :
         /\ mb.k \in (IF Templates[t].kind = "class" THEN {"field", "method", "abstract"}
                       ELSE {"abstract"})
         /\ mb.refs \in Seq(Range(mb.refs))
         /\ \A ref \in Range(mb.refs) : ref.this \in BOOLEAN
         /\ mb.k # "method" => mb.refs = <<>>

(* What INHERIT accepts: a class extends a class and implements interfaces, *)
(* which were declared before.                                              *)
ASSUME RunAssumption ==
  \A r \in Runs :
    /\ r \in Seq(Range(r))
    /\ \A k \in 1..Len(r) :
         LET kind(j) == Templates[r[j].t].kind IN
         /\ r[k].t \in DOMAIN Templates
         /\ r[k].super = 0 \/ (r[k].super \in 1..(k - 1) /\ kind(r[k].super) = "class")
         /\ r[k].impl \in Seq({i \in 1..(k - 1) : kind(i) = "interface"})

VARIABLES
  run,
  pc,             \* the declaration being executed
  member,         \* ... and its next member, 0 before INHERIT
  klass,          \* the classes and interfaces made so far
  code,           \* the function objects: the class and offset a method refers to
  status,         \* "running", or how the execution ended
  checks

vars == <<run, pc, member, klass, code, status, checks>>

-----------------------------------------------------------------------------
(* What the compiler does with a class body.  A method refers to           *)
(* properties by [this |-> TRUE or FALSE, kind |-> "get", "set" or "call", *)
(* name]; every pair of this or super and a name gets one slot, in order   *)
(* of appearance, and keeps the kinds of member its first use allows.      *)

MembersOf(t) == Templates[t].members

Allowed(ref) == IF ~ref.this THEN {"method"}
                ELSE IF ref.kind = "set" THEN {"field"} ELSE {"field", "method"}

AddPendingProperty(pending, ref) ==
  IF \E p \in Range(pending) : p.this = ref.this /\ p.name = ref.name THEN pending
  ELSE Append(pending, [this |-> ref.this, name |-> ref.name, allowed |-> Allowed(ref)])

Pending(t) ==
  LET used(before, refs) ==
        LET upTo[j \in 0..Len(refs)] ==
              IF j = 0 THEN before ELSE AddPendingProperty(upTo[j - 1], refs[j])
        IN upTo[Len(refs)]
      body[i \in 0..Len(MembersOf(t))] ==
        IF i = 0 THEN <<>> ELSE used(body[i - 1], MembersOf(t)[i].refs)
  IN body[Len(MembersOf(t))]

SlotOf(t, ref) ==
  SelectInSeq(Pending(t), LAMBDA p : p.this = ref.this /\ p.name = ref.name)

-----------------------------------------------------------------------------
(* A table with one more entry, and one with those of another it lacks.    *)
With(f, x, v) == [y \in DOMAIN f \cup {x} |-> IF y = x THEN v ELSE f[y]]
Completed(f, g) == [y \in DOMAIN f \cup DOMAIN g |-> IF y \in DOMAIN f THEN f[y] ELSE g[y]]

Nothing == -1
Decl == run[pc]
TemplateOf(k) == Templates[run[k].t]
Running == status = "running" /\ pc <= Len(run)
At(kind) == Running /\ member > 0 /\ member <= Len(MembersOf(Decl.t))
            /\ MembersOf(Decl.t)[member].k = kind
Member == MembersOf(Decl.t)[member]

NewClass(abstract) ==
  [super |-> Nothing, depth |-> 0, offset |-> 0, rss |-> <<>>,
   display |-> [i \in 0..DisplaySize |-> Nothing],
   fields |-> <<>>, methods |-> <<>>, refs |-> <<>>, abstract |-> abstract,
   interface |-> FALSE, ready |-> FALSE]
NewInterface == [NewClass(FALSE) EXCEPT !.interface = TRUE, !.offset = DisplaySize]

Object == [NewClass(FALSE) EXCEPT !.display[0] = 0, !.ready = TRUE]

(* What parsePrototype reads: the parameters without the ... that stands   *)
(* for variable arguments, and whether there is one.                       *)
Declared(mb) == [arity |-> mb.params, varargs |-> mb.varargs]

(* A method or, for an interface or an abstract method, a descriptor.  A   *)
(* method counts this among its parameters, a descriptor does not.         *)
NewMethod == [desc |-> FALSE, owner |-> pc, at |-> member,
              prototype |-> [Declared(Member) EXCEPT !.arity = @ + 1]]
NewMethodDesc == [NewMethod EXCEPT !.desc = TRUE, !.prototype = Declared(Member)]

(* Mutant: variable arguments are not compared.                            *)
SameArity(m1, m2) == m1.prototype.arity = m2.prototype.arity
PrototypeMatches(m1, m2) == m1.prototype = m2.prototype

Stop(how) == status' = how /\ UNCHANGED <<pc, member, klass, code>>
Continue(k) == /\ klass' = [klass EXCEPT ![pc] = k]
               /\ member' = member + 1
               /\ UNCHANGED <<pc, status>>

-----------------------------------------------------------------------------
(* INHERIT.                                                                *)

(* The type information of a class at depth d below super.  The copy takes *)
(* at least DisplaySize entries and d when that is more: it then runs over *)
(* the cache entry, the pointer to the list (set again below) and, from    *)
(* DisplaySize + 3 on, the depth that was just stored.                     *)
Display(k, super, d) ==
  LET copied == [i \in 0..DisplaySize |->
                   IF i < (IF d > DisplaySize THEN d ELSE DisplaySize)
                   THEN super.display[i] ELSE Nothing]
  IN [k EXCEPT !.depth = IF d >= DisplaySize + 3 THEN super.depth ELSE d,
               !.display = IF d < DisplaySize THEN [copied EXCEPT ![d] = pc] ELSE copied,
               !.offset = IF d < DisplaySize THEN d ELSE DisplaySize]

(* Mutant: the superclass is found in the display of its subclass.         *)
InheritedThroughDisplay(s) == klass[s].rss
(* The supertypes of a subclass of s that its display does not show.       *)
Inherited(s) == (IF klass[s].depth >= DisplaySize THEN <<s>> ELSE <<>>) \o klass[s].rss

(* With the interfaces that it implements, each once.                      *)
Supertypes(s, impl) ==
  LET upTo[i \in 0..Len(impl)] ==
        IF i = 0 THEN Inherited(s)
        ELSE IF impl[i] \in Range(upTo[i - 1]) THEN upTo[i - 1]
        ELSE Append(upTo[i - 1], impl[i])
  IN upTo[Len(impl)]

(* Adding the methods of one interface: a method that the class has must   *)
(* match, one it lacks is added as a descriptor.                           *)
AddInterface(acc, i) ==
  LET own == klass[i].methods
      both == DOMAIN own \cap DOMAIN acc.methods
  IN IF acc.how # "running" THEN acc
     ELSE IF \E n \in both : acc.methods[n].desc
     THEN [acc EXCEPT !.how = "undefined"]     \* a descriptor is read as a method
     ELSE IF \E n \in both : ~PrototypeMatches(acc.methods[n], own[n])
     THEN [acc EXCEPT !.how = "mismatch"]
     ELSE [acc EXCEPT !.methods = Completed(@, own)]

AddInterfaces(methods, added) ==
  LET upTo[i \in 0..Len(added)] ==
        IF i = 0 THEN [how |-> "running", methods |-> methods]
        ELSE AddInterface(upTo[i - 1], added[i])
  IN upTo[Len(added)]

Unset == [type |-> "unset", this |-> FALSE, value |-> 0]

Inherit ==
  /\ Running /\ member = 0 /\ ~klass[pc].interface
  /\ LET super == klass[Decl.super]
         k == Display(klass[pc], super, super.depth + 1)
         rss == Supertypes(Decl.super, Decl.impl)
         added == SubSeq(rss, Len(Inherited(Decl.super)) + 1, Len(rss))
         r == AddInterfaces(super.methods, added)
         refs == super.refs \o [i \in 1..Len(Pending(Decl.t)) |-> Unset]
     IN IF r.how # "running" THEN Stop(r.how) /\ UNCHANGED checks
        ELSE Continue([k EXCEPT !.super = Decl.super, !.rss = rss, !.fields = super.fields,
                                !.methods = r.methods, !.refs = refs])
             /\ UNCHANGED <<code, checks>>
  /\ UNCHANGED run

-----------------------------------------------------------------------------
(* The members.                                                            *)

(* Mutant: the fields of a class are numbered from its own first one.      *)
OwnIndex(k) ==
  LET above == Cardinality(DOMAIN klass[k.super].fields)
  IN Cardinality({f \in DOMAIN k.fields : k.fields[f] >= above})
FieldIndex(k) == Cardinality(DOMAIN k.fields)

DefineField ==
  /\ At("field")
  /\ LET k == klass[pc]
     IN Continue([k EXCEPT !.fields = With(@, Member.name, FieldIndex(k))])
  /\ UNCHANGED <<run, code, checks>>

(* Mutant: the references inherited from the superclass stay.              *)
KeepRefs(k, old, new) == k.refs
(* A method that overrides another replaces it in the inherited references *)
(* through this; those of the class itself are not resolved yet.           *)
ReplaceRefs(k, old, new) ==
  [i \in DOMAIN k.refs |->
     IF i <= Len(klass[k.super].refs) /\ k.refs[i].this /\ k.refs[i].type = "method"
        /\ k.refs[i].value = old
     THEN [k.refs[i] EXCEPT !.value = new] ELSE k.refs[i]]

DefineMethod ==
  /\ At("method")
  /\ LET k == klass[pc]
         n == Member.name
         exists == n \in DOMAIN k.methods
         refs == IF exists THEN ReplaceRefs(k, k.methods[n], NewMethod) ELSE k.refs
     IN IF exists /\ ~PrototypeMatches(NewMethod, k.methods[n])
        THEN Stop("mismatch")
        ELSE /\ Continue([k EXCEPT !.refs = refs, !.methods = With(@, n, NewMethod)])
             /\ code' = With(code, <<Decl.t, member>>,
                            [parent |-> pc, refOffset |-> Len(klass[k.super].refs)])
  /\ UNCHANGED <<run, checks>>

OverridesMethod(k) == Member.name \in DOMAIN k.methods /\ ~k.methods[Member.name].desc

AddAbstractMethod ==
  /\ At("abstract")
  /\ LET k == klass[pc]
         exists == Member.name \in DOMAIN k.methods
     IN IF OverridesMethod(k) THEN Stop("abstractOverride")
        ELSE IF exists /\ ~PrototypeMatches(NewMethodDesc, k.methods[Member.name])
        THEN Stop("mismatch")
        ELSE Continue(IF exists THEN k
                      ELSE [k EXCEPT !.methods = With(@, Member.name, NewMethodDesc)])
             /\ UNCHANGED code
  /\ UNCHANGED <<run, checks>>

-----------------------------------------------------------------------------
(* CLOSE_CLASS.                                                            *)

(* Mutant: a member that is missing leaves its slot as it is.              *)
ResolveFound(k, p) ==
  IF p.name \in DOMAIN k.fields THEN [type |-> "field", this |-> TRUE, value |-> k.fields[p.name]]
  ELSE IF p.name \in DOMAIN k.methods THEN [type |-> "method", this |-> p.this, value |-> k.methods[p.name]]
  ELSE Unset
(* What a slot stands for, type "none" when the class has no such member.  *)
ResolveMember(k, p) ==
  LET none == [type |-> "none", this |-> p.this, value |-> 0]
      methods == IF p.this THEN k.methods ELSE klass[k.super].methods
  IN IF p.this /\ "field" \in p.allowed /\ p.name \in DOMAIN k.fields
     THEN [none EXCEPT !.type = "field", !.value = k.fields[p.name]]
     ELSE IF "method" \in p.allowed /\ p.name \in DOMAIN methods
     THEN [none EXCEPT !.type = "method", !.value = methods[p.name]]
     ELSE none

AbstractMethods(k) == {n \in DOMAIN k.methods : k.methods[n].desc}

CloseClass ==
  /\ Running /\ member = Len(MembersOf(Decl.t)) + 1 /\ ~klass[pc].interface
  /\ LET k == klass[pc]
         pending == Pending(Decl.t)
         inherited == Len(klass[k.super].refs)
         refs == [i \in DOMAIN k.refs |->
                    IF i <= inherited THEN k.refs[i] ELSE ResolveMember(k, pending[i - inherited])]
     IN IF \E i \in DOMAIN refs : refs[i].type = "none" THEN Stop("undefinedProperty")
        ELSE IF ~k.abstract /\ AbstractMethods(k) # {} THEN Stop("unimplemented")
        ELSE IF k.abstract /\ AbstractMethods(k) = {} THEN Stop("noAbstract")
        ELSE /\ klass' = [klass EXCEPT ![pc] = [k EXCEPT !.refs = refs, !.ready = TRUE]]
             /\ pc' = pc + 1
             /\ member' = -1
             /\ UNCHANGED <<code, status>>
  /\ UNCHANGED <<run, checks>>

(* An interface ends with its declaration.                                 *)
EndInterface ==
  /\ Running /\ member = Len(MembersOf(Decl.t)) + 1 /\ klass[pc].interface
  /\ klass' = [klass EXCEPT ![pc].ready = TRUE]
  /\ pc' = pc + 1
  /\ member' = -1
  /\ UNCHANGED <<run, code, status, checks>>

(* CLASS or INTF: the next declaration starts.                             *)
Declare ==
  /\ Running /\ member = -1
  /\ LET t == TemplateOf(pc)
     IN klass' = With(klass, pc, IF t.kind = "interface" THEN NewInterface
                                 ELSE NewClass(t.abstract))
  /\ member' = IF TemplateOf(pc).kind = "interface" THEN 1 ELSE 0
  /\ UNCHANGED <<run, pc, code, status, checks>>

-----------------------------------------------------------------------------
(* instanceof.                                                             *)

InstanceOf(t, s) ==
  LET T == klass[t]
      S == klass[s]
  IN \/ S.display[T.offset] = t
     \/ T.offset = DisplaySize /\ (s = t \/ t \in Range(S.rss))

(* A test that finds a supertype in the list leaves it in the cache.       *)
CheckInstance(t, s) ==
  /\ checks < MaxChecks
  /\ klass[s].ready /\ ~klass[s].interface /\ klass[t].ready
  /\ klass[t].offset = DisplaySize /\ klass[s].display[DisplaySize] # t
  /\ s # t /\ t \in Range(klass[s].rss)
  /\ klass' = [klass EXCEPT ![s].display[DisplaySize] = t]
  /\ checks' = checks + 1
  /\ UNCHANGED <<run, pc, member, code, status>>

-----------------------------------------------------------------------------
Init ==
  /\ run \in Runs
  /\ pc = 1
  /\ member = -1
  /\ klass = [k \in {0} |-> Object]
  /\ code = <<>>
  /\ status = "running"
  /\ checks = 0

Next ==
  \/ Declare
  \/ Inherit
  \/ DefineField
  \/ DefineMethod
  \/ AddAbstractMethod
  \/ CloseClass
  \/ EndInterface
  \/ \E t, s \in DOMAIN klass : CheckInstance(t, s)

Spec == Init /\ [][Next]_vars

-----------------------------------------------------------------------------
(* The language, read off the run alone.                               *)

IsClass(k) == k = 0 \/ TemplateOf(k).kind = "class"
Closed == {k \in DOMAIN klass : klass[k].ready}

(* Object and the classes from it down to k.                               *)
Line[k \in 0..Len(run)] == IF k = 0 THEN {0} ELSE {k} \cup Line[run[k].super]
DeclaredSupertypes(k) ==
  Line[k] \cup UNION {Range(run[a].impl) : a \in Line[k] \ {0}}
Declares(k, kind, n) == k # 0 /\ \E mb \in Range(MembersOf(run[k].t)) : mb.k = kind /\ mb.name = n
Fields(k) == {n \in UNION {{mb.name : mb \in Range(MembersOf(run[a].t))} : a \in Line[k] \ {0}} :
                \E a \in Line[k] : Declares(a, "field", n)}
Definers(k, n) == {a \in Line[k] : Declares(a, "method", n)}

(* The method that n names in class k: that of the nearest definer, which  *)
(* runs later than the others, and no method of its own while abstract.    *)
Names(k, n, m) ==
  IF Definers(k, n) = {} THEN m.desc
  ELSE ~m.desc /\ m.owner = Max(Definers(k, n)) /\ MembersOf(run[m.owner].t)[m.at].name = n

-----------------------------------------------------------------------------
(* Properties.                                                             *)

Outcomes == {"running", "mismatch", "undefined", "abstractOverride", "undefinedProperty",
             "unimplemented", "noAbstract"}

(* The variables have their types: every member reference of a closed      *)
(* class is resolved, and displays, lists and code name declared klasses.  *)
TypeOK ==
  /\ pc \in 1..(Len(run) + 1)
  /\ member = -1 \/ (pc <= Len(run) /\ member \in 0..(Len(MembersOf(Decl.t)) + 1))
  /\ status \in Outcomes /\ checks \in 0..MaxChecks
  /\ \A k \in DOMAIN klass :
       /\ Range(klass[k].display) \subseteq DOMAIN klass \cup {Nothing}
       /\ Range(klass[k].rss) \subseteq DOMAIN klass
       /\ klass[k].offset \in 0..DisplaySize
       /\ k \in Closed => \A i \in DOMAIN klass[k].refs : klass[k].refs[i].type \in {"field", "method"}
  /\ \A f \in DOMAIN code : code[f].parent \in DOMAIN klass /\ code[f].refOffset \in Nat

(* instanceof decides the declared supertypes of a class exactly, at every *)
(* depth, between every two declarations, and whatever earlier tests have  *)
(* left in the caches (instanceOf and inherit, vm.c).                      *)
SubtypeExact ==
  \A s, t \in Closed : IsClass(s) => (InstanceOf(t, s) <=> t \in DeclaredSupertypes(s))

(* A method that class a defines reaches, through the number its code      *)
(* holds, the member that its source names, in the class the instruction   *)
(* uses: this:n() the nearest definition seen from the class s of the      *)
(* instance, super:n() the nearest above a, and a field the slot that the  *)
(* instance keeps it in (GET_MEMBER_PROP, SET_MEMBER_PROP, MEMBER_INVOKE,  *)
(* SUPER_INVOKE; resolveMember, defineMethod).  Asked between the          *)
(* declarations: no method runs inside one.                                *)
Dispatches(s, a, at, ref) ==
  LET fn == code[<<run[a].t, at>>]
      holder == IF ref.kind = "call" THEN s ELSE fn.parent
      i == fn.refOffset + SlotOf(run[a].t, ref)
      r == klass[holder].refs[i]
      found == i \in DOMAIN klass[holder].refs
  IN IF ~ref.this THEN found /\ r.type = "method" /\ Names(run[a].super, ref.name, r.value)
     ELSE IF ref.name \in Fields(a)
     THEN found /\ r.type = "field" /\ r.value = klass[s].fields[ref.name]
     ELSE ref.kind = "call" => found /\ r.type = "method" /\ Names(s, ref.name, r.value)

(* A class that can be instantiated has, for every method that one of its  *)
(* interfaces or abstract ancestors declares, a method with the prototype  *)
(* declared (inherit, defineMethod, addAbstractMethod, closeClass).        *)
Complete(s) ==
  \A a \in DeclaredSupertypes(s) \ {0} : \A mb \in Range(MembersOf(run[a].t)) :
    mb.k = "abstract" => /\ mb.name \in DOMAIN klass[s].methods
                         /\ ~klass[s].methods[mb.name].desc
                         /\ klass[s].methods[mb.name].prototype = Declared(mb)

DispatchExact ==
  \A s \in Closed : IsClass(s) /\ member = -1 =>
    /\ ~klass[s].abstract => Complete(s)
    /\ \A n \in DOMAIN klass[s].methods : Names(s, n, klass[s].methods[n])
    /\ \A a \in Line[s] \ {0} : \A at \in DOMAIN MembersOf(run[a].t) :
         \A ref \in Range(MembersOf(run[a].t)[at].refs) : Dispatches(s, a, at, ref)

(* The fields of a class have indexes of their own below their number, so  *)
(* inside the instance, and a subclass keeps them where they were          *)
(* (defineField, inherit, newInstance).                                    *)
FieldLayout ==
  \A s \in Closed : IsClass(s) =>
    LET f == klass[s].fields
    IN /\ DOMAIN f = Fields(s)
       /\ IsInjective(f) /\ Range(f) = 0..(Cardinality(DOMAIN f) - 1)
       /\ \A a \in Line[s] : \A n \in DOMAIN klass[a].fields : f[n] = klass[a].fields[n]
=============================================================================
