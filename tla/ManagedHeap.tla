---------------------------- MODULE ManagedHeap ----------------------------
(***************************************************************************)
(* What the memory manager of the VM promises to the rest of the           *)
(* interpreter: objects appear when they are allocated, the mutator links  *)
(* them to one another and to the roots, and a collection removes exactly  *)
(* the objects that no root reaches, in one step.  Gc.tla, the mark-sweep  *)
(* collector of memory.c, implements this specification.                   *)
(***************************************************************************)
EXTENDS Naturals

CONSTANTS MainObj,  \* addresses an object of the collected heap can have
          PermObj,  \* objects of the permanent heap, never collected
          StorablePerm, \* permanent instances a script-visible step stores into
          None      \* no object

VARIABLES heap,   \* the live objects of the collected heap
          refs,   \* refs[o]: the objects that o's fields refer to
          roots,  \* the objects held by stacks, globals, temporaries and handles
          fresh   \* the object the allocator just returned, in a C local

vars == <<heap, refs, roots, fresh>>

Obj == MainObj \cup PermObj

Live == heap \cup PermObj

(* The collector follows the fields of an object of the collected heap; it *)
(* never looks into a permanent object.                                    *)
Traced(r, o) == IF o \in MainObj THEN r[o] ELSE {}

ClosedUnder(S, r) == \A o \in S : Traced(r, o) \subseteq S

(* The least set that holds R and is closed under the traced references.   *)
Reach(R, r) ==
  {o \in Obj : \A S \in SUBSET Obj :
                  (R \subseteq S /\ ClosedUnder(S, r)) => o \in S}

Init ==
  /\ heap = {}
  /\ refs = [o \in Obj |-> {}]
  /\ roots = {}
  /\ fresh = None

Allocate ==
  \E o \in MainObj \ heap :
    /\ heap' = heap \cup {o}
    /\ fresh' = o
    /\ UNCHANGED <<refs, roots>>

(* The running code gives up the object it has not rooted.                 *)
Abandon ==
  /\ fresh' = None
  /\ UNCHANGED <<heap, refs, roots>>

Push ==
  /\ \/ \E o \in PermObj : roots' = roots \cup {o} /\ UNCHANGED fresh
     \/ fresh # None /\ roots' = roots \cup {fresh} /\ fresh' = None
  /\ UNCHANGED <<heap, refs>>

Load ==
  /\ \E p \in roots : \E o \in refs[p] \cap Live : roots' = roots \cup {o}
  /\ UNCHANGED <<heap, refs, fresh>>

Pop ==
  /\ \E o \in roots : roots' = roots \ {o}
  /\ UNCHANGED <<heap, refs, fresh>>

Store ==
  /\ \E p \in roots \cap (MainObj \cup StorablePerm) :
        \E o \in roots \cup ({fresh} \ {None}) :
           refs' = [refs EXCEPT ![p] = @ \cup {o}]
  /\ UNCHANGED <<heap, roots, fresh>>

Erase ==
  /\ \E p \in roots : \E o \in refs[p] : refs' = [refs EXCEPT ![p] = @ \ {o}]
  /\ UNCHANGED <<heap, roots, fresh>>

(* A whole collection: what the roots do not reach is gone.                *)
Collect ==
  /\ fresh = None
  /\ heap' = heap \cap Reach(roots, refs)
  /\ refs' = [o \in Obj |-> IF o \in heap' \cup PermObj THEN refs[o] ELSE {}]
  /\ UNCHANGED <<roots, fresh>>

Next == Allocate \/ Abandon \/ Push \/ Load \/ Pop \/ Store \/ Erase \/ Collect

Spec == Init /\ [][Next]_vars
=============================================================================
