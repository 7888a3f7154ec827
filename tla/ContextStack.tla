---------------------------- MODULE ContextStack ----------------------------
(***************************************************************************)
(* What a backtrackable context promises its users: Push remembers the     *)
(* value of every context-dependent object, Pop brings all of them back,   *)
(* whatever was assigned, created or destroyed in between.                 *)
(*                                                                         *)
(* This is the abstract specification; module Context is the lazy,         *)
(* copy-on-first-write implementation of src/context that is shown to      *)
(* implement it.  An object created while scopes are open exists, with     *)
(* its default value, in every enclosing scope (that is the documented     *)
(* contract of CDO's two-argument constructor); a destroyed object is      *)
(* gone from all of them.                                                  *)
(***************************************************************************)
EXTENDS Naturals, Sequences

CONSTANTS Obj,      \* identities of context-dependent objects
          Val,      \* the values they may hold
          Default,  \* the value of a default-constructed T
          Absent    \* stands for "no such object"

VARIABLES cur,      \* the value of each object now
          stack     \* what each enclosing scope will restore, outermost first

absVars == <<cur, stack>>

Init == /\ cur = [o \in Obj |-> Absent]
        /\ stack = << >>

Push == /\ stack' = Append(stack, cur)
        /\ UNCHANGED cur

Pop == /\ stack # << >>
       /\ cur' = stack[Len(stack)]
       /\ stack' = SubSeq(stack, 1, Len(stack) - 1)

Create(o, v) ==
    /\ cur[o] = Absent
    /\ cur' = [cur EXCEPT ![o] = v]
    /\ stack' = [i \in 1..Len(stack) |-> [stack[i] EXCEPT ![o] = Default]]

Set(o, v) == /\ cur[o] # Absent
             /\ cur' = [cur EXCEPT ![o] = v]
             /\ UNCHANGED stack

Destroy(o) ==
    /\ cur[o] # Absent
    /\ cur' = [cur EXCEPT ![o] = Absent]
    /\ stack' = [i \in 1..Len(stack) |-> [stack[i] EXCEPT ![o] = Absent]]

Next == \/ Push
        \/ Pop
        \/ \E o \in Obj : Destroy(o) \/ \E v \in Val : Create(o, v) \/ Set(o, v)

Spec == Init /\ [][Next]_absVars
=============================================================================
