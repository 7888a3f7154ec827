--------------------------- MODULE AssertionStack ---------------------------
(***************************************************************************)
(* What the solver engine promises: a stack of assertion levels, global    *)
(* definitions outside of it, and checks that answer for exactly the       *)
(* formulas in force, the assumptions of the call included.                *)
(***************************************************************************)
EXTENDS Integers, Sequences, SequencesExt

CONSTANTS Formulas, Definitions

VARIABLES stack,      \* asserted formulas, one set per level
          globals,    \* global definitions
          answer,     \* what the last check answered for
          closed      \* destroyed, or unusable after an exception

vars == <<stack, globals, answer, closed>>

NoAnswer == [given |-> FALSE, assuming |-> {}, about |-> {}]

Init ==
    /\ stack = << {} >> /\ globals = {}
    /\ answer = NoAnswer /\ closed = FALSE

AddFormula(f) ==
    /\ ~closed
    /\ stack' = Append(Front(stack), Last(stack) \cup {f})
    /\ UNCHANGED <<globals, answer, closed>>

Define(d) ==
    /\ ~closed
    /\ globals' = globals \cup {d}
    /\ UNCHANGED <<stack, answer, closed>>

Push ==
    /\ ~closed
    /\ stack' = Append(stack, {})
    /\ UNCHANGED <<globals, answer, closed>>

Pop ==
    /\ ~closed /\ Len(stack) > 1
    /\ stack' = Front(stack)
    /\ UNCHANGED <<globals, answer, closed>>

Reset ==
    /\ ~closed
    /\ stack' = << {} >>
    /\ UNCHANGED <<globals, answer, closed>>

Check(assumptions) ==
    /\ ~closed
    /\ answer' = [given |-> TRUE, assuming |-> assumptions,
                  about |-> (UNION ToSet(stack)) \cup globals \cup assumptions]
    /\ UNCHANGED <<stack, globals, closed>>

\* A check that gives up before solving answers for nothing.
GiveUp ==
    /\ ~closed
    /\ answer' = NoAnswer
    /\ UNCHANGED <<stack, globals, closed>>

Close ==
    /\ closed' = TRUE
    /\ stack' = << {} >> /\ globals' = {} /\ answer' = NoAnswer

Next ==
    \/ \E f \in Formulas : AddFormula(f)
    \/ \E d \in Definitions : Define(d)
    \/ Push \/ Pop \/ Reset
    \/ \E assumptions \in SUBSET Formulas : Check(assumptions)
    \/ GiveUp \/ Close

Spec == Init /\ [][Next]_vars
=============================================================================
