------------------------------ MODULE MapStack ------------------------------
(***************************************************************************)
(* What a backtrackable map promises: entries in the order of their        *)
(* insertion, and a pop of the context brings back the map of the matching *)
(* push.  clear() is not undone.                                           *)
(***************************************************************************)
EXTENDS Naturals, Sequences

CONSTANTS Keys, Data

VARIABLES entries,  \* the map: a sequence of keys with their data
          stack     \* the map that each open scope restores

vars == <<entries, stack>>

Init ==
    /\ entries = << >>
    /\ stack \in Seq({<< >>})

Insert(k, d) ==
    /\ LET at == {i \in DOMAIN entries : entries[i].key = k}
       IN entries' = IF at = {} THEN Append(entries, [key |-> k, data |-> d])
                     ELSE [i \in DOMAIN entries |->
                             IF i \in at THEN [key |-> k, data |-> d] ELSE entries[i]]
    /\ UNCHANGED stack

Clear ==
    /\ entries' = << >>
    /\ stack' = [i \in DOMAIN stack |-> << >>]

PushScope ==
    /\ stack' = Append(stack, entries)
    /\ UNCHANGED entries

PopScope ==
    /\ stack # << >>
    /\ entries' = stack[Len(stack)]
    /\ stack' = SubSeq(stack, 1, Len(stack) - 1)

Next ==
    \/ \E k \in Keys, d \in Data : Insert(k, d)
    \/ Clear \/ PushScope \/ PopScope

Spec == Init /\ [][Next]_vars
=============================================================================
