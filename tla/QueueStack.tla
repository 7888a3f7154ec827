----------------------------- MODULE QueueStack -----------------------------
(***************************************************************************)
(* What a backtrackable queue promises: first in, first out; and a pop of  *)
(* the context brings back the queue of the matching push.                 *)
(***************************************************************************)
EXTENDS Naturals, Sequences

CONSTANT Elements

VARIABLES queue,    \* the elements now, the next one first
          stack     \* the queue that each open scope restores

vars == <<queue, stack>>

\* A queue may be created while scopes are open: it is empty in all of them.
Init ==
    /\ queue = << >>
    /\ stack \in Seq({<< >>})

Enqueue(e) ==
    /\ queue' = Append(queue, e)
    /\ UNCHANGED stack

Dequeue ==
    /\ queue # << >>
    /\ queue' = Tail(queue)
    /\ UNCHANGED stack

PushScope ==
    /\ stack' = Append(stack, queue)
    /\ UNCHANGED queue

PopScope ==
    /\ stack # << >>
    /\ queue' = stack[Len(stack)]
    /\ stack' = SubSeq(stack, 1, Len(stack) - 1)

Next == (\E e \in Elements : Enqueue(e)) \/ Dequeue \/ PushScope \/ PopScope

Spec == Init /\ [][Next]_vars
=============================================================================
