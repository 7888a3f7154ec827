------------------------------ MODULE CDQueue -------------------------------
(***************************************************************************)
(* CDQueue over CDList (src/context): a queue in a backtrackable context.  *)
(* A version of it saves only three indices; all versions share one array. *)
(* When the queue runs empty, the elements that were enqueued since the    *)
(* last save are destroyed at once and their places are used again, so a   *)
(* wrong index would hand a saved version somebody else's elements.        *)
(*                                                                         *)
(* Versions are made lazily, as in module Context: makeCurrent saves one   *)
(* the first time that the queue is changed in a scope.                    *)
(***************************************************************************)
EXTENDS Integers, Sequences

CONSTANTS Elements,
          MaxLevel,   \* bound on open scopes
          MaxSize     \* bound on the array

ASSUME BoundsAssumption == MaxLevel \in Nat /\ MaxSize \in Nat

VARIABLES
    level,     \* of the context
    scope,     \* level of the scope that the queue is current in
    list,      \* d_list; d_size is its length
    iter,      \* d_iter
    lastsave,  \* d_lastsave
    saved      \* saved versions, oldest first

vars == <<level, scope, list, iter, lastsave, saved>>

Version == [scope : Nat, size : Nat, iter : Nat, lastsave : Nat]

TypeOK ==
    /\ level \in Nat /\ scope \in 0..level
    /\ list \in Seq(Elements)
    /\ iter \in 0..Len(list) /\ lastsave \in 0..Len(list)
    /\ saved \in Seq(Version)

\* Constructed at any level, in the bottom scope.
Init ==
    /\ level \in 0..MaxLevel
    /\ scope = 0 /\ list = << >> /\ iter = 0 /\ lastsave = 0 /\ saved = << >>

-----------------------------------------------------------------------------
(***************************************************************************)
(* ContextObj::makeCurrent and CDQueue::save, then the rest of the         *)
(* operation, which sees the d_lastsave that the save leaves.              *)
(***************************************************************************)
\* Mutant: d_lastsave keeps the value it had before the save.
LastSaveKept == lastsave
LastSave == IF scope = level THEN lastsave ELSE Len(list)

MakeCurrent ==
    /\ scope' = level
    /\ lastsave' = LastSave
    /\ saved' = IF scope = level THEN saved
                ELSE Append(saved, [scope |-> scope, size |-> Len(list),
                                    iter |-> iter, lastsave |-> lastsave])

Enqueue(e) ==
    /\ Len(list) < MaxSize
    /\ MakeCurrent
    /\ list' = Append(list, e)
    /\ UNCHANGED <<level, iter>>

\* The queue has run empty and has elements that no saved version needs.
Dispose ==
    /\ list' = SubSeq(list, 1, LastSave)
    /\ iter' = LastSave

\* Mutant: makeCurrent is left to CDList, which only calls it to append.
DequeueUnsaved ==
    /\ iter < Len(list)
    /\ iter' = iter + 1
    /\ UNCHANGED <<level, scope, list, lastsave, saved>>
Dequeue ==
    /\ iter < Len(list)
    /\ MakeCurrent
    /\ IF iter + 1 = Len(list) /\ LastSave # Len(list)
       THEN Dispose
       ELSE iter' = iter + 1 /\ UNCHANGED list
    /\ UNCHANGED level

PushScope ==
    /\ level < MaxLevel
    /\ level' = level + 1
    /\ UNCHANGED <<scope, list, iter, lastsave, saved>>

\* Context::pop: CDQueue::restore and CDList::restore, if there is a version.
PopScope ==
    /\ level > 0
    /\ level' = level - 1
    /\ IF scope = level
       THEN LET v == saved[Len(saved)]
            IN /\ scope' = v.scope /\ iter' = v.iter /\ lastsave' = v.lastsave
               /\ list' = SubSeq(list, 1, v.size)
               /\ saved' = SubSeq(saved, 1, Len(saved) - 1)
       ELSE UNCHANGED <<scope, list, iter, lastsave, saved>>

Next == (\E e \in Elements : Enqueue(e)) \/ Dequeue \/ PushScope \/ PopScope

Spec == Init /\ [][Next]_vars

-----------------------------------------------------------------------------
\* The versions, oldest first, the current one last.
Current == [scope |-> scope, size |-> Len(list), iter |-> iter, lastsave |-> lastsave]
Versions == Append(saved, Current)

\* The saved versions are of older scopes and shorter arrays, each later one
\* keeps the elements of the one before: that is all a truncation relies on.
VersionsNested ==
    /\ Versions[1].scope = 0 /\ Versions[1].lastsave = 0
    /\ \A i \in 1..Len(saved) :
        /\ Versions[i].scope < Versions[i + 1].scope
        /\ Versions[i].iter <= Versions[i].size
        /\ Versions[i].size <= Versions[i + 1].size
        /\ Versions[i + 1].lastsave = Versions[i].size

\* The elements of a version, and the version that a pop to level k uncovers.
Contents(v) == SubSeq(list, v.iter + 1, v.size)
VersionAt(k) ==
    CHOOSE i \in 1..Len(Versions) :
        /\ Versions[i].scope <= k
        /\ \A j \in (i + 1)..Len(Versions) : Versions[j].scope > k

\* Every pop of the context restores the queue as it was at the push, and in
\* between it is first in, first out: the queue implements QueueStack.
Abstract == INSTANCE QueueStack WITH
              queue <- Contents(Current),
              stack <- [k \in 1..level |-> Contents(Versions[VersionAt(k - 1)])]

RestoresQueue == Abstract!Spec
=============================================================================
