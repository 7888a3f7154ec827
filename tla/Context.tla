------------------------------ MODULE Context ------------------------------
(***************************************************************************)
(* The backtrackable context of src/context: a stack of scopes and objects *)
(* (CDO<T>) that are copied lazily, on the first write after a push.       *)
(*                                                                         *)
(* An object is a chain of versions.  The newest one is the object itself  *)
(* (scope[o], data[o]); the older ones are the copies that update() left   *)
(* behind, reached through d_pContextObjRestore (saved[o], newest last).   *)
(* Every version is linked into the list of the scope it belongs to; a     *)
(* version of o in scope l is the member o of scopeList[l + 1], because a  *)
(* scope holds at most one version of an object (ChainsExact).             *)
(* Copies live in the region of the context memory manager that is on top  *)
(* when they are made, and the region goes away when its level is popped.  *)
(*                                                                         *)
(* CanPopBottom, HomeTopScope, IsCurrentOnce, RegionLeft, UpdateUnlinked:  *)
(* plausible mistakes in the definition that follows each of them, used to *)
(* see that the properties notice them; no action uses them.               *)
(***************************************************************************)
EXTENDS Integers, Sequences, SequencesExt

CONSTANTS Obj, Val, Default, Absent,
          MaxLevel      \* bound: Push is disabled at this level

ASSUME ValAssumption == Default \in Val /\ Absent \notin Val
ASSUME LevelAssumption == MaxLevel \in Nat \ {0}

VARIABLES scopeList,  \* Seq(SUBSET Obj): d_pContextObjList of each Scope
          alive,      \* the objects constructed and not yet destroyed
          scope,      \* d_pScope of each object, by level; NullScope = nullptr
          data,       \* d_data of each object
          saved       \* the restore chain of each object, newest copy last

vars == <<scopeList, alive, scope, data, saved>>

NullScope == -1

Level == Len(scopeList) - 1

Copy == [scope : Nat, data : Val, region : Nat]

TypeOK == /\ scopeList \in Seq(SUBSET Obj)
          /\ scopeList # << >>
          /\ alive \subseteq Obj
          /\ scope \in [Obj -> Nat \cup {NullScope}]
          /\ data \in [Obj -> Val]
          /\ saved \in [Obj -> Seq(Copy)]

-----------------------------------------------------------------------------
\* Context::Context: one scope, the bottom one, and no object.
Init == /\ scopeList = << {} >>
        /\ alive = {}
        /\ scope = [o \in Obj |-> NullScope]
        /\ data = [o \in Obj |-> Default]
        /\ saved = [o \in Obj |-> << >>]

Push == /\ Level < MaxLevel
        /\ scopeList' = Append(scopeList, {})
        /\ UNCHANGED <<alive, scope, data, saved>>

(***************************************************************************)
(* ContextObj::restoreAndContinue for one object of the popped scope.      *)
(***************************************************************************)
RestoredScope(o) ==
    IF saved[o] = << >> THEN NullScope ELSE Last(saved[o]).scope

RestoredData(o) ==
    IF saved[o] = << >> THEN data[o] ELSE Last(saved[o]).data

RestoredSaved(o) == IF saved[o] = << >> THEN << >> ELSE Front(saved[o])

\* Context::pop with ~Scope: only the members of the top list are visited.
CanPopBottom == Level >= 0

CanPop == Level > 0

Pop == /\ CanPop
       /\ LET top == Last(scopeList) IN
            /\ scope' = [o \in Obj |-> IF o \in top THEN RestoredScope(o)
                                                    ELSE scope[o]]
            /\ data' = [o \in Obj |-> IF o \in top THEN RestoredData(o)
                                                   ELSE data[o]]
            /\ saved' = [o \in Obj |-> IF o \in top THEN RestoredSaved(o)
                                                    ELSE saved[o]]
       /\ scopeList' = Front(scopeList)
       /\ UNCHANGED alive

(***************************************************************************)
(* CDO(context, data): link the object, with a default value, into the     *)
(* bottom scope; then makeCurrent() and assign.                            *)
(***************************************************************************)
HomeTopScope == Level

HomeScope == 0

Create(o, v) ==
    /\ o \notin alive
    /\ alive' = alive \cup {o}
    /\ data' = [data EXCEPT ![o] = v]
    /\ IF HomeScope = Level
         THEN /\ scope' = [scope EXCEPT ![o] = HomeScope]
              /\ saved' = [saved EXCEPT ![o] = << >>]
              /\ scopeList' = [scopeList EXCEPT ![HomeScope + 1] = @ \cup {o}]
         ELSE /\ scope' = [scope EXCEPT ![o] = Level]
              /\ saved' = [saved EXCEPT ![o] =
                    << [scope |-> HomeScope, data |-> Default,
                        region |-> Level] >>]
              /\ scopeList' = [scopeList EXCEPT ![HomeScope + 1] = @ \cup {o},
                                                ![Level + 1] = @ \cup {o}]

(***************************************************************************)
(* CDO::set.  makeCurrent() calls update() unless the object is already in *)
(* the top scope: the old version stays in its list, a copy in the top     *)
(* region, and the object moves to the top list.                           *)
(***************************************************************************)
IsCurrentOnce(o) == scope[o] > 0

IsCurrent(o) == scope[o] = Level

RegionLeft(o) == scope[o]

RegionOf(o) == Level

UpdateUnlinked(o) ==
    /\ saved' = [saved EXCEPT ![o] =
          Append(@, [scope |-> scope[o], data |-> data[o],
                     region |-> RegionOf(o)])]
    /\ scope' = [scope EXCEPT ![o] = Level]
    /\ UNCHANGED scopeList

Update(o) ==
    /\ saved' = [saved EXCEPT ![o] =
          Append(@, [scope |-> scope[o], data |-> data[o],
                     region |-> RegionOf(o)])]
    /\ scope' = [scope EXCEPT ![o] = Level]
    /\ scopeList' = [scopeList EXCEPT ![Level + 1] = @ \cup {o}]

MakeCurrent(o) == IF IsCurrent(o)
                    THEN UNCHANGED <<scopeList, scope, saved>>
                    ELSE Update(o)

Set(o, v) == /\ o \in alive
             /\ MakeCurrent(o)
             /\ data' = [data EXCEPT ![o] = v]
             /\ UNCHANGED alive

(***************************************************************************)
(* ~CDO and ContextObj::destroy: unlink the object and every older version *)
(* from the list of its scope.  The loop leaves the oldest version's state *)
(* in the dead object.                                                     *)
(***************************************************************************)
VersionScopes(o) == {scope[o]} \cup {saved[o][k].scope : k \in DOMAIN saved[o]}

Destroy(o) ==
    /\ o \in alive
    /\ alive' = alive \ {o}
    /\ scopeList' = [i \in DOMAIN scopeList |->
          IF i - 1 \in VersionScopes(o) THEN scopeList[i] \ {o}
                                        ELSE scopeList[i]]
    /\ scope' = [scope EXCEPT ![o] = NullScope]
    /\ data' = [data EXCEPT ![o] = Default]
    /\ saved' = [saved EXCEPT ![o] = << >>]

Next == \/ Push
        \/ Pop
        \/ \E o \in Obj : Destroy(o)
        \/ \E o \in Obj, v \in Val : Create(o, v)
        \/ \E o \in Obj, v \in Val : Set(o, v)

Spec == Init /\ [][Next]_vars

-----------------------------------------------------------------------------
(***************************************************************************)
(* Every scope list links exactly the objects that have a version in that  *)
(* scope: pop misses no version (which would leave a stale value behind)   *)
(* and visits no object twice or one that is not in its scope.             *)
(***************************************************************************)
ChainsExact ==
    \A o \in Obj, i \in 1..Len(scopeList) :
        o \in scopeList[i] <=> o \in alive /\ i - 1 \in VersionScopes(o)

(***************************************************************************)
(* A live object always belongs to an open scope, and its copies to        *)
(* strictly older ones: this is the assertion of destroy() that d_pScope   *)
(* is not null, and what makes the null branch of restoreAndContinue()     *)
(* dead code above the bottom scope.                                       *)
(***************************************************************************)
VersionsOrdered ==
    \A o \in alive :
        /\ scope[o] \in 0..Level
        /\ \A k \in DOMAIN saved[o] : saved[o][k].scope < scope[o]
        /\ \A j, k \in DOMAIN saved[o] :
              j < k => saved[o][j].scope < saved[o][k].scope
        /\ (saved[o] = << >> => scope[o] = 0)
        /\ (saved[o] # << >> => saved[o][1].scope = 0)

(***************************************************************************)
(* No dangling copy: whatever d_pContextObjRestore reaches was allocated   *)
(* in a region of the memory manager that is still open, because a copy    *)
(* lives in the region of the version that replaced it.                    *)
(***************************************************************************)
CopiesLive ==
    \A o \in alive : \A k \in DOMAIN saved[o] :
        saved[o][k].region =
            IF k = Len(saved[o]) THEN scope[o] ELSE saved[o][k + 1].scope

-----------------------------------------------------------------------------
(***************************************************************************)
(* The refinement.  What level l will show when it is on top again is the  *)
(* newest version of the object that belongs to l or below.                *)
(***************************************************************************)
CopiesOf(sv) == [k \in 1..Len(sv) |-> [scope |-> sv[k].scope,
                                       data |-> sv[k].data]]

VersionsOf(sv, sc, d) == Append(CopiesOf(sv), [scope |-> sc, data |-> d])

NewestUpTo(vs, l) ==
    {d \in Val : \E k \in DOMAIN vs :
        /\ d = vs[k].data
        /\ vs[k].scope <= l
        /\ k + 1 \in DOMAIN vs => l < vs[k + 1].scope}

ShownBy(vs, l) == CHOOSE d \in NewestUpTo(vs, l) : TRUE

Shown(o, l) == ShownBy(VersionsOf(saved[o], scope[o], data[o]), l)

absCur == [o \in Obj |-> IF o \in alive THEN data[o] ELSE Absent]

absStack == [i \in 1..Level |->
                [o \in Obj |-> IF o \in alive THEN Shown(o, i - 1) ELSE Absent]]

CS == INSTANCE ContextStack WITH cur <- absCur, stack <- absStack

\* The lazy context implements the eager one: pop restores every object.
RestoresEverything == CS!Spec
=============================================================================
