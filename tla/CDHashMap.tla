----------------------------- MODULE CDHashMap ------------------------------
(***************************************************************************)
(* CDHashMap (src/context): a hash map whose elements are context objects  *)
(* of their own.  The map itself saves nothing.  An element that is made   *)
(* in a scope first saves a version of itself that is in no map, so that   *)
(* the restore of that version, when its scope is popped, can tell that    *)
(* the element has to leave the map and the list of elements.              *)
(***************************************************************************)
EXTENDS Integers, Sequences, SequencesExt, Filter

CONSTANTS Keys, Data,
          MaxLevel    \* bound on open scopes

ASSUME LevelAssumption == MaxLevel \in Nat

VARIABLES
    level,    \* of the context
    table,    \* d_map: the element of each key that is present
    order     \* the doubly-linked list from d_first on, as keys

vars == <<level, table, order>>

Version == [scope : 0..MaxLevel, data : Data, inMap : BOOLEAN]

\* An element: its current version and the saved ones, oldest first.
TypeOK ==
    /\ level \in 0..MaxLevel
    /\ DOMAIN table \subseteq Keys
    /\ \A k \in DOMAIN table :
        /\ table[k].now \in Version /\ table[k].now.scope <= level
        /\ table[k].saved \in Seq(Version)
    /\ order \in Seq(Keys)

\* The map is constructed at any level.
Init == level \in 0..MaxLevel /\ table = << >> /\ order = << >>

-----------------------------------------------------------------------------
\* ContextObj::makeCurrent and CDOhash_map::save.
MakeCurrent(e) ==
    IF e.now.scope = level THEN e
    ELSE [now |-> [e.now EXCEPT !.scope = level],
          saved |-> Append(e.saved, e.now)]

SetData(e, d) == [MakeCurrent(e) EXCEPT !.now.data = d]

\* The constructor of CDOhash_map: an element of the bottom scope and of no
\* map; set(data) saves that; then it enters the map.  Mutant: d_map is set in
\* the initializer list.
NewElementInMap(d) ==
    SetData([now |-> [scope |-> 0, data |-> d, inMap |-> TRUE], saved |-> << >>], d)
NewElement(d) ==
    [SetData([now |-> [scope |-> 0, data |-> d, inMap |-> FALSE],
              saved |-> << >>], d)
       EXCEPT !.now.inMap = TRUE]

\* CDHashMap::insert; also operator[] and the assignment to what it returns.
InsertNew(k, d) ==
    /\ k \notin DOMAIN table
    /\ table' = [i \in DOMAIN table \cup {k} |->
                    IF i = k THEN NewElement(d) ELSE table[i]]
    /\ order' = Append(order, k)
    /\ UNCHANGED level

InsertAgain(k, d) ==
    /\ k \in DOMAIN table
    /\ table' = [table EXCEPT ![k] = SetData(@, d)]
    /\ UNCHANGED <<level, order>>

\* CDHashMap::clear: each element is destroyed with all its versions.
Clear ==
    /\ table' = << >> /\ order' = << >>
    /\ UNCHANGED level

PushScope ==
    /\ level < MaxLevel
    /\ level' = level + 1
    /\ UNCHANGED <<table, order>>

\* CDOhash_map::restore.
Restore(e) == [now |-> Last(e.saved), saved |-> Front(e.saved)]

\* Context::pop restores the elements that are current in the top scope; those
\* that were made in it leave the map and are deleted.
PopScope ==
    /\ level > 0
    /\ level' = level - 1
    /\ LET top == {k \in DOMAIN table : table[k].now.scope = level}
           gone == {k \in top : ~Last(table[k].saved).inMap}
       IN /\ table' = [k \in DOMAIN table \ gone |->
                         IF k \in top THEN Restore(table[k]) ELSE table[k]]
          /\ order' = Only(order, Keys \ gone)

Next ==
    \/ \E k \in Keys, d \in Data : InsertNew(k, d) \/ InsertAgain(k, d)
    \/ Clear \/ PushScope \/ PopScope

Spec == Init /\ [][Next]_vars

-----------------------------------------------------------------------------
\* The version of an element that is in effect at level l.
VersionAt(e, l) ==
    LET all == Append(e.saved, e.now)
    IN all[CHOOSE i \in DOMAIN all :
             /\ all[i].scope <= l
             /\ \A j \in DOMAIN all : j > i => all[j].scope > l]

EntriesAt(l) ==
    LET keys == Only(order, {k \in DOMAIN table : VersionAt(table[k], l).inMap})
    IN [i \in DOMAIN keys |->
          [key |-> keys[i], data |-> VersionAt(table[keys[i]], l).data]]

\* A pop of the context restores keys, data and the order of iteration as they
\* were at the push: the map implements MapStack.
Abstract == INSTANCE MapStack WITH
              entries <- EntriesAt(level),
              stack <- [l \in 1..level |-> EntriesAt(l - 1)]

RestoresMap == Abstract!Spec
=============================================================================
