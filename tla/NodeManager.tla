---------------------------- MODULE NodeManager -----------------------------
(***************************************************************************)
(* The node pool (src/expr): hash-consed, reference-counted NodeValues.    *)
(* A NodeValue whose count drops to zero becomes a zombie; zombies are     *)
(* freed in batches, inside whatever dec() made their number exceed a      *)
(* threshold, and one found in the pool before that is revived.  Counts    *)
(* are sticky at their maximum, and the maxed-out nodes are only freed     *)
(* when the manager is destroyed, in an order found by a search.           *)
(*                                                                         *)
(* A batch runs in the middle of the operation that caused it.  So an      *)
(* operation is split where it calls dec(): decs holds the calls that it   *)
(* still has to make, after what it does then; a batch runs in between.    *)
(* Nodes are identified by d_id, which is never reused.                    *)
(***************************************************************************)
EXTENDS Integers, Sequences, FiniteSets, SequencesExt

CONSTANTS Variables, Operators,  \* kinds, by metakind; the constants are
                                 \* part of the instance
          Instances,       \* what to explore: kinds and bounds, see below
          MaxRC,           \* NodeValue::MAX_RC
          MaxZombies,      \* zombies that are tolerated (5000)
          MaxNodes,        \* bound on the nodes ever made
          MaxHandles       \* bound on the Node objects

(***************************************************************************)
(* An instance: the kinds of constants, and bounds on the children of a    *)
(* node and on the entries of the attribute table.                         *)
(***************************************************************************)
ASSUME ConstantsAssumption ==
    /\ MaxRC \in Nat \ {0} /\ MaxZombies \in Nat
    /\ MaxNodes \in Nat /\ MaxHandles \in Nat
    /\ \A i \in Instances : i.arity \in Nat /\ i.attrs \in Nat

VARIABLES
    instance,   \* the instance that is explored
    heap,       \* allocated NodeValues: kind, children, d_rc
    nextId,     \* d_nextId
    pool,       \* d_nodeValuePool
    zombies,    \* d_zombies
    maxedOut,   \* d_maxedOut
    handles,    \* number of Node objects for each node
    builder,    \* a NodeBuilder: in use, kind, children
    attrs,      \* a table of Node-valued attributes
    reclaiming, \* d_inReclaimZombies
    batch,      \* nodes that reclaimZombies has not looked at yet
    decs,       \* dec() calls to be made by the operation in progress
    after,      \* what it does then
    phase,      \* progress of ~NodeManager
    sort        \* state of TopologicalSort: roots, stack, visited, order

mem == <<heap, nextId, pool, zombies, maxedOut>>
refs == <<handles, builder, attrs>>
gc == <<reclaiming, batch>>
op == <<decs, after>>
vars == <<instance, mem, refs, gc, op, phase, sort>>

Ids == 1..MaxNodes
Null == 0
Constants == instance.constants
MaxArity == instance.arity
MaxAttrs == instance.attrs
Kinds == Variables \cup Constants \cup Operators
Value == [kind : Kinds, kids : Seq(Ids), rc : 0..MaxRC]

Nothing == [kind |-> "nothing", node |-> Null, key |-> Null]
Wrap(n) == [kind |-> "wrap", node |-> n, key |-> Null]
Store(key, n) == [kind |-> "store", node |-> n, key |-> key]

Closed == [open |-> FALSE, kind |-> Null, kids |-> << >>]
NoSort == [roots |-> << >>, rootSet |-> {}, stack |-> << >>, visited |-> {},
           order |-> << >>]

\* The types of the state; in particular no count is ever negative.
TypeOK ==
    /\ DOMAIN heap \subseteq Ids /\ \A n \in DOMAIN heap : heap[n] \in Value
    /\ nextId \in 1..(MaxNodes + 1)
    /\ pool \subseteq Ids /\ zombies \subseteq Ids /\ maxedOut \in Seq(Ids)
    /\ handles \in [Ids -> 0..MaxHandles]
    /\ builder.open \in BOOLEAN /\ builder.kids \in Seq(Ids)
    /\ DOMAIN attrs \subseteq Ids /\ \A n \in DOMAIN attrs : attrs[n] \in Ids
    /\ reclaiming \in BOOLEAN /\ batch \subseteq Ids
    /\ decs \in Seq(Ids) /\ after.kind \in {"nothing", "wrap", "store"}
    /\ phase \in {"live", "dropping", "sorting", "draining", "gone"}

Init ==
    /\ instance \in Instances
    /\ heap = << >> /\ nextId = 1 /\ pool = {} /\ zombies = {} /\ maxedOut = << >>
    /\ handles = [n \in Ids |-> 0] /\ builder = Closed /\ attrs = << >>
    /\ reclaiming = FALSE /\ batch = {} /\ decs = << >> /\ after = Nothing
    /\ phase = "live" /\ sort = NoSort

-----------------------------------------------------------------------------
(***************************************************************************)
(* Counting.                                                               *)
(***************************************************************************)
Count(seq, n) == Cardinality({i \in DOMAIN seq : seq[i] = n})

\* NodeValue::inc on the heap, and the nodes it adds to d_maxedOut.
Inc(h, n) == [h EXCEPT ![n].rc = IF @ < MaxRC THEN @ + 1 ELSE @]
\* Mutant: a node is recorded by the first inc() after it is maxed out.
MaxedByLate(h, n) == IF h[n].rc = MaxRC THEN <<n>> ELSE << >>
MaxedBy(h, n) == IF h[n].rc = MaxRC - 1 THEN <<n>> ELSE << >>

\* NodeValue::dec for each element of a sequence, and the zombies it makes.
DecAll(h, seq) ==
    [n \in DOMAIN h |->
        [h[n] EXCEPT !.rc = IF @ < MaxRC THEN @ - Count(seq, n) ELSE @]]
ZombiesOf(h, seq) ==
    {n \in DOMAIN h \cap ToSet(seq) : DecAll(h, seq)[n].rc = 0}

\* reclaimZombies copies the zombies away, except the revived ones.  Mutant:
\* the revived ones too; the loop skips them while their count is positive.
BatchAll(h, z) == z
Batch(h, z) == {n \in z : h[n].rc = 0}

StartReclaim(h, z) ==
    /\ reclaiming' = TRUE
    /\ batch' = Batch(h, z)
    /\ zombies' = {}

\* NodeManager::markForDeletion of the nodes in new, outside of a batch.
MarkForDeletion(h, new) ==
    IF new # {} /\ Cardinality(zombies \cup new) > MaxZombies
    THEN StartReclaim(h, zombies \cup new)
    ELSE zombies' = zombies \cup new /\ UNCHANGED gc

-----------------------------------------------------------------------------
(***************************************************************************)
(* The operation in progress and the batch.                                *)
(***************************************************************************)
\* The Node objects, numbered for each node; one more is within the bound.
Objects == {p \in Ids \X (1..MaxHandles) : p[2] <= handles[p[1]]}
Room == Cardinality(Objects) < MaxHandles

Idle == ~reclaiming /\ decs = << >> /\ after = Nothing
Ready == phase = "live" /\ Idle

DecNext ==
    /\ ~reclaiming /\ decs # << >>
    /\ heap' = DecAll(heap, <<Head(decs)>>)
    /\ MarkForDeletion(heap', ZombiesOf(heap, <<Head(decs)>>))
    /\ decs' = Tail(decs)
    /\ UNCHANGED <<nextId, pool, maxedOut, refs, after, phase, sort>>

\* The constructor or the assignment of a Node, after the dec() calls.
WrapResult ==
    /\ ~reclaiming /\ decs = << >> /\ after.kind = "wrap"
    /\ heap' = Inc(heap, after.node)
    /\ maxedOut' = maxedOut \o MaxedBy(heap, after.node)
    /\ handles' = [handles EXCEPT ![after.node] = @ + 1]
    /\ after' = Nothing
    /\ UNCHANGED <<nextId, pool, zombies, builder, attrs, gc, decs, phase, sort>>

\* Assign the attribute from the temporary copy, then destroy the copy.
\* Mutant: the table takes the value over without counting its reference.
StoredUncounted(h, n) == DecAll(h, <<n>>)
Stored(h, n) == DecAll(Inc(h, n), <<n>>)
StoreAttribute ==
    /\ ~reclaiming /\ decs = << >> /\ after.kind = "store"
    /\ heap' = Stored(heap, after.node)
    /\ maxedOut' = maxedOut \o MaxedBy(heap, after.node)
    /\ attrs' = [n \in DOMAIN attrs \cup {after.key} |->
                    IF n = after.key THEN after.node ELSE attrs[n]]
    /\ after' = Nothing
    /\ UNCHANGED <<nextId, pool, zombies, handles, builder, gc, decs, phase, sort>>

AttributesOf(n) == IF n \in DOMAIN attrs THEN <<attrs[n]>> ELSE << >>

\* One round of the loop of reclaimZombies, in any order of the hash set.
ReclaimRound(n) ==
    /\ n \in batch
    /\ batch' = batch \ {n}
    /\ LET gone == heap[n].kids \o AttributesOf(n)
       IN IF heap[n].rc = 0
          THEN /\ heap' = [m \in DOMAIN heap \ {n} |-> DecAll(heap, gone)[m]]
               /\ zombies' = zombies \cup ZombiesOf(heap, gone)
               /\ pool' = pool \ {n}
               /\ attrs' = [m \in DOMAIN attrs \ {n} |-> attrs[m]]
          ELSE UNCHANGED <<heap, zombies, pool, attrs>>

Reclaim(n) ==
    /\ reclaiming /\ ReclaimRound(n)
    /\ UNCHANGED <<nextId, maxedOut, handles, builder, reclaiming, op, phase, sort>>

\* Mutant: d_zombies is cleared after the loop.
EndReclaimClears ==
    /\ reclaiming /\ batch = {}
    /\ reclaiming' = FALSE /\ zombies' = {}
    /\ UNCHANGED <<heap, nextId, pool, maxedOut, refs, batch, op, phase, sort>>
EndReclaim ==
    /\ reclaiming /\ batch = {}
    /\ reclaiming' = FALSE
    /\ UNCHANGED <<mem, refs, batch, op, phase, sort>>

-----------------------------------------------------------------------------
(***************************************************************************)
(* Making nodes.  Each operation returns a Node, which counts.             *)
(***************************************************************************)
\* poolLookup.
Lookup(kind, kids) == {n \in pool : heap[n].kind = kind /\ heap[n].kids = kids}

\* A new NodeValue and the Node for it.
Allocate(kind, kids) ==
    LET h == [n \in DOMAIN heap \cup {nextId} |->
                IF n = nextId THEN [kind |-> kind, kids |-> kids, rc |-> 0]
                              ELSE heap[n]]
    IN /\ nextId <= MaxNodes /\ Room
       /\ heap' = Inc(h, nextId)
       /\ maxedOut' = maxedOut \o MaxedBy(h, nextId)
       /\ handles' = [handles EXCEPT ![nextId] = @ + 1]
       /\ pool' = IF kind \in Variables THEN pool ELSE pool \cup {nextId}
       /\ nextId' = nextId + 1

\* NodeBuilder::constructNV, case 0: a variable.
MkVar(kind) ==
    /\ Ready /\ kind \in Variables
    /\ Allocate(kind, << >>)
    /\ UNCHANGED <<zombies, builder, attrs, gc, op, phase, sort>>

\* mkConstInternal.
MkConst(kind) ==
    /\ Ready /\ kind \in Constants
    /\ \/ /\ Lookup(kind, << >>) = {}
          /\ Allocate(kind, << >>)
          /\ UNCHANGED <<zombies, builder, attrs, gc, op, phase, sort>>
       \/ \E n \in Lookup(kind, << >>) :
            /\ Room
            /\ after' = Wrap(n)
            /\ UNCHANGED <<mem, refs, gc, decs, phase, sort>>

StartBuilder(kind) ==
    /\ Ready /\ ~builder.open /\ kind \in Operators
    /\ builder' = [open |-> TRUE, kind |-> kind, kids |-> << >>]
    /\ UNCHANGED <<mem, handles, attrs, gc, op, phase, sort>>

\* NodeBuilder::append.
AppendChild(n) ==
    /\ Ready /\ builder.open /\ handles[n] > 0 /\ Len(builder.kids) < MaxArity
    /\ heap' = Inc(heap, n)
    /\ maxedOut' = maxedOut \o MaxedBy(heap, n)
    /\ builder' = [builder EXCEPT !.kids = Append(@, n)]
    /\ UNCHANGED <<nextId, pool, zombies, handles, attrs, gc, op, phase, sort>>

\* constructNV, cases 1(a) and 2(a): the children are released before the node
\* that was found, possibly a zombie, is wrapped.
ConstructFound ==
    /\ Ready /\ builder.open /\ builder.kids # << >>
    /\ \E n \in Lookup(builder.kind, builder.kids) :
        /\ Room
        /\ after' = Wrap(n)
    /\ decs' = builder.kids
    /\ builder' = Closed
    /\ UNCHANGED <<mem, handles, attrs, gc, phase, sort>>

\* constructNV, cases 1(b) and 2(b): the new node takes the references over.
ConstructNew ==
    /\ Ready /\ builder.open /\ builder.kids # << >>
    /\ Lookup(builder.kind, builder.kids) = {}
    /\ Allocate(builder.kind, builder.kids)
    /\ builder' = Closed
    /\ UNCHANGED <<zombies, attrs, gc, op, phase, sort>>

\* ~NodeBuilder and NodeBuilder::clear of a builder that was not used.
DropBuilder ==
    /\ Ready /\ builder.open
    /\ decs' = builder.kids
    /\ builder' = Closed
    /\ UNCHANGED <<mem, handles, attrs, gc, after, phase, sort>>

(***************************************************************************)
(* Node objects and attributes.                                            *)
(***************************************************************************)
\* Nodes that a client can name: its own, their children, their attributes.
Nameable ==
    LET own == {n \in Ids : handles[n] > 0}
    IN own \cup UNION {ToSet(heap[n].kids) \cup ToSet(AttributesOf(n)) : n \in own}

\* The copy constructor; also operator[] and getAttribute.
Copy(n) ==
    /\ Ready /\ n \in Nameable /\ Room
    /\ after' = Wrap(n)
    /\ UNCHANGED <<mem, refs, gc, decs, phase, sort>>

Drop(n) ==
    /\ Ready /\ handles[n] > 0
    /\ handles' = [handles EXCEPT ![n] = @ - 1]
    /\ decs' = <<n>>
    /\ UNCHANGED <<mem, builder, attrs, gc, after, phase, sort>>

\* operator=: the old value is released before the new one is counted.
Assign(n, m) ==
    /\ Ready /\ n # m /\ handles[n] > 0 /\ handles[m] > 0
    /\ handles' = [handles EXCEPT ![n] = @ - 1]
    /\ decs' = <<n>>
    /\ after' = Wrap(m)
    /\ UNCHANGED <<mem, builder, attrs, gc, phase, sort>>

\* setAttribute: a copy of the value is made and assigned to the entry, whose
\* old value is released first.  Assigning the value that is there is no step
\* of the assignment, so then the copy is all there is.
SetAttribute(n, m) ==
    /\ Ready /\ handles[n] > 0 /\ handles[m] > 0
    /\ maxedOut' = maxedOut \o MaxedBy(heap, m)
    /\ \/ /\ AttributesOf(n) = <<m>>
          /\ heap' = DecAll(Inc(heap, m), <<m>>)
          /\ UNCHANGED <<attrs, op>>
       \/ /\ AttributesOf(n) # <<m>>
          /\ Cardinality(DOMAIN attrs \cup {n}) <= MaxAttrs
          /\ heap' = Inc(heap, m)
          /\ decs' = AttributesOf(n)
          /\ after' = Store(n, m)
          /\ attrs' = [k \in DOMAIN attrs \ {n} |-> attrs[k]]
    /\ UNCHANGED <<nextId, pool, zombies, handles, builder, gc, phase, sort>>

-----------------------------------------------------------------------------
(***************************************************************************)
(* ~NodeManager.  The Node objects that are left are its own: operators,   *)
(* unique variables and caches.                                            *)
(***************************************************************************)
\* Clear the attributes, without a batch, and start to drop the own Nodes.
Destroy ==
    /\ Ready /\ ~builder.open
    /\ LET values == SetToSeq(DOMAIN attrs)
           gone == [i \in DOMAIN values |-> attrs[values[i]]]
       IN /\ heap' = DecAll(heap, gone)
          /\ zombies' = zombies \cup ZombiesOf(heap, gone)
    /\ attrs' = << >>
    /\ \E own \in SetToSeqs(Objects) : decs' = [i \in DOMAIN own |-> own[i][1]]
    /\ handles' = [n \in Ids |-> 0]
    /\ phase' = "dropping"
    /\ UNCHANGED <<nextId, pool, maxedOut, builder, gc, after, sort>>

StartSort ==
    /\ phase = "dropping" /\ Idle
    /\ sort' = [NoSort EXCEPT !.roots = maxedOut, !.rootSet = ToSet(maxedOut)]
    /\ maxedOut' = << >>
    /\ phase' = "sorting"
    /\ UNCHANGED <<heap, nextId, pool, zombies, refs, gc, op>>

\* A round of TopologicalSort: the next root, or the top of the stack.
SortRoot ==
    /\ phase = "sorting" /\ sort.stack = << >> /\ sort.roots # << >>
    /\ sort' = [sort EXCEPT
                  !.roots = Tail(@),
                  !.stack = IF Head(sort.roots) \in sort.visited THEN << >>
                            ELSE << [post |-> FALSE, node |-> Head(sort.roots)] >>]
    /\ UNCHANGED <<mem, refs, gc, op, phase>>

\* A node is recorded after its children, if it is one of the maxed-out ones.
Sorted(s) ==
    LET top == Last(s.stack)
        kids == heap[top.node].kids
    IN IF top.post
       THEN [s EXCEPT !.stack = Front(@),
                      !.order = IF top.node \in s.rootSet THEN Append(@, top.node) ELSE @]
       ELSE IF top.node \in s.visited THEN [s EXCEPT !.stack = Front(@)]
       ELSE [s EXCEPT
               !.stack = Front(@) \o << [top EXCEPT !.post = TRUE] >>
                           \o [i \in DOMAIN kids |-> [post |-> FALSE, node |-> kids[i]]],
               !.visited = @ \cup {top.node}]

SortVisit ==
    /\ phase = "sorting" /\ sort.stack # << >>
    /\ sort' = Sorted(sort)
    /\ UNCHANGED <<mem, refs, gc, op, phase>>

EndSort ==
    /\ phase = "sorting" /\ sort.stack = << >> /\ sort.roots = << >>
    /\ phase' = "draining"
    /\ UNCHANGED <<mem, refs, gc, op, sort>>

\* The final loop: reclaim the zombies; when there are none, force the
\* greatest maxed-out node.
DrainZombies ==
    /\ phase = "draining" /\ ~reclaiming /\ zombies # {}
    /\ StartReclaim(heap, zombies)
    /\ UNCHANGED <<heap, nextId, pool, maxedOut, refs, op, phase, sort>>

DrainMaxedOut ==
    /\ phase = "draining" /\ ~reclaiming /\ zombies = {} /\ sort.order # << >>
    /\ sort' = [sort EXCEPT !.order = Front(@)]
    /\ heap' = [heap EXCEPT ![Last(sort.order)].rc = 0]
    /\ MarkForDeletion(heap', {Last(sort.order)})
    /\ UNCHANGED <<nextId, pool, maxedOut, refs, op, phase>>

EndDestroy ==
    /\ phase = "draining" /\ ~reclaiming /\ zombies = {} /\ sort.order = << >>
    /\ phase' = "gone"
    /\ UNCHANGED <<mem, refs, gc, op, sort>>

-----------------------------------------------------------------------------
\* What the operation in progress does by itself, to its end.
Internal ==
    /\ UNCHANGED instance
    /\ \/ DecNext \/ WrapResult \/ StoreAttribute
       \/ \E n \in Ids : Reclaim(n)
       \/ EndReclaim
       \/ StartSort \/ SortRoot \/ SortVisit \/ EndSort
       \/ DrainZombies \/ DrainMaxedOut \/ EndDestroy

Client ==
    /\ UNCHANGED instance
    /\ \/ \E kind \in Kinds : MkVar(kind) \/ MkConst(kind) \/ StartBuilder(kind)
       \/ \E n \in Ids : AppendChild(n) \/ Copy(n) \/ Drop(n)
       \/ \E n, m \in Ids : Assign(n, m) \/ SetAttribute(n, m)
       \/ ConstructFound \/ ConstructNew \/ DropBuilder
       \/ Destroy

Next == Internal \/ Client

\* The thread that is in an operation runs on.
Spec == Init /\ [][Next]_vars /\ WF_vars(Internal)

-----------------------------------------------------------------------------
\* Pending references of the operation in progress: to be released by decs, or
\* the temporary copy of an attribute value.
InProgress(n) == Count(decs, n) + (IF after.kind = "store" /\ after.node = n THEN 1 ELSE 0)

\* The entries of the attribute table and the places among the children of
\* other nodes that hold n.
Entries(n) == {k \in DOMAIN attrs : attrs[k] = n}
Places(n) ==
    {p \in (DOMAIN heap) \X (1..MaxArity) :
        p[2] <= Len(heap[p[1]].kids) /\ heap[p[1]].kids[p[2]] = n}

References(n) ==
    handles[n] + Count(builder.kids, n) + InProgress(n)
      + Cardinality(Entries(n)) + Cardinality(Places(n))

\* Nothing that the program can still reach is freed: not by a batch that runs
\* inside an operation, not by the order in which maxed-out nodes are freed.
NoDangling ==
    /\ \A n \in DOMAIN heap : ToSet(heap[n].kids) \subseteq DOMAIN heap
    /\ {n \in Ids : handles[n] > 0} \subseteq DOMAIN heap
    /\ ToSet(builder.kids) \cup ToSet(decs) \subseteq DOMAIN heap
    /\ {after.node, after.key} \subseteq DOMAIN heap \cup {Null}
    /\ \A k \in DOMAIN attrs : {k, attrs[k]} \subseteq DOMAIN heap
    /\ pool \cup zombies \cup batch \subseteq DOMAIN heap
    /\ ToSet(maxedOut) \cup ToSet(sort.roots) \cup ToSet(sort.order)
         \subseteq DOMAIN heap

\* A count that is not maxed out is the number of references.
RefCountExact ==
    \A n \in DOMAIN heap : heap[n].rc \in {References(n), MaxRC}

\* An unreferenced node is never forgotten: it is a zombie, in the batch, or
\* about to be wrapped.
ZombiesAccounted ==
    \A n \in DOMAIN heap : heap[n].rc = 0 => n \in zombies \cup batch

\* Destruction, with its search and its repeated batches, ends, and every node
\* is freed then, the maxed-out ones included.
DestroyEnds == phase = "dropping" ~> (phase = "gone" /\ DOMAIN heap = {})
=============================================================================
