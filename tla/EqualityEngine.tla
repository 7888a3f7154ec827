--------------------------- MODULE EqualityEngine ---------------------------
(***************************************************************************)
(* eq::EqualityEngine (src/theory/uf): congruence closure over the terms   *)
(* that a theory adds, with explanations, triggers and trigger terms, in   *)
(* a backtrackable context.  The arrays of the engine are not context-     *)
(* dependent.  Only their sizes are: when the context pops, backtrack()    *)
(* undoes merges, edges, triggers, lookups and nodes back to those sizes.  *)
(*                                                                         *)
(* Terms stand for their node ids.  An application has a type and two      *)
(* parts: the sides of an equality, or an operator and its argument.       *)
(* Constants are triggers (d_constantsAreTriggers), and so are terms       *)
(* (d_anyTermsAreTriggers).  Interpreted functions are left out.           *)
(***************************************************************************)
EXTENDS Integers, Sequences, FiniteSets, SequencesExt

CONSTANTS
    Leaves, Operators,  \* variables and constants; function symbols (internal)
    App,                \* type and parts of each application
    Predicates,         \* the applications that are Boolean
    Const,              \* the terms that are constants
    True, False,        \* the Boolean constants
    Tags,               \* the theories that share terms
    TriggerTerms,       \* the terms that they may share
    TriggerAtoms,       \* the atoms that may be registered as triggers
    AddedTerms,         \* the terms that may be added by themselves
    MaxInForce,         \* bound on literals, triggers and shared terms in force
    MaxLevel            \* bound on open scopes

Equalities == {t \in DOMAIN App : App[t].type = "EQUALITY"}

ASSUME TermsAssumption ==
    /\ {True, False} \subseteq Const /\ True # False
    /\ Const \subseteq Leaves \cup DOMAIN App
    /\ TriggerTerms \cup AddedTerms \subseteq Leaves \cup DOMAIN App
    /\ Predicates \subseteq {t \in DOMAIN App : App[t].type = "UNINTERPRETED"}
    /\ TriggerAtoms \subseteq Equalities \cup Predicates
    /\ MaxInForce \in Nat /\ MaxLevel \in Nat

None == "none"

VARIABLES
    e,       \* the engine
    calls,   \* what is left to do of the call in progress, innermost first
    saved,   \* the engine as it was at each push of the context
    fault    \* the id of a term was asked for that the engine does not have

vars == <<calls, fault, saved, e>>

(***************************************************************************)
(* Fields of e.  nodes (d_nodes); find, next and size (EqualityNode), uses *)
(* (its use list, latest first), normal (d_normalized) of each node;       *)
(* lookups, the entries of d_applicationLookup in the order of             *)
(* d_applicationLookups; queue (d_propagationQueue); edges, the pairs of   *)
(* d_equalityEdges; merges (d_assertedEqualities); trigs                   *)
(* (d_equalityTriggers, triggers 2k-1 and 2k watch each other) and the     *)
(* list of each node (d_nodeTriggers); tset (d_nodeIndividualTrigger, as   *)
(* the set it refers to) and updates (d_triggerTermSetUpdates); deduced    *)
(* (d_deducedDisequalities with their reasons); propagated                 *)
(* (d_propagatedDisequalities, by unordered pair); done (d_done).          *)
(* Ghosts, all as of the current scope: facts, the literals asserted;      *)
(* asked, the trigger atoms; shared, the trigger terms; told, what the     *)
(* owner was notified of; refused, whether it has answered with false.     *)
(***************************************************************************)
Blank ==
    [nodes |-> << >>, find |-> << >>, next |-> << >>, size |-> << >>,
     uses |-> << >>, normal |-> << >>, lookups |-> << >>, queue |-> << >>,
     edges |-> << >>, merges |-> << >>, trigs |-> << >>, watched |-> << >>,
     tset |-> << >>, updates |-> << >>, deduced |-> << >>,
     propagated |-> << >>, done |-> FALSE,
     facts |-> {}, asked |-> {}, shared |-> {}, told |-> {},
     refused |-> FALSE]

Has(s, t) == t \in DOMAIN s.find

\* The function f with the value v at x.
With(f, x, v) == [y \in DOMAIN f \cup {x} |-> IF y = x THEN v ELSE f[y]]

\* The members of class c in the order of its circular list.
Members(s, c) ==
    LET walk[i \in 0..Len(s.nodes)] == IF i = 0 THEN c ELSE s.next[walk[i - 1]]
        n == CHOOSE n \in 1..Len(s.nodes) :
               walk[n] = c /\ \A m \in 1..(n - 1) : walk[m] # c
    IN [i \in 1..n |-> walk[i - 1]]

-----------------------------------------------------------------------------
(***************************************************************************)
(* Adding terms.                                                           *)
(***************************************************************************)
Enqueue(s, t1, t2, type, reason) ==
    [s EXCEPT !.queue =
        Append(@, [t1 |-> t1, t2 |-> t2, type |-> type, reason |-> reason])]

Normalized(s, key) == [type |-> key.type, a |-> s.find[key.a], b |-> s.find[key.b]]

LookupsOf(s, key) == {s.lookups[i].app : i \in {j \in DOMAIN s.lookups :
                                                s.lookups[j].key = key}}
Lookup(s, key) == CHOOSE t \in LookupsOf(s, key) : TRUE

StoreApplicationLookup(s, key, t) ==
    LET stored == [s EXCEPT !.lookups = Append(@, [key |-> key, app |-> t])]
    IN CASE key.type = "EQUALITY" /\ key.a = key.b ->
              Enqueue(stored, t, True, "REFLEXIVITY", None)
         [] key.type = "EQUALITY" /\ key.a # key.b /\ {key.a, key.b} \subseteq Const ->
              Enqueue(stored, t, False, "CONSTANTS", None)
         [] OTHER -> stored

NewNode(s, t) ==
    [s EXCEPT !.nodes = Append(@, t), !.find = With(@, t, t),
              !.next = With(@, t, t), !.size = With(@, t, 1),
              !.uses = With(@, t, << >>), !.watched = With(@, t, << >>),
              !.tset = With(@, t, << >>)]

NewApplicationNode(s, t) ==
    LET key == Normalized(s, App[t])
        new == [NewNode(s, t) EXCEPT !.normal = With(@, t, key)]
        linked == IF LookupsOf(s, key) = {} THEN StoreApplicationLookup(new, key, t)
                  ELSE Enqueue(new, t, Lookup(s, key), "CONGRUENCE", None)
    IN [linked EXCEPT !.uses =
          LET one == [@ EXCEPT ![App[t].a] = Cons(t, @)]
          IN [one EXCEPT ![App[t].b] = Cons(t, @)]]

\* A constant is a trigger term of every theory.
NewTriggerSet(s, t) ==
    IF t \notin Const THEN s
    ELSE [s EXCEPT !.updates = Append(@, [class |-> t, old |-> << >>]),
                   !.tset[t] = [tag \in Tags |-> t]]

-----------------------------------------------------------------------------
(***************************************************************************)
(* Disequalities that were deduced, and the notifications of the owner.    *)
(***************************************************************************)
PropagatedTags(s, x, y) ==
    IF {x, y} \in DOMAIN s.propagated THEN s.propagated[{x, y}] ELSE {}

HasPropagated(s, x, y) == {x, y} \in DOMAIN s.propagated

\* storePropagatedDisequality, with the reasons that the caller pushed.
StorePropagatedDisequality(s, tag, x, y, why) ==
    [s EXCEPT !.propagated = With(@, {x, y}, PropagatedTags(s, x, y) \cup {tag}),
              !.deduced = IF HasPropagated(s, x, y) THEN @
                          ELSE Append(@, [pair |-> {x, y}, why |-> why])]

AtomNote(atom, polarity) == [kind |-> "atom", atom |-> atom, value |-> polarity]
TermNote(tag, x, y, polarity) ==
    [kind |-> "term", tag |-> tag, x |-> x, y |-> y, value |-> polarity]

\* A notification that is due: what to store first, and what to say.
Due(note, tag, x, y, why) ==
    [note |-> note, tag |-> tag, x |-> x, y |-> y, why |-> why]

Tell(s, due) ==
    LET known == IF due.why = {} THEN s
                 ELSE StorePropagatedDisequality(s, due.tag, due.x, due.y, due.why)
    IN [known EXCEPT !.told = @ \cup {due.note}]

\* The first k of the notifications; the owner refuses the k-th, if there is one.
TellUpTo(s, dues, k) ==
    LET said == FoldLeft(Tell, s, SubSeq(dues, 1, IF k < Len(dues) THEN k ELSE Len(dues)))
    IN [said EXCEPT !.refused = @ \/ k <= Len(dues)]

\* areDisequal: the equalities that show it, or {}.
DisequalityReasons(s, x, y) ==
    LET fx == s.find[x]
        fy == s.find[y]
        At(a, b) == {t \in LookupsOf(s, [type |-> "EQUALITY", a |-> a, b |-> b]) :
                        s.find[t] = s.find[False]}
    IN CASE {fx, fy} \subseteq Const /\ fx # fy -> {<<x, fx>>, <<y, fy>>}
         [] ~({fx, fy} \subseteq Const /\ fx # fy) /\ At(fx, fy) # {} ->
              LET t == CHOOSE t \in At(fx, fy) : TRUE
              IN {<<x, App[t].a>>, <<t, False>>, <<y, App[t].b>>}
         [] ~({fx, fy} \subseteq Const /\ fx # fy) /\ At(fx, fy) = {} /\ At(fy, fx) # {} ->
              LET t == CHOOSE t \in At(fy, fx) : TRUE
              IN {<<y, App[t].a>>, <<t, False>>, <<x, App[t].b>>}
         [] OTHER -> {}

AreEqual(s, x, y) == s.find[x] = s.find[y]
AreDisequal(s, x, y) == HasPropagated(s, x, y) \/ DisequalityReasons(s, x, y) # {}

\* The disequalities of class c with classes that have one of the tags.
GetDisequalities(s, allowConstants, c, tags) ==
    LET OfMember(m) ==
          LET Asserted(t) == t \in Equalities /\ s.find[t] = s.find[False]
              eqs == SelectSeq(s.uses[m], Asserted)
          IN [i \in DOMAIN eqs |->
                IF App[eqs[i]].b = m
                THEN [eq |-> eqs[i], mine |-> App[eqs[i]].b, other |-> App[eqs[i]].a]
                ELSE [eq |-> eqs[i], mine |-> App[eqs[i]].a, other |-> App[eqs[i]].b]]
        all == FlattenSeq([i \in DOMAIN Members(s, c) |-> OfMember(Members(s, c)[i])])
        First(i) == \A j \in 1..(i - 1) : s.find[all[j].other] # s.find[all[i].other]
        Wanted(i) ==
            /\ First(i)
            /\ allowConstants \/ s.find[all[i].other] \notin Const
            /\ DOMAIN s.tset[s.find[all[i].other]] \cap tags # {}
        kept == SelectSeq([i \in DOMAIN all |-> i], Wanted)
    IN IF tags = {} \/ \E i \in DOMAIN all : s.find[all[i].other] = c THEN << >>
       ELSE [i \in DOMAIN kept |->
               [eq |-> all[kept[i]].eq, mine |-> all[kept[i]].mine,
                other |-> all[kept[i]].other,
                tset |-> s.tset[s.find[all[kept[i]].other]]]]

\* propagateTriggerTermDisequalities: what is due, up to an inconsistency.
TermDisequalities(s, tags, tset, diseqs) ==
    LET Clash(d) == s.find[d.mine] = s.find[d.other]
        upto == SelectInSeq(diseqs, Clash)
        sound == IF upto = 0 THEN diseqs ELSE SubSeq(diseqs, 1, upto - 1)
        DueOf(d) ==
          LET New(tag) == tag \notin PropagatedTags(s, tset[tag], d.tset[tag])
              common == SetToSeq({tag \in tags \cap DOMAIN d.tset : New(tag)})
          IN [i \in DOMAIN common |->
                LET x == tset[common[i]]
                    y == d.tset[common[i]]
                IN Due(TermNote(common[i], x, y, FALSE), common[i], x, y,
                       {<<d.mine, x>>, <<d.other, y>>, <<d.eq, False>>})]
    IN FlattenSeq([i \in DOMAIN sound |-> DueOf(sound[i])])

-----------------------------------------------------------------------------
(***************************************************************************)
(* Merging class c2 into class c1, and undoing it.                         *)
(***************************************************************************)
Partner(i) == IF i % 2 = 1 THEN i + 1 ELSE i - 1

Apart(s, i) == s.trigs[Partner(i)].class # s.trigs[i].class

\* The triggers on the nodes of class c, in the order of the lists.
TriggersOf(s, c) ==
    FlattenSeq([i \in DOMAIN Members(s, c) |-> s.watched[Members(s, c)[i]]])

FiredBy(s, c1, c2) ==
    SelectSeq(TriggersOf(s, c2),
              LAMBDA i : Apart(s, i) /\ s.trigs[Partner(i)].class = c1)

\* Find pointers and the classes of the triggers.
Redirect(s, c1, c2) ==
    LET moved == ToSet(Members(s, c2))
        mine == ToSet(TriggersOf(s, c2))
    IN [s EXCEPT !.find = [t \in DOMAIN @ |-> IF t \in moved THEN c1 ELSE @[t]],
                 !.trigs = [i \in DOMAIN @ |->
                              IF i \in mine /\ Apart(s, i)
                              THEN [@[i] EXCEPT !.class = c1] ELSE @[i]]]

\* One application in the use list of a node that was redirected.
UpdateLookup(s, t) ==
    LET key == Normalized(s, s.normal[t])
    IN IF LookupsOf(s, key) = {} THEN StoreApplicationLookup(s, key, t)
       ELSE IF s.find[t] # s.find[Lookup(s, key)]
       THEN Enqueue(s, t, Lookup(s, key), "CONGRUENCE", None)
       ELSE s

UpdateLookups(s, members) ==
    FoldLeft(UpdateLookup, s,
             FlattenSeq([i \in DOMAIN members |-> s.uses[members[i]]]))

\* EqualityNode::merge: the lists are joined, or parted, by the same exchange.
Exchange(s, c1, c2, sign) ==
    [s EXCEPT !.next[c1] = s.next[c2], !.next[c2] = s.next[c1],
              !.size[c1] = @ + sign * s.size[c2]]

\* Mutant: an application is looked up before the find pointers move.
MergeListsEarly(s, c1, c2) ==
    Exchange(Redirect(UpdateLookups(s, Members(s, c2)), c1, c2), c1, c2, 1)
MergeLists(s, c1, c2) ==
    LET members == Members(s, c2)
        redirected == Redirect(s, c1, c2)
    IN Exchange(IF c2 \in Equalities THEN redirected
                ELSE UpdateLookups(redirected, members), c1, c2, 1)

\* What the owner hears of the merge, s before and m after it: disequalities
\* and equalities of shared terms, then the triggers.
TermsDue(s, m, c1, c2) ==
    LET t1 == s.tset[c1]
        t2 == s.tset[c2]
        only1 == DOMAIN t1 \ DOMAIN t2
        only2 == DOMAIN t2 \ DOMAIN t1
        both == SetToSeq(DOMAIN t1 \cap DOMAIN t2)
    IN TermDisequalities(m, only1, t1, GetDisequalities(s, c1 \notin Const, c2, only1))
       \o TermDisequalities(m, only2, t2, GetDisequalities(s, c2 \notin Const, c1, only2))
       \o [i \in DOMAIN both |->
             Due(TermNote(both[i], t1[both[i]], t2[both[i]], TRUE), None, None, None, {})]

TriggersDue(s, fired) ==
    LET Negative(i) == s.trigs[i].atom \in Equalities /\ ~s.trigs[i].value
        New(i) == Negative(i) => "LAST" \notin PropagatedTags(s, App[s.trigs[i].atom].a,
                                                            App[s.trigs[i].atom].b)
        new == SelectSeq(fired, New)
    IN [j \in DOMAIN new |->
          LET atom == s.trigs[new[j]].atom
              note == AtomNote(atom, s.trigs[new[j]].value)
          IN IF Negative(new[j])
             THEN Due(note, "LAST", App[atom].a, App[atom].b, {<<atom, False>>})
             ELSE Due(note, None, None, None, {})]

\* Class c1 takes over the trigger terms of class c2.
\* Mutant: a class that has none takes none.
UniteTriggerSetsStrict(s, c1, c2) ==
    IF s.tset[c1] = << >> \/ DOMAIN s.tset[c2] = DOMAIN s.tset[c1] THEN s
    ELSE [s EXCEPT !.updates = Append(@, [class |-> c1, old |-> s.tset[c1]]),
                   !.tset[c1] = [tag \in DOMAIN @ \cup DOMAIN s.tset[c2] |->
                                   IF tag \in DOMAIN @ THEN @[tag] ELSE s.tset[c2][tag]]]
UniteTriggerSets(s, c1, c2) ==
    IF s.tset[c2] = << >> \/ DOMAIN s.tset[c2] = DOMAIN s.tset[c1] THEN s
    ELSE [s EXCEPT !.updates = Append(@, [class |-> c1, old |-> s.tset[c1]]),
                   !.tset[c1] = [tag \in DOMAIN @ \cup DOMAIN s.tset[c2] |->
                                   IF tag \in DOMAIN @ THEN @[tag] ELSE s.tset[c2][tag]]]

\* The merge, when the owner refuses the k-th notification.
Merge(s, c1, c2, k) ==
    LET m == MergeLists(s, c1, c2)
        first == TermsDue(s, m, c1, c2)
        then == TriggersDue(m, FiredBy(s, c1, c2))
        said == TellUpTo(m, first, k)
        all == IF k <= Len(first) THEN said
               ELSE TellUpTo(UniteTriggerSets(said, c1, c2), then, k - Len(first))
    IN [all EXCEPT !.done = k <= Len(first) + Len(then)]

Notices(s, c1, c2) ==
    LET m == MergeLists(s, c1, c2)
    IN Len(TermsDue(s, m, c1, c2)) + Len(TriggersDue(m, FiredBy(s, c1, c2)))

UndoMerge(s, m) ==
    IF m.into = None THEN s
    ELSE LET parted == Exchange(s, m.into, m.from, -1)
             moved == ToSet(Members(parted, m.from))
             mine == ToSet(TriggersOf(parted, m.from))
         IN [parted EXCEPT
               !.find = [t \in DOMAIN @ |-> IF t \in moved THEN m.from ELSE @[t]],
               !.trigs = [i \in DOMAIN @ |-> IF i \in mine
                            THEN [@[i] EXCEPT !.class = m.from] ELSE @[i]]]

-----------------------------------------------------------------------------
(***************************************************************************)
(* backtrack(), called when the context has popped: was is the engine at   *)
(* the push, of which the context restores the sizes, d_done and           *)
(* d_propagatedDisequalities.                                              *)
(***************************************************************************)
Dropped(now, was) == Reverse(SubSeq(now, Len(was) + 1, Len(now)))
Kept(now, was) == SubSeq(now, 1, Len(was))

UndoMerges(s, was) ==
    IF Len(s.merges) = Len(was.merges) THEN s
    ELSE [FoldLeft(UndoMerge, s, Dropped(s.merges, was.merges)) EXCEPT
            !.queue = << >>, !.merges = Kept(@, was.merges),
            !.edges = SubSeq(@, 1, Len(was.merges))]

UndoTriggerSets(s, was) ==
    LET Undo(tset, u) == [tset EXCEPT ![u.class] = u.old]
    IN [s EXCEPT !.tset = FoldLeft(Undo, @, Dropped(s.updates, was.updates)),
                 !.updates = Kept(@, was.updates)]

UndoTriggers(s, was) ==
    LET Unlink(watched, trig) == [watched EXCEPT ![trig.class] = trig.rest]
    IN [s EXCEPT !.watched = FoldLeft(Unlink, @, Dropped(s.trigs, was.trigs)),
                 !.trigs = Kept(@, was.trigs)]

UndoLookups(s, was) == [s EXCEPT !.lookups = Kept(@, was.lookups)]

\* Mutant: a node that is dropped stays in the use lists.
UndoNodesOnly(s, was) ==
    LET keep == ToSet(Kept(s.nodes, was.nodes))
        On(f) == [t \in DOMAIN f \cap keep |-> f[t]]
    IN [s EXCEPT !.uses = On(@),
                 !.nodes = Kept(@, was.nodes), !.find = On(@), !.next = On(@),
                 !.size = On(@), !.normal = On(@), !.watched = On(@), !.tset = On(@)]
UndoNodes(s, was) ==
    LET Unuse(uses, t) ==
          IF t \notin DOMAIN App THEN uses
          ELSE LET one == [uses EXCEPT ![App[t].b] = Tail(@)]
               IN [one EXCEPT ![App[t].a] = Tail(@)]
        keep == ToSet(Kept(s.nodes, was.nodes))
        On(f) == [t \in DOMAIN f \cap keep |-> f[t]]
    IN [s EXCEPT !.uses = On(FoldLeft(Unuse, @, Dropped(s.nodes, was.nodes))),
                 !.nodes = Kept(@, was.nodes), !.find = On(@), !.next = On(@),
                 !.size = On(@), !.normal = On(@), !.watched = On(@), !.tset = On(@)]

Backtrack(s, was) ==
    LET t == UndoTriggers(UndoTriggerSets(UndoMerges(s, was), was), was)
        u == UndoNodes(UndoLookups(t, was), was)
    IN [u EXCEPT !.deduced = Kept(@, was.deduced),
                 !.propagated = was.propagated, !.done = was.done,
                 !.facts = was.facts, !.asked = was.asked, !.shared = was.shared,
                 !.told = was.told, !.refused = was.refused]

-----------------------------------------------------------------------------
(***************************************************************************)
(* The steps of a call.                                                    *)
(***************************************************************************)
Do(op, t) == [op |-> op, term |-> t]
Rest == Tail(calls)
Now(op) == ~fault /\ calls # << >> /\ Head(calls).op = op
The == Head(calls).term

\* addTermInternal, up to its children.
Enter ==
    /\ Now("add")
    /\ calls' = IF Has(e, The) \/ e.done THEN Rest
                ELSE IF The \in DOMAIN App
                THEN <<Do("add", App[The].a), Do("add", App[The].b),
                       Do("apply", The), Do("propagate", None)>> \o Rest
                ELSE Cons(Do("propagate", None), Rest)
    /\ e' = IF Has(e, The) \/ e.done \/ The \in DOMAIN App THEN e
            ELSE NewTriggerSet(NewNode(e, The), The)
    /\ UNCHANGED <<saved, fault>>

\* addTermInternal, after its children.
Apply ==
    /\ Now("apply")
    /\ IF Has(e, App[The].a) /\ Has(e, App[The].b)
       THEN /\ e' = NewTriggerSet(NewApplicationNode(e, The), The)
            /\ fault' = FALSE
       ELSE fault' = TRUE /\ UNCHANGED e
    /\ calls' = Rest
    /\ UNCHANGED saved

\* The last lines of assertEqualityInternal.
AssertEqualityInternal ==
    /\ Now("merge")
    /\ IF Has(e, The.t1) /\ Has(e, The.t2)
       THEN /\ e' = Enqueue(e, The.t1, The.t2, "ASSERTED", The.reason)
            /\ fault' = FALSE
       ELSE fault' = TRUE /\ UNCHANGED e
    /\ calls' = Rest
    /\ UNCHANGED saved

\* propagate(): the loop ends, or the queue is thrown away.
PropagateEnds ==
    /\ Now("propagate")
    /\ e.queue = << >> \/ e.done
    /\ e' = [e EXCEPT !.queue = << >>]
    /\ calls' = Rest
    /\ UNCHANGED <<saved, fault>>

Candidate == Head(e.queue)
Class1 == e.find[Candidate.t1]
Class2 == e.find[Candidate.t2]
Popped == [e EXCEPT !.queue = Tail(@)]
Propagating == Now("propagate") /\ e.queue # << >> /\ ~e.done

PropagateKnown ==
    /\ Propagating /\ Class1 = Class2
    /\ e' = Popped
    /\ UNCHANGED <<calls, saved, fault>>

\* Two constants: the engine is inconsistent until the context pops.
PropagateConflict ==
    /\ Propagating /\ Class1 # Class2 /\ {Class1, Class2} \subseteq Const
    /\ e' = [Popped EXCEPT !.edges = Append(@, Candidate),
                           !.merges = Append(@, [into |-> None, from |-> None]),
                           !.done = TRUE,
                           !.told = @ \cup {[kind |-> "conflict", x |-> Class1,
                                             y |-> Class2, value |-> TRUE]}]
    /\ UNCHANGED <<calls, saved, fault>>

\* Internal nodes give way to proper ones, others to constants, small classes
\* to big ones.
IntoSecond ==
    CASE (Class1 \in Operators) # (Class2 \in Operators) -> Class1 \in Operators
      [] (Class1 \in Operators) = (Class2 \in Operators)
           /\ (Class1 \in Const) # (Class2 \in Const) -> Class2 \in Const
      [] OTHER -> e.size[Class2] > e.size[Class1]

PropagateMerge ==
    /\ Propagating /\ Class1 # Class2 /\ ~({Class1, Class2} \subseteq Const)
    /\ LET into == IF IntoSecond THEN Class2 ELSE Class1
           from == IF IntoSecond THEN Class1 ELSE Class2
           s == [Popped EXCEPT !.edges = Append(@, Candidate),
                               !.merges = Append(@, [into |-> into, from |-> from])]
       IN \E k \in 1..(Notices(s, into, from) + 1) : e' = Merge(s, into, from, k)
    /\ UNCHANGED <<calls, saved, fault>>

\* assertEquality, after a disequality was propagated: the owner hears of the
\* shared terms of both sides.  A refusal ends the loop, not the engine.
NotifyDisequality ==
    /\ Now("disequality")
    /\ LET a == App[The].a
           b == App[The].b
           t1 == e.tset[e.find[a]]
           t2 == e.tset[e.find[b]]
           New(tag) == tag \notin PropagatedTags(e, t1[tag], t2[tag])
           common == SetToSeq({tag \in DOMAIN t1 \cap DOMAIN t2 : New(tag)})
           dues == [i \in DOMAIN common |->
                      LET x == t1[common[i]]
                          y == t2[common[i]]
                      IN Due(TermNote(common[i], x, y, FALSE), common[i], x, y,
                             {<<x, a>>, <<y, b>>, <<The, False>>})]
       IN IF e.done \/ {e.find[a], e.find[b]} \subseteq Const THEN UNCHANGED e
          ELSE \E k \in 1..(Len(dues) + 1) : e' = TellUpTo(e, dues, k)
    /\ calls' = Rest
    /\ UNCHANGED <<saved, fault>>

\* addTriggerEqualityInternal: the new trigger goes on the representatives.
\* Mutant: it goes on the terms.
AddTriggerToTerms(s, t1, t2, atom, value) ==
    IF s.done THEN s
    ELSE LET n == Len(s.trigs)
             New(c) == [class |-> c, rest |-> s.watched[c], atom |-> atom, value |-> value]
         IN [s EXCEPT !.trigs = @ \o <<New(t1), New(t2)>>,
                      !.watched = [@ EXCEPT ![t1] = Cons(n + 1, s.watched[t1]),
                                            ![t2] = Cons(n + 2, s.watched[t2])]]
AddTrigger(s, t1, t2, atom, value) ==
    IF s.done THEN s
    ELSE LET n == Len(s.trigs)
             c1 == s.find[t1]
             c2 == s.find[t2]
             New(c) == [class |-> c, rest |-> s.watched[c], atom |-> atom, value |-> value]
         IN [s EXCEPT !.trigs = @ \o <<New(c1), New(c2)>>,
                      !.watched = [@ EXCEPT ![c1] = Cons(n + 1, s.watched[c1]),
                                            ![c2] = Cons(n + 2, s.watched[c2])]]

\* An atom that is known already is only reported.
Report(s, atom, value) ==
    IF atom \in Equalities /\ ~value /\ ~HasPropagated(s, App[atom].a, App[atom].b)
    THEN Tell(s, Due(AtomNote(atom, FALSE), "LAST", App[atom].a, App[atom].b,
                     DisequalityReasons(s, App[atom].a, App[atom].b)))
    ELSE Tell(s, Due(AtomNote(atom, value), None, None, None, {}))

KnownTrue(s, atom) ==
    IF atom \in Equalities THEN AreEqual(s, App[atom].a, App[atom].b)
    ELSE AreEqual(s, atom, True)
KnownFalse(s, atom) ==
    IF atom \in Equalities THEN AreDisequal(s, App[atom].a, App[atom].b)
    ELSE AreEqual(s, atom, False)

\* addTriggerEquality and addTriggerPredicate, with the terms in place.
Watch ==
    /\ Now("watch")
    /\ LET sides == IF The \in Equalities THEN {App[The].a, App[The].b} ELSE {The}
           true == KnownTrue(e, The)
           false == KnownFalse(e, The)
       IN IF \E t \in sides : ~Has(e, t)
          THEN fault' = TRUE /\ calls' = Rest /\ UNCHANGED e
          ELSE /\ fault' = FALSE
               /\ e' = LET t == IF true THEN Report(e, The, TRUE) ELSE e
                       IN IF false THEN Report(t, The, FALSE) ELSE t
               /\ calls' = IF true \/ false THEN Rest
                           ELSE <<Do("add", The), Do("trigger", The)>> \o Rest
    /\ UNCHANGED saved

SetTriggers ==
    /\ Now("trigger")
    /\ LET positive == IF The \in Equalities
                       THEN AddTrigger(e, App[The].a, App[The].b, The, TRUE)
                       ELSE AddTrigger(e, The, True, The, TRUE)
       IN IF Has(e, The)
          THEN e' = AddTrigger(positive, The, False, The, FALSE) /\ fault' = FALSE
          ELSE fault' = TRUE /\ UNCHANGED e
    /\ calls' = Rest
    /\ UNCHANGED saved

\* addTriggerTerm, with the term in place.
Share ==
    /\ Now("share")
    /\ LET t == The.t
           c == e.find[t]
           diseqs == GetDisequalities(e, c \notin Const, c, {The.tag})
           tset == With(e.tset[c], The.tag, t)
           s == [e EXCEPT !.updates = Append(@, [class |-> c, old |-> e.tset[c]]),
                          !.tset[c] = tset]
           dues == IF The.tag \notin DOMAIN e.tset[c]
                   THEN TermDisequalities(s, {The.tag}, tset, diseqs)
                   ELSE IF t = e.tset[c][The.tag] THEN << >>
                   ELSE <<Due(TermNote(The.tag, t, e.tset[c][The.tag], TRUE),
                              None, None, None, {})>>
           s2 == IF The.tag \in DOMAIN e.tset[c] THEN e ELSE s
       IN IF ~Has(e, t) THEN fault' = TRUE /\ UNCHANGED e
          ELSE /\ \E k \in 1..(Len(dues) + 1) :
                    e' = [TellUpTo(s2, dues, k) EXCEPT !.done = @ \/ k <= Len(dues)]
               /\ fault' = FALSE
    /\ calls' = Rest
    /\ UNCHANGED saved

Step ==
    \/ Enter \/ Apply \/ AssertEqualityInternal
    \/ PropagateEnds \/ PropagateKnown \/ PropagateConflict \/ PropagateMerge
    \/ NotifyDisequality \/ Watch \/ SetTriggers \/ Share

-----------------------------------------------------------------------------
(***************************************************************************)
(* The calls of the owner.  The SAT solver asserts an atom at most once.   *)
(***************************************************************************)
Idle == calls = << >> /\ ~fault

Room == Cardinality(e.facts) + Cardinality(e.asked) + Cardinality(e.shared) < MaxInForce

Unassigned(atom) == \A value \in BOOLEAN : <<atom, value>> \notin e.facts

Asserting(atom, value) ==
    e' = [e EXCEPT !.facts = @ \cup {<<atom, value>>}]

Merging(t1, t2, reason) ==
    <<Do("add", t1), Do("add", t2),
      Do("merge", [t1 |-> t1, t2 |-> t2, reason |-> reason]), Do("propagate", None)>>

BothPresent(s, atom) == Has(s, App[atom].a) /\ Has(s, App[atom].b)

AssertEquality(eq) ==
    /\ Idle /\ Room /\ Unassigned(eq)
    /\ Asserting(eq, TRUE)
    /\ calls' = IF e.done \/ (BothPresent(e, eq) /\ AreEqual(e, App[eq].a, App[eq].b))
                THEN << >> ELSE Merging(App[eq].a, App[eq].b, <<eq, TRUE>>)
    /\ UNCHANGED <<saved, fault>>

AssertDisequality(eq) ==
    /\ Idle /\ Room /\ Unassigned(eq)
    /\ Asserting(eq, FALSE)
    /\ calls' = IF e.done \/ (BothPresent(e, eq) /\ AreDisequal(e, App[eq].a, App[eq].b))
                THEN << >>
                ELSE Append(Merging(eq, False, <<eq, FALSE>>), Do("disequality", eq))
    /\ UNCHANGED <<saved, fault>>

AssertPredicate(p, value) ==
    /\ Idle /\ Room /\ Unassigned(p)
    /\ Asserting(p, value)
    /\ LET b == IF value THEN True ELSE False
       IN calls' = IF e.done \/ (Has(e, p) /\ AreEqual(e, p, b)) THEN << >>
                   ELSE Merging(p, b, <<p, value>>)
    /\ UNCHANGED <<saved, fault>>

AddTerm(t) ==
    /\ Idle /\ ~Has(e, t)
    /\ calls' = <<Do("add", t)>>
    /\ UNCHANGED <<e, saved, fault>>

AddTriggerPredicate(atom) ==
    /\ Idle /\ Room /\ ~e.done /\ atom \notin e.asked
    /\ e' = [e EXCEPT !.asked = @ \cup {atom}]
    /\ calls' = (IF atom \in Equalities THEN <<Do("add", App[atom].a), Do("add", App[atom].b)>>
                 ELSE <<Do("add", atom)>>) \o <<Do("watch", atom)>>
    /\ UNCHANGED <<saved, fault>>

AddTriggerTerm(t, tag) ==
    /\ Idle /\ Room /\ ~e.done /\ <<t, tag>> \notin e.shared
    /\ e' = [e EXCEPT !.shared = @ \cup {<<t, tag>>}]
    /\ calls' = <<Do("add", t), Do("share", [t |-> t, tag |-> tag])>>
    /\ UNCHANGED <<saved, fault>>

Push ==
    /\ Idle /\ Len(saved) < MaxLevel
    /\ saved' = Append(saved, e)
    /\ UNCHANGED <<e, calls, fault>>

Pop ==
    /\ Idle /\ saved # << >>
    /\ e' = Backtrack(e, Last(saved))
    /\ saved' = Front(saved)
    /\ UNCHANGED <<calls, fault>>

Call ==
    \/ \E eq \in Equalities : AssertEquality(eq) \/ AssertDisequality(eq)
    \/ \E p \in Predicates, value \in BOOLEAN : AssertPredicate(p, value)
    \/ \E t \in AddedTerms : AddTerm(t)
    \/ \E atom \in TriggerAtoms : AddTriggerPredicate(atom)
    \/ \E t \in TriggerTerms, tag \in Tags : AddTriggerTerm(t, tag)
    \/ Push \/ Pop

\* init().
Init ==
    /\ e = LET one == NewTriggerSet(NewNode(Blank, True), True)
           IN NewTriggerSet(NewNode(one, False), False)
    /\ calls = << >> /\ saved = << >> /\ fault = FALSE

Next == Step \/ Call

Spec == Init /\ [][Next]_vars

-----------------------------------------------------------------------------
(***************************************************************************)
(* The reference: congruence closure of a set of literals over the terms   *)
(* of the engine.                                                          *)
(***************************************************************************)
Given(s, literals) ==
    {LET atom == l[1]
     IN IF atom \in Equalities /\ l[2] THEN <<App[atom].a, App[atom].b>>
        ELSE <<atom, IF l[2] THEN True ELSE False>> : l \in literals}

\* Partitions, as sets of classes.
Together(parts, x, y) == \E class \in parts : {x, y} \subseteq class
Joined(parts, x, y) ==
    LET two == {class \in parts : x \in class \/ y \in class}
    IN (parts \ two) \cup {UNION two}
Singletons(s) == {{t} : t \in ToSet(s.nodes)}

Closure(s, literals) ==
    LET terms == ToSet(s.nodes)
        apps == terms \cap DOMAIN App
        given == {p \in Given(s, literals) : {p[1], p[2]} \subseteq terms}
        ConstantIn(parts, t) == \E c \in terms \cap Const : Together(parts, c, t)
        Implied(parts) ==
            given
            \cup {p \in apps \X apps :
                    /\ App[p[1]].type = App[p[2]].type
                    /\ Together(parts, App[p[1]].a, App[p[2]].a)
                    /\ Together(parts, App[p[1]].b, App[p[2]].b)}
            \cup {<<t, True>> : t \in {u \in apps \cap Equalities :
                    Together(parts, App[u].a, App[u].b)}}
            \cup {<<t, False>> : t \in {u \in apps \cap Equalities :
                    /\ ~Together(parts, App[u].a, App[u].b)
                    /\ ConstantIn(parts, App[u].a) /\ ConstantIn(parts, App[u].b)}}
        close[n \in Nat] ==
            IF n = 0 THEN Singletons(s)
            ELSE LET parts == close[n - 1]
                     new == {p \in Implied(parts) : ~Together(parts, p[1], p[2])}
                     p == CHOOSE p \in new : TRUE
                 IN IF new = {} THEN parts ELSE Joined(parts, p[1], p[2])
    IN close[Len(s.nodes)]

Consistent == ~e.done /\ ~e.refused

\* The classes are exactly the congruence closure of the literals asserted in
\* the open scopes, whatever was merged, undone and merged again before.
ClassesExact ==
    Idle /\ Consistent =>
        {{x \in DOMAIN e.find : e.find[x] = c} : c \in ToSet(e.nodes)} \ {{}}
          = Closure(e, e.facts)

\* A pop puts every array of the engine back as it was at the push.  The class
\* of a trigger that has fired may differ: it is only compared.
PopRestores ==
    [][Len(saved') < Len(saved) =>
         LET Plain(s) == [s EXCEPT !.trigs = [i \in DOMAIN @ |-> @[i].rest]]
         IN Plain(e') = Plain(Last(saved))]_vars

(***************************************************************************)
(* getExplanation.  Edges form a forest: the edge that first connects two  *)
(* terms is on the path between them, and the rest of the path is older.   *)
(* So is what the edge itself is explained by, or getExplanation would not *)
(* return.                                                                 *)
(***************************************************************************)
\* The classes after the first i edges, at i + 1.
Components(s) ==
    LET Connect(parts, edge) == Append(parts, Joined(Last(parts), edge.t1, edge.t2))
    IN FoldLeft(Connect, <<Singletons(s)>>, s.edges)

\* The pairs of terms whose equality explains an edge that was not asserted.
\* Mutant: a congruence is explained by its first parts only.
PremisesFirst(s, edge) ==
    LET eq == IF edge.t1 \in {True, False} THEN edge.t2 ELSE edge.t1
    IN CASE edge.type = "CONGRUENCE" -> {<<App[edge.t1].a, App[edge.t2].a>>}
         [] edge.type = "REFLEXIVITY" -> {<<App[eq].a, App[eq].b>>}
         [] edge.type = "CONSTANTS" ->
              {<<App[eq].a, s.find[App[eq].a]>>, <<App[eq].b, s.find[App[eq].b]>>}
         [] OTHER -> {}
Premises(s, edge) ==
    LET eq == IF edge.t1 \in {True, False} THEN edge.t2 ELSE edge.t1
    IN CASE edge.type = "CONGRUENCE" ->
              {<<App[edge.t1].a, App[edge.t2].a>>, <<App[edge.t1].b, App[edge.t2].b>>}
         [] edge.type = "REFLEXIVITY" -> {<<App[eq].a, App[eq].b>>}
         [] edge.type = "CONSTANTS" ->
              {<<App[eq].a, s.find[App[eq].a]>>, <<App[eq].b, s.find[App[eq].b]>>}
         [] OTHER -> {}

Explanation(s, x0, y0) ==
    LET parts == Components(s)
        terms == ToSet(s.nodes)
        why[n \in 0..Len(s.edges), x \in terms, y \in terms] ==
          IF x = y \/ ~Together(parts[n + 1], x, y) THEN {}
          ELSE LET k == CHOOSE k \in 1..n : /\ Together(parts[k + 1], x, y)
                                            /\ ~Together(parts[k], x, y)
                   edge == s.edges[k]
                   nearX == IF Together(parts[k], x, edge.t1) THEN edge.t1 ELSE edge.t2
                   nearY == IF nearX = edge.t1 THEN edge.t2 ELSE edge.t1
                   own == IF edge.type = "ASSERTED" THEN {edge.reason}
                          ELSE UNION {why[k - 1, p[1], p[2]] : p \in Premises(s, edge)}
               IN own \cup why[k - 1, x, nearX] \cup why[k - 1, nearY, y]
    IN why[Len(s.edges), x0, y0]

\* explainEquality, explainPredicate: the literals that explain a notification.
DisequalityExplanation(s, x, y) ==
    UNION {UNION {Explanation(s, p[1], p[2]) : p \in d.why} :
             d \in {u \in ToSet(s.deduced) : u.pair = {x, y}}}

Explain(s, note) ==
    CASE note.kind = "atom" /\ note.atom \in Equalities /\ note.value ->
           Explanation(s, App[note.atom].a, App[note.atom].b)
      [] note.kind = "atom" /\ note.atom \in Equalities /\ ~note.value ->
           DisequalityExplanation(s, App[note.atom].a, App[note.atom].b)
      [] note.kind = "atom" /\ note.atom \in Predicates ->
           Explanation(s, note.atom, IF note.value THEN True ELSE False)
      [] note.kind # "atom" /\ note.value -> Explanation(s, note.x, note.y)
      [] note.kind # "atom" /\ ~note.value -> DisequalityExplanation(s, note.x, note.y)

Follows(s, parts, note) ==
    LET Disequal(x, y) ==
          \/ \E t \in ToSet(s.nodes) \cap Equalities :
                /\ Together(parts, t, False)
                /\ \/ Together(parts, App[t].a, x) /\ Together(parts, App[t].b, y)
                   \/ Together(parts, App[t].a, y) /\ Together(parts, App[t].b, x)
          \/ \E c, d \in ToSet(s.nodes) \cap Const :
                c # d /\ Together(parts, c, x) /\ Together(parts, d, y)
        About(x, y) == IF note.value THEN Together(parts, x, y) ELSE Disequal(x, y)
    IN CASE note.kind = "atom" /\ note.atom \in Predicates ->
              Together(parts, note.atom, IF note.value THEN True ELSE False)
         [] note.kind = "atom" /\ note.atom \in Equalities ->
              About(App[note.atom].a, App[note.atom].b)
         [] note.kind # "atom" -> About(note.x, note.y)

\* What the owner was told, a conflict included, can be explained at any later
\* time in the scope by asserted literals from which it follows.
Explained ==
    Idle => \A note \in e.told :
              LET literals == Explain(e, note)
              IN /\ literals \subseteq e.facts
                 /\ Follows(e, Closure(e, literals), note)

\* No trigger is missed: an atom that was registered and has become known in
\* the open scopes was reported in them.
TriggersTold ==
    Idle /\ Consistent =>
        \A atom \in e.asked, value \in BOOLEAN :
            (IF atom \in Equalities /\ value
             THEN e.find[App[atom].a] = e.find[App[atom].b]
             ELSE Has(e, atom) /\ e.find[atom] = e.find[IF value THEN True ELSE False])
              => AtomNote(atom, value) \in e.told

\* A theory hears of every equality and every disequality between the terms it
\* shares: up to the equalities it was told, it knows the classes apart.
SharedTold ==
    Idle /\ Consistent =>
        \A tag \in Tags :
            LET shared == {t \in DOMAIN e.find : <<t, tag>> \in e.shared \/ t \in Const}
                Told(x, y, value) == \E n \in e.told :
                    n.kind = "term" /\ n.tag = tag /\ n.value = value /\ {n.x, n.y} = {x, y}
                Near(x) == {x} \cup {y \in shared : Told(x, y, TRUE)}
                Class(x) == {y \in shared : e.find[y] = e.find[x]}
                Links(S) == UNION {Near(x) : x \in S}
            IN \A x, y \in shared :
                /\ e.find[x] = e.find[y] =>
                     y \in Links(Links(Links({x})))
                /\ (/\ ~({e.find[x], e.find[y]} \subseteq Const)
                    /\ \E t \in DOMAIN e.find \cap Equalities :
                          /\ e.find[t] = e.find[False]
                          /\ {e.find[App[t].a], e.find[App[t].b]} = {e.find[x], e.find[y]})
                     => \E u \in Class(x), v \in Class(y) : Told(u, v, FALSE)

\* hasTerm: the engine is only asked for ids of terms that it has.
TermsPresent == ~fault
=============================================================================
