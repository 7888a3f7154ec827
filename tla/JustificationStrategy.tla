------------------------ MODULE JustificationStrategy ------------------------
(***************************************************************************)
(* The justification heuristic (src/decision) with the parts of            *)
(* TheoryProxy, SkolemDefManager and CadicalPropagator::cb_decide that     *)
(* drive it.  It walks the Boolean structure of one assertion after the    *)
(* other, asks the SAT solver for decisions that make them true, and stops *)
(* the search early once all are.  The definition of a skolem only becomes *)
(* an assertion when a literal with that skolem is asserted.  Nearly all   *)
(* of its state is context-dependent and jumps back when the SAT solver    *)
(* backtracks in the middle of the walk.                                   *)
(*                                                                         *)
(* A node is a formula and a polarity: <<f, FALSE>> is (not f).  The SAT   *)
(* solver is external.  It may assign any literal that does not make a     *)
(* formula false, and backtrack at any time.                               *)
(***************************************************************************)
EXTENDS Integers, Sequences, FiniteSets, SequencesExt

CONSTANTS
    Atoms,         \* the theory atoms
    Formula,       \* kind and children of each other formula
    Inputs,        \* the nodes that may be asserted, in order
    Definitions,   \* those that define a skolem
    Lemmas,        \* those that a theory may add during the search
    Needs,         \* the definitions of the skolems in each atom
    MaxLevel,      \* bound on decision levels
    MaxUser        \* bound on user levels

ASSUME FormulasAssumption ==
    /\ Definitions \subseteq ToSet(Inputs)
    /\ Lemmas \cap ToSet(Inputs) = {}
    /\ \A n \in ToSet(Inputs) \cup Lemmas : n[1] \in Atoms \cup DOMAIN Formula
    /\ Needs \in [Atoms -> SUBSET Definitions]
    /\ MaxLevel \in Nat /\ MaxUser \in Nat

Null == "null"
Unknown == "unknown"
Value(b) == IF b THEN "true" ELSE "false"
Invert(v) == IF v = "true" THEN "false" ELSE IF v = "false" THEN "true" ELSE Unknown
Signed(n, v) == IF n[2] THEN v ELSE Invert(v)
Kind(f) == IF f \in Atoms THEN "ATOM" ELSE Formula[f].kind
Args(f) == Formula[f].args

VARIABLES
    main,      \* d_assertions, of the user context
    defs,      \* d_skDefs, of the user context
    s,         \* what depends on the SAT context
    saved,     \* s at each push of the SAT context
    users,     \* main, defs, asserted and the SAT level at each user push
    val,       \* value of each atom in the SAT solver
    at,        \* the level of the SAT context at which it was notified
    fixed,     \* the atoms that have their value at decision level 0
    searching, found,  \* in a search; d_found_solution
    caller,    \* who is waiting for getNext
    step,      \* where getNext is
    last,      \* lastChildVal
    asserted   \* ghost: the formulas that were asserted, of the user context

user == <<main, defs, asserted, users>>
solver == <<val, at, fixed>>
call == <<caller, step, last>>
vars == <<main, defs, s, saved, users, val, at, fixed, searching, found,
          caller, step, last, asserted>>

(***************************************************************************)
(* Fields of s.  index of the main list, locals and lindex, the local      *)
(* list; justified (d_justified); current and stack (JustifyStack: node,   *)
(* desired value and child index of each entry); decision                  *)
(* (d_lastDecisionLit); queue and active (TheoryProxy::d_queue,            *)
(* d_skActive); given, a ghost: the local lemmas.                          *)
(***************************************************************************)
Blank ==
    [index |-> 0, locals |-> << >>, lindex |-> 0, justified |-> << >>,
     current |-> Null, stack |-> << >>, decision |-> Null,
     queue |-> << >>, active |-> {}, given |-> {}]

Entry(n, want) == [node |-> n, want |-> want, child |-> 0]

With(f, x, v) == [y \in DOMAIN f \cup {x} |-> IF y = x THEN v ELSE f[y]]

-----------------------------------------------------------------------------
(***************************************************************************)
(* JustifyCache.                                                           *)
(***************************************************************************)
Cached(t, n) ==
    IF n[1] \in DOMAIN t.justified THEN t.justified[n[1]]
    ELSE IF n[1] \in Atoms THEN val[n[1]] ELSE Unknown

LookupValue(t, n) == Signed(n, Cached(t, n))

\* A value that the SAT solver gave to an atom is kept once it was looked up.
Keep(t, n) ==
    IF n[1] \in Atoms /\ Cached(t, n) # Unknown
    THEN [t EXCEPT !.justified = With(@, n[1], Cached(t, n))] ELSE t

KeepAll(t, ns) == FoldLeft(Keep, t, ns)

SetValue(t, f, v) == [t EXCEPT !.justified = With(@, f, v)]

-----------------------------------------------------------------------------
(***************************************************************************)
(* The lists of assertions and the stack.                                  *)
(***************************************************************************)
Negate(n) == <<n[1], ~n[2]>>

\* insertToAssertionList: AND and negated OR are split, theory literals skipped.
Split(n) ==
    IF Kind(n[1]) = "AND" /\ n[2] THEN Args(n[1])
    ELSE IF Kind(n[1]) = "OR" /\ ~n[2]
    THEN [i \in DOMAIN Args(n[1]) |-> Negate(Args(n[1])[i])]
    ELSE << >>

Parts[n \in (Atoms \cup DOMAIN Formula) \X BOOLEAN] ==
    IF Split(n) # << >>
    THEN FlattenSeq([i \in DOMAIN Split(n) |-> Parts[Split(n)[i]]])
    ELSE <<n>>

InsertToAssertionList(list, n) ==
    list \o SelectSeq(Parts[n], LAMBDA p : p[1] \notin Atoms)

Reset(t, n) == [t EXCEPT !.current = n, !.stack = <<Entry(n, "true")>>]
Clear(t) == [t EXCEPT !.current = Null, !.stack = << >>]

\* refreshCurrentAssertionFromList: skip the assertions that are justified.
FirstOpen(t, list, from) ==
    SelectInSubSeq(list, from + 1, Len(list), LAMBDA n : LookupValue(t, n) = Unknown)

\* refreshCurrentAssertion.  Local assertions come first.
\* Mutant: the main assertions are only taken when there is no local one.
RefreshLocal(t) ==
    LET i == FirstOpen(t, t.locals, t.lindex)
        j == FirstOpen(t, main, t.index)
        none == [t EXCEPT !.lindex = Len(t.locals)]
    IN CASE t.current # Null -> t
         [] t.current = Null /\ i # 0 ->
              [Reset(t, t.locals[i]) EXCEPT !.lindex = i, !.decision = Null]
         [] t.current = Null /\ i = 0 /\ j # 0 /\ t.locals = << >> ->
              [Reset(none, main[j]) EXCEPT !.index = j, !.decision = Null]
         [] OTHER -> [none EXCEPT !.index = Len(main)]
Refresh(t) ==
    LET i == FirstOpen(t, t.locals, t.lindex)
        j == FirstOpen(t, main, t.index)
        none == [t EXCEPT !.lindex = Len(t.locals)]
    IN CASE t.current # Null -> t
         [] t.current = Null /\ i # 0 ->
              [Reset(t, t.locals[i]) EXCEPT !.lindex = i, !.decision = Null]
         [] t.current = Null /\ i = 0 /\ j # 0 ->
              [Reset(none, main[j]) EXCEPT !.index = j, !.decision = Null]
         [] OTHER -> [none EXCEPT !.index = Len(main)]

-----------------------------------------------------------------------------
(***************************************************************************)
(* getNextJustifyNode.  Each kind gives the value of the formula, or the   *)
(* child to look at next and the value wanted of it, from the number i of  *)
(* children done and the value l of the last one.  seen are the children   *)
(* that were looked up on the way.                                         *)
(***************************************************************************)
Known(v, seen) == [value |-> v, child |-> 0, want |-> Unknown, seen |-> seen]
Ask(i, want, seen) == [value |-> Unknown, child |-> i, want |-> want, seen |-> seen]

\* AND and OR: forcing is the value of a child that decides the formula.
\* Mutant: the last child is left out.
JunctionShort(t, args, forcing, want, i, l) ==
    LET hit == SelectInSeq(args, LAMBDA c : LookupValue(t, c) = want)
    IN IF i = 0
       THEN IF want = forcing /\ hit # 0 THEN Known(want, SubSeq(args, 1, hit))
            ELSE Ask(1, want, IF want = forcing THEN args ELSE << >>)
       ELSE IF l = forcing \/ i = Len(args) - 1 THEN Known(l, << >>)
       ELSE Ask(i + 1, want, << >>)
Junction(t, args, forcing, want, i, l) ==
    LET hit == SelectInSeq(args, LAMBDA c : LookupValue(t, c) = want)
    IN IF i = 0
       THEN IF want = forcing /\ hit # 0 THEN Known(want, SubSeq(args, 1, hit))
            ELSE Ask(1, want, IF want = forcing THEN args ELSE << >>)
       ELSE IF l = forcing \/ i = Len(args) THEN Known(l, << >>)
       ELSE Ask(i + 1, want, << >>)

Implication(t, args, want, i, l) ==
    IF i = 0
    THEN IF LookupValue(t, args[2]) = "true" THEN Known("true", <<args[2]>>)
         ELSE Ask(1, Invert(want), <<args[2]>>)
    ELSE IF i = 1
    THEN IF l = "false" THEN Known("true", << >>) ELSE Ask(2, want, << >>)
    ELSE Known(l, << >>)

Conditional(t, args, want, i, l) ==
    LET v1 == LookupValue(t, args[2])
        v2 == LookupValue(t, args[3])
        branches == <<args[2], args[3]>>
    IN IF i = 0
       THEN IF v1 = v2 /\ v1 # Unknown THEN Known(v1, branches)
            ELSE Ask(1, Value(~(v1 = Invert(want) \/ v2 = want)), branches)
       ELSE IF i = 1 THEN Ask(IF l = "false" THEN 3 ELSE 2, want, << >>)
       ELSE Known(l, << >>)

\* EQUAL, and XOR, which is its opposite.
Equivalence(t, args, equal, want, i, l) ==
    LET v1 == LookupValue(t, args[2])
        Match(v) == IF equal = (want = "true") THEN v ELSE Invert(v)
    IN IF i = 0 THEN Ask(1, IF v1 = Unknown THEN "true" ELSE Match(v1), <<args[2]>>)
       ELSE IF i = 1 THEN Ask(2, Match(l), << >>)
       ELSE Known(Value((LookupValue(t, args[1]) = l) = equal), <<args[1]>>)

GetNextJustifyNode(t, entry, l) ==
    LET f == entry.node[1]
        want == Signed(entry.node, entry.want)
        i == entry.child
    IN CASE Kind(f) = "AND" -> Junction(t, Args(f), "false", want, i, l)
         [] Kind(f) = "OR" -> Junction(t, Args(f), "true", want, i, l)
         [] Kind(f) = "IMPLIES" -> Implication(t, Args(f), want, i, l)
         [] Kind(f) = "ITE" -> Conditional(t, Args(f), want, i, l)
         [] Kind(f) \in {"EQUAL", "XOR"} ->
              Equivalence(t, Args(f), Kind(f) = "EQUAL", want, i, l)

-----------------------------------------------------------------------------
(***************************************************************************)
(* getNextInternal.                                                        *)
(***************************************************************************)
\* Up to the loop.  After backtracking, the last decision may have no value:
\* then the assertion is walked again.
\* Mutant: the walk goes on where it was.
ResumedAnyway(t, v) == [Keep(t, t.decision) EXCEPT !.decision = Null]
Resumed(t, v) ==
    [IF v = Unknown THEN Reset(t, t.current) ELSE Keep(t, t.decision)
       EXCEPT !.decision = Null]

Enter ==
    /\ step = "enter"
    /\ \E t \in {Refresh(s)} :
         \E v \in {IF t.decision = Null THEN Unknown ELSE LookupValue(t, t.decision)} :
            /\ last' = v
            /\ s' = IF t.decision = Null THEN t ELSE Resumed(t, v)
            /\ step' = IF t.current = Null THEN "stop" ELSE "loop"
    /\ UNCHANGED <<user, saved, solver, searching, found, caller>>

\* The assertion is exhausted.
\* Mutant: it stays the current one.
NextAssertionKept ==
    /\ step = "loop" /\ s.stack = << >>
    /\ s' = Refresh(s)
    /\ UNCHANGED <<user, saved, solver, searching, found, call>>
NextAssertion ==
    /\ step = "loop" /\ s.stack = << >>
    /\ \E t \in {Refresh(Clear(s))} :
         /\ s' = t
         /\ step' = IF t.current = Null THEN "stop" ELSE "loop"
    /\ last' = Unknown
    /\ UNCHANGED <<user, saved, solver, searching, found, caller>>

Top == Last(s.stack)

\* The formula on top of the stack has got its value.
Justified(answer) ==
    /\ answer.value # Unknown
    /\ s' = [SetValue(KeepAll(s, answer.seen), Top.node[1], answer.value)
               EXCEPT !.stack = Front(@)]
    /\ last' = Signed(Top.node, answer.value)
    /\ step' = step

Advanced(t, i) == [t EXCEPT !.stack[Len(t.stack)].child = i]

\* A child is asked for: it has a value, is a formula to walk into, or is a
\* literal to decide on.
NextChild(answer) ==
    /\ answer.value = Unknown
    /\ \E t \in {Advanced(KeepAll(s, answer.seen), answer.child)},
          child \in {Args(Top.node[1])[answer.child]} :
         \E v \in {LookupValue(t, child)} :
            /\ last' = v
            /\ step' = IF v = Unknown /\ child[1] \in Atoms THEN "decision" ELSE step
            /\ s' = CASE v # Unknown -> Keep(t, child)
                      [] v = Unknown /\ child[1] \in Atoms -> [t EXCEPT !.decision = child]
                      [] OTHER -> [t EXCEPT !.stack = Append(@, Entry(child, answer.want))]

Walk ==
    /\ step = "loop" /\ s.stack # << >>
    /\ \E answer \in {GetNextJustifyNode(s, Top, last)} :
         Justified(answer) \/ NextChild(answer)
    /\ UNCHANGED <<user, saved, solver, searching, found, caller>>

-----------------------------------------------------------------------------
(***************************************************************************)
(* Reference: three-valued evaluation, and the formulas in force.          *)
(***************************************************************************)
Formulas == Atoms \cup DOMAIN Formula
Valuations == [Atoms -> {"true", "false", Unknown}]

Kleene ==
    LET ev[values \in Valuations, f \in Formulas] ==
          IF f \in Atoms THEN values[f]
          ELSE LET v == [i \in DOMAIN Args(f) |->
                           Signed(Args(f)[i], ev[values, Args(f)[i][1]])]
                   All(x) == \A i \in DOMAIN v : v[i] = x
                   Some(x) == \E i \in DOMAIN v : v[i] = x
               IN CASE Kind(f) = "AND" ->
                         IF Some("false") THEN "false" ELSE IF All("true") THEN "true" ELSE Unknown
                    [] Kind(f) = "OR" ->
                         IF Some("true") THEN "true" ELSE IF All("false") THEN "false" ELSE Unknown
                    [] Kind(f) = "IMPLIES" ->
                         IF v[1] = "false" \/ v[2] = "true" THEN "true"
                         ELSE IF v[1] = "true" /\ v[2] = "false" THEN "false" ELSE Unknown
                    [] Kind(f) = "ITE" ->
                         IF v[1] = "true" THEN v[2] ELSE IF v[1] = "false" THEN v[3]
                         ELSE IF v[2] = v[3] THEN v[2] ELSE Unknown
                    [] Kind(f) \in {"EQUAL", "XOR"} ->
                         IF Some(Unknown) THEN Unknown
                         ELSE Value((v[1] = v[2]) = (Kind(f) = "EQUAL"))
    IN [values \in Valuations |-> [f \in Formulas |-> ev[values, f]]]

Truth(values, n) == Signed(n, Kleene[values][n[1]])
Clauses == asserted \cup s.given

-----------------------------------------------------------------------------
(***************************************************************************)
(* The user, between searches.                                             *)
(***************************************************************************)
Between == ~searching /\ caller = Null

\* notifyInputFormulas: a definition waits until its skolem is asserted.
AddInput(i) ==
    /\ Between /\ Inputs[i] \notin asserted
    /\ \A j \in 1..(i - 1) : Inputs[j] \in asserted
    /\ asserted' = asserted \cup {Inputs[i]}
    /\ LET n == Inputs[i] IN IF n \in Definitions THEN defs' = defs \cup {n} /\ UNCHANGED main
       ELSE main' = InsertToAssertionList(main, n) /\ UNCHANGED defs
    /\ UNCHANGED <<users, s, saved, solver, searching, found, call>>

UserPush ==
    /\ Between /\ Len(users) < MaxUser
    /\ users' = Append(users, [main |-> main, defs |-> defs, asserted |-> asserted,
                               level |-> Len(saved)])
    /\ saved' = Append(saved, s)
    /\ UNCHANGED <<main, defs, asserted, s, solver, searching, found, call>>

\* Values that were fixed at the user level are notified again if they hold.
UserPop ==
    /\ Between /\ users # << >>
    /\ LET u == Last(users)
       IN /\ main' = u.main /\ defs' = u.defs /\ asserted' = u.asserted
          /\ s' = saved[u.level + 1]
          /\ saved' = SubSeq(saved, 1, u.level)
          /\ val' = [a \in Atoms |-> IF at[a] > u.level THEN Unknown ELSE val[a]]
          /\ at' = [a \in Atoms |-> IF at[a] > u.level THEN 0 ELSE at[a]]
          /\ fixed' = {a \in fixed : at[a] <= u.level}
    /\ users' = Front(users)
    /\ UNCHANGED <<searching, found, call>>

\* presolve().
Solve ==
    /\ Between /\ asserted # {}
    /\ searching' = TRUE /\ found' = FALSE
    /\ s' = [Clear(s) EXCEPT !.index = 0, !.lindex = 0, !.decision = Null]
    /\ UNCHANGED <<user, saved, solver, call>>

-----------------------------------------------------------------------------
(***************************************************************************)
(* The SAT solver.                                                         *)
(***************************************************************************)
Root == IF users = << >> THEN 0 ELSE Last(users).level + 1
Running == searching /\ ~found /\ caller = Null

NoConflict(values) == \A n \in Clauses : Truth(values, n) # "false"

Literals == Atoms \X BOOLEAN

Assigned(values, lit) == [values EXCEPT ![lit[1]] = Value(lit[2])]
\* A definition arrives with the formula that introduces its skolem.
Free(lit) ==
    /\ val[lit[1]] = Unknown
    /\ Needs[lit[1]] \subseteq defs
    /\ NoConflict(Assigned(val, lit))

\* enqueueTheoryLiteral.  Only literals with skolems matter when they leave
\* the queue.
Enqueued(lit) ==
    IF Needs[lit[1]] = {} THEN s ELSE [s EXCEPT !.queue = Append(@, lit)]

\* notify_assignment, and notify_fixed_assignment at the root or later.  A late
\* one is of interest for the literals that are sent again.
Assign(lit, fix) ==
    /\ Running /\ Free(lit)
    /\ Len(saved) = Root => fix
    /\ fix => Len(saved) = Root \/ Needs[lit[1]] # {}
    /\ val' = Assigned(val, lit)
    /\ at' = [at EXCEPT ![lit[1]] = Len(saved)]
    /\ fixed' = IF fix THEN fixed \cup {lit[1]} ELSE fixed
    /\ s' = Enqueued(lit)
    /\ UNCHANGED <<user, saved, searching, found, call>>

OpenLevel(lit) ==
    /\ Len(saved) < Root + MaxLevel /\ Free(lit)
    /\ saved' = Append(saved, s)
    /\ s' = Enqueued(lit)
    /\ val' = Assigned(val, lit)
    /\ at' = [at EXCEPT ![lit[1]] = Len(saved) + 1]
    /\ UNCHANGED <<user, fixed, searching, found>>

\* A decision of the solver or of a theory.
Decide(lit) == Running /\ OpenLevel(lit) /\ UNCHANGED call

\* notify_backtrack: fixed literals keep their values and are sent again.
BackTo(level) ==
    LET undone == {a \in Atoms : at[a] > level}
        again == SetToSeq({<<a, val[a] = "true">> : a \in {b \in undone \cap fixed : Needs[b] # {}}})
    IN /\ s' = [saved[level + 1] EXCEPT !.queue = @ \o again]
       /\ saved' = SubSeq(saved, 1, level)
       /\ val' = [a \in Atoms |-> IF a \in undone \ fixed THEN Unknown ELSE val[a]]
       /\ at' = [a \in Atoms |-> IF a \in undone \ fixed THEN 0
                                 ELSE IF a \in undone THEN level ELSE at[a]]
       /\ found' = FALSE
       /\ UNCHANGED <<user, fixed, call>>

Backtrack(level) ==
    /\ searching /\ caller = Null /\ Root <= level /\ level < Len(saved)
    /\ BackTo(level)
    /\ UNCHANGED searching

\* The end of solve and resetTrail.
EndSearch ==
    /\ searching /\ caller = Null
    /\ searching' = FALSE
    /\ IF Len(saved) > Root THEN BackTo(Root)
       ELSE found' = FALSE /\ UNCHANGED <<user, s, saved, solver, call>>

-----------------------------------------------------------------------------
(***************************************************************************)
(* TheoryProxy.                                                            *)
(***************************************************************************)
\* SkolemDefManager::notifyAsserted and addLocalAssertions.
Activate(t, lit) ==
    LET new == IF Cardinality(t.active) = Cardinality(defs) THEN {}
               ELSE (Needs[lit[1]] \cap defs) \ t.active
    IN [t EXCEPT !.active = @ \cup new,
                 !.locals = FoldLeft(InsertToAssertionList, @, SetToSeq(new))]

\* theoryCheck(): the queue is drained.
Drained(t) == [FoldLeft(Activate, t, t.queue) EXCEPT !.queue = << >>]

\* A lemma, which holds for the rest of the user level or in the SAT context.
WithLemma(t, n, local) ==
    IF local
    THEN /\ s' = [t EXCEPT !.locals = InsertToAssertionList(@, n), !.given = @ \cup {n}]
         /\ UNCHANGED user
    ELSE /\ s' = t
         /\ main' = InsertToAssertionList(main, n)
         /\ asserted' = asserted \cup {n}
         /\ UNCHANGED <<defs, users>>

New(n) == n \notin Clauses /\ Truth(val, n) # "false"

\* cb_propagate.
TheoryCheck ==
    /\ Running
    /\ \/ s.queue # << >> /\ s' = Drained(s) /\ UNCHANGED user
       \/ \E n \in Lemmas, local \in BOOLEAN : New(n) /\ WithLemma(Drained(s), n, local)
    /\ UNCHANGED <<saved, solver, searching, found, call>>

-----------------------------------------------------------------------------
(***************************************************************************)
(* cb_decide and cb_check_found_model.  The solver has propagated: no      *)
(* formula is false and top-level literals have their values.              *)
(***************************************************************************)
Propagated ==
    /\ NoConflict(val)
    /\ \A n \in Clauses : \A p \in ToSet(Parts[n]) :
         p[1] \in Atoms => Truth(val, p) = "true"

CallFrom(who) == caller' = who /\ step' = "enter" /\ last' = Unknown
Return == caller' = Null /\ step' = Null /\ last' = Unknown

CbDecide ==
    /\ Running /\ Propagated
    /\ CallFrom("cb_decide")
    /\ UNCHANGED <<user, s, saved, solver, searching, found>>

CbCheckFoundModel ==
    /\ Running /\ Propagated /\ \A a \in Atoms : val[a] # Unknown
    /\ CallFrom("full model")
    /\ UNCHANGED <<user, s, saved, solver, searching, found>>

\* The literal is decided on, possibly with the phase the user asked for.  The
\* solver may find a conflict at once and come back without the new level; in
\* mode STOPONLY it is not told of the literal.
DecideOn ==
    /\ step = "decision" /\ caller \in {"cb_decide", "not done"}
    /\ \/ \E phase \in BOOLEAN : OpenLevel(<<s.decision[1], phase>>)
       \/ UNCHANGED <<user, s, saved, solver, searching, found>>
    /\ Return

\* The search may stop: check the partial model, once.
CheckPartialModel ==
    /\ step = "stop" /\ caller = "cb_decide"
    /\ CallFrom("partial model")
    /\ UNCHANGED <<user, s, saved, solver, searching, found>>

\* No second check; nor a first one while there are clauses to be added.
GiveUp ==
    /\ step = "stop" /\ caller \in {"cb_decide", "not done"}
    /\ Return
    /\ UNCHANGED <<user, s, saved, solver, searching, found>>

\* What follows a check that has found nothing: isDecisionEngineDone.
\* Mutant: the decision engine is not asked again.
AfterCheckDone(t) ==
    s' = t /\ found' = TRUE /\ Return
AfterCheck(t) ==
    IF caller = "full model" THEN s' = t /\ found' = TRUE /\ Return
    ELSE \E r \in {Refresh(t)} :
            /\ s' = r
            /\ found' = (r.current = Null)
            /\ IF r.current = Null THEN Return ELSE CallFrom("not done")

\* The full effort check; the answer of getNext before it is ignored.  It can
\* reject the model with a lemma, or with a reason or a new variable that the
\* heuristic does not see; a variable made by a theory decision rejects it
\* before the queue is drained.
FullCheck ==
    /\ step \in {"stop", "decision"} /\ caller \in {"partial model", "full model"}
    /\ \/ AfterCheck(Drained(s)) /\ UNCHANGED user
       \/ /\ \E n \in Lemmas, local \in BOOLEAN : New(n) /\ WithLemma(Drained(s), n, local)
          /\ Return /\ UNCHANGED found
       \/ s' \in {s, Drained(s)} /\ Return /\ UNCHANGED <<user, found>>
    /\ UNCHANGED <<saved, solver, searching>>

-----------------------------------------------------------------------------
Init ==
    /\ main = << >> /\ defs = {} /\ asserted = {} /\ users = << >>
    /\ s = Blank /\ saved = << >>
    /\ val = [a \in Atoms |-> Unknown] /\ at = [a \in Atoms |-> 0] /\ fixed = {}
    /\ searching = FALSE /\ found = FALSE
    /\ caller = Null /\ step = Null /\ last = Unknown

GetNext == Enter \/ NextAssertion \/ Walk
Callback == DecideOn \/ CheckPartialModel \/ GiveUp \/ FullCheck

Next ==
    \/ \E i \in DOMAIN Inputs : AddInput(i)
    \/ UserPush \/ UserPop \/ Solve
    \/ \E lit \in Literals : Decide(lit) \/ \E fix \in BOOLEAN : Assign(lit, fix)
    \/ \E level \in 0..(MaxLevel + MaxUser) : Backtrack(level)
    \/ EndSearch \/ TheoryCheck \/ CbDecide \/ CbCheckFoundModel
    \/ GetNext \/ Callback

Spec == Init /\ [][Next]_vars /\ WF_vars(GetNext) /\ WF_vars(Callback)

-----------------------------------------------------------------------------
\* What the cache holds is true: a value computed bottom-up in one scope and
\* looked up in another is the value under the literals that are assigned now.
CacheExact ==
    LET truth == Kleene[val]
    IN \A f \in DOMAIN s.justified : s.justified[f] = truth[f]

\* The search is only told to stop when the assigned literals alone make every
\* assertion true, and every definition and local lemma that is active.
StopsSatisfied ==
    step = "stop" =>
        \A n \in (asserted \ Definitions) \cup s.active \cup s.given :
            Truth(val, n) = "true"

\* A solution that ends the search early satisfies every assertion, and the
\* definition of every skolem in a literal that has a value.
SolutionJustified ==
    found => \A n \in (asserted \ Definitions)
                        \cup (UNION {Needs[a] : a \in {b \in Atoms : val[b] # Unknown}}
                                \cap defs) :
               Truth(val, n) = "true"

\* What the walk relies on after any backtracking: there is a value for the
\* child it was waiting for, none before the first, and an assertion that is
\* exhausted is true.  The comment in getNextJustifyNode (lines 235-237) says
\* that the value may be missing "when backtracking has occurred"; but
\* getNextInternal starts the assertion anew when the last decision has lost
\* its value (81-93), and the assertions at 346, 390 and 402 need the value.
WalkInOrder ==
    step = "loop" =>
        IF s.stack = << >> THEN last = "true"
        ELSE /\ Top.child <= Len(Args(Top.node[1]))
             /\ (Top.child = 0) = (last = Unknown)
             /\ Kind(Top.node[1]) \in {"EQUAL", "XOR"} /\ Top.child = 2 =>
                  LookupValue(s, Args(Top.node[1])[1]) # Unknown

\* Every call of the SAT solver is answered.
CallsEnd == (caller # Null) ~> (caller = Null)
=============================================================================
