------------------------- MODULE CadicalPropagator -------------------------
(***************************************************************************)
(* CadicalPropagator (src/prop/cadical): the IPASIR-UP propagator between  *)
(* the CaDiCaL SAT solver and the theories, and the CadicalSolver calls    *)
(* that drive it.  It mirrors CaDiCaL's trail for the theories, keeps the  *)
(* SAT context in step with decision levels, buffers clauses that the      *)
(* theories add during search, and simulates push/pop of clauses with one  *)
(* activation literal per user level.                                      *)
(*                                                                         *)
(* Literals are integers as in CaDiCaL: v and -v for variable v.  Variable *)
(* 1 is d_true.  CaDiCaL (db, val, lev) is external and modelled from how  *)
(* the propagator uses it.  TheoryProxy and the theories behind it are     *)
(* over-approximated by what reached them (seen, checked, by level of the  *)
(* SAT context, which restores them as module ContextStack says;           *)
(* registered: the atoms that they were told of, likewise); what they      *)
(* answer is arbitrary.  inputs and lemmas are ghosts: the clauses that    *)
(* the levels still open really stand for.                                 *)
(* TheoryPreregistrar is part of the module: it is called in the middle of *)
(* add_new_var's caller and of notify_backtrack.                           *)
(***************************************************************************)
EXTENDS Integers, Sequences, FiniteSets, SequencesExt, FiniteSetsExt, Filter

CONSTANT Instances   \* what to explore: modes, clauses and bounds, see below

(***************************************************************************)
(* An instance: the values of d_proofProducing, the clauses that inputs    *)
(* and lemmas are taken from, and bounds on the variables ever created,    *)
(* the nested user levels, the decisions beyond the assumed literals and   *)
(* the clauses of active variables.                                        *)
(***************************************************************************)
ASSUME InstancesAssumption ==
    \A i \in Instances :
        /\ i.proofs \subseteq BOOLEAN /\ i.proofs # {}
        /\ \A c \in i.pool : c \subseteq Int \ {0}
        /\ i.vars \in Nat \ {0}
        /\ i.levels \in Nat /\ i.decisions \in Nat /\ i.clauses \in Nat

VARIABLES
    instance,       \* the instance that is explored
    proofProducing, \* d_proofProducing, fixed by the options
    nVars,          \* d_nextVarIdx - 1
    info,           \* d_var_info
    activeVars, activeVarsControl, activationLits,
    renotify,       \* d_renotify_fixed
    assignments, assignmentControl,
    decisions,      \* d_decisions; 0 is undefSatLiteral
    propagations,   \* d_propagations
    newClauses,     \* d_new_clauses, one set of literals per clause
    foundSolution, inSearch,
    satLiterals,    \* TheoryPreregistrar::d_sat_literals: atom, context level
    registered,     \* atoms preregistered, by SAT context level
    seen, checked,  \* theory literals enqueued / drained, by SAT context level
    db,             \* CaDiCaL's irredundant clauses
    val, lev,       \* CaDiCaL's assignment: literal or 0, and its level
    result,         \* of the last solve
    inputs, lemmas  \* ghosts: clauses given, with the user level of the call

userVars == <<nVars, activeVars, activeVarsControl, activationLits>>
trailVars == <<info, assignments, assignmentControl, decisions>>
searchVars == <<renotify, propagations, newClauses, foundSolution, inSearch>>
registrarVars == <<satLiterals, registered>>
theoryVars == <<seen, checked>>
cadicalVars == <<db, val, lev, result>>
ghosts == <<inputs, lemmas>>
vars == <<instance, proofProducing, userVars, trailVars, searchVars,
          registrarVars, theoryVars, cadicalVars, ghosts>>

Clauses == instance.pool
MaxVar == instance.vars
MaxUserLevel == instance.levels
MaxDecisions == instance.decisions
MaxClauses == instance.clauses

Var == 1..MaxVar
Lit == Var \cup {-v : v \in Var}
VarOf(l) == IF l < 0 THEN -l ELSE l
VarsOf(c) == {VarOf(l) : l \in c}

UserLevel == Len(activeVarsControl)
DecLevel == Len(decisions)
ContextLevel == UserLevel + DecLevel
ActivationVars == ToSet(activationLits)

\* The sequence of sets s with S added to its last element.
AddTop(s, S) == Append(Front(s), Last(s) \cup S)

VarInfo == [intro : Nat, fixedAt : Nat, asg : Lit \cup {0},
            atom : BOOLEAN, fixed : BOOLEAN, active : BOOLEAN]
FreshInfo == [intro |-> 0, fixedAt |-> 0, asg |-> 0,
              atom |-> FALSE, fixed |-> FALSE, active |-> FALSE]

TypeOK ==
    /\ proofProducing \in instance.proofs
    /\ nVars \in Var
    /\ info \in [Var -> VarInfo]
    /\ activeVars \in Seq(Var) /\ activationLits \in Seq(Var)
    /\ activeVarsControl \in Seq(Nat) /\ assignmentControl \in Seq(Nat)
    /\ Len(activationLits) = UserLevel
    /\ assignments \in Seq(Lit) /\ renotify \in Seq(Lit)
    /\ propagations \in Seq(Lit) /\ decisions \in Seq(Lit \cup {0})
    /\ Len(assignmentControl) = DecLevel
    /\ newClauses \in Seq(SUBSET Lit) /\ db \subseteq SUBSET Lit
    /\ foundSolution \in BOOLEAN /\ inSearch \in BOOLEAN
    /\ seen \in Seq(SUBSET Lit) /\ checked \in Seq(SUBSET Lit)
    /\ satLiterals \in Seq([var : Var, level : Nat])
    /\ registered \in Seq(SUBSET Var) /\ Len(registered) = Len(seen)
    /\ Len(seen) = 1 + UserLevel + DecLevel /\ Len(checked) = Len(seen)
    /\ val \in [Var -> Lit \cup {0}] /\ lev \in [Var -> Nat]
    /\ result \in {"none", "sat", "unsat", "unknown"}

-----------------------------------------------------------------------------
(***************************************************************************)
(* CaDiCaL, external.                                                      *)
(***************************************************************************)
Holds(c, s) == \E l \in c : s[VarOf(l)] = l

Assignment(T) == [v \in 1..nVars |-> IF v \in T THEN v ELSE -v]

Solutions(cs) == {s \in {Assignment(T) : T \in SUBSET (1..nVars)} :
                    \A c \in cs : Holds(c, s)}

Assumed == {{-a} : a \in ActivationVars}

RootUnsat == Solutions(db) = {}

Entailed(l) == \A s \in Solutions(db) : s[VarOf(l)] = l

\* l is the only literal of some clause that the assignment leaves open.
IsUnit(l) == \E c \in db : l \in c /\ \A k \in c \ {l} : val[VarOf(k)] = -k

-----------------------------------------------------------------------------
(***************************************************************************)
(* CadicalSolver::initialize: d_true exists and is fixed.                  *)
(***************************************************************************)
Init ==
    /\ instance \in Instances
    /\ proofProducing \in instance.proofs
    /\ nVars = 1
    /\ info = [v \in Var |-> IF v = 1
                 THEN [FreshInfo EXCEPT !.active = TRUE, !.fixed = TRUE, !.asg = 1]
                 ELSE FreshInfo]
    /\ activeVars = <<1>> /\ activeVarsControl = << >> /\ activationLits = << >>
    /\ renotify = << >>
    /\ assignments = <<1>> /\ assignmentControl = << >> /\ decisions = << >>
    /\ propagations = << >> /\ newClauses = << >>
    /\ foundSolution = FALSE /\ inSearch = FALSE
    /\ satLiterals = << >> /\ registered = << {} >>
    /\ seen = << {} >> /\ checked = << {} >>
    /\ db = {{1}}
    /\ val = [v \in Var |-> IF v = 1 THEN 1 ELSE 0]
    /\ lev = [v \in Var |-> 0]
    /\ result = "none"
    /\ inputs = {} /\ lemmas = {}

(***************************************************************************)
(* CnfStream::newLiteral: add_new_var and, for an atom, notifySatLiteral,  *)
(* which registers it with the theories at once and remembers it together  *)
(* with the level of the SAT context, counted from the level of the run.   *)
(***************************************************************************)
NewInfo(atom) == [FreshInfo EXCEPT !.active = TRUE, !.atom = atom,
                                   !.intro = UserLevel]

AddNewVar(atom) ==
    /\ nVars < MaxVar
    /\ nVars' = nVars + 1
    /\ activeVars' = Append(activeVars, nVars + 1)
    /\ info' = [info EXCEPT ![nVars + 1] = NewInfo(atom)]
    /\ IF atom
       THEN /\ satLiterals' = Append(satLiterals,
                                [var |-> nVars + 1, level |-> ContextLevel])
            /\ registered' = AddTop(registered, {nVars + 1})
       ELSE UNCHANGED registrarVars

(***************************************************************************)
(* add_clause.  A clause that a fixed literal satisfies is dropped.        *)
(* During search a clause belongs to the highest level of its variables,   *)
(* unless its proof lives in the current level; outside search it belongs  *)
(* to the current level.  Mutants: the levels of the variables are         *)
(* ignored; a lemma with a proof belongs to the levels of its variables; a *)
(* literal true only on the trail satisfies a clause.                      *)
(***************************************************************************)
LevelOfBase(c, base) == base
LevelOf(c, base) == Max({base} \cup {info[v].intro : v \in VarsOf(c)})

WithActivation(c, level) ==
    IF level = 0 THEN c ELSE c \cup {activationLits[level]}

BaseLevelSearch == IF inSearch THEN 0 ELSE UserLevel
BaseLevel == IF inSearch /\ ~proofProducing THEN 0 ELSE UserLevel

SatisfiedNow(c) == \E l \in c : info[VarOf(l)].asg = l
Satisfied(c) == \E l \in c : info[VarOf(l)].fixed /\ info[VarOf(l)].asg = l

Usable(c) == \A v \in VarsOf(c) :
                v <= nVars /\ info[v].active /\ v \notin ActivationVars

\* Only an empty clause would have no literals left after the loop, and no caller
\* gives one: the test of lits.empty() is left out.
AddedClauses(c) ==
    IF Satisfied(c) THEN << >>
                    ELSE << WithActivation(c, LevelOf(c, BaseLevel)) >>

ClausesLeft ==
    Cardinality({c \in db : \E v \in VarsOf(c) \ {1} : info[v].active})
        + Len(newClauses) < MaxClauses
CanAdd(c) == Usable(c) /\ ClausesLeft

-----------------------------------------------------------------------------
(***************************************************************************)
(* Calls from the solver engine, outside search and after resetTrail.      *)
(***************************************************************************)
Idle == ~inSearch /\ result = "none"

\* CadicalSolver::newVar
NewVar(atom) ==
    /\ Idle
    /\ AddNewVar(atom)
    /\ UNCHANGED <<proofProducing, activeVarsControl, activationLits,
                   assignments, assignmentControl, decisions, searchVars,
                   theoryVars, cadicalVars, ghosts>>

\* CadicalSolver::addClause for an assertion of the current user level.
AddInput(c) ==
    /\ Idle /\ CanAdd(c)
    /\ db' = db \cup ToSet(AddedClauses(c))
    /\ inputs' = inputs \cup {[clause |-> c, level |-> UserLevel]}
    /\ UNCHANGED <<proofProducing, registrarVars, userVars, trailVars,
                   searchVars, theoryVars, val, lev, result, lemmas>>

\* CadicalSolver::push: SAT context, user_push, a fresh activation literal.
Push ==
    /\ Idle /\ UserLevel < MaxUserLevel /\ nVars < MaxVar
    /\ activeVarsControl' = Append(activeVarsControl, Len(activeVars))
    /\ nVars' = nVars + 1
    /\ activeVars' = Append(activeVars, nVars + 1)
    /\ info' = [info EXCEPT ![nVars + 1] =
                  [FreshInfo EXCEPT !.active = TRUE, !.intro = UserLevel + 1]]
    /\ activationLits' = Append(activationLits, nVars + 1)
    /\ registered' = Append(registered, Last(registered))
    /\ seen' = Append(seen, Last(seen))
    /\ checked' = Append(checked, Last(checked))
    /\ UNCHANGED <<proofProducing, satLiterals, assignments, assignmentControl,
                   decisions, searchVars, cadicalVars, ghosts>>

(***************************************************************************)
(* CadicalSolver::pop: SAT context, then user_pop.  The popped variables,  *)
(* the activation literal among them, become inactive and get a unit       *)
(* clause; fixed literals that were enqueued in the popped context are     *)
(* remembered for renotify_fixed.  The user context is popped next, which  *)
(* makes TheoryPreregistrar forget its literals.                           *)
(***************************************************************************)
PoppedVars == SubSeq(activeVars, Last(activeVarsControl) + 1, Len(activeVars))

KeptVar(v, level) == info[v].fixed /\ info[v].atom /\ info[v].intro <= level

StaleFixed(l, level) == info[VarOf(l)].atom /\ info[VarOf(l)].fixedAt > level

Pop ==
    /\ Idle /\ UserLevel > 0
    /\ LET level == UserLevel - 1
           gone == {v \in ToSet(PoppedVars) : ~KeptVar(v, level)}
           still == Only(assignments, {l \in Lit : VarOf(l) \notin gone})
       IN /\ activeVars' = SubSeq(activeVars, 1, Last(activeVarsControl))
                             \o Only(PoppedVars, Var \ gone)
          /\ info' = [v \in Var |-> IF v \in gone
                        THEN [info[v] EXCEPT !.active = FALSE] ELSE info[v]]
          /\ db' = db \cup {{v} : v \in gone}
          /\ val' = [v \in Var |-> IF v \in gone /\ val[v] = 0 THEN v ELSE val[v]]
          /\ assignments' = still
          /\ renotify' = renotify
                           \o Only(still, {l \in Lit : StaleFixed(l, level)})
          /\ inputs' = {r \in inputs : r.level <= level}
          /\ lemmas' = {r \in lemmas : /\ VarsOf(r.clause) \cap gone = {}
                                       /\ proofProducing => r.level <= level}
    /\ activeVarsControl' = Front(activeVarsControl)
    /\ activationLits' = Front(activationLits)
    /\ satLiterals' = << >> /\ registered' = Front(registered)
    /\ seen' = Front(seen) /\ checked' = Front(checked)
    /\ UNCHANGED <<proofProducing, nVars, assignmentControl, decisions,
                   propagations, newClauses, foundSolution, inSearch, lev,
                   result>>

\* renotify_fixed.  Mutant: the level of the renotification is not recorded.
RenotifiedInfoStale == info
RenotifiedInfo ==
    [v \in Var |-> IF \E l \in ToSet(renotify) : VarOf(l) = v
        THEN [info[v] EXCEPT !.fixedAt = UserLevel] ELSE info[v]]

\* CadicalSolver::solve up to d_solver->solve().
Solve ==
    /\ Idle
    /\ seen' = AddTop(seen, ToSet(renotify))
    /\ info' = RenotifiedInfo
    /\ renotify' = << >>
    /\ inSearch' = TRUE
    /\ UNCHANGED <<proofProducing, registrarVars, userVars, assignments,
                   assignmentControl, decisions, propagations, newClauses,
                   foundSolution, checked, cadicalVars, ghosts>>

-----------------------------------------------------------------------------
(***************************************************************************)
(* Notifications.  CaDiCaL sends them in batches before a callback; here   *)
(* each is sent at once, and a backtrack may follow before any callback.   *)
(* Units are never learned between a found solution and the backtrack that *)
(* withdraws it: CaDiCaL learns from a conflict, after backtracking.       *)
(***************************************************************************)
\* notify_assignment: l is news, so it is recorded and, if an atom, enqueued.
Heard(l) == ~foundSolution /\ info[VarOf(l)].active /\ info[VarOf(l)].asg = 0

NotifiedInfo(inf, l) ==
    IF Heard(l) THEN [inf EXCEPT ![VarOf(l)].asg = l] ELSE inf
NotifiedAssignments(l) ==
    IF Heard(l) THEN Append(assignments, l) ELSE assignments
NotifiedSeen(s, l) ==
    IF Heard(l) /\ info[VarOf(l)].atom THEN AddTop(s, {l}) ELSE s

\* notify_fixed_assignment, during search or while input clauses are added.
Fix(l) ==
    /\ inSearch \/ Idle
    /\ VarOf(l) <= nVars /\ info[VarOf(l)].active /\ ~info[VarOf(l)].fixed
    /\ ~foundSolution /\ val[VarOf(l)] # -l
    /\ ~RootUnsat /\ Entailed(l)
    /\ info' = NotifiedInfo([info EXCEPT ![VarOf(l)].fixed = TRUE,
                                         ![VarOf(l)].fixedAt = UserLevel], l)
    /\ assignments' = NotifiedAssignments(l)
    /\ seen' = NotifiedSeen(seen, l)
    /\ val' = [val EXCEPT ![VarOf(l)] = l]
    /\ lev' = [lev EXCEPT ![VarOf(l)] = 0]
    /\ UNCHANGED <<proofProducing, registrarVars, userVars, assignmentControl,
                   decisions, searchVars, checked, db, result, ghosts>>

\* notify_assignment of a literal that CaDiCaL propagates.
Propagate(l) ==
    /\ inSearch /\ DecLevel > 0
    /\ VarOf(l) <= nVars /\ val[VarOf(l)] = 0 /\ IsUnit(l)
    /\ info' = NotifiedInfo(info, l)
    /\ assignments' = NotifiedAssignments(l)
    /\ seen' = NotifiedSeen(seen, l)
    /\ val' = [val EXCEPT ![VarOf(l)] = l]
    /\ lev' = [lev EXCEPT ![VarOf(l)] = DecLevel]
    /\ UNCHANGED <<proofProducing, registrarVars, userVars, assignmentControl,
                   decisions, searchVars, checked, db, result, ghosts>>

(***************************************************************************)
(* notify_new_decision_level, and notify_assignment of the decision l.     *)
(* found is d_found_solution when the notifications arrive.  A level whose *)
(* assumed literal is already true has no decision: l is 0.                *)
(***************************************************************************)
OpenLevel(l, found) ==
    LET heard == l # 0 /\ ~found /\ info[VarOf(l)].active
        atom == heard /\ info[VarOf(l)].atom
    IN /\ assignmentControl' = Append(assignmentControl, Len(assignments))
       /\ decisions' = Append(decisions, IF heard THEN l ELSE 0)
       /\ info' = IF heard THEN [info EXCEPT ![VarOf(l)].asg = l] ELSE info
       /\ assignments' = IF heard THEN Append(assignments, l) ELSE assignments
       /\ registered' = Append(registered, Last(registered))
       /\ seen' = Append(seen, Last(seen) \cup IF atom THEN {l} ELSE {})
       /\ val' = IF l = 0 THEN val ELSE [val EXCEPT ![VarOf(l)] = l]
       /\ lev' = IF l = 0 THEN lev ELSE [lev EXCEPT ![VarOf(l)] = DecLevel + 1]

\* CaDiCaL decides the next assumed activation literal.
Assume ==
    /\ inSearch /\ DecLevel < UserLevel
    /\ LET a == activationLits[DecLevel + 1]
       IN val[a] # a /\ OpenLevel(IF val[a] = -a THEN 0 ELSE -a, foundSolution)
    /\ checked' = Append(checked, Last(checked))
    /\ UNCHANGED <<proofProducing, satLiterals, userVars, searchVars, db,
                   result, ghosts>>

CanDecide(l) ==
    /\ inSearch /\ DecLevel >= UserLevel /\ DecLevel < UserLevel + MaxDecisions
    /\ VarOf(l) <= nVars /\ val[VarOf(l)] = 0

\* cb_decide without stopSearch: a requested literal or one of CaDiCaL's own.
Decide(l) ==
    /\ CanDecide(l)
    /\ OpenLevel(l, foundSolution)
    /\ checked' = Append(checked, Last(checked))
    /\ UNCHANGED <<proofProducing, satLiterals, userVars, searchVars, db,
                   result, ghosts>>

(***************************************************************************)
(* notify_backtrack(k).  Fixed literals of the undone levels stay assigned *)
(* and are enqueued again.  Mutants: undone variables stay assigned; a     *)
(* found solution is not withdrawn; a literal registered just above the    *)
(* level left is not registered again.                                     *)
(***************************************************************************)
PopContexts(s, k) == SubSeq(s, 1, 1 + UserLevel + k)

Undone(k) == SubSeq(assignments, assignmentControl[k + 1] + 1, Len(assignments))
FixedLit(l) == info[VarOf(l)].fixed

KeptAssignments(k) == SubSeq(assignments, 1, assignmentControl[k + 1])
                        \o Only(Undone(k), {l \in Lit : FixedLit(l)})

Reenqueued(k) == {l \in ToSet(Undone(k)) : FixedLit(l) /\ info[VarOf(l)].atom}

UnassignedInfoNone(k) == info
UnassignedInfo(k) ==
    [v \in Var |-> IF ~info[v].fixed /\ \E l \in ToSet(Undone(k)) : VarOf(l) = v
                   THEN [info[v] EXCEPT !.asg = 0] ELSE info[v]]

FoundAfterBacktrackKept == foundSolution
FoundAfterBacktrack == FALSE

\* TheoryPreregistrar::notifyBacktrack: the positions reached from the back
\* before the first literal registered at level k or below.
ReregisteredShort(k) ==
    {i \in DOMAIN satLiterals : \A j \in i..Len(satLiterals) :
        satLiterals[j].level > UserLevel + k + 1}
Reregistered(k) ==
    {i \in DOMAIN satLiterals : \A j \in i..Len(satLiterals) :
        satLiterals[j].level > UserLevel + k}

\* Registering an atom again may introduce another one (fresh).
Reregister(k, fresh) ==
    LET again == Reregistered(k)
        new == IF fresh THEN {nVars + 1} ELSE {}
        lowered == [i \in DOMAIN satLiterals |-> IF i \in again
                      THEN [satLiterals[i] EXCEPT !.level = UserLevel + k]
                      ELSE satLiterals[i]]
    IN /\ fresh => again # {} /\ nVars < MaxVar
       /\ satLiterals' = IF fresh THEN Append(lowered, [var |-> nVars + 1,
                                                        level |-> UserLevel + k])
                                  ELSE lowered
       /\ registered' = AddTop(PopContexts(registered, k),
                               {satLiterals[i].var : i \in again} \cup new)
       /\ nVars' = IF fresh THEN nVars + 1 ELSE nVars
       /\ activeVars' = IF fresh THEN Append(activeVars, nVars + 1) ELSE activeVars
       /\ info' = [v \in Var |-> IF v \in new THEN NewInfo(TRUE)
                                              ELSE UnassignedInfo(k)[v]]

NotifyBacktrack(k, fresh) ==
    IF DecLevel <= k
    THEN /\ ~fresh
         /\ UNCHANGED <<nVars, activeVars, trailVars, propagations,
                        foundSolution, registrarVars, theoryVars>>
    ELSE /\ foundSolution' = FoundAfterBacktrack
         /\ decisions' = SubSeq(decisions, 1, k)
         /\ assignmentControl' = SubSeq(assignmentControl, 1, k)
         /\ assignments' = KeptAssignments(k)
         /\ Reregister(k, fresh)
         /\ seen' = AddTop(PopContexts(seen, k), Reenqueued(k))
         /\ checked' = PopContexts(checked, k)
         /\ propagations' = << >>

\* CaDiCaL, external: the assignment after undoing the levels above k.
Unassign(k) == val' = [v \in Var |-> IF lev[v] > k THEN 0 ELSE val[v]]
               /\ lev' = [v \in Var |-> IF lev[v] > k THEN 0 ELSE lev[v]]

\* After a conflict or at a restart.
Backtrack(k, fresh) ==
    /\ inSearch /\ k < DecLevel
    /\ NotifyBacktrack(k, fresh) /\ Unassign(k)
    /\ UNCHANGED <<proofProducing, activeVarsControl, activationLits, renotify,
                   newClauses, inSearch, db, result, ghosts>>

\* CadicalSolver::resetTrail, before the next command of the solver engine.
ResetTrail(fresh) ==
    /\ ~inSearch /\ result # "none"
    /\ NotifyBacktrack(0, fresh) /\ Unassign(0)
    /\ result' = "none"
    /\ UNCHANGED <<proofProducing, activeVarsControl, activationLits, renotify,
                   newClauses, inSearch, db, ghosts>>

-----------------------------------------------------------------------------
(***************************************************************************)
(* Callbacks.  TheoryProxy's answers are over-approximated: a lemma, a new *)
(* variable, a propagation with an explanation from what the theories have *)
(* seen, or nothing.                                                       *)
(***************************************************************************)
\* theoryCheck: all of the queue is drained.  (The zero-level learner, which is
\* there for an output tag only, may leave a rest when it ends the search.)
Drained == Append(Front(checked), Last(seen))

Lemma(c) == [clause |-> c, level |-> UserLevel]

\* add_clause for a clause of the theories, during search.
TheoryClause(c) ==
    /\ CanAdd(c)
    /\ newClauses' = newClauses \o AddedClauses(c)
    /\ lemmas' = lemmas \cup {Lemma(c)}

\* explainPropagation: any literals that the theories have seen, as the reason
\* of p.
Explanations(p) ==
    {{p} \cup {-e : e \in E} : E \in SUBSET {e \in Last(seen) : VarOf(e) # VarOf(p)}}

\* theoryPropagate: any atom in use, with any sign.
Propagatable(p) == VarOf(p) <= nVars /\ info[VarOf(p)].active /\ info[VarOf(p)].atom

CallsTheories ==
    inSearch /\ ~foundSolution /\ propagations = << >> /\ DecLevel >= UserLevel

\* cb_propagate with no propagation queued: theoryCheck and theory_propagate.
CbPropagate ==
    /\ CallsTheories
    /\ checked' = Drained
    /\ \/ /\ \E c \in Clauses : TheoryClause(c)
          /\ UNCHANGED <<userVars, info, propagations, registrarVars>>
       \/ /\ \E p \in Lit : /\ Propagatable(p) /\ info[VarOf(p)].asg = 0
                            /\ ClausesLeft
                            /\ propagations' = <<p>>
          /\ UNCHANGED <<userVars, info, newClauses, lemmas, registrarVars>>
       \/ /\ AddNewVar(TRUE)
          /\ UNCHANGED <<activeVarsControl, activationLits, propagations,
                         newClauses, lemmas>>
       \/ UNCHANGED <<userVars, info, propagations, newClauses, lemmas,
                      registrarVars>>
    /\ UNCHANGED <<proofProducing, assignments, assignmentControl, decisions,
                   renotify, foundSolution, inSearch, seen, cadicalVars, inputs>>

(***************************************************************************)
(* cb_propagate with a propagation queued, and cb_add_reason_clause_lit    *)
(* when CaDiCaL asks for its reason.  A literal that is true by then is    *)
(* ignored.                                                                *)
(***************************************************************************)
ClauseUserLevel(c) == LevelOf(c, IF proofProducing THEN UserLevel ELSE 0)

NextPropagation ==
    /\ inSearch /\ ~foundSolution /\ propagations # << >>
    /\ propagations' = Tail(propagations)
    /\ LET p == Head(propagations)
       IN IF val[VarOf(p)] = p
          THEN UNCHANGED <<db, lemmas>>
          ELSE \E c \in Explanations(p) :
                 /\ CanAdd(c)
                 /\ db' = db \cup {WithActivation(c, ClauseUserLevel(c))}
                 /\ lemmas' = lemmas \cup {Lemma(c)}
    /\ UNCHANGED <<proofProducing, registrarVars, userVars, trailVars,
                   renotify, newClauses, foundSolution, inSearch, theoryVars,
                   val, lev, result, inputs>>

\* cb_has_external_clause and cb_add_external_clause_lit, for a whole clause.
ImportClause ==
    /\ inSearch /\ newClauses # << >>
    /\ db' = db \cup {Head(newClauses)}
    /\ newClauses' = Tail(newClauses)
    /\ UNCHANGED <<proofProducing, registrarVars, userVars, trailVars,
                   renotify, propagations, foundSolution, inSearch, theoryVars,
                   val, lev, result, ghosts>>

(***************************************************************************)
(* cb_check_found_model: called by CaDiCaL with a full assignment, and by  *)
(* cb_decide when the decision engine stops the search early.              *)
(* Mutant of done(): clauses still buffered do not count.                  *)
(***************************************************************************)
FullModel == /\ inSearch /\ DecLevel >= UserLevel
             /\ \A v \in 1..nVars : val[v] # 0
             /\ \A c \in db : Holds(c, val)
PartialModel == inSearch /\ DecLevel >= UserLevel /\ \E v \in 1..nVars : val[v] = 0
ChecksModel == ~foundSolution /\ (FullModel \/ PartialModel)

\* done() also asks theoryNeedCheck.  That is left out: when no clause is pending
\* after the loop of cb_check_found_model, its last round has asked the same and
\* got the answer no.
DoneAlways == TRUE
Done == newClauses = << >>

Tautology == {1, -1}

\* Clauses are still buffered: they have to be imported first.
RejectPending ==
    /\ ChecksModel /\ newClauses # << >> /\ Last(newClauses) # Tautology
    /\ newClauses' = Append(newClauses, Tautology)
    /\ UNCHANGED <<proofProducing, registrarVars, userVars, trailVars,
                   renotify, propagations, foundSolution, inSearch, theoryVars,
                   cadicalVars, ghosts>>

\* getNextDecisionRequest introduced a variable.
RejectDecisionVar ==
    /\ ChecksModel /\ newClauses = << >>
    /\ AddNewVar(TRUE)
    /\ UNCHANGED <<proofProducing, activeVarsControl, activationLits,
                   assignments, assignmentControl, decisions, searchVars,
                   theoryVars, cadicalVars, ghosts>>

\* The full effort check introduced a variable.
RejectCheckVar ==
    /\ ChecksModel /\ newClauses = << >>
    /\ AddNewVar(TRUE)
    /\ checked' = Drained
    /\ newClauses' = << Tautology >>
    /\ propagations' = << >>
    /\ UNCHANGED <<proofProducing, activeVarsControl, activationLits,
                   assignments, assignmentControl, decisions, renotify,
                   foundSolution, inSearch, seen, cadicalVars, ghosts>>

\* The full effort check added a lemma, or the reason of a propagation.
RejectClause ==
    /\ ChecksModel /\ newClauses = << >>
    /\ \E c \in Clauses \cup UNION {Explanations(p) : p \in {l \in Lit : Propagatable(l)}} :
         ~Satisfied(c) /\ TheoryClause(c)
    /\ checked' = Drained
    /\ propagations' = << >>
    /\ UNCHANGED <<proofProducing, registrarVars, userVars, trailVars,
                   renotify, foundSolution, inSearch, seen, cadicalVars, inputs>>

Rejects == RejectPending \/ RejectDecisionVar \/ RejectCheckVar \/ RejectClause

\* The full model is accepted and solve returns.
AcceptModel ==
    /\ FullModel
    /\ IF foundSolution
       THEN UNCHANGED <<checked, propagations>>
       ELSE Done /\ checked' = Drained /\ propagations' = << >>
    /\ inSearch' = FALSE /\ result' = "sat"
    /\ UNCHANGED <<proofProducing, registrarVars, userVars, trailVars,
                   renotify, newClauses, foundSolution, seen, db, val, lev,
                   ghosts>>

(***************************************************************************)
(* cb_decide with stopSearch and an accepted partial model.  It is a       *)
(* solution if the decision engine is done.  CaDiCaL then decides l.       *)
(***************************************************************************)
StopSearch(l, decisionEngineDone) ==
    /\ CanDecide(l) /\ ChecksModel /\ Done
    /\ foundSolution' = decisionEngineDone
    /\ OpenLevel(l, decisionEngineDone)
    /\ checked' = Append(Drained, Last(seen))
    /\ propagations' = << >>
    /\ UNCHANGED <<proofProducing, satLiterals, userVars, renotify, newClauses,
                   inSearch, db, result, ghosts>>

(***************************************************************************)
(* solve returns without a model.  CaDiCaL has then imported all buffered  *)
(* clauses and propagations, unless the clauses are inconsistent for good. *)
(***************************************************************************)
EndUnsat ==
    /\ inSearch
    /\ Solutions(db \cup Assumed) = {}
    /\ RootUnsat \/ (newClauses = << >> /\ propagations = << >>)
    /\ inSearch' = FALSE /\ result' = "unsat"
    /\ UNCHANGED <<proofProducing, registrarVars, userVars, trailVars,
                   renotify, propagations, newClauses, foundSolution,
                   theoryVars, db, val, lev, ghosts>>

\* ResourceLimitTerminator.  CaDiCaL asks it when it has imported all that the
\* propagator holds for it: empty buffers are an assumption about CaDiCaL here.
EndUnknown ==
    /\ inSearch /\ newClauses = << >> /\ propagations = << >>
    /\ inSearch' = FALSE /\ result' = "unknown"
    /\ UNCHANGED <<proofProducing, registrarVars, userVars, trailVars,
                   renotify, propagations, newClauses, foundSolution,
                   theoryVars, db, val, lev, ghosts>>

-----------------------------------------------------------------------------
Next ==
    /\ UNCHANGED instance
    /\ \/ \E atom \in BOOLEAN : NewVar(atom)
       \/ \E c \in Clauses : AddInput(c)
       \/ Push
       \/ Pop
       \/ Solve
       \/ \E l \in Lit : Fix(l)
       \/ \E l \in Lit : Propagate(l)
       \/ Assume
       \/ \E l \in Lit : Decide(l)
       \/ \E k \in 0..DecLevel, fresh \in BOOLEAN : Backtrack(k, fresh)
       \/ \E fresh \in BOOLEAN : ResetTrail(fresh)
       \/ CbPropagate
       \/ NextPropagation
       \/ ImportClause
       \/ Rejects
       \/ AcceptModel
       \/ \E l \in Lit, done \in BOOLEAN : StopSearch(l, done)
       \/ EndUnsat
       \/ EndUnknown

Spec == Init /\ [][Next]_vars

-----------------------------------------------------------------------------
(***************************************************************************)
(* What holds for the clauses of the levels still open.                    *)
(***************************************************************************)
Given == {{1}} \cup {r.clause : r \in inputs \cup lemmas}

Problem == {v \in 1..nVars : info[v].active /\ v \notin ActivationVars}

Project(S) == {[v \in Problem |-> s[v]] : s \in S}

\* db, the buffered clauses and the activation literals assumed, as seen by
\* the variables of the problem.
Guarded == Project(Solutions(db \cup ToSet(newClauses) \cup Assumed))

\* The theories hold exactly the atoms that the propagator believes assigned,
\* except fixed literals that solve will enqueue again: through backtracking,
\* user_pop and renotify_fixed no literal is lost and none lingers.
TheoryInSync ==
    LET assigned == {info[v].asg : v \in {u \in 1..nVars :
                        info[u].active /\ info[u].atom /\ info[u].asg # 0}}
    IN /\ Last(seen) \subseteq assigned
       /\ assigned \subseteq Last(seen) \cup ToSet(renotify)
       /\ ToSet(renotify) \subseteq assigned

\* The theories know every atom of the SAT solver at every point where they
\* may be asked about one: registrations undone with the SAT context are made
\* again by notifyBacktrack, which stops at the first literal it can keep.
AtomsRegistered ==
    {v \in 1..nVars : info[v].active /\ info[v].atom} \subseteq Last(registered)

\* A fixed literal of a variable of the problem follows from clauses that are
\* still given: popping the level in which it became fixed cannot refute it.
FixedJustified ==
    \A v \in Problem : info[v].fixed =>
        \A s \in Solutions(Given) : s[v] = info[v].asg

\* Every solution of the clauses given solves the guarded ones, so an unsat
\* answer is right: no clause outlives its level (or its proof) and the units
\* added for popped variables constrain nothing.
NotTooStrong == Project(Solutions(Given)) \subseteq Guarded

\* Every solution of the guarded clauses solves the ones given: add_clause
\* drops nothing that is not satisfied for good, and pop nothing that stays.
NotTooWeak == Guarded \subseteq Project(Solutions(Given))

\* A value the propagator reports is CaDiCaL's own, at every point of a search
\* with backtracking, fixed literals and found solutions.
TrailMirrored ==
    \A v \in 1..nVars : info[v].active /\ info[v].asg # 0 => val[v] = info[v].asg

\* solve answers sat only when the propagator is done: no buffered clause and
\* no literal that a full effort check has not seen (the assertion in solve).
SatAnswerChecked ==
    result = "sat" => newClauses = << >> /\ Last(checked) = Last(seen)

\* A solution found in one search never answers the next one, wherever the
\* search ended and however its trail was undone, and neither resetTrail nor a
\* call between two searches queues anything for the next one.  That nothing is
\* queued when CaDiCaL returns is assumed of it, see EndUnsat and EndUnknown.
SearchReset ==
    Idle => /\ ~foundSolution
            /\ RootUnsat \/ (newClauses = << >> /\ propagations = << >>)

\* After a rejected model there is a clause to explain it, as CaDiCaL expects.
RejectionExplained == [][Rejects => newClauses' # << >>]_vars

\* A full model that cb_check_found_model accepts was checked in full: the
\* theories saw every atom of it, unless they settled for a partial model.
FullModelChecked ==
    result = "sat" /\ ~foundSolution =>
        \A v \in Problem : info[v].atom => val[v] \in Last(checked)
=============================================================================
