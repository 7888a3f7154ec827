---------------------------- MODULE SolverEngine ----------------------------
(***************************************************************************)
(* SolverEngine, ContextManager, SmtDriver, Assertions and                 *)
(* SolverEngineState (src/smt) in incremental mode: how the commands of    *)
(* the API reach the PropEngine.  Assertions are handed over lazily, at    *)
(* the next push or check; the level of a check-sat-assuming is popped     *)
(* lazily, at the next command; global definitions are re-asserted         *)
(* whenever a pop took them away.                                          *)
(*                                                                         *)
(* A command is a composition of the methods it calls, so the engine is    *)
(* one record st and each method an operator on it.  uctx is the user      *)
(* context: the context-dependent data of each level, as module            *)
(* ContextStack promises.  Preprocessing keeps what a formula means.       *)
(***************************************************************************)
EXTENDS Integers, Sequences, FiniteSets, SequencesExt

CONSTANTS Formulas, Definitions,  \* asserted or assumed; global definitions
          MaxPush,                \* bound on user levels
          MaxList                 \* bound on the assertion list

ASSUME ConstantsAssumption ==
    /\ Formulas \cap Definitions = {}
    /\ MaxPush \in Nat /\ MaxList \in Nat

VARIABLES
    st,        \* the engine
    answer,    \* what the SAT solver solved in the last check
    problem    \* ghost: the formulas in force at the last check

vars == <<st, answer, problem>>

(***************************************************************************)
(* Fields of st: inited, mode, queryMade of SolverEngineState; list        *)
(* (d_assertionList), next (d_assertionListIndex) and gnext                *)
(* (d_globalDefineFunLemmasIndex) of each user context level; levels       *)
(* (d_userLevels), pending (d_pendingPops), postsolve (d_needPostsolve);   *)
(* globals (d_globalDefineFunLemmas); sctx, the level of the SAT context   *)
(* below its decisions; prop, the formulas in each PropEngine level;       *)
(* trail, whether decisions of the last search are still open; usable, no  *)
(* exception that leaves the engine in an unsafe state; destroyed.         *)
(***************************************************************************)
Frame == [list : Seq(Formulas \cup Definitions), next : Nat, gnext : Nat]

Mode == {"START", "ASSERT", "SAT", "UNSAT", "SAT_UNKNOWN"}

TypeOK ==
    /\ st.inited \in BOOLEAN /\ st.mode \in Mode /\ st.queryMade \in BOOLEAN
    /\ st.uctx \in Seq(Frame) /\ st.uctx # << >>
    /\ st.levels \in Seq(Nat) /\ Len(st.levels) <= MaxPush
    /\ st.pending \in 0..1 /\ st.postsolve \in BOOLEAN
    /\ st.globals \in Seq(Definitions)
    /\ st.sctx \in Nat
    /\ st.prop \in Seq(SUBSET (Formulas \cup Definitions)) /\ st.prop # << >>
    /\ st.trail \in BOOLEAN /\ st.usable \in BOOLEAN /\ st.destroyed \in BOOLEAN

Level(s) == Len(s.uctx) - 1
Top(s) == Last(s.uctx)
SetTop(s, frame) == [s EXCEPT !.uctx = Append(Front(@), frame)]

Nowhere == [given |-> FALSE, assuming |-> {}, about |-> {}]

Init ==
    /\ st = [inited |-> FALSE, mode |-> "START", queryMade |-> FALSE,
             uctx |-> << [list |-> << >>, next |-> 0, gnext |-> 0] >>,
             levels |-> << >>, pending |-> 0, postsolve |-> FALSE,
             globals |-> << >>, sctx |-> 0, prop |-> << {} >>,
             trail |-> FALSE, usable |-> TRUE, destroyed |-> FALSE]
    /\ answer = Nowhere /\ problem = Nowhere

-----------------------------------------------------------------------------
(***************************************************************************)
(* ContextManager over the two contexts and the PropEngine.                *)
(***************************************************************************)
\* ContextManager::push, around everything.
PushContexts(s) == [s EXCEPT !.uctx = Append(@, Last(@)), !.sctx = @ + 1]

\* SolverEngine::finishInit.
FinishInit(s) ==
    IF s.inited THEN s ELSE [PushContexts(s) EXCEPT !.inited = TRUE]

\* The user context after n pops.  Mutant: d_assertionListIndex is a plain
\* member that no pop restores.
PoppedUctxIndexKept(s, n) ==
    LET k == Len(s.uctx) - n
    IN [SubSeq(s.uctx, 1, k) EXCEPT ![k].next = Top(s).next]
PoppedUctx(s, n) == SubSeq(s.uctx, 1, Len(s.uctx) - n)

\* PropEngine::pop (which pops the SAT context) and userContext()->pop().
PopLevels(s, n) ==
    [s EXCEPT !.prop = SubSeq(@, 1, Len(@) - n), !.sctx = @ - n,
              !.uctx = PoppedUctx(s, n)]

\* PropEngine::resetTrail, if postsolve is pending.
PostSolve(s) ==
    [s EXCEPT !.trail = @ /\ ~s.postsolve, !.postsolve = FALSE]

DoPendingPops(s) ==
    [PopLevels(PostSolve(s), s.pending) EXCEPT !.pending = 0]

\* SolverEngine::beginCall.  Mutant: pending pops wait for the next push.
BeginCallLazy(s) == PostSolve(FinishInit(s))
BeginCall(s) == DoPendingPops(FinishInit(s))

(***************************************************************************)
(* Assertions and SmtDriver.                                               *)
(***************************************************************************)
AddFormula(s, f) == SetTop(s, [Top(s) EXCEPT !.list = Append(@, f)])

\* Assertions::refresh.  Mutant: definitions are asserted at the level of the
\* first refresh only.
RefreshOnce(s) ==
    IF \E i \in DOMAIN s.globals : i <= Top(s).gnext THEN s
    ELSE [SetTop(s, [Top(s) EXCEPT !.list = @ \o s.globals])
            EXCEPT !.uctx = [i \in DOMAIN @ |-> [@[i] EXCEPT !.gnext = Len(s.globals)]]]
Refresh(s) ==
    SetTop(s, [Top(s) EXCEPT
                 !.list = @ \o SubSeq(s.globals, Top(s).gnext + 1, Len(s.globals)),
                 !.gnext = Len(s.globals)])

\* SmtDriver::getNextAssertions, and the formulas it puts into the pipeline.
GetNextAssertions(s) ==
    LET r == Refresh(s) IN SetTop(r, [Top(r) EXCEPT !.next = Len(Top(r).list)])
NextAssertions(s) ==
    LET t == Top(Refresh(s)) IN ToSet(SubSeq(t.list, t.next + 1, Len(t.list)))

\* SmtDriver::refreshAssertions: preprocess and assertToInternal.
RefreshAssertions(s) ==
    [GetNextAssertions(s) EXCEPT
        !.prop = Append(Front(@), Last(@) \cup NextAssertions(s))]

InternalPush(s) ==
    LET r == RefreshAssertions(DoPendingPops(s))
    IN [r EXCEPT !.uctx = Append(@, Last(@)), !.prop = Append(@, {}),
                 !.sctx = @ + 1]

UserPush(s) ==
    InternalPush([s EXCEPT !.mode = "ASSERT", !.levels = Append(@, Level(s))])

\* internalPop(true) until the level of the matching push.
UserPop(s) ==
    LET r == DoPendingPops([s EXCEPT !.mode = "ASSERT"])
    IN [PopLevels(r, Level(r) - Last(s.levels)) EXCEPT !.levels = Front(@)]

\* ContextManager::notifyCheckSat and Assertions::setAssumptions.
SetAssumptions(s, assumptions) ==
    IF assumptions = << >> THEN s
    ELSE LET p == InternalPush(s)
         IN SetTop(p, [Top(p) EXCEPT !.list = @ \o assumptions])

\* ContextManager::notifyCheckSatResult: the level is popped lazily.
NotifyCheckSatResult(s, assumptions) ==
    [s EXCEPT !.postsolve = TRUE,
              !.pending = IF assumptions = << >> THEN @ ELSE @ + 1]

\* SolverEngineState::notifyCheckSatResult.
RecordStatus(s, result) ==
    [s EXCEPT !.queryMade = TRUE,
              !.mode = IF result = "UNKNOWN" THEN "SAT_UNKNOWN" ELSE result]

-----------------------------------------------------------------------------
(***************************************************************************)
(* The formulas in force: the part of the assertion list that no pending   *)
(* pop takes away, cut at the user levels.                                 *)
(***************************************************************************)
Cut(s, k) ==
    IF k = 0 THEN 0
    ELSE IF k <= Len(s.levels) THEN Len(s.uctx[s.levels[k] + 1].list)
    ELSE Len(s.uctx[Len(s.uctx) - s.pending].list)

AssertedStack(s) ==
    [k \in 1..(Len(s.levels) + 1) |->
        ToSet(SubSeq(Top(s).list, Cut(s, k - 1) + 1, Cut(s, k))) \cap Formulas]

InForce(s) == (UNION ToSet(AssertedStack(s))) \cup ToSet(s.globals)

-----------------------------------------------------------------------------
(***************************************************************************)
(* The commands.                                                           *)
(***************************************************************************)
Usable == st.usable /\ ~st.destroyed

Room(s) == Len(Top(s).list) + Len(s.globals) < MaxList

AssertFormula(f) ==
    /\ Usable /\ Room(st)
    /\ st' = AddFormula(BeginCall(st), f)
    /\ UNCHANGED <<answer, problem>>

\* defineFunction with global = true.
DefineGlobal(d) ==
    /\ Usable /\ Room(st) /\ d \notin ToSet(st.globals)
    /\ st' = [BeginCall(st) EXCEPT !.globals = Append(@, d)]
    /\ UNCHANGED <<answer, problem>>

DeclareConst ==
    /\ Usable
    /\ st' = [st EXCEPT !.mode = "ASSERT"]
    /\ UNCHANGED <<answer, problem>>

\* simplify with substitutions.
Simplify ==
    /\ Usable
    /\ st' = RefreshAssertions(BeginCall(st))
    /\ UNCHANGED <<answer, problem>>

\* getAssertions does not process pending pops.
GetAssertions ==
    /\ Usable
    /\ st' = Refresh(FinishInit(st))
    /\ UNCHANGED <<answer, problem>>

Push ==
    /\ Usable /\ Len(st.levels) < MaxPush
    /\ st' = UserPush(RefreshAssertions(BeginCall(st)))
    /\ UNCHANGED <<answer, problem>>

Pop ==
    /\ Usable /\ st.levels # << >>
    /\ st' = UserPop(BeginCall(st))
    /\ UNCHANGED <<answer, problem>>

Assumptions == {<< >>} \cup {<<f>> : f \in Formulas}

\* The state in which SmtDriver::checkSat looks at the resource manager.
Prepared(assumptions) ==
    SetAssumptions([BeginCall(st) EXCEPT !.mode = "ASSERT"], assumptions)

\* checkSat: the problem is handed over and solved.
CheckSat(assumptions, result) ==
    /\ Usable /\ Room(st)
    /\ LET s == [RefreshAssertions(Prepared(assumptions)) EXCEPT !.trail = TRUE]
       IN /\ st' = RecordStatus(NotifyCheckSatResult(s, assumptions), result)
          /\ answer' = [given |-> TRUE, assuming |-> ToSet(assumptions),
                        about |-> UNION ToSet(s.prop)]
    /\ problem' = [given |-> TRUE, assuming |-> ToSet(assumptions),
                   about |-> InForce(st)]

\* checkSat when the resources are already used up: nothing is handed over.
CheckSatOut(assumptions) ==
    /\ Usable /\ Room(st)
    /\ st' = RecordStatus(NotifyCheckSatResult(Prepared(assumptions), assumptions),
                          "UNKNOWN")
    /\ answer' = Nowhere
    /\ problem' = [given |-> TRUE, assuming |-> ToSet(assumptions),
                   about |-> InForce(st)]

\* checkSat when preprocessing or solving throws, before or after the problem
\* is handed over: the trail is reset and the level of the assumptions stays.
CheckSatThrows(assumptions, handedOver) ==
    /\ Usable /\ Room(st)
    /\ st' = [(IF handedOver THEN RefreshAssertions(Prepared(assumptions))
                             ELSE GetNextAssertions(Prepared(assumptions)))
                EXCEPT !.trail = FALSE, !.usable = FALSE]
    /\ answer' = Nowhere /\ problem' = Nowhere

\* notifyResetAssertions, popto(0) and push, and a new PropEngine.  userPop,
\* if there is a user level, changes the mode.
ResetAssertions ==
    /\ Usable
    /\ st' = IF ~st.inited THEN st
             ELSE LET r == DoPendingPops(st)
                  IN PushContexts([r EXCEPT
                        !.mode = IF r.levels = << >> THEN @ ELSE "ASSERT",
                        !.levels = << >>,
                        !.uctx = PoppedUctx(r, Level(r)), !.sctx = 0,
                        !.prop = << {} >>])
    /\ UNCHANGED <<answer, problem>>

\* shutdown and cleanup, also after an exception.  Mutant: shutdown pops only
\* the levels that the user pushed.
ShutdownUserLevels(s) == LET r == DoPendingPops(s) IN PopLevels(r, Len(r.levels))
Shutdown(s) ==
    LET r == DoPendingPops(s) IN IF Level(r) > 1 THEN PopLevels(r, Level(r) - 1) ELSE r

Destroy ==
    /\ ~st.destroyed
    /\ LET s == Shutdown(st)
       IN st' = [s EXCEPT !.uctx = PoppedUctx(s, Level(s)), !.sctx = 0,
                          !.levels = << >>, !.destroyed = TRUE]
    /\ answer' = Nowhere /\ problem' = Nowhere

-----------------------------------------------------------------------------
Next ==
    \/ \E f \in Formulas : AssertFormula(f)
    \/ \E d \in Definitions : DefineGlobal(d)
    \/ DeclareConst \/ Simplify \/ GetAssertions
    \/ Push \/ Pop
    \/ \E a \in Assumptions, r \in {"SAT", "UNSAT", "UNKNOWN"} : CheckSat(a, r)
    \/ \E a \in Assumptions : CheckSatOut(a)
    \/ \E a \in Assumptions, h \in BOOLEAN : CheckSatThrows(a, h)
    \/ ResetAssertions
    \/ Destroy

Spec == Init /\ [][Next]_vars

-----------------------------------------------------------------------------
\* The user context, the SAT context, the PropEngine and d_userLevels agree on
\* the level, through lazy pops, nested pushes and resets.
LevelsAgree ==
    st.inited /\ ~st.destroyed =>
        /\ Len(st.prop) = Level(st) /\ st.sctx = Level(st)
        /\ st.usable => Level(st) = 1 + Len(st.levels) + st.pending
        /\ \A i \in DOMAIN st.levels : st.levels[i] = i

\* Each formula that the engine believes handed over is in the PropEngine, no
\* deeper than the level it was asserted at, so no pop takes it away too soon.
HandedOver ==
    st.usable /\ st.inited /\ ~st.destroyed =>
        \A i \in 2..Len(st.uctx) :
            /\ st.uctx[i].next <= Len(st.uctx[i].list)
            /\ ToSet(SubSeq(st.uctx[i].list, 1, st.uctx[i].next))
                 = UNION ToSet(SubSeq(st.prop, 1, i - 1))

\* Destruction leaves no level of the SAT solver open, not even after an
\* exception in the middle of a check with assumptions.
ShutdownUnwinds == st.destroyed => Len(st.prop) = 1 /\ Level(st) = 0

\* The engine implements the assertion stack: each check answers for exactly
\* the formulas in force and the assumptions of the call.
Closed == ~st.usable \/ st.destroyed

AS == INSTANCE AssertionStack WITH
        stack <- IF Closed THEN << {} >> ELSE AssertedStack(st),
        globals <- IF Closed THEN {} ELSE ToSet(st.globals),
        closed <- Closed

AnswersRight == AS!Spec

\* A model is available only right after the check that it belongs to.
ModelCurrent ==
    Usable /\ st.mode \in {"SAT", "SAT_UNKNOWN"} => problem.about = InForce(st)
=============================================================================
