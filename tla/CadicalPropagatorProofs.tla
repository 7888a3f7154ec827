----------------------- MODULE CadicalPropagatorProofs -----------------------
(***************************************************************************)
(* For any clauses and any number of variables, user levels, decisions and *)
(* buffered clauses: the propagator's trail is CaDiCaL's, the theories     *)
(* hold the assigned atoms and know all atoms, a search starts and ends    *)
(* clean, and the guarded clauses have exactly the solutions of the        *)
(* clauses given at the open levels.                                       *)
(*                                                                         *)
(* The invariant has one part per piece of state.  Levelled: the variables *)
(* of d_active_vars are ordered by user level.  Trailed: a literal lies    *)
(* behind the control mark of its level unless it is fixed.  Registered    *)
(* and Told: what the theories hold at every level of the SAT context,     *)
(* since a backtrack brings any of them back.  Guards: a stored clause is  *)
(* the clause of a record that is still given, with the activation literal *)
(* of its level, or contains a literal of a popped variable.  Justified: a *)
(* fixed literal follows from the clauses without activation literal,      *)
(* which no pop takes back.                                                *)
(***************************************************************************)
EXTENDS CadicalPropagator, SequenceLemmas

(***************************************************************************)
(* The parts of the inductive invariant.                                   *)
(***************************************************************************)
Typed ==
    /\ instance \in Instances
    /\ TypeOK
    /\ inputs \subseteq [clause : SUBSET Lit, level : Nat]
    /\ lemmas \subseteq [clause : SUBSET Lit, level : Nat]

\* What the flags of a search imply.
Modes ==
    /\ inSearch => result = "none"
    /\ Idle => decisions = << >>
    /\ ~Idle => renotify = << >>
    /\ ~inSearch => RootUnsat \/ (newClauses = << >> /\ propagations = << >>)
    /\ foundSolution => /\ decisions # << >> /\ Last(checked) = Last(seen)
                        /\ newClauses = << >> /\ propagations = << >>
    /\ result = "sat" => newClauses = << >> /\ Last(checked) = Last(seen)

\* d_active_vars lists the active variables, ordered by their user levels.
Levelled ==
    /\ \A j \in 1..UserLevel :
         LET a == activationLits[j]
         IN a \in 1..nVars /\ info[a].active /\ info[a].intro = j /\ ~info[a].atom
    /\ \A i \in 1..Len(activeVars) : activeVars[i] \in 1..nVars /\ info[activeVars[i]].active
    /\ \A v \in 1..nVars : info[v].active => \E i \in 1..Len(activeVars) : activeVars[i] = v
    /\ \A j \in 1..UserLevel : activeVarsControl[j] \in 0..Len(activeVars)
    /\ \A j \in 1..UserLevel, i \in 1..Len(activeVars) :
         (i > activeVarsControl[j]) = (info[activeVars[i]].intro >= j)
    /\ \A v \in 1..nVars : info[v].active => info[v].intro <= UserLevel
    /\ \A v \in 1..nVars : ~info[v].active => info[v].intro >= 1
    /\ info[1].intro = 0

\* The propagator's trail against CaDiCaL's assignment.
Trailed ==
    /\ \A v \in Var : val[v] \in {0, v, -v} /\ lev[v] <= DecLevel
    /\ \A v \in 1..nVars : info[v].asg \in {0, v, -v}
    /\ \A v \in 1..nVars : info[v].active =>
         /\ info[v].asg # 0 => val[v] = info[v].asg
         /\ info[v].fixed => info[v].asg # 0 /\ lev[v] = 0
         /\ info[v].asg # 0 /\ ~info[v].fixed => lev[v] >= 1
         /\ info[v].asg # 0 => \E i \in 1..Len(assignments) : assignments[i] = info[v].asg
    /\ \A i \in 1..Len(assignments) :
         LET v == VarOf(assignments[i])
         IN v \in 1..nVars /\ info[v].active /\ info[v].asg = assignments[i]
    /\ \A j \in 1..DecLevel : assignmentControl[j] <= Len(assignments)
    /\ \A j \in 1..DecLevel : \A m \in 1..j : assignmentControl[m] <= assignmentControl[j]
    /\ \A j \in 1..DecLevel, i \in 1..Len(assignments) :
         LET v == VarOf(assignments[i])
         IN ~info[v].fixed => (lev[v] >= j) = (i > assignmentControl[j])

\* Registrations of atoms that are not known below their level.
Registered ==
    /\ \A i \in 1..Len(satLiterals) :
         LET e == satLiterals[i]
         IN /\ e.var \in 1..nVars /\ e.level <= ContextLevel
            /\ e.level <= info[e.var].intro \/ info[e.var].intro = UserLevel
    /\ \A i \in 1..Len(satLiterals) : \A m \in 1..i : satLiterals[m].level <= satLiterals[i].level
    /\ \A v \in 1..nVars : info[v].active /\ info[v].atom =>
         \A j \in (1 + info[v].intro)..Len(registered) :
            \/ v \in registered[j]
            \/ \E i \in 1..Len(satLiterals) : satLiterals[i].var = v /\ satLiterals[i].level >= j

\* What the theories hold at each level of the SAT context.
AssignedAtom(l) == LET v == VarOf(l) IN v \in 1..nVars /\ info[v].active /\ info[v].atom /\ info[v].asg = l

Told ==
    /\ \A j \in 1..Len(seen) : \A l \in seen[j] :
         AssignedAtom(l) /\ (info[VarOf(l)].fixed \/ 1 + UserLevel + lev[VarOf(l)] <= j)
    /\ \A i \in 1..Len(assignments) : info[VarOf(assignments[i])].atom =>
         \A j \in 0..DecLevel : (j < DecLevel => i <= assignmentControl[j + 1]) =>
            assignments[i] \in seen[1 + UserLevel + j] \cup ToSet(renotify)
    /\ \A v \in 1..nVars : info[v].active /\ info[v].atom /\ info[v].fixed =>
         \A j \in (1 + info[v].fixedAt)..UserLevel : info[v].asg \in seen[j] \cup ToSet(renotify)
    /\ \A l \in ToSet(renotify) : AssignedAtom(l) /\ info[VarOf(l)].fixed

\* Where the clauses of CaDiCaL and of the buffer come from.
Stored == db \cup ToSet(newClauses)

Within(c, L) == \A v \in VarsOf(c) : info[v].intro <= L

InputAt(r, L) == L = r.level /\ Within(r.clause, L)
LemmaAt(r, L) ==
    /\ Within(r.clause, L)
    /\ proofProducing => L = r.level
    /\ ~proofProducing => L = 0 \/ \E v \in VarsOf(r.clause) : info[v].intro = L

Origin(c) ==
    \/ \E x \in 1..nVars : x \in c /\ ~info[x].active
    \/ c = Tautology \/ c = {1}
    \/ \E r \in inputs, L \in 0..UserLevel : InputAt(r, L) /\ c = WithActivation(r.clause, L)
    \/ \E r \in lemmas, L \in 0..UserLevel : LemmaAt(r, L) /\ c = WithActivation(r.clause, L)

FixedTrue(c) == \E l \in c : VarOf(l) \in 1..nVars /\ info[VarOf(l)].fixed /\ info[VarOf(l)].asg = l

Guards ==
    /\ {1} \in db
    /\ \A c \in Stored : VarsOf(c) \subseteq 1..nVars /\ Origin(c)
    /\ \A x \in 1..nVars : ~info[x].active => {x} \in db
    /\ \A r \in inputs \cup lemmas : \A v \in VarsOf(r.clause) : v \in Problem
    /\ \A r \in inputs : Within(r.clause, r.level)
    /\ \A r \in inputs : FixedTrue(r.clause) \/
         \E L \in 0..UserLevel : InputAt(r, L) /\ WithActivation(r.clause, L) \in Stored
    /\ \A r \in lemmas : FixedTrue(r.clause) \/
         \E L \in 0..UserLevel : LemmaAt(r, L) /\ WithActivation(r.clause, L) \in Stored

\* The clauses without a guard: they are never taken back.
Permanent == {c \in db : \A v \in VarsOf(c) : info[v].intro = 0}

Justified ==
    /\ \A v \in 1..nVars : info[v].fixed => \A s \in Solutions(db) : s[v] = info[v].asg
    /\ \A v \in Problem : info[v].fixed =>
         info[v].intro = 0 /\ \A s \in Solutions(Permanent) : s[v] = info[v].asg

IInv ==
    /\ Typed /\ Modes /\ Levelled /\ Trailed
    /\ Registered /\ Told /\ Guards /\ Justified

-----------------------------------------------------------------------------
(***************************************************************************)
(* Literals, and the operators on sequences of the model.                  *)
(***************************************************************************)
\* The instance fixes the variables.
LEMMA InstanceFacts ==
  ASSUME instance \in Instances
  PROVE  /\ MaxVar \in Nat \ {0} /\ MaxUserLevel \in Nat /\ MaxDecisions \in Nat
         /\ 1 \in Var /\ Var \subseteq Nat \ {0} /\ Lit \subseteq Int \ {0} /\ 1 \in Lit
         /\ \A v \in Var : v \in Lit /\ -v \in Lit
         /\ \A v : v \in Var <=> v \in Nat /\ 1 <= v /\ v <= MaxVar
         /\ \A c \in Clauses : c \subseteq Int \ {0}
         /\ instance.proofs \subseteq BOOLEAN
BY InstancesAssumption
   DEF MaxVar, MaxUserLevel, MaxDecisions, Var, Lit, Clauses

\* The variable of a literal.
LEMMA VarOfLit ==
  ASSUME NEW l \in Int, l # 0
  PROVE  /\ VarOf(l) \in Nat \ {0} /\ VarOf(-l) = VarOf(l)
         /\ l = VarOf(l) \/ l = -VarOf(l)
         /\ -l = VarOf(l) \/ -l = -VarOf(l)
BY DEF VarOf

\* The literals of the instance are those of its variables.
LEMMA LitVar ==
  ASSUME instance \in Instances
  PROVE  /\ \A l \in Lit : VarOf(l) \in Var /\ -l \in Lit
         /\ \A l \in Int \ {0} : VarOf(l) \in Var => l \in Lit
         /\ \A v \in Var : VarOf(v) = v /\ VarOf(-v) = v
<1>1. /\ MaxVar \in Nat \ {0} /\ Var = 1..MaxVar /\ Lit = Var \cup {-v : v \in Var}
  BY InstanceFacts DEF Var, Lit
<1>2. \A v \in Var : VarOf(v) = v /\ VarOf(-v) = v /\ -(-v) = v
  BY <1>1 DEF VarOf
<1>3. ASSUME NEW l \in Lit PROVE VarOf(l) \in Var /\ -l \in Lit
  <2>1. CASE l \in Var
    BY <1>1, <1>2, <2>1
  <2>2. CASE \E v \in Var : l = -v
    <3>1. PICK v \in Var : l = -v
      BY <2>2
    <3>2. VarOf(l) = v /\ -l = v
      BY <1>2, <3>1
    <3> QED
      BY <1>1, <3>2
  <2> QED
    BY <1>1, <2>1, <2>2
<1>4. \A l \in Int \ {0} : VarOf(l) \in Var => l \in Lit
  BY <1>1, VarOfLit
<1> QED
  BY <1>2, <1>3, <1>4

\* Which elements AddTop changes.
LEMMA TopAdded ==
  ASSUME NEW S, NEW s \in Seq(S), Len(s) >= 1, NEW X, s[Len(s)] \cup X \in S,
         NEW t, t = AddTop(s, X)
  PROVE  /\ t \in Seq(S) /\ Len(t) = Len(s) /\ t[Len(s)] = s[Len(s)] \cup X
         /\ \A i \in 1..(Len(s) - 1) : t[i] = s[i]
<1>1. s # << >> /\ Len(s) \in Nat
  BY EmptySeq
<1>2. Last(s) = s[Len(s)]
  BY <1>1 DEF Last
<1>3. PICK Y \in S : Y = s[Len(s)] \cup X
  BY <1>2
<1>4. AddTop(s, X) = Append(Front(s), Y)
  BY <1>2, <1>3 DEF AddTop
<1>5. t = Append(Front(s), Y)
  BY <1>4
<1> QED
  BY <1>1, <1>3, <1>5, ReplaceLast

\* A bounded set of naturals has a largest element.
LEMMA MaxExists ==
  ASSUME NEW n \in Nat, NEW X, X \subseteq 0..n, X # {}
  PROVE  Max(X) \in X /\ \A x \in X : x <= Max(X)
<1> DEFINE Y == {n - x : x \in X}
<1>1. Y \subseteq Nat /\ Y # {}
  OBVIOUS
<1>2. PICK m \in Y : \A k \in Y : m <= k
  <2> HIDE DEF Y
  <2> QED
    BY <1>1, LeastNat
<1>3. PICK z \in X : m = n - z
  BY <1>2
<1>4. \A x \in X : z >= x
  <2> TAKE x \in X
  <2>1. n - z <= n - x /\ x \in 0..n /\ z \in 0..n
    BY <1>2, <1>3
  <2> QED
    BY <2>1
<1>5. Max(X) \in X /\ \A x \in X : Max(X) >= x
  BY <1>3, <1>4 DEF Max
<1>6. Max(X) \in 0..n
  BY <1>5
<1> QED
  BY <1>5, <1>6

\* The types, one by one.
LEMMA TypedFacts ==
  ASSUME Typed
  PROVE  /\ instance \in Instances /\ proofProducing \in BOOLEAN /\ nVars \in Var
         /\ nVars \in Nat \ {0} /\ 1..nVars \subseteq Var /\ \A v \in 1..nVars : v \in Nat \ {0}
         /\ info \in [Var -> VarInfo] /\ val \in [Var -> Lit \cup {0}] /\ lev \in [Var -> Nat]
         /\ activeVars \in Seq(Var) /\ activationLits \in Seq(Var)
         /\ Len(activationLits) = UserLevel /\ UserLevel \in Nat /\ DecLevel \in Nat
         /\ Len(assignmentControl) = DecLevel
         /\ assignments \in Seq(Lit) /\ renotify \in Seq(Lit)
         /\ propagations \in Seq(Lit) /\ decisions \in Seq(Lit \cup {0})
         /\ activeVarsControl \in Seq(Nat) /\ assignmentControl \in Seq(Nat)
         /\ newClauses \in Seq(SUBSET Lit) /\ db \subseteq SUBSET Lit
         /\ seen \in Seq(SUBSET Lit) /\ checked \in Seq(SUBSET Lit)
         /\ registered \in Seq(SUBSET Var)
         /\ Len(seen) = 1 + UserLevel + DecLevel /\ Len(checked) = Len(seen)
         /\ Len(registered) = Len(seen)
         /\ satLiterals \in Seq([var : Var, level : Nat])
         /\ ContextLevel = UserLevel + DecLevel
<1>1. /\ instance \in Instances /\ TypeOK
  BY DEF Typed
<1>2. instance.proofs \subseteq BOOLEAN /\ Var = 1..MaxVar /\ MaxVar \in Nat \ {0}
  BY <1>1, InstanceFacts DEF Var
<1>3. nVars \in Nat \ {0} /\ 1..nVars \subseteq Var /\ \A v \in 1..nVars : v \in Nat \ {0}
  BY <1>1, <1>2 DEF TypeOK
<1>4. UserLevel \in Nat /\ DecLevel \in Nat
  BY <1>1 DEF TypeOK, UserLevel, DecLevel
<1> QED
  BY <1>1, <1>2, <1>3, <1>4 DEF TypeOK, ContextLevel

\* The variables created, before and after a step.
LEMMA Created ==
  Typed => /\ nVars \in Nat \ {0} /\ 1..nVars \subseteq Var
           /\ UserLevel \in Nat /\ DecLevel \in Nat /\ Len(activationLits) = UserLevel
           /\ Len(seen) = 1 + UserLevel + DecLevel /\ Len(registered) = Len(seen)
           /\ Len(checked) = Len(seen) /\ Len(assignmentControl) = DecLevel
BY TypedFacts

\* The same after a step.
LEMMA CreatedNext ==
  (Typed => /\ nVars \in Nat \ {0} /\ 1..nVars \subseteq Var
            /\ UserLevel \in Nat /\ DecLevel \in Nat /\ Len(activationLits) = UserLevel
            /\ Len(seen) = 1 + UserLevel + DecLevel /\ Len(registered) = Len(seen)
            /\ Len(checked) = Len(seen) /\ Len(assignmentControl) = DecLevel)'
BY Created, PTL

\* The fields of a variable.
LEMMA InfoFields ==
  ASSUME Typed, NEW v \in Var
  PROVE  /\ info[v] \in VarInfo
         /\ info[v].intro \in Nat /\ info[v].fixedAt \in Nat /\ info[v].asg \in Lit \cup {0}
         /\ info[v].atom \in BOOLEAN /\ info[v].fixed \in BOOLEAN /\ info[v].active \in BOOLEAN
<1>1. info[v] \in VarInfo
  BY TypedFacts
<1> QED
  BY <1>1 DEF VarInfo

\* The elements of a sequence have its type.
LEMMA SeqElement ==
  ASSUME NEW S, NEW s \in Seq(S)
  PROVE  Len(s) \in Nat /\ \A i \in 1..Len(s) : s[i] \in S
OBVIOUS

\* The elements of the sequences.
LEMMA Elements ==
  ASSUME Typed
  PROVE  /\ \A i \in 1..Len(activeVars) : activeVars[i] \in Var
         /\ \A i \in 1..Len(assignments) : assignments[i] \in Lit
         /\ \A i \in 1..Len(seen) : seen[i] \subseteq Lit /\ checked[i] \subseteq Lit
         /\ \A i \in 1..Len(registered) : registered[i] \subseteq Var
         /\ \A i \in 1..UserLevel : activationLits[i] \in Var /\ activeVarsControl[i] \in Nat
         /\ \A i \in 1..DecLevel : assignmentControl[i] \in Nat /\ decisions[i] \in Lit \cup {0}
         /\ \A i \in 1..Len(satLiterals) :
               satLiterals[i].var \in Var /\ satLiterals[i].level \in Nat
         /\ ToSet(renotify) \subseteq Lit /\ ToSet(newClauses) \subseteq SUBSET Lit
<1>1. /\ \A i \in 1..Len(activeVars) : activeVars[i] \in Var
      /\ \A i \in 1..Len(assignments) : assignments[i] \in Lit
      /\ \A i \in 1..Len(seen) : seen[i] \subseteq Lit /\ checked[i] \subseteq Lit
      /\ \A i \in 1..Len(registered) : registered[i] \subseteq Var
  <2>1. \A i \in 1..Len(activeVars) : activeVars[i] \in Var
    BY TypedFacts, SeqElement
  <2>2. \A i \in 1..Len(assignments) : assignments[i] \in Lit
    BY TypedFacts, SeqElement
  <2>3. \A i \in 1..Len(seen) : seen[i] \in SUBSET Lit
    BY TypedFacts, SeqElement
  <2>4. \A i \in 1..Len(checked) : checked[i] \in SUBSET Lit
    BY TypedFacts, SeqElement
  <2>5. \A i \in 1..Len(registered) : registered[i] \in SUBSET Var
    BY TypedFacts, SeqElement
  <2>6. Len(checked) = Len(seen)
    BY TypedFacts
  <2> QED
    BY <2>1, <2>2, <2>3, <2>4, <2>5, <2>6
<1>2. \A i \in 1..UserLevel : activationLits[i] \in Var /\ activeVarsControl[i] \in Nat
  <2>1. \A i \in 1..Len(activationLits) : activationLits[i] \in Var
    BY TypedFacts, SeqElement
  <2>2. \A i \in 1..Len(activeVarsControl) : activeVarsControl[i] \in Nat
    BY TypedFacts, SeqElement
  <2>3. Len(activationLits) = UserLevel /\ Len(activeVarsControl) = UserLevel
    BY TypedFacts DEF UserLevel
  <2> QED
    BY <2>1, <2>2, <2>3
<1>3. \A i \in 1..DecLevel : assignmentControl[i] \in Nat /\ decisions[i] \in Lit \cup {0}
  <2>1. \A i \in 1..Len(assignmentControl) : assignmentControl[i] \in Nat
    BY TypedFacts, SeqElement
  <2>2. \A i \in 1..Len(decisions) : decisions[i] \in Lit \cup {0}
    BY TypedFacts, SeqElement
  <2>3. Len(assignmentControl) = DecLevel /\ Len(decisions) = DecLevel
    BY TypedFacts DEF DecLevel
  <2> QED
    BY <2>1, <2>2, <2>3
<1>4. ASSUME NEW i \in 1..Len(satLiterals)
      PROVE  satLiterals[i].var \in Var /\ satLiterals[i].level \in Nat
  <2>1. satLiterals[i] \in [var : Var, level : Nat]
    BY TypedFacts, SeqElement
  <2> QED
    BY <2>1
<1>5. ToSet(renotify) \subseteq Lit /\ ToSet(newClauses) \subseteq SUBSET Lit
  BY TypedFacts, SeqSet
<1> QED
  BY <1>1, <1>2, <1>3, <1>4, <1>5

-----------------------------------------------------------------------------
(***************************************************************************)
(* Clauses and their solutions.                                            *)
(***************************************************************************)
\* A clause that may be added has variables of the problem.
LEMMA UsableVars ==
  ASSUME Typed, NEW c \in SUBSET (Int \ {0}), Usable(c)
  PROVE  /\ c \subseteq Lit /\ VarsOf(c) \subseteq 1..nVars
         /\ \A v \in VarsOf(c) : v \in Problem
<1>1. ASSUME NEW l \in c
      PROVE  VarOf(l) \in 1..nVars /\ VarOf(l) \in Problem /\ l \in Lit
  <2>1. VarOf(l) \in Nat \ {0} /\ l \in Int \ {0}
    BY VarOfLit
  <2>2. VarOf(l) \in VarsOf(c)
    BY DEF VarsOf
  <2>3. VarOf(l) <= nVars /\ info[VarOf(l)].active /\ VarOf(l) \notin ActivationVars
    BY <2>2 DEF Usable
  <2>4. nVars \in Nat /\ 1..nVars \subseteq Var /\ instance \in Instances
    BY TypedFacts
  <2>5. VarOf(l) \in 1..nVars
    BY <2>1, <2>3, <2>4
  <2>6. VarOf(l) \in Problem
    BY <2>3, <2>5 DEF Problem
  <2> QED
    BY <2>1, <2>4, <2>5, <2>6, LitVar
<1> QED
  BY <1>1 DEF VarsOf

\* The level of a clause: no variable of it is above, and it is the level of
\* one of them unless it is base.
LEMMA LevelOfIs ==
  ASSUME Typed, Levelled, NEW c \in SUBSET (Int \ {0}), Usable(c),
         NEW base \in 0..UserLevel
  PROVE  LET L == LevelOf(c, base) IN
         /\ L \in 0..UserLevel /\ base <= L /\ Within(c, L)
         /\ L = base \/ \E v \in VarsOf(c) : info[v].intro = L
<1> DEFINE X == {base} \cup {info[v].intro : v \in VarsOf(c)}
<1>1. UserLevel \in Nat /\ 1..nVars \subseteq Var
  BY TypedFacts
<1>2. \A v \in VarsOf(c) : v \in 1..nVars /\ info[v].active /\ v \in Var
  BY <1>1, UsableVars DEF Usable
<1>3. \A v \in VarsOf(c) : info[v].intro \in Nat /\ info[v].intro <= UserLevel
  BY <1>2, InfoFields DEF Levelled
<1>4. X \subseteq 0..UserLevel /\ X # {}
  BY <1>1, <1>3
<1>5. LevelOf(c, base) = Max(X)
  BY DEF LevelOf
<1>6. base \in X /\ \A v \in VarsOf(c) : info[v].intro \in X
  OBVIOUS
<1>7. \A x \in X : x = base \/ \E v \in VarsOf(c) : info[v].intro = x
  OBVIOUS
<1> HIDE DEF X
<1>8. Max(X) \in X /\ \A x \in X : x <= Max(X)
  BY <1>1, <1>4, MaxExists
<1> QED
  BY <1>4, <1>5, <1>6, <1>7, <1>8 DEF Within

\* The assignments of the variables 1..n that satisfy the clauses cs.
Models(n, cs) ==
    {s \in [1..n -> Int] : /\ \A v \in 1..n : s[v] = v \/ s[v] = -v
                           /\ \A c \in cs : Holds(c, s)}

\* The solutions of the model are those assignments.
LEMMA SolutionsAre ==
  ASSUME nVars \in Nat, NEW cs
  PROVE  Solutions(cs) = Models(nVars, cs)
<1>1. ASSUME NEW s \in Solutions(cs) PROVE s \in Models(nVars, cs)
  <2>1. PICK T \in SUBSET (1..nVars) : s = Assignment(T)
    BY DEF Solutions
  <2>2. s = [v \in 1..nVars |-> IF v \in T THEN v ELSE -v]
    BY <2>1 DEF Assignment
  <2>3. s \in [1..nVars -> Int] /\ \A v \in 1..nVars : s[v] = v \/ s[v] = -v
    BY <2>2
  <2>4. \A c \in cs : Holds(c, s)
    BY DEF Solutions
  <2> QED
    BY <2>3, <2>4 DEF Models
<1>2. ASSUME NEW s \in Models(nVars, cs) PROVE s \in Solutions(cs)
  <2>1. /\ s \in [1..nVars -> Int] /\ \A v \in 1..nVars : s[v] = v \/ s[v] = -v
        /\ \A c \in cs : Holds(c, s)
    BY DEF Models
  <2> DEFINE T == {v \in 1..nVars : s[v] = v}
  <2>2. Assignment(T) = [v \in 1..nVars |-> s[v]]
    <3>1. \A v \in 1..nVars : s[v] = IF v \in T THEN v ELSE -v
      BY <2>1
    <3> QED
      BY <3>1 DEF Assignment
  <2>3. s = Assignment(T)
    BY <2>1, <2>2
  <2>4. T \in SUBSET (1..nVars)
    OBVIOUS
  <2> HIDE DEF T
  <2>5. s \in {Assignment(Q) : Q \in SUBSET (1..nVars)}
    BY <2>3, <2>4
  <2> QED
    BY <2>1, <2>5 DEF Solutions
<1> QED
  BY <1>1, <1>2

\* The sets of solutions that the invariant is about.
LEMMA DbSolutions ==
  nVars \in Nat => /\ RootUnsat <=> Models(nVars, db) = {}
                   /\ Solutions(db) = Models(nVars, db)
                   /\ Solutions(Permanent) = Models(nVars, Permanent)
BY SolutionsAre DEF RootUnsat

\* The same after a step.
LEMMA DbSolutionsNext ==
  (nVars \in Nat => /\ RootUnsat <=> Models(nVars, db) = {}
                    /\ Solutions(db) = Models(nVars, db)
                    /\ Solutions(Permanent) = Models(nVars, Permanent))'
BY DbSolutions, PTL

\* The literals of a clause of the variables 1..n.
LEMMA HoldsIn ==
  ASSUME NEW n \in Nat, NEW c \in SUBSET (Int \ {0}), VarsOf(c) \subseteq 1..n,
         NEW s, NEW t, \A v \in VarsOf(c) : s[v] = t[v]
  PROVE  Holds(c, s) <=> Holds(c, t)
<1>1. \A l \in c : VarOf(l) \in VarsOf(c)
  BY DEF VarsOf
<1> QED
  BY <1>1 DEF Holds

\* The clauses cs are over the variables 1..n.
Over(cs, n) == \A c \in cs : c \subseteq Int \ {0} /\ VarsOf(c) \subseteq 1..n

\* A solution of more clauses over more variables is one of these.
LEMMA ModelsShrink ==
  ASSUME NEW n \in Nat, NEW m \in Nat, n <= m, NEW cs, NEW ds, cs \subseteq ds,
         Over(cs, n), NEW s \in Models(m, ds)
  PROVE  /\ [v \in 1..n |-> s[v]] \in Models(n, cs)
         /\ \A v \in 1..n : [u \in 1..n |-> s[u]][v] = s[v]
<1>1. /\ s \in [1..m -> Int] /\ \A v \in 1..m : s[v] = v \/ s[v] = -v
      /\ \A c \in ds : Holds(c, s)
  BY DEF Models
<1>2. \A v \in 1..n : v \in 1..m
  OBVIOUS
<1> DEFINE t == [v \in 1..n |-> s[v]]
<1>3. t \in [1..n -> Int] /\ \A v \in 1..n : t[v] = s[v]
  BY <1>1, <1>2
<1> HIDE DEF t
<1>4. ASSUME NEW c \in cs PROVE Holds(c, t)
  <2>1. c \in SUBSET (Int \ {0}) /\ VarsOf(c) \subseteq 1..n /\ Holds(c, s)
    BY <1>1 DEF Over
  <2> QED
    BY <1>3, <2>1, HoldsIn
<1>5. t \in Models(n, cs)
  BY <1>1, <1>2, <1>3, <1>4 DEF Models
<1> QED
  BY <1>3, <1>5 DEF t

\* Clauses without solution stay without one.
LEMMA UnsatStays ==
  ASSUME nVars \in Nat, nVars' \in Nat, nVars <= nVars', db \subseteq db',
         Over(db, nVars), RootUnsat
  PROVE  RootUnsat'
<1>1. Models(nVars, db) = {}
  BY DbSolutions
<1>2. Models(nVars', db') = {}
  BY <1>1, ModelsShrink
<1> QED
  BY <1>2, DbSolutionsNext

\* What CaDiCaL and the buffer store is over the variables created.
LEMMA StoredOver ==
  ASSUME Typed, Guards
  PROVE  Over(Stored, nVars) /\ Over(db, nVars) /\ db \subseteq Stored
<1>1. Stored \subseteq SUBSET Lit /\ Lit \subseteq Int \ {0}
  BY TypedFacts, Elements, InstanceFacts DEF Stored
<1>2. db \subseteq Stored
  BY DEF Stored
<1> QED
  BY <1>1, <1>2 DEF Over, Guards

-----------------------------------------------------------------------------
(***************************************************************************)
(* Fixed literals: all steps but Fix.                                      *)
(***************************************************************************)
\* No literal becomes fixed, and what was fixed stays justified.
LEMMA JustifiedGrows ==
  ASSUME Typed, Typed', Justified, Guards, nVars <= nVars', db \subseteq db',
         \A v \in 1..nVars : info'[v].intro = info[v].intro,
         \A v \in 1..nVars' : info'[v].fixed =>
            /\ v \in 1..nVars /\ info[v].fixed /\ info'[v].asg = info[v].asg
            /\ v \in Problem' => v \in Problem
  PROVE  Justified'
<1>1. nVars \in Nat /\ nVars' \in Nat
  <2>1. nVars \in Nat
    BY TypedFacts
  <2>2. nVars' \in Nat
    BY CreatedNext
  <2> QED
    BY <2>1, <2>2
<1>2. Over(db, nVars)
  BY StoredOver
<1>3. Permanent \subseteq db /\ Permanent' \subseteq db'
  BY DEF Permanent
<1>4. Permanent \subseteq Permanent' /\ Over(Permanent, nVars)
  <2> SUFFICES ASSUME NEW c \in Permanent PROVE c \in Permanent'
    BY <1>2, <1>3 DEF Over
  <2>1. c \in db /\ VarsOf(c) \subseteq 1..nVars /\ \A v \in VarsOf(c) : info[v].intro = 0
    BY <1>2 DEF Over, Permanent
  <2>2. \A v \in VarsOf(c) : info'[v].intro = 0
    BY <2>1
  <2> QED
    BY <2>1, <2>2 DEF Permanent
<1>5. ASSUME NEW v \in 1..nVars', info'[v].fixed, NEW s \in Models(nVars', db')
      PROVE  s[v] = info'[v].asg
  <2>1. v \in 1..nVars /\ info[v].fixed /\ info'[v].asg = info[v].asg
    BY <1>5
  <2>2. PICK t \in Models(nVars, db) : \A u \in 1..nVars : t[u] = s[u]
    <3>1. /\ [u \in 1..nVars |-> s[u]] \in Models(nVars, db)
          /\ \A u \in 1..nVars : [w \in 1..nVars |-> s[w]][u] = s[u]
      BY <1>1, <1>2, ModelsShrink
    <3> QED
      BY <3>1
  <2>3. t[v] = info[v].asg
    BY <1>1, <2>1, DbSolutions DEF Justified
  <2> QED
    BY <2>1, <2>2, <2>3
<1>6. ASSUME NEW v \in Problem', info'[v].fixed
      PROVE  /\ info'[v].intro = 0
             /\ \A s \in Models(nVars', Permanent') : s[v] = info'[v].asg
  <2>1. v \in 1..nVars'
    BY DEF Problem
  <2>2. v \in 1..nVars /\ info[v].fixed /\ info'[v].asg = info[v].asg /\ v \in Problem
    BY <1>6, <2>1
  <2>3. info[v].intro = 0 /\ \A s \in Models(nVars, Permanent) : s[v] = info[v].asg
    BY <1>1, <2>2, DbSolutions DEF Justified
  <2>4. ASSUME NEW s \in Models(nVars', Permanent') PROVE s[v] = info'[v].asg
    <3>1. PICK t \in Models(nVars, Permanent) : \A u \in 1..nVars : t[u] = s[u]
      BY <1>1, <1>4, ModelsShrink
    <3> QED
      BY <2>2, <2>3, <3>1
  <2> QED
    BY <2>2, <2>3, <2>4
<1>7. Solutions(db)' = Models(nVars', db') /\ Solutions(Permanent)' = Models(nVars', Permanent')
  BY <1>1, DbSolutionsNext
<1> QED
  BY <1>5, <1>6, <1>7 DEF Justified

-----------------------------------------------------------------------------
(***************************************************************************)
(* The stored clauses: all steps but Pop.                                  *)
(***************************************************************************)
\* A step that takes nothing back.
Grows ==
    /\ nVars <= nVars' /\ UserLevel <= UserLevel' /\ proofProducing' = proofProducing
    /\ \A j \in 1..UserLevel : activationLits'[j] = activationLits[j]
    /\ \A v \in 1..nVars : info'[v].active = info[v].active /\ info'[v].intro = info[v].intro
    /\ \A v \in 1..nVars : info[v].fixed => info'[v].fixed /\ info'[v].asg = info[v].asg
    /\ \A v \in 1..nVars' : v \in 1..nVars \/ info'[v].active
    /\ \A v \in Problem : v \in Problem'
    /\ db \subseteq db' /\ Stored \subseteq Stored'
    /\ inputs \subseteq inputs' /\ lemmas \subseteq lemmas'

\* Where a clause may come from does not change.
LEMMA OriginGrows ==
  ASSUME Typed, Typed', Guards, Grows
  PROVE  /\ \A L \in 0..UserLevel : L \in 0..UserLevel'
         /\ \A c, L : L \in 0..UserLevel => WithActivation(c, L)' = WithActivation(c, L)
         /\ \A c : FixedTrue(c) => FixedTrue(c)'
         /\ \A c : c \in Stored => Origin(c)'
         /\ \A r \in inputs : \A L : InputAt(r, L) => InputAt(r, L)'
         /\ \A r \in lemmas : \A L : LemmaAt(r, L) => LemmaAt(r, L)'
         /\ \A r \in inputs : Within(r.clause, r.level)'
<1>1. /\ nVars \in Nat /\ nVars' \in Nat /\ UserLevel \in Nat /\ UserLevel' \in Nat
      /\ 1..nVars \subseteq 1..nVars'
  <2>1. nVars \in Nat /\ UserLevel \in Nat
    BY Created
  <2>2. nVars' \in Nat /\ UserLevel' \in Nat
    BY CreatedNext
  <2>3. nVars <= nVars'
    BY DEF Grows
  <2> QED
    BY <2>1, <2>2, <2>3
<1>2. \A L \in 0..UserLevel : L \in 0..UserLevel' /\ (L # 0 => L \in 1..UserLevel)
  BY <1>1 DEF Grows
<1>3. \A c, L : L \in 0..UserLevel => WithActivation(c, L)' = WithActivation(c, L)
  BY <1>2 DEF WithActivation, Grows
<1>4. \A c : FixedTrue(c) => FixedTrue(c)'
  BY <1>1 DEF FixedTrue, Grows
<1>5. \A r \in inputs \cup lemmas : \A v \in VarsOf(r.clause) : v \in 1..nVars
  BY DEF Guards, Problem
<1>6. \A r \in inputs \cup lemmas : \A L : Within(r.clause, L) => Within(r.clause, L)'
  BY <1>5 DEF Within, Grows
<1>7. \A r \in inputs : \A L : InputAt(r, L) => InputAt(r, L)'
  BY <1>6 DEF InputAt
<1>10. \A r \in inputs : Within(r.clause, r.level)'
  BY <1>6 DEF Guards
<1>8. ASSUME NEW r \in lemmas, NEW L, LemmaAt(r, L) PROVE LemmaAt(r, L)'
  <2>1. Within(r.clause, L)'
    BY <1>6, <1>8 DEF LemmaAt
  <2>2. \A v \in VarsOf(r.clause) : info'[v].intro = info[v].intro
    BY <1>5 DEF Grows
  <2> QED
    BY <1>8, <2>1, <2>2 DEF LemmaAt, Grows
<1>9. ASSUME NEW c \in Stored PROVE Origin(c)'
  <2>1. Origin(c)
    BY DEF Guards
  <2>2. CASE \E x \in 1..nVars : x \in c /\ ~info[x].active
    BY <1>1, <2>2 DEF Origin, Grows
  <2>3. CASE c = Tautology \/ c = {1}
    BY <2>3 DEF Origin, Tautology
  <2>4. CASE \E r \in inputs, L \in 0..UserLevel :
                InputAt(r, L) /\ c = WithActivation(r.clause, L)
    <3>1. PICK r \in inputs, L \in 0..UserLevel :
                InputAt(r, L) /\ c = WithActivation(r.clause, L)
      BY <2>4
    <3>2. /\ r \in inputs' /\ L \in 0..UserLevel' /\ InputAt(r, L)'
          /\ c = WithActivation(r.clause, L)'
      BY <1>2, <1>3, <1>7, <3>1 DEF Grows
    <3> QED
      BY <3>2 DEF Origin
  <2>5. CASE \E r \in lemmas, L \in 0..UserLevel :
                LemmaAt(r, L) /\ c = WithActivation(r.clause, L)
    <3>1. PICK r \in lemmas, L \in 0..UserLevel :
                LemmaAt(r, L) /\ c = WithActivation(r.clause, L)
      BY <2>5
    <3>2. /\ r \in lemmas' /\ L \in 0..UserLevel' /\ LemmaAt(r, L)'
          /\ c = WithActivation(r.clause, L)'
      BY <1>2, <1>3, <1>8, <3>1 DEF Grows
    <3> QED
      BY <3>2 DEF Origin
  <2> QED
    BY <2>1, <2>2, <2>3, <2>4, <2>5 DEF Origin
<1> QED
  BY <1>2, <1>3, <1>4, <1>7, <1>8, <1>9, <1>10

\* A step that takes nothing back keeps the guards, if what it adds has them.
LEMMA GuardsGrow ==
  ASSUME Typed, Typed', Guards, Grows,
         \A c \in Stored' : c \in Stored \/ (VarsOf(c) \subseteq 1..nVars' /\ Origin(c)'),
         \A r \in inputs' \cup lemmas' :
            r \in inputs \cup lemmas \/ \A v \in VarsOf(r.clause) : v \in Problem',
         \A r \in inputs' : r \in inputs \/ Within(r.clause, r.level)',
         \A r \in inputs' : r \in inputs \/ FixedTrue(r.clause)' \/
            \E L \in 0..UserLevel' : InputAt(r, L)' /\ WithActivation(r.clause, L)' \in Stored',
         \A r \in lemmas' : r \in lemmas \/ FixedTrue(r.clause)' \/
            \E L \in 0..UserLevel' : LemmaAt(r, L)' /\ WithActivation(r.clause, L)' \in Stored'
  PROVE  Guards'
<1>1. 1..nVars \subseteq 1..nVars'
  <2>1. nVars \in Nat /\ nVars' \in Nat /\ nVars <= nVars'
    BY Created, CreatedNext DEF Grows
  <2> QED
    BY <2>1
<1>2. ({1} \in db)'
  BY DEF Guards, Grows
<1>3. \A c \in Stored' : VarsOf(c) \subseteq 1..nVars' /\ Origin(c)'
  BY <1>1, OriginGrows DEF Guards
<1>4. \A x \in 1..nVars' : ~info'[x].active => {x} \in db'
  BY DEF Guards, Grows
<1>5. \A r \in inputs' \cup lemmas' : \A v \in VarsOf(r.clause) : v \in Problem'
  BY DEF Guards, Grows
<1>6. ASSUME NEW r \in inputs'
      PROVE  FixedTrue(r.clause)' \/
             \E L \in 0..UserLevel' : InputAt(r, L)' /\ WithActivation(r.clause, L)' \in Stored'
  <2>1. CASE r \in inputs
    <3>1. CASE FixedTrue(r.clause)
      BY <3>1, OriginGrows
    <3>2. CASE \E L \in 0..UserLevel : InputAt(r, L) /\ WithActivation(r.clause, L) \in Stored
      <4>1. PICK L \in 0..UserLevel : InputAt(r, L) /\ WithActivation(r.clause, L) \in Stored
        BY <3>2
      <4>2. /\ L \in 0..UserLevel' /\ InputAt(r, L)'
            /\ WithActivation(r.clause, L)' = WithActivation(r.clause, L)
        BY <2>1, <4>1, OriginGrows
      <4>3. WithActivation(r.clause, L)' \in Stored'
        BY <4>1, <4>2 DEF Grows
      <4> QED
        BY <4>2, <4>3
    <3> QED
      BY <2>1, <3>1, <3>2 DEF Guards
  <2> QED
    BY <2>1
<1>7. ASSUME NEW r \in lemmas'
      PROVE  FixedTrue(r.clause)' \/
             \E L \in 0..UserLevel' : LemmaAt(r, L)' /\ WithActivation(r.clause, L)' \in Stored'
  <2>1. CASE r \in lemmas
    <3>1. CASE FixedTrue(r.clause)
      BY <3>1, OriginGrows
    <3>2. CASE \E L \in 0..UserLevel : LemmaAt(r, L) /\ WithActivation(r.clause, L) \in Stored
      <4>1. PICK L \in 0..UserLevel : LemmaAt(r, L) /\ WithActivation(r.clause, L) \in Stored
        BY <3>2
      <4>2. /\ L \in 0..UserLevel' /\ LemmaAt(r, L)'
            /\ WithActivation(r.clause, L)' = WithActivation(r.clause, L)
        BY <2>1, <4>1, OriginGrows
      <4>3. WithActivation(r.clause, L)' \in Stored'
        BY <4>1, <4>2 DEF Grows
      <4> QED
        BY <4>2, <4>3
    <3> QED
      BY <2>1, <3>1, <3>2 DEF Guards
  <2> QED
    BY <2>1
<1>8. \A r \in inputs' : Within(r.clause, r.level)'
  BY OriginGrows
<1> QED
  BY <1>2, <1>3, <1>4, <1>5, <1>6, <1>7, <1>8 DEF Guards

-----------------------------------------------------------------------------
(***************************************************************************)
(* Steps that leave the variables alone or create one.                     *)
(***************************************************************************)
\* The variables and their levels stay.
SameVars ==
    /\ UNCHANGED <<instance, nVars, activeVars, activeVarsControl, activationLits>>
    /\ \A v \in 1..nVars : /\ info'[v].active = info[v].active
                           /\ info'[v].intro = info[v].intro
                           /\ info'[v].atom = info[v].atom

\* One variable is created in the current user level.
OneMore ==
    /\ UNCHANGED <<instance, activeVarsControl, activationLits>>
    /\ nVars + 1 \in Var
    /\ nVars' = nVars + 1 /\ activeVars' = Append(activeVars, nVars + 1)
    /\ \A v \in 1..nVars : /\ info'[v].active = info[v].active
                           /\ info'[v].intro = info[v].intro
                           /\ info'[v].atom = info[v].atom
    /\ info'[nVars + 1].active /\ info'[nVars + 1].intro = UserLevel

\* The variables up to n after one was added.
LEMMA UpToNext ==
  ASSUME NEW n \in Nat
  PROVE  /\ n + 1 \in 1..(n + 1) /\ n + 1 \notin 1..n /\ 1..n \subseteq 1..(n + 1)
         /\ \A v \in 1..(n + 1) : v \in 1..n \/ v = n + 1
OBVIOUS

\* Levelled is about the variables only.
LEMMA LevelledSame ==
  ASSUME Typed, Levelled, SameVars
  PROVE  Levelled' /\ Problem' = Problem /\ UserLevel' = UserLevel
<1>1. /\ nVars' = nVars /\ activeVars' = activeVars /\ UserLevel' = UserLevel
      /\ activeVarsControl' = activeVarsControl /\ activationLits' = activationLits
  BY DEF SameVars, UserLevel
<1>2. \A v \in 1..nVars : /\ info'[v].active = info[v].active
                          /\ info'[v].intro = info[v].intro
                          /\ info'[v].atom = info[v].atom
  BY DEF SameVars
<1>3. 1 \in 1..nVars
  BY TypedFacts
<1>4. Levelled'
  <2>1. \A j \in 1..UserLevel :
           LET a == activationLits[j]
           IN a \in 1..nVars /\ info'[a].active /\ info'[a].intro = j /\ ~info'[a].atom
    BY <1>2 DEF Levelled
  <2>2. \A i \in 1..Len(activeVars) : activeVars[i] \in 1..nVars /\ info'[activeVars[i]].active
    BY <1>2 DEF Levelled
  <2>3. \A v \in 1..nVars : info'[v].active => \E i \in 1..Len(activeVars) : activeVars[i] = v
    BY <1>2 DEF Levelled
  <2>4. \A j \in 1..UserLevel, i \in 1..Len(activeVars) :
           (i > activeVarsControl[j]) = (info'[activeVars[i]].intro >= j)
    <3>1. \A i \in 1..Len(activeVars) : info'[activeVars[i]].intro = info[activeVars[i]].intro
      BY <1>2 DEF Levelled
    <3> QED
      BY <3>1 DEF Levelled
  <2>5. /\ \A v \in 1..nVars : info'[v].active => info'[v].intro <= UserLevel
        /\ \A v \in 1..nVars : ~info'[v].active => info'[v].intro >= 1
        /\ info'[1].intro = 0
    BY <1>2, <1>3 DEF Levelled
  <2>6. \A j \in 1..UserLevel : activeVarsControl[j] \in 0..Len(activeVars)
    BY DEF Levelled
  <2> QED
    BY <1>1, <2>1, <2>2, <2>3, <2>4, <2>5, <2>6 DEF Levelled
<1>5. Problem' = Problem
  BY <1>1, <1>2 DEF Problem, ActivationVars
<1> QED
  BY <1>1, <1>4, <1>5

\* A new variable is the last one, of the highest level.
LEMMA LevelledOneMore ==
  ASSUME Typed, Levelled, OneMore
  PROVE  /\ Levelled' /\ UserLevel' = UserLevel
         /\ Problem' = Problem \cup {nVars + 1}
<1>1. /\ nVars' = nVars + 1 /\ activeVars' = Append(activeVars, nVars + 1)
      /\ activeVarsControl' = activeVarsControl /\ activationLits' = activationLits
      /\ UserLevel' = UserLevel
  BY DEF OneMore, UserLevel
<1>2. \A v \in 1..nVars : /\ info'[v].active = info[v].active
                          /\ info'[v].intro = info[v].intro
                          /\ info'[v].atom = info[v].atom
  BY DEF OneMore
<1>3. info'[nVars + 1].active /\ info'[nVars + 1].intro = UserLevel
  BY DEF OneMore
<1>4. nVars \in Nat \ {0} /\ UserLevel \in Nat /\ activeVars \in Seq(Var) /\ 1..nVars \subseteq Var
  BY TypedFacts
<1>5. /\ nVars + 1 \in 1..(nVars + 1) /\ nVars + 1 \notin 1..nVars
      /\ 1..nVars \subseteq 1..(nVars + 1) /\ 1 \in 1..nVars
      /\ \A v \in 1..(nVars + 1) : v \in 1..nVars \/ v = nVars + 1
  BY <1>4
<1>6. PICK n \in Nat : n = Len(activeVars)
  BY <1>4
<1>7. /\ Len(activeVars') = n + 1 /\ activeVars'[n + 1] = nVars + 1
      /\ \A i \in 1..n : activeVars'[i] = activeVars[i]
      /\ \A i \in 1..(n + 1) : i \in 1..n \/ i = n + 1
      /\ 1..n \subseteq 1..(n + 1) /\ n + 1 \in 1..(n + 1)
  <2>1. nVars + 1 \in Var
    BY DEF OneMore
  <2> QED
    BY <1>1, <1>4, <1>6, <2>1, Appended
<1>8. /\ \A j \in 1..UserLevel :
           LET a == activationLits[j]
           IN a \in 1..nVars /\ info[a].active /\ info[a].intro = j /\ ~info[a].atom
      /\ \A i \in 1..n : activeVars[i] \in 1..nVars /\ info[activeVars[i]].active
      /\ \A v \in 1..nVars : info[v].active => \E i \in 1..n : activeVars[i] = v
      /\ \A j \in 1..UserLevel : activeVarsControl[j] \in 0..n
      /\ \A j \in 1..UserLevel, i \in 1..n :
           (i > activeVarsControl[j]) = (info[activeVars[i]].intro >= j)
      /\ \A v \in 1..nVars : info[v].active => info[v].intro <= UserLevel
      /\ \A v \in 1..nVars : ~info[v].active => info[v].intro >= 1
      /\ info[1].intro = 0
  BY <1>6 DEF Levelled
<1>9. ASSUME NEW j \in 1..UserLevel, NEW i \in 1..(n + 1)
      PROVE  (i > activeVarsControl[j]) = (info'[activeVars'[i]].intro >= j)
  <2>1. CASE i \in 1..n
    BY <1>2, <1>7, <1>8, <2>1
  <2>2. CASE i = n + 1
    <3>1. i > activeVarsControl[j]
      BY <1>8, <2>2
    <3>2. info'[activeVars'[i]].intro >= j
      BY <1>3, <1>4, <1>7, <2>2
    <3> QED
      BY <3>1, <3>2
  <2> QED
    BY <1>7, <2>1, <2>2
<1>10. Levelled'
  <2>1. \A j \in 1..UserLevel :
           LET a == activationLits[j]
           IN a \in 1..(nVars + 1) /\ info'[a].active /\ info'[a].intro = j /\ ~info'[a].atom
    BY <1>2, <1>5, <1>8
  <2>2. \A i \in 1..(n + 1) : activeVars'[i] \in 1..(nVars + 1) /\ info'[activeVars'[i]].active
    BY <1>2, <1>3, <1>5, <1>7, <1>8
  <2>3. \A v \in 1..(nVars + 1) : info'[v].active => \E i \in 1..(n + 1) : activeVars'[i] = v
    BY <1>2, <1>5, <1>7, <1>8
  <2>4. \A j \in 1..UserLevel : activeVarsControl[j] \in 0..(n + 1)
    BY <1>8
  <2>5. /\ \A v \in 1..(nVars + 1) : info'[v].active => info'[v].intro <= UserLevel
        /\ \A v \in 1..(nVars + 1) : ~info'[v].active => info'[v].intro >= 1
        /\ info'[1].intro = 0
    <3>1. ASSUME NEW v \in 1..(nVars + 1)
          PROVE  /\ info'[v].active => info'[v].intro <= UserLevel
                 /\ ~info'[v].active => info'[v].intro >= 1
      <4>1. CASE v \in 1..nVars
        BY <1>2, <1>8, <4>1
      <4>2. CASE v = nVars + 1
        BY <1>3, <1>4, <4>2
      <4> QED
        BY <1>5, <4>1, <4>2
    <3>2. info'[1].intro = 0
      BY <1>2, <1>5, <1>8
    <3> QED
      BY <3>1, <3>2
  <2> QED
    BY <1>1, <1>7, <1>9, <2>1, <2>2, <2>3, <2>4, <2>5 DEF Levelled
<1>11. Problem' = Problem \cup {nVars + 1}
  <2>1. ActivationVars' = ActivationVars
    BY <1>1 DEF ActivationVars
  <2>2. nVars + 1 \notin ActivationVars
    <3>1. ActivationVars = {activationLits[j] : j \in 1..UserLevel}
      BY TypedFacts, SeqSet DEF ActivationVars
    <3> QED
      BY <1>5, <1>8, <3>1
  <2> QED
    BY <1>1, <1>2, <1>3, <1>5, <2>1, <2>2 DEF Problem
<1> QED
  BY <1>1, <1>10, <1>11

\* The trail stays, and what is known of the variables on it.
SameTrail ==
    /\ UNCHANGED <<instance, assignments, assignmentControl, decisions, val, lev>>
    /\ nVars <= nVars'
    /\ \A v \in 1..nVars : /\ info'[v].active = info[v].active
                           /\ info'[v].asg = info[v].asg
                           /\ info'[v].fixed = info[v].fixed
    /\ \A v \in 1..nVars' : v \in 1..nVars \/ (info'[v].asg = 0 /\ ~info'[v].fixed)

\* Trailed is about the trail only.
LEMMA TrailedSame ==
  ASSUME Typed, Typed', Trailed, SameTrail
  PROVE  Trailed' /\ DecLevel' = DecLevel
<1>1. /\ assignments' = assignments /\ assignmentControl' = assignmentControl
      /\ val' = val /\ lev' = lev /\ DecLevel' = DecLevel /\ Var' = Var
  BY DEF SameTrail, DecLevel, Var, MaxVar
<1>2. \A v \in 1..nVars : /\ info'[v].active = info[v].active
                          /\ info'[v].asg = info[v].asg
                          /\ info'[v].fixed = info[v].fixed
  BY DEF SameTrail
<1>3. \A v \in 1..nVars' : v \in 1..nVars \/ (info'[v].asg = 0 /\ ~info'[v].fixed)
  BY DEF SameTrail
<1>4. 1..nVars \subseteq 1..nVars'
  <2>1. nVars \in Nat /\ nVars' \in Nat /\ nVars <= nVars'
    BY Created, CreatedNext DEF SameTrail
  <2> QED
    BY <2>1
<1>5. \A v \in 1..nVars' : info'[v].asg \in {0, v, -v}
  BY <1>2, <1>3 DEF Trailed
<1>6. \A v \in 1..nVars' : info'[v].active =>
         /\ info'[v].asg # 0 => val[v] = info'[v].asg
         /\ info'[v].fixed => info'[v].asg # 0 /\ lev[v] = 0
         /\ info'[v].asg # 0 /\ ~info'[v].fixed => lev[v] >= 1
         /\ info'[v].asg # 0 => \E i \in 1..Len(assignments) : assignments[i] = info'[v].asg
  BY <1>2, <1>3 DEF Trailed
<1>7. \A i \in 1..Len(assignments) : VarOf(assignments[i]) \in 1..nVars
  BY DEF Trailed
<1>8. \A i \in 1..Len(assignments) :
         LET v == VarOf(assignments[i])
         IN v \in 1..nVars' /\ info'[v].active /\ info'[v].asg = assignments[i]
  BY <1>2, <1>4 DEF Trailed
<1>9. \A j \in 1..DecLevel, i \in 1..Len(assignments) :
         LET v == VarOf(assignments[i])
         IN ~info'[v].fixed => (lev[v] >= j) = (i > assignmentControl[j])
  BY <1>2, <1>7 DEF Trailed
<1> QED
  BY <1>1, <1>5, <1>6, <1>8, <1>9 DEF Trailed

\* Told is about the trail and what the theories hold.
LEMMA ToldSame ==
  ASSUME Typed, Typed', Trailed, Told, SameTrail, UserLevel' = UserLevel,
         UNCHANGED <<seen, renotify>>,
         \A v \in 1..nVars : /\ info'[v].atom = info[v].atom
                             /\ info'[v].fixedAt = info[v].fixedAt
  PROVE  Told'
<1>1. /\ assignments' = assignments /\ assignmentControl' = assignmentControl
      /\ lev' = lev /\ DecLevel' = DecLevel /\ seen' = seen /\ renotify' = renotify
  BY DEF SameTrail, DecLevel
<1>2. \A v \in 1..nVars : /\ info'[v].active = info[v].active
                          /\ info'[v].asg = info[v].asg
                          /\ info'[v].fixed = info[v].fixed
                          /\ info'[v].atom = info[v].atom
                          /\ info'[v].fixedAt = info[v].fixedAt
  BY DEF SameTrail
<1>3. \A v \in 1..nVars' : v \in 1..nVars \/ (info'[v].asg = 0 /\ ~info'[v].fixed)
  BY DEF SameTrail
<1>4. 1..nVars \subseteq 1..nVars'
  <2>1. nVars \in Nat /\ nVars' \in Nat /\ nVars <= nVars'
    BY Created, CreatedNext DEF SameTrail
  <2> QED
    BY <2>1
<1>5. \A l : AssignedAtom(l) => AssignedAtom(l)' /\ VarOf(l) \in 1..nVars
  BY <1>2, <1>4 DEF AssignedAtom
<1>6. \A j \in 1..Len(seen) : \A l \in seen[j] :
         AssignedAtom(l)' /\ (info'[VarOf(l)].fixed \/ 1 + UserLevel + lev[VarOf(l)] <= j)
  BY <1>2, <1>5 DEF Told
<1>7. \A i \in 1..Len(assignments) : VarOf(assignments[i]) \in 1..nVars
  BY DEF Trailed
<1>8. \A i \in 1..Len(assignments) : info'[VarOf(assignments[i])].atom =>
         \A j \in 0..DecLevel : (j < DecLevel => i <= assignmentControl[j + 1]) =>
            assignments[i] \in seen[1 + UserLevel + j] \cup ToSet(renotify)
  BY <1>2, <1>7 DEF Told
<1>9. \A v \in 1..nVars' : info'[v].active /\ info'[v].atom /\ info'[v].fixed =>
         \A j \in (1 + info'[v].fixedAt)..UserLevel : info'[v].asg \in seen[j] \cup ToSet(renotify)
  <2> SUFFICES ASSUME NEW v \in 1..nVars',
                      info'[v].active /\ info'[v].atom /\ info'[v].fixed,
                      NEW j \in (1 + info'[v].fixedAt)..UserLevel
               PROVE  info'[v].asg \in seen[j] \cup ToSet(renotify)
    OBVIOUS
  <2>1. v \in 1..nVars
    BY <1>3
  <2>2. info[v].active /\ info[v].atom /\ info[v].fixed /\ j \in (1 + info[v].fixedAt)..UserLevel
    BY <1>2, <2>1
  <2> QED
    BY <1>2, <2>1, <2>2 DEF Told
<1>10. \A l \in ToSet(renotify) : AssignedAtom(l)' /\ info'[VarOf(l)].fixed
  BY <1>2, <1>5 DEF Told
<1> QED
  BY <1>1, <1>6, <1>8, <1>9, <1>10 DEF Told

\* Registered is about the atoms, and what is not an atom can be added.
LEMMA RegisteredSame ==
  ASSUME Typed, Typed', Registered, nVars <= nVars',
         UserLevel' = UserLevel, DecLevel' = DecLevel, UNCHANGED registrarVars,
         \A v \in 1..nVars : /\ info'[v].active = info[v].active
                             /\ info'[v].atom = info[v].atom
                             /\ info'[v].intro = info[v].intro,
         \A v \in 1..nVars' : v \in 1..nVars \/ ~info'[v].atom
  PROVE  Registered'
<1>1. 1..nVars \subseteq 1..nVars'
  <2>1. nVars \in Nat /\ nVars' \in Nat /\ nVars <= nVars'
    BY Created, CreatedNext
  <2> QED
    BY <2>1
<1>2. satLiterals' = satLiterals /\ registered' = registered /\ ContextLevel' = ContextLevel
  BY DEF registrarVars, ContextLevel
<1>3. \A i \in 1..Len(satLiterals) :
         LET e == satLiterals[i]
         IN /\ e.var \in 1..nVars' /\ e.level <= ContextLevel
            /\ e.level <= info'[e.var].intro \/ info'[e.var].intro = UserLevel
  BY <1>1 DEF Registered
<1>4. \A v \in 1..nVars' : info'[v].active /\ info'[v].atom =>
         \A j \in (1 + info'[v].intro)..Len(registered) :
            \/ v \in registered[j]
            \/ \E i \in 1..Len(satLiterals) : satLiterals[i].var = v /\ satLiterals[i].level >= j
  <2> SUFFICES ASSUME NEW v \in 1..nVars', info'[v].active /\ info'[v].atom,
                      NEW j \in (1 + info'[v].intro)..Len(registered)
               PROVE  \/ v \in registered[j]
                      \/ \E i \in 1..Len(satLiterals) :
                            satLiterals[i].var = v /\ satLiterals[i].level >= j
    OBVIOUS
  <2>1. v \in 1..nVars
    OBVIOUS
  <2>2. info[v].active /\ info[v].atom /\ j \in (1 + info[v].intro)..Len(registered)
    BY <2>1
  <2> QED
    BY <2>1, <2>2 DEF Registered
<1> QED
  BY <1>2, <1>3, <1>4 DEF Registered

-----------------------------------------------------------------------------
(***************************************************************************)
(* Atoms that the theories know.                                           *)
(***************************************************************************)
\* Every active atom is registered at the current level.
LEMMA AtomsAtTop ==
  ASSUME Typed, Levelled, Registered, NEW v \in 1..nVars, info[v].active, info[v].atom
  PROVE  v \in registered[Len(registered)] /\ info[v].intro + 1 \in 1..Len(registered)
<1>1. PICK n \in Nat : n = Len(registered) /\ n = 1 + UserLevel + DecLevel
  BY TypedFacts
<1>2. UserLevel \in Nat /\ DecLevel \in Nat /\ ContextLevel = UserLevel + DecLevel
  BY TypedFacts
<1>3. info[v].intro \in Nat /\ info[v].intro <= UserLevel
  BY TypedFacts, InfoFields DEF Levelled
<1>4. n \in (1 + info[v].intro)..n /\ info[v].intro + 1 \in 1..n
  BY <1>1, <1>2, <1>3
<1>5. \A i \in 1..Len(satLiterals) : satLiterals[i].level \in Nat /\ satLiterals[i].level <= ContextLevel
  BY Elements DEF Registered
<1>6. \A i \in 1..Len(satLiterals) : ~(satLiterals[i].level >= n)
  BY <1>1, <1>2, <1>5
<1> QED
  BY <1>1, <1>4, <1>6 DEF Registered

\* A new atom is registered at the current level, and noted.
LEMMA RegisteredNew ==
  ASSUME Typed, Typed', Levelled, Registered, OneMore, DecLevel' = DecLevel,
         satLiterals' = Append(satLiterals, [var |-> nVars + 1, level |-> ContextLevel]),
         registered' = AddTop(registered, {nVars + 1})
  PROVE  Registered'
<1>1. /\ UserLevel' = UserLevel /\ ContextLevel' = ContextLevel /\ nVars' = nVars + 1
      /\ info'[nVars + 1].intro = UserLevel
  BY DEF OneMore, UserLevel, ContextLevel
<1>2. \A v \in 1..nVars : /\ info'[v].active = info[v].active
                          /\ info'[v].intro = info[v].intro
                          /\ info'[v].atom = info[v].atom
  BY DEF OneMore
<1>3. /\ nVars \in Nat /\ UserLevel \in Nat /\ DecLevel \in Nat
      /\ ContextLevel = UserLevel + DecLevel /\ nVars + 1 \in Var
  BY TypedFacts DEF OneMore
<1>4. PICK n \in Nat : n = Len(registered) /\ n = 1 + UserLevel + DecLevel
  BY TypedFacts
<1>5. /\ Len(registered') = n
      /\ registered'[n] = registered[n] \cup {nVars + 1}
      /\ \A i \in 1..(n - 1) : registered'[i] = registered[i]
  <2>1. n >= 1 /\ registered \in Seq(SUBSET Var) /\ {nVars + 1} \in SUBSET Var
    BY <1>3, <1>4, TypedFacts
  <2>2. PICK X \in SUBSET Var : X = {nVars + 1}
    BY <2>1
  <2>3. registered' = AddTop(registered, X) /\ Len(registered) >= 1
    BY <1>4, <2>1, <2>2
  <2>a. registered[Len(registered)] \cup X \in SUBSET Var
    BY <1>4, <2>1, <2>2, Elements
  <2>4. /\ Len(registered') = Len(registered)
        /\ registered'[Len(registered)] = registered[Len(registered)] \cup X
        /\ \A i \in 1..(Len(registered) - 1) : registered'[i] = registered[i]
    <3>1. PICK S : S = SUBSET Var
      OBVIOUS
    <3>2. registered \in Seq(S) /\ registered[Len(registered)] \cup X \in S
      BY <2>1, <2>a, <3>1
    <3> QED
      BY ONLY <2>3, <3>2, TopAdded
  <2> QED
    BY <1>4, <2>2, <2>3, <2>4
<1>6. PICK m \in Nat : m = Len(satLiterals)
  BY TypedFacts, SeqElement
<1> DEFINE e == [var |-> nVars + 1, level |-> ContextLevel]
<1>7. /\ Len(satLiterals') = m + 1 /\ satLiterals'[m + 1] = e
      /\ \A i \in 1..m : satLiterals'[i] = satLiterals[i]
      /\ \A i \in 1..(m + 1) : i \in 1..m \/ i = m + 1
      /\ 1..m \subseteq 1..(m + 1) /\ m + 1 \in 1..(m + 1)
  <2>1. satLiterals \in Seq([var : Var, level : Nat]) /\ e \in [var : Var, level : Nat]
    BY <1>3, TypedFacts
  <2> HIDE DEF e
  <2>2. satLiterals' = Append(satLiterals, e)
    BY DEF e
  <2> QED
    BY <1>6, <2>1, <2>2, Appended
<1>8. e.var = nVars + 1 /\ e.level = ContextLevel
  OBVIOUS
<1> HIDE DEF e
<1>9. /\ \A i \in 1..m : /\ satLiterals[i].var \in 1..nVars
                         /\ satLiterals[i].level \in Nat /\ satLiterals[i].level <= ContextLevel
                         /\ \/ satLiterals[i].level <= info[satLiterals[i].var].intro
                            \/ info[satLiterals[i].var].intro = UserLevel
      /\ \A i \in 1..m : \A k \in 1..i : satLiterals[k].level <= satLiterals[i].level
  BY <1>6, Elements DEF Registered
<1>10. \A i \in 1..(m + 1) :
         LET x == satLiterals'[i]
         IN /\ x.var \in 1..(nVars + 1) /\ x.level <= ContextLevel
            /\ x.level <= info'[x.var].intro \/ info'[x.var].intro = UserLevel
  <2> TAKE i \in 1..(m + 1)
  <2>1. CASE i \in 1..m
    <3>1. satLiterals'[i].var \in 1..nVars /\ satLiterals'[i] = satLiterals[i]
      BY <1>7, <1>9, <2>1
    <3>2. satLiterals'[i].var \in 1..(nVars + 1)
      BY <1>3, <3>1, UpToNext
    <3> QED
      BY <1>2, <1>9, <2>1, <3>1, <3>2
  <2>2. CASE i = m + 1
    BY <1>1, <1>3, <1>7, <1>8, <2>2
  <2> QED
    BY <1>7, <2>1, <2>2
<1>11. ASSUME NEW i \in 1..(m + 1), NEW k \in 1..i
       PROVE  satLiterals'[k].level <= satLiterals'[i].level
  <2>1. CASE i \in 1..m
    <3>1. k \in 1..m /\ k \in 1..i
      BY <2>1
    <3> QED
      BY <1>7, <1>9, <2>1, <3>1
  <2>2. CASE i = m + 1 /\ k \in 1..m
    BY <1>7, <1>8, <1>9, <2>2
  <2>3. CASE i = m + 1 /\ k = m + 1
    BY <1>3, <1>7, <1>8, <2>3
  <2>4. k \in 1..m \/ k = m + 1
    BY <1>6
  <2> QED
    BY <1>7, <2>1, <2>2, <2>3, <2>4
<1>12. ASSUME NEW v \in 1..(nVars + 1), info'[v].active, info'[v].atom,
              NEW j \in (1 + info'[v].intro)..n
       PROVE  \/ v \in registered'[j]
              \/ \E i \in 1..(m + 1) : satLiterals'[i].var = v /\ satLiterals'[i].level >= j
  <2>1. CASE v \in 1..nVars
    <3>1. info[v].active /\ info[v].atom /\ j \in (1 + info[v].intro)..n /\ info[v].intro \in Nat
      BY <1>2, <1>12, <2>1, TypedFacts, InfoFields
    <3>2. j \in 1..(n - 1) \/ j = n
      BY <1>4, <3>1
    <3>3. \/ v \in registered[j]
          \/ \E i \in 1..m : satLiterals[i].var = v /\ satLiterals[i].level >= j
      BY <1>4, <1>6, <2>1, <3>1 DEF Registered
    <3> QED
      BY <1>5, <1>7, <3>2, <3>3
  <2>2. CASE v = nVars + 1
    <3>1. j \in (1 + UserLevel)..n
      BY <1>1, <1>12, <2>2
    <3>2. j = n \/ ContextLevel >= j
      BY <1>3, <1>4, <3>1
    <3>3. j = n => v \in registered'[j]
      BY <1>5, <2>2
    <3> QED
      BY <1>7, <1>8, <2>2, <3>2, <3>3
  <2> QED
    BY <1>3, <2>1, <2>2, UpToNext
<1>13. \A i \in 1..Len(satLiterals') :
         LET x == satLiterals'[i]
         IN /\ x.var \in 1..nVars' /\ x.level <= ContextLevel'
            /\ x.level <= info'[x.var].intro \/ info'[x.var].intro = UserLevel'
  BY <1>1, <1>7, <1>10
<1>14. \A i \in 1..Len(satLiterals') : \A k \in 1..i :
         satLiterals'[k].level <= satLiterals'[i].level
  BY <1>7, <1>11
<1>15. \A v \in 1..nVars' : info'[v].active /\ info'[v].atom =>
         \A j \in (1 + info'[v].intro)..Len(registered') :
            \/ v \in registered'[j]
            \/ \E i \in 1..Len(satLiterals') : satLiterals'[i].var = v /\ satLiterals'[i].level >= j
  <2>1. nVars' = nVars + 1 /\ Len(registered') = n /\ Len(satLiterals') = m + 1
    BY <1>1, <1>5, <1>7
  <2> QED
    BY <1>12, <2>1
<1> QED
  BY <1>13, <1>14, <1>15 DEF Registered

\* A level opened on top of the SAT context knows what the one below knows.
LEMMA RegisteredOpen ==
  ASSUME Typed, Typed', Levelled, Registered, nVars <= nVars',
         ContextLevel' = ContextLevel + 1, satLiterals' = satLiterals,
         registered' = Append(registered, Last(registered)),
         \A v \in 1..nVars : /\ info'[v].active = info[v].active
                             /\ info'[v].atom = info[v].atom
                             /\ info'[v].intro = info[v].intro,
         \A v \in 1..nVars' : v \in 1..nVars \/ ~info'[v].atom,
         \A i \in 1..Len(satLiterals) :
            \/ satLiterals[i].level <= info[satLiterals[i].var].intro
            \/ info[satLiterals[i].var].intro = UserLevel'
  PROVE  Registered'
<1>1. 1..nVars \subseteq 1..nVars'
  <2>1. nVars \in Nat /\ nVars' \in Nat /\ nVars <= nVars'
    BY Created, CreatedNext
  <2> QED
    BY <2>1
<1>2. PICK n \in Nat : n = Len(registered) /\ n = ContextLevel + 1 /\ n >= 1 /\ ContextLevel \in Nat
  <2>1. /\ Len(registered) = Len(seen) /\ Len(seen) = 1 + UserLevel + DecLevel
        /\ ContextLevel = UserLevel + DecLevel /\ UserLevel \in Nat /\ DecLevel \in Nat
    BY TypedFacts
  <2> QED
    BY ONLY <2>1
<1>3. /\ Len(registered') = n + 1 /\ registered'[n + 1] = registered[n]
      /\ \A i \in 1..n : registered'[i] = registered[i]
      /\ \A i \in 1..(n + 1) : i \in 1..n \/ i = n + 1
  <2>1. registered \in Seq(SUBSET Var) /\ Last(registered) = registered[n]
    BY <1>2, TypedFacts DEF Last
  <2>2. registered[n] \in SUBSET Var
    BY <1>2, Elements
  <2>3. PICK S, x : S = SUBSET Var /\ x = registered[n]
    OBVIOUS
  <2>4. /\ registered \in Seq(S) /\ x \in S /\ registered' = Append(registered, x)
        /\ Len(registered) = n
    BY <1>2, <2>1, <2>2, <2>3
  <2>5. /\ Len(registered') = n + 1 /\ registered'[n + 1] = x
        /\ \A i \in 1..n : registered'[i] = registered[i]
        /\ \A i \in 1..(n + 1) : i \in 1..n \/ i = n + 1
    BY ONLY n \in Nat, <2>4, Appended
  <2> QED
    BY <2>3, <2>5
<1>4. \A i \in 1..Len(satLiterals) :
         LET e == satLiterals[i]
         IN /\ e.var \in 1..nVars' /\ e.level <= ContextLevel'
            /\ e.level <= info'[e.var].intro \/ info'[e.var].intro = UserLevel'
  <2> TAKE i \in 1..Len(satLiterals)
  <2>1. satLiterals[i].var \in 1..nVars /\ satLiterals[i].level <= ContextLevel
    BY DEF Registered
  <2>2. satLiterals[i].level \in Nat
    BY Elements
  <2>3. satLiterals[i].level <= ContextLevel'
    BY <1>2, <2>1, <2>2
  <2> QED
    BY <1>1, <2>1, <2>3
<1>5. ASSUME NEW v \in 1..nVars', info'[v].active, info'[v].atom,
             NEW j \in (1 + info'[v].intro)..(n + 1)
      PROVE  \/ v \in registered'[j]
             \/ \E i \in 1..Len(satLiterals) : satLiterals[i].var = v /\ satLiterals[i].level >= j
  <2>1. v \in 1..nVars
    BY <1>5
  <2>2. info[v].active /\ info[v].atom /\ info'[v].intro = info[v].intro
    BY <1>5, <2>1
  <2>3. info[v].intro \in Nat
    BY <2>1, TypedFacts, InfoFields
  <2>4. j \in 1..(n + 1)
    BY <2>2, <2>3
  <2>5. CASE j \in 1..n
    <3>1. j \in (1 + info[v].intro)..n
      BY <2>2, <2>3, <2>5
    <3> QED
      BY <1>2, <1>3, <2>1, <2>2, <2>5, <3>1 DEF Registered
  <2>6. CASE j = n + 1
    <3>1. v \in registered[n]
      BY <1>2, <2>1, <2>2, AtomsAtTop
    <3> QED
      BY <1>3, <2>6, <3>1
  <2> QED
    BY <1>3, <2>4, <2>5, <2>6
<1>6. \A v \in 1..nVars' : info'[v].active /\ info'[v].atom =>
         \A j \in (1 + info'[v].intro)..Len(registered') :
            \/ v \in registered'[j]
            \/ \E i \in 1..Len(satLiterals) : satLiterals[i].var = v /\ satLiterals[i].level >= j
  BY <1>3, <1>5
<1> QED
  BY <1>4, <1>6 DEF Registered

\* A user level is closed: the atoms that stay are registered below.
LEMMA RegisteredPop ==
  ASSUME Typed, Typed', Levelled, Registered, DecLevel = 0, UserLevel >= 1,
         nVars' = nVars, satLiterals' = << >>, registered' = Front(registered),
         \A v \in 1..nVars : info'[v].atom = info[v].atom /\ info'[v].intro = info[v].intro,
         \A v \in 1..nVars : info'[v].active => info[v].active
  PROVE  Registered'
<1>1. PICK n \in Nat : n = Len(registered) /\ n = UserLevel + 1 /\ UserLevel \in Nat /\ ContextLevel = UserLevel
  BY TypedFacts
<1>2. /\ Len(registered') = n - 1 /\ n - 1 \in Nat
      /\ \A i \in 1..(n - 1) : registered'[i] = registered[i]
  <2>1. registered \in Seq(SUBSET Var) /\ registered' = SubSeq(registered, 1, n - 1)
    BY <1>1, TypedFacts DEF Front
  <2>2. n - 1 \in 0..Len(registered)
    BY <1>1
  <2> QED
    BY ONLY n \in Nat, <1>1, <2>1, <2>2, Prefix
<1>3. Len(satLiterals') = 0 /\ 1..0 = {}
  BY EmptySeq
<1>4. ASSUME NEW v \in 1..nVars, info'[v].active, info'[v].atom,
             NEW j \in (1 + info'[v].intro)..(n - 1)
      PROVE  v \in registered'[j]
  <2>1. info[v].active /\ info[v].atom /\ info'[v].intro = info[v].intro /\ info[v].intro \in Nat
    BY <1>4, TypedFacts, InfoFields
  <2>2. /\ j \in (1 + info[v].intro)..n /\ j \in 1..(n - 1) /\ j > info[v].intro
        /\ j <= UserLevel
    BY <1>1, <1>2, <2>1
  <2>3. ASSUME NEW i \in 1..Len(satLiterals), satLiterals[i].var = v, satLiterals[i].level >= j
        PROVE  FALSE
    <3>1. /\ satLiterals[i].level \in Nat /\ satLiterals[i].level <= UserLevel
          /\ satLiterals[i].level <= info[v].intro \/ info[v].intro = UserLevel
      BY <1>1, <2>3, Elements DEF Registered
    <3> QED
      BY <1>1, <2>1, <2>2, <2>3, <3>1
  <2>4. v \in registered[j]
    BY <1>1, <2>1, <2>2, <2>3 DEF Registered
  <2> QED
    BY <1>2, <2>2, <2>4
<1>5. \A v \in 1..nVars' : info'[v].active /\ info'[v].atom =>
         \A j \in (1 + info'[v].intro)..Len(registered') :
            \/ v \in registered'[j]
            \/ \E i \in 1..Len(satLiterals') : satLiterals'[i].var = v /\ satLiterals'[i].level >= j
  BY <1>2, <1>4
<1> QED
  BY <1>3, <1>5 DEF Registered

-----------------------------------------------------------------------------
(***************************************************************************)
(* Backtracking.                                                           *)
(***************************************************************************)
\* The fields of a new variable.
LEMMA NewInfoFields ==
  ASSUME NEW b \in BOOLEAN
  PROVE  /\ NewInfo(b).active /\ NewInfo(b).atom = b /\ NewInfo(b).intro = UserLevel
         /\ NewInfo(b).asg = 0 /\ ~NewInfo(b).fixed /\ NewInfo(b).fixedAt = 0
         /\ UserLevel \in Nat => NewInfo(b) \in VarInfo
BY DEF NewInfo, FreshInfo, VarInfo

\* A backtrack to level k unassigns v.
Unassigns(k, v) == ~info[v].fixed /\ \E l \in ToSet(Undone(k)) : VarOf(l) = v

\* What a backtrack to level k does to the variables.
LEMMA BacktrackInfo ==
  ASSUME Typed, NEW k, NEW fresh \in BOOLEAN, Reregister(k, fresh)
  PROVE  /\ \A v \in 1..nVars : /\ info'[v].active = info[v].active
                                /\ info'[v].atom = info[v].atom
                                /\ info'[v].intro = info[v].intro
                                /\ info'[v].fixed = info[v].fixed
                                /\ info'[v].fixedAt = info[v].fixedAt
         /\ \A v \in 1..nVars : info'[v].asg = IF Unassigns(k, v) THEN 0 ELSE info[v].asg
         /\ nVars <= nVars'
         /\ ~fresh => nVars' = nVars /\ activeVars' = activeVars
         /\ fresh => /\ nVars' = nVars + 1 /\ nVars + 1 \in Var
                     /\ activeVars' = Append(activeVars, nVars + 1)
                     /\ info'[nVars + 1] = NewInfo(TRUE)
         /\ info' \in [Var -> VarInfo]
<1>1. /\ nVars \in Nat /\ 1..nVars \subseteq Var /\ info \in [Var -> VarInfo] /\ UserLevel \in Nat
      /\ instance \in Instances /\ nVars \in Var
  BY TypedFacts
<1> DEFINE new == IF fresh THEN {nVars + 1} ELSE {}
           U(v) == Unassigns(k, v)
<1>2. /\ info' = [v \in Var |-> IF v \in new THEN NewInfo(TRUE) ELSE UnassignedInfo(k)[v]]
      /\ nVars' = IF fresh THEN nVars + 1 ELSE nVars
      /\ activeVars' = IF fresh THEN Append(activeVars, nVars + 1) ELSE activeVars
      /\ fresh => nVars < MaxVar
  BY DEF Reregister
<1>3. \A v \in Var : UnassignedInfo(k)[v] = IF U(v) THEN [info[v] EXCEPT !.asg = 0] ELSE info[v]
  BY DEF UnassignedInfo, Unassigns
<1> HIDE DEF U
<1>4. ASSUME NEW v \in Var
      PROVE  /\ UnassignedInfo(k)[v] \in VarInfo
             /\ UnassignedInfo(k)[v].active = info[v].active
             /\ UnassignedInfo(k)[v].atom = info[v].atom
             /\ UnassignedInfo(k)[v].intro = info[v].intro
             /\ UnassignedInfo(k)[v].fixed = info[v].fixed
             /\ UnassignedInfo(k)[v].fixedAt = info[v].fixedAt
             /\ UnassignedInfo(k)[v].asg = IF U(v) THEN 0 ELSE info[v].asg
  <2>1. info[v] \in VarInfo
    BY <1>1
  <2>2. CASE U(v)
    <3>1. UnassignedInfo(k)[v] = [info[v] EXCEPT !.asg = 0]
      BY <1>3, <2>2
    <3> QED
      BY <2>1, <2>2, <3>1 DEF VarInfo
  <2>3. CASE ~U(v)
    <3>1. UnassignedInfo(k)[v] = info[v]
      BY <1>3, <2>3
    <3> QED
      BY <2>1, <2>3, <3>1
  <2> QED
    BY <2>2, <2>3
<1>5. nVars + 1 \notin 1..nVars /\ nVars <= nVars'
  BY <1>1, <1>2
<1>6. \A v \in 1..nVars : v \in Var /\ v \notin new /\ info'[v] = UnassignedInfo(k)[v]
  BY <1>1, <1>2, <1>5
<1>7. fresh => nVars + 1 \in Var
  BY <1>1, <1>2, InstanceFacts DEF Var
<1>8. fresh => info'[nVars + 1] = NewInfo(TRUE)
  BY <1>2, <1>7
<1>9. NewInfo(TRUE) \in VarInfo
  BY <1>1, NewInfoFields
<1>10. info' \in [Var -> VarInfo]
  <2> HIDE DEF new
  <2> QED
    BY <1>2, <1>4, <1>9
<1>11. \A v \in 1..nVars : info'[v].asg = IF U(v) THEN 0 ELSE info[v].asg
  BY <1>4, <1>6
<1> QED
  BY <1>2, <1>4, <1>5, <1>6, <1>7, <1>8, <1>10, <1>11 DEF U

\* The variables created up to a backtrack, and by it.
LEMMA BacktrackVars ==
  ASSUME Typed, NEW k, NEW fresh \in BOOLEAN, Reregister(k, fresh)
  PROVE  /\ 1..nVars \subseteq 1..nVars'
         /\ \A v \in 1..nVars' : v \in 1..nVars \/ (fresh /\ v = nVars + 1)
         /\ fresh => /\ nVars + 1 \in 1..nVars' /\ nVars + 1 \notin 1..nVars
                     /\ info'[nVars + 1].active /\ info'[nVars + 1].atom
                     /\ info'[nVars + 1].intro = UserLevel
                     /\ info'[nVars + 1].asg = 0 /\ ~info'[nVars + 1].fixed
<1>1. nVars \in Nat
  BY TypedFacts
<1>2. (~fresh => nVars' = nVars) /\ (fresh => nVars' = nVars + 1)
  BY BacktrackInfo
<1>3. fresh => info'[nVars + 1] = NewInfo(TRUE)
  BY BacktrackInfo
<1>4. /\ NewInfo(TRUE).active /\ NewInfo(TRUE).atom /\ NewInfo(TRUE).intro = UserLevel
      /\ NewInfo(TRUE).asg = 0 /\ ~NewInfo(TRUE).fixed
  BY NewInfoFields
<1>5. CASE fresh
  <2>1. nVars' = nVars + 1 /\ info'[nVars + 1] = NewInfo(TRUE)
    BY <1>2, <1>3, <1>5
  <2>2. /\ 1..nVars \subseteq 1..nVars' /\ \A v \in 1..nVars' : v \in 1..nVars \/ v = nVars + 1
        /\ nVars + 1 \in 1..nVars' /\ nVars + 1 \notin 1..nVars
    BY ONLY <1>1, <2>1, UpToNext
  <2> QED
    BY <1>4, <1>5, <2>1, <2>2
<1>6. CASE ~fresh
  BY <1>2, <1>6
<1> QED
  BY <1>5, <1>6

\* The positions of the literals registered again.
LEMMA ReregisteredIs ==
  ASSUME Typed, Registered, NEW k \in Nat
  PROVE  \A i \in 1..Len(satLiterals) :
            i \in Reregistered(k) <=> satLiterals[i].level > UserLevel + k
<1>1. DOMAIN satLiterals = 1..Len(satLiterals) /\ Len(satLiterals) \in Nat
  BY TypedFacts, SeqElement
<1>2. \A i \in 1..Len(satLiterals) : satLiterals[i].level \in Nat
  BY Elements
<1>3. UserLevel \in Nat
  BY TypedFacts
<1>4. ASSUME NEW i \in 1..Len(satLiterals), satLiterals[i].level > UserLevel + k,
             NEW j \in i..Len(satLiterals)
      PROVE  satLiterals[j].level > UserLevel + k
  <2>1. j \in 1..Len(satLiterals) /\ i \in 1..j
    BY <1>1
  <2>2. satLiterals[i].level <= satLiterals[j].level
    BY <2>1 DEF Registered
  <2> QED
    BY <1>2, <1>3, <1>4, <2>1, <2>2
<1>5. \A i \in 1..Len(satLiterals) : i \in i..Len(satLiterals)
  BY <1>1
<1> QED
  BY <1>1, <1>4, <1>5 DEF Reregistered

\* What is registered and noted after a backtrack.
LEMMA ReregisterDoes ==
  ASSUME Typed, Registered, NEW k \in Nat, k < DecLevel, NEW fresh \in BOOLEAN,
         Reregister(k, fresh)
  PROVE  LET m == Len(satLiterals)
             L == UserLevel + k
         IN /\ Len(registered') = L + 1
            /\ \A j \in 1..(L + 1) : registered[j] \subseteq registered'[j]
            /\ \A i \in 1..m : satLiterals[i].level > L => satLiterals[i].var \in registered'[L + 1]
            /\ fresh => nVars + 1 \in registered'[L + 1]
            /\ registered' \in Seq(SUBSET Var)
            /\ Len(satLiterals') = IF fresh THEN m + 1 ELSE m
            /\ satLiterals' \in Seq([var : Var, level : Nat])
            /\ \A i \in 1..m : /\ satLiterals'[i].var = satLiterals[i].var
                               /\ satLiterals'[i].level =
                                     IF satLiterals[i].level > L THEN L ELSE satLiterals[i].level
            /\ fresh => satLiterals'[m + 1].var = nVars + 1 /\ satLiterals'[m + 1].level = L
<1> DEFINE again == Reregistered(k)
           new == IF fresh THEN {nVars + 1} ELSE {}
           lowered == [i \in DOMAIN satLiterals |-> IF i \in again
                         THEN [satLiterals[i] EXCEPT !.level = UserLevel + k]
                         ELSE satLiterals[i]]
           e == [var |-> nVars + 1, level |-> UserLevel + k]
           T == [var : Var, level : Nat]
           X == {satLiterals[i].var : i \in again} \cup new
<1>1. /\ satLiterals' = IF fresh THEN Append(lowered, e) ELSE lowered
      /\ registered' = AddTop(PopContexts(registered, k), X)
  BY DEF Reregister
<1>2. PICK m \in Nat : m = Len(satLiterals) /\ DOMAIN satLiterals = 1..m
  BY TypedFacts, SeqElement
<1>3. PICK L \in Nat : L = UserLevel + k
  BY TypedFacts
<1>4. /\ L + 1 \in 1..Len(registered) /\ registered \in Seq(SUBSET Var)
      /\ nVars \in Nat /\ UserLevel \in Nat /\ DecLevel \in Nat
  <2>1. /\ UserLevel \in Nat /\ DecLevel \in Nat /\ Len(registered) = Len(seen)
        /\ Len(seen) = 1 + UserLevel + DecLevel /\ registered \in Seq(SUBSET Var) /\ nVars \in Nat
    BY TypedFacts
  <2> QED
    BY <1>3, <2>1
<1>5. fresh => nVars + 1 \in Var
  BY BacktrackInfo
<1>6. \A i \in 1..m : i \in again <=> satLiterals[i].level > L
  BY <1>2, <1>3, ReregisteredIs
<1>7. \A i \in 1..m : satLiterals[i] \in T /\ satLiterals[i].var \in Var
  <2>1. satLiterals \in Seq(T)
    BY TypedFacts
  <2> HIDE DEF T
  <2>2. \A i \in 1..m : satLiterals[i] \in T
    BY <1>2, <2>1, SeqElement
  <2> QED
    BY <2>2 DEF T
<1>8. again \subseteq 1..m
  BY <1>2 DEF Reregistered
<1>9. X \in SUBSET Var
  BY <1>5, <1>7, <1>8
<1>10. /\ \A i \in 1..m : satLiterals[i].level > L => satLiterals[i].var \in X
       /\ fresh => nVars + 1 \in X
  BY <1>6, <1>8
<1> HIDE DEF X
<1>11. /\ registered' \in Seq(SUBSET Var) /\ Len(registered') = L + 1
       /\ registered'[L + 1] = registered[L + 1] \cup X
       /\ \A i \in 1..L : registered'[i] = registered[i]
  <2>1. PICK S, s : S = SUBSET Var /\ s = PopContexts(registered, k)
    OBVIOUS
  <2>2. /\ s \in Seq(S) /\ Len(s) = L + 1 /\ \A i \in 1..(L + 1) : s[i] = registered[i]
    <3>1. s = SubSeq(registered, 1, L + 1) /\ registered \in Seq(S) /\ L + 1 \in 0..Len(registered)
      BY <1>3, <1>4, <2>1 DEF PopContexts
    <3> QED
      BY ONLY <3>1, L \in Nat, Prefix
  <2>3. s[L + 1] \cup X \in S /\ registered' = AddTop(s, X)
    <3>1. s[L + 1] = registered[L + 1] /\ registered[L + 1] \in SUBSET Var
      BY <1>4, <2>2, Elements
    <3> QED
      BY <1>1, <1>9, <2>1, <3>1
  <2>4. /\ registered' \in Seq(S) /\ Len(registered') = L + 1
        /\ registered'[L + 1] = s[L + 1] \cup X
        /\ \A i \in 1..L : registered'[i] = s[i]
    <3>1. Len(s) >= 1 /\ s[Len(s)] \cup X \in S /\ s \in Seq(S) /\ Len(s) = L + 1 /\ L + 1 - 1 = L
      BY <2>2, <2>3
    <3> QED
      BY ONLY L \in Nat, <2>3, <3>1, TopAdded
  <2>5. L + 1 \in 1..(L + 1) /\ \A i \in 1..L : i \in 1..(L + 1)
    BY L \in Nat
  <2> QED
    BY <2>1, <2>2, <2>4, <2>5
<1>12. \A j \in 1..(L + 1) : registered[j] \subseteq registered'[j]
  <2>1. \A j \in 1..(L + 1) : j = L + 1 \/ j \in 1..L
    BY L \in Nat
  <2> QED
    BY <1>11, <2>1
<1>13. ASSUME NEW i \in 1..m
       PROVE  /\ lowered[i] \in T /\ lowered[i].var = satLiterals[i].var
              /\ lowered[i].level = IF satLiterals[i].level > L THEN L ELSE satLiterals[i].level
  <2>1. CASE satLiterals[i].level > L
    <3>1. lowered[i] = [satLiterals[i] EXCEPT !.level = L]
      BY <1>2, <1>3, <1>6, <2>1
    <3> QED
      BY <1>7, <2>1, <3>1
  <2>2. CASE ~(satLiterals[i].level > L)
    <3>1. lowered[i] = satLiterals[i]
      BY <1>2, <1>6, <2>2
    <3> QED
      BY <1>7, <2>2, <3>1
  <2> QED
    BY <2>1, <2>2
<1>14. lowered = [i \in 1..m |-> lowered[i]]
  BY <1>2
<1>15. fresh => e \in T
  BY <1>3, <1>5
<1>16. e.var = nVars + 1 /\ e.level = L
  BY <1>3
<1> HIDE DEF lowered, e, T
<1>17. lowered \in Seq(T) /\ Len(lowered) = m
  <2>1. lowered \in [1..m -> T]
    BY <1>13, <1>14
  <2> QED
    BY <2>1, FunctionIsSeq
<1>18. /\ satLiterals' \in Seq(T) /\ Len(satLiterals') = IF fresh THEN m + 1 ELSE m
       /\ \A i \in 1..m : satLiterals'[i] = lowered[i]
       /\ fresh => satLiterals'[m + 1] = e
  <2>1. CASE fresh
    <3>1. satLiterals' = Append(lowered, e) /\ e \in T
      BY <1>1, <1>15, <2>1
    <3> QED
      BY ONLY m \in Nat, <1>17, <2>1, <3>1, Appended
  <2>2. CASE ~fresh
    BY <1>1, <1>17, <2>2
  <2> QED
    BY <2>1, <2>2
<1>19. \A i \in 1..m : /\ satLiterals'[i].var = satLiterals[i].var
                       /\ satLiterals'[i].level =
                             IF satLiterals[i].level > L THEN L ELSE satLiterals[i].level
  BY <1>13, <1>18
<1>20. /\ \A i \in 1..m : satLiterals[i].level > L => satLiterals[i].var \in registered'[L + 1]
       /\ fresh => nVars + 1 \in registered'[L + 1]
  BY <1>10, <1>11
<1>21. satLiterals' \in Seq([var : Var, level : Nat])
  BY <1>18 DEF T
<1> QED
  BY <1>2, <1>3, <1>11, <1>12, <1>16, <1>18, <1>19, <1>20, <1>21

\* Atoms that a backtrack would forget are registered again at its level.
LEMMA RegisteredBacktrack ==
  ASSUME Typed, Typed', Levelled, Registered, NEW k \in Nat, k < DecLevel,
         NEW fresh \in BOOLEAN, Reregister(k, fresh),
         UserLevel' = UserLevel, DecLevel' = k
  PROVE  Registered'
<1>1. PICK L \in Nat : L = UserLevel + k /\ UserLevel <= L
  <2>1. UserLevel \in Nat
    BY TypedFacts
  <2> QED
    BY ONLY <2>1, k \in Nat
<1>2. ContextLevel' = L /\ UserLevel \in Nat
  BY <1>1, TypedFacts DEF ContextLevel
<1>3. PICK m \in Nat : m = Len(satLiterals)
  BY TypedFacts, SeqElement
<1>4. /\ Len(registered') = L + 1
      /\ \A j \in 1..(L + 1) : registered[j] \subseteq registered'[j]
      /\ \A i \in 1..m : satLiterals[i].level > L => satLiterals[i].var \in registered'[L + 1]
      /\ fresh => nVars + 1 \in registered'[L + 1]
      /\ Len(satLiterals') = IF fresh THEN m + 1 ELSE m
      /\ \A i \in 1..m : /\ satLiterals'[i].var = satLiterals[i].var
                         /\ satLiterals'[i].level =
                               IF satLiterals[i].level > L THEN L ELSE satLiterals[i].level
      /\ fresh => satLiterals'[m + 1].var = nVars + 1 /\ satLiterals'[m + 1].level = L
  BY <1>1, <1>3, ReregisterDoes
<1>5. /\ 1..nVars \subseteq 1..nVars'
      /\ \A v \in 1..nVars' : v \in 1..nVars \/ (fresh /\ v = nVars + 1)
      /\ fresh => /\ nVars + 1 \in 1..nVars'
                  /\ info'[nVars + 1].intro = UserLevel
  BY BacktrackVars
<1>6. \A v \in 1..nVars : /\ info'[v].active = info[v].active
                          /\ info'[v].atom = info[v].atom
                          /\ info'[v].intro = info[v].intro
  BY BacktrackInfo
<1>7. /\ \A i \in 1..m : /\ satLiterals[i].var \in 1..nVars
                         /\ satLiterals[i].level \in Nat
                         /\ \/ satLiterals[i].level <= info[satLiterals[i].var].intro
                            \/ info[satLiterals[i].var].intro = UserLevel
      /\ \A i \in 1..m : \A p \in 1..i : satLiterals[p].level <= satLiterals[i].level
  BY <1>3, Elements DEF Registered
<1>8. \A i \in 1..m : /\ satLiterals'[i].level \in Nat /\ satLiterals'[i].level <= L
                      /\ satLiterals'[i].level <= satLiterals[i].level
  BY <1>4, <1>7
<1>9. ASSUME NEW i \in 1..Len(satLiterals')
      PROVE  i \in 1..m \/ (fresh /\ i = m + 1)
  BY <1>3, <1>4
<1>10. ASSUME NEW i \in 1..Len(satLiterals')
       PROVE  LET e == satLiterals'[i]
              IN /\ e.var \in 1..nVars' /\ e.level <= L
                 /\ e.level <= info'[e.var].intro \/ info'[e.var].intro = UserLevel
  <2>1. CASE i \in 1..m
    <3>1. /\ satLiterals'[i].var = satLiterals[i].var /\ satLiterals[i].var \in 1..nVars
          /\ info'[satLiterals[i].var].intro = info[satLiterals[i].var].intro
          /\ info[satLiterals[i].var].intro \in Nat
      BY <1>4, <1>6, <1>7, <2>1, TypedFacts, InfoFields
    <3>2. \/ satLiterals'[i].level <= info[satLiterals[i].var].intro
          \/ info[satLiterals[i].var].intro = UserLevel
      <4>1. PICK a, b, c : a = satLiterals'[i].level /\ b = satLiterals[i].level
                           /\ c = info[satLiterals[i].var].intro
        OBVIOUS
      <4>2. a \in Nat /\ b \in Nat /\ c \in Nat /\ a <= b /\ (b <= c \/ c = UserLevel)
        BY <1>7, <1>8, <2>1, <3>1, <4>1
      <4>3. a <= c \/ c = UserLevel
        BY ONLY <4>2
      <4> QED
        BY ONLY <4>1, <4>3
    <3> QED
      BY <1>5, <1>8, <2>1, <3>1, <3>2
  <2>2. CASE fresh /\ i = m + 1
    BY <1>1, <1>4, <1>5, <2>2
  <2> QED
    BY <1>9, <2>1, <2>2
<1>11. ASSUME NEW i \in 1..Len(satLiterals'), NEW p \in 1..i
       PROVE  satLiterals'[p].level <= satLiterals'[i].level
  <2>1. CASE i \in 1..m
    <3>1. p \in 1..m /\ p \in 1..i
      BY <2>1
    <3>2. satLiterals[p].level <= satLiterals[i].level
      BY <1>7, <2>1
    <3>3. PICK a \in Nat, b \in Nat : a = satLiterals[p].level /\ b = satLiterals[i].level
      BY <1>7, <2>1, <3>1
    <3>4. /\ satLiterals'[p].level = (IF a > L THEN L ELSE a)
          /\ satLiterals'[i].level = (IF b > L THEN L ELSE b)
          /\ a <= b
      BY <1>4, <2>1, <3>1, <3>2, <3>3
    <3> QED
      BY <3>4
  <2>2. CASE fresh /\ i = m + 1
    <3>1. p \in 1..m \/ p = m + 1
      BY <2>2
    <3>2. satLiterals'[m + 1].level = L
      BY <1>4, <2>2
    <3> QED
      BY <1>1, <1>8, <2>2, <3>1, <3>2
  <2> QED
    BY <1>9, <2>1, <2>2
<1>12. ASSUME NEW v \in 1..nVars', info'[v].active, info'[v].atom,
              NEW j \in (1 + info'[v].intro)..(L + 1)
       PROVE  \/ v \in registered'[j]
              \/ \E i \in 1..Len(satLiterals') : satLiterals'[i].var = v /\ satLiterals'[i].level >= j
  <2>1. CASE v \in 1..nVars
    <3>1. /\ info[v].active /\ info[v].atom /\ info[v].intro \in Nat
          /\ info'[v].intro = info[v].intro
      BY <1>6, <1>12, <2>1, TypedFacts, InfoFields
    <3>2. j \in 1..(L + 1) /\ (j <= L \/ j = L + 1)
      BY <3>1
    <3>3. j \in (1 + info[v].intro)..Len(registered)
      <4>1. /\ DecLevel \in Nat /\ UserLevel \in Nat /\ Len(registered) = Len(seen)
            /\ Len(seen) = 1 + UserLevel + DecLevel
        BY TypedFacts
      <4>2. L + 1 <= Len(registered) /\ Len(registered) \in Nat
        BY <1>1, <4>1
      <4>3. PICK a \in Nat : a = info[v].intro /\ j \in (1 + a)..(L + 1)
        BY <1>12, <3>1
      <4>4. j \in (1 + a)..Len(registered)
        BY <4>2, <4>3
      <4> QED
        BY <4>3, <4>4
    <3>4. CASE v \in registered[j]
      BY <1>4, <3>2, <3>4
    <3>5. CASE \E i \in 1..m : satLiterals[i].var = v /\ satLiterals[i].level >= j
      <4>1. PICK i \in 1..m : satLiterals[i].var = v /\ satLiterals[i].level >= j
        BY <3>5
      <4>2. i \in 1..Len(satLiterals')
        BY <1>4
      <4>3. CASE satLiterals[i].level > L
        <5>1. satLiterals'[i].level = L /\ satLiterals'[i].var = v /\ v \in registered'[L + 1]
          BY <1>4, <4>1, <4>3
        <5> QED
          BY <3>2, <4>2, <5>1
      <4>4. CASE ~(satLiterals[i].level > L)
        <5>1. satLiterals'[i].level = satLiterals[i].level /\ satLiterals'[i].var = v
          BY <1>4, <4>1, <4>4
        <5> QED
          BY <4>1, <4>2, <5>1
      <4> QED
        BY <4>3, <4>4
    <3> QED
      BY <1>3, <2>1, <3>1, <3>3, <3>4, <3>5 DEF Registered
  <2>2. CASE fresh /\ v = nVars + 1
    <3>1. j \in (1 + UserLevel)..(L + 1)
      BY <1>5, <1>12, <2>2
    <3>2. j = L + 1 \/ L >= j
      BY <1>1, <1>2, <3>1
    <3>3. m + 1 \in 1..Len(satLiterals') /\ satLiterals'[m + 1].var = v /\ satLiterals'[m + 1].level = L
      BY <1>4, <2>2
    <3> QED
      BY <1>4, <2>2, <3>2, <3>3
  <2> QED
    BY <1>5, <2>1, <2>2
<1>13. \A v \in 1..nVars' : info'[v].active /\ info'[v].atom =>
         \A j \in (1 + info'[v].intro)..Len(registered') :
            \/ v \in registered'[j]
            \/ \E i \in 1..Len(satLiterals') : satLiterals'[i].var = v /\ satLiterals'[i].level >= j
  <2>1. Len(registered') = L + 1
    BY <1>4
  <2> QED
    BY <1>12, <2>1
<1> QED
  BY <1>2, <1>10, <1>11, <1>13 DEF Registered

\* The trail of n literals, of which c are below level k + 1, becomes t.
TrailParts(k, n, c, t) ==
    /\ n \in Nat /\ c \in 0..n /\ t \in Seq(Lit) /\ Len(t) \in Nat /\ c <= Len(t)
    /\ n = Len(assignments) /\ c = assignmentControl[k + 1] /\ t = KeptAssignments(k)
    /\ k + 1 \in 1..DecLevel
    /\ ToSet(Undone(k)) = {assignments[p] : p \in (c + 1)..n}
    /\ \A i \in 1..c : t[i] = assignments[i]
    /\ \A i \in (c + 1)..Len(t) : \E p \in (c + 1)..n :
          t[i] = assignments[p] /\ FixedLit(assignments[p])
    /\ \A p \in (c + 1)..n : FixedLit(assignments[p]) =>
          \E i \in (c + 1)..Len(t) : t[i] = assignments[p]

\* The literals above a level of the trail, and those that stay.
LEMMA KeptTrail ==
  ASSUME Typed, Trailed, NEW k \in Nat, k < DecLevel
  PROVE  \E n, c, t : TrailParts(k, n, c, t)
<1>1. PICK n \in Nat : n = Len(assignments)
  BY TypedFacts, SeqElement
<1>2. k + 1 \in 1..DecLevel
  BY TypedFacts
<1>3. PICK c \in 0..n : c = assignmentControl[k + 1]
  BY <1>1, <1>2, Elements DEF Trailed
<1>4. assignments \in Seq(Lit) /\ \A i \in 1..n : assignments[i] \in Lit
  BY <1>1, TypedFacts, Elements
<1>5. ToSet(Undone(k)) = {assignments[p] : p \in (c + 1)..n} /\ Undone(k) \in Seq(Lit)
  <2>1. Undone(k) = SubSeq(assignments, c + 1, n)
    BY <1>1, <1>3 DEF Undone
  <2>2. c + 1 \in Nat \ {0} /\ n \in 0..Len(assignments)
    BY <1>1
  <2> QED
    BY <1>4, <2>1, <2>2, SegmentSet, Segment
<1> DEFINE F == {l \in Lit : FixedLit(l)}
<1>6. PICK a, b : a = SubSeq(assignments, 1, c) /\ b = Only(Undone(k), F)
  OBVIOUS
<1>7. a \in Seq(Lit) /\ Len(a) = c /\ \A i \in 1..c : a[i] = assignments[i]
  BY <1>1, <1>4, <1>6, Prefix
<1>8. b \in Seq(Lit) /\ ToSet(b) = ToSet(Undone(k)) \cap F
  <2> HIDE DEF F
  <2> QED
    BY <1>5, <1>6, OnlySet
<1>9. PICK t : t = KeptAssignments(k) /\ t = a \o b
  BY <1>1, <1>3, <1>6 DEF KeptAssignments
<1>10. PICK m \in Nat : m = Len(b) /\ ToSet(b) = {b[q] : q \in 1..m}
  BY <1>8, SeqElement, SeqSet
<1>11. /\ t \in Seq(Lit) /\ Len(t) = c + m
       /\ \A i \in 1..c : t[i] = assignments[i]
       /\ \A q \in 1..m : t[c + q] = b[q]
  <2>1. c \in Nat
    OBVIOUS
  <2>2. /\ t \in Seq(Lit) /\ Len(t) = Len(a) + Len(b)
        /\ \A i \in 1..Len(a) : t[i] = a[i]
        /\ \A q \in 1..Len(b) : t[Len(a) + q] = b[q]
    <3>1. a \in Seq(Lit) /\ b \in Seq(Lit)
      BY <1>7, <1>8
    <3>2. t = a \o b
      BY <1>9
    <3>3. PICK S : S = Lit
      OBVIOUS
    <3>4. a \in Seq(S) /\ b \in Seq(S)
      BY <3>1, <3>3
    <3>5. /\ a \o b \in Seq(S) /\ Len(a \o b) = Len(a) + Len(b)
          /\ \A i \in 1..Len(a) : (a \o b)[i] = a[i]
          /\ \A q \in 1..Len(b) : (a \o b)[Len(a) + q] = b[q]
      BY ONLY <3>4, Concat
    <3>6. /\ t \in Seq(S) /\ Len(t) = Len(a) + Len(b)
          /\ \A i \in 1..Len(a) : t[i] = a[i]
          /\ \A q \in 1..Len(b) : t[Len(a) + q] = b[q]
      BY ONLY <3>2, <3>5, Zenon
    <3> QED
      BY <3>3, <3>6
  <2>3. Len(a) = c /\ Len(b) = m
    BY <1>7, <1>10
  <2>4. Len(t) = c + m /\ (\A i \in 1..c : t[i] = a[i]) /\ \A q \in 1..m : t[c + q] = b[q]
    BY ONLY <2>2, <2>3
  <2> QED
    BY <1>7, <2>2, <2>4
<1>12. \A l : l \in {b[q] : q \in 1..m} <=>
              l \in {assignments[p] : p \in (c + 1)..n} /\ FixedLit(l)
  <2>1. \A p \in (c + 1)..n : assignments[p] \in Lit
    BY <1>4
  <2> QED
    BY <1>5, <1>8, <1>10, <2>1
<1>13. ASSUME NEW i \in (c + 1)..(c + m)
       PROVE  \E p \in (c + 1)..n : t[i] = assignments[p] /\ FixedLit(assignments[p])
  <2>1. PICK q \in 1..m : i = c + q
    <3>1. i - c \in 1..m /\ i = c + (i - c)
      BY m \in Nat, c \in 0..n
    <3> QED
      BY <3>1
  <2>2. t[i] \in {b[x] : x \in 1..m}
    BY <1>11, <2>1
  <2> QED
    BY <1>12, <2>2
<1>14. ASSUME NEW p \in (c + 1)..n, FixedLit(assignments[p])
       PROVE  \E i \in (c + 1)..(c + m) : t[i] = assignments[p]
  <2>1. PICK q \in 1..m : assignments[p] = b[q]
    BY <1>12, <1>14
  <2>2. c + q \in (c + 1)..(c + m)
    BY m \in Nat, c \in 0..n
  <2> QED
    BY <1>11, <2>1, <2>2
<1>15. Len(t) \in Nat /\ c <= Len(t)
  BY <1>11
<1>16. /\ \A i \in (c + 1)..Len(t) : \E p \in (c + 1)..n :
            t[i] = assignments[p] /\ FixedLit(assignments[p])
       /\ \A p \in (c + 1)..n : FixedLit(assignments[p]) =>
            \E i \in (c + 1)..Len(t) : t[i] = assignments[p]
  BY <1>11, <1>13, <1>14
<1> HIDE DEF F
<1>17. t \in Seq(Lit)
  BY <1>11
<1>18. TrailParts(k, n, c, t)
  BY <1>1, <1>2, <1>3, <1>5, <1>9, <1>11, <1>15, <1>16, <1>17 DEF TrailParts
<1> QED
  BY <1>18

\* A literal and its variable.
LEMMA LitOfVar ==
  ASSUME Typed, NEW v \in 1..nVars
  PROVE  v \in Var /\ v \in Nat \ {0} /\ VarOf(v) = v /\ VarOf(-v) = v /\ 0 # v /\ 0 # -v
<1>1. v \in Var /\ v \in Nat \ {0}
  BY TypedFacts
<1> QED
  BY <1>1 DEF VarOf

\* The variables that a backtrack unassigns are those above its level.
LEMMA BacktrackAsg ==
  ASSUME Typed, Trailed, NEW k \in Nat, k < DecLevel, NEW fresh \in BOOLEAN,
         Reregister(k, fresh), NEW v \in 1..nVars
  PROVE  /\ info'[v].asg \in {0, info[v].asg}
         /\ info[v].active => info'[v].asg = IF ~info[v].fixed /\ lev[v] > k THEN 0 ELSE info[v].asg
<1>1. info'[v].asg = IF Unassigns(k, v) THEN 0 ELSE info[v].asg
  BY BacktrackInfo
<1>a. PICK n, c, t : TrailParts(k, n, c, t)
  BY KeptTrail
<1>2. /\ n \in Nat /\ c \in Nat
      /\ n = Len(assignments) /\ c = assignmentControl[k + 1] /\ k + 1 \in 1..DecLevel
      /\ ToSet(Undone(k)) = {assignments[p] : p \in (c + 1)..n}
  BY <1>a DEF TrailParts
<1>3. lev[v] \in Nat /\ info[v].fixed \in BOOLEAN
  BY TypedFacts, InfoFields
<1>4. ASSUME info[v].active, ~info[v].fixed, NEW l \in ToSet(Undone(k)), VarOf(l) = v
      PROVE  lev[v] > k
  <2>1. PICK p \in (c + 1)..n : l = assignments[p]
    BY <1>2
  <2>2. p \in 1..n /\ p > c
    BY <1>2
  <2>3. (lev[v] >= k + 1) = (p > c)
    BY <1>2, <1>4, <2>1, <2>2 DEF Trailed
  <2> QED
    BY <1>3, <2>2, <2>3
<1>5. ASSUME info[v].active, ~info[v].fixed, info[v].asg # 0, lev[v] > k
      PROVE  Unassigns(k, v)
  <2>1. PICK p \in 1..n : assignments[p] = info[v].asg
    BY <1>2, <1>5 DEF Trailed
  <2>2. VarOf(info[v].asg) = v
    BY <1>5, LitOfVar DEF Trailed
  <2>3. (lev[v] >= k + 1) = (p > c)
    BY <1>2, <1>5, <2>1, <2>2 DEF Trailed
  <2>4. p \in (c + 1)..n
    BY <1>2, <1>3, <1>5, <2>3
  <2> QED
    BY <1>2, <1>5, <2>1, <2>2, <2>4 DEF Unassigns
<1>6. info[v].active /\ info[v].asg # 0 => (Unassigns(k, v) <=> ~info[v].fixed /\ lev[v] > k)
  BY <1>4, <1>5 DEF Unassigns
<1> QED
  BY <1>1, <1>3, <1>6

\* CaDiCaL's assignment after a backtrack.
LEMMA UnassignDoes ==
  ASSUME Typed, NEW k \in Nat, Unassign(k)
  PROVE  /\ \A v \in Var : val'[v] = IF lev[v] > k THEN 0 ELSE val[v]
         /\ \A v \in Var : lev'[v] = IF lev[v] > k THEN 0 ELSE lev[v]
         /\ val' \in [Var -> Lit \cup {0}] /\ lev' \in [Var -> Nat]
<1>1. val \in [Var -> Lit \cup {0}] /\ lev \in [Var -> Nat]
  BY TypedFacts
<1> QED
  BY <1>1 DEF Unassign

\* The trail after a backtrack.
LEMMA TrailedBacktrack ==
  ASSUME Typed, Typed', Trailed, NEW k \in Nat, k < DecLevel, NEW fresh \in BOOLEAN,
         Reregister(k, fresh), Unassign(k), Var' = Var, DecLevel' = k,
         assignments' = KeptAssignments(k),
         assignmentControl' = SubSeq(assignmentControl, 1, k)
  PROVE  Trailed'
<1>1. PICK n, c, t : TrailParts(k, n, c, t)
  BY KeptTrail
<1>2. PICK m : m = Len(t)
  OBVIOUS
<1>3. /\ n \in Nat /\ c \in 0..n /\ m \in Nat
      /\ n = Len(assignments) /\ c = assignmentControl[k + 1] /\ m = Len(assignments')
      /\ k + 1 \in 1..DecLevel /\ c <= m
      /\ \A i \in 1..c : assignments'[i] = assignments[i]
      /\ \A i \in (c + 1)..m : \E p \in (c + 1)..n :
            assignments'[i] = assignments[p] /\ FixedLit(assignments[p])
      /\ \A p \in (c + 1)..n : FixedLit(assignments[p]) =>
            \E i \in (c + 1)..m : assignments'[i] = assignments[p]
  <2>1. t = assignments'
    BY <1>1 DEF TrailParts
  <2>2. /\ n \in Nat /\ c \in 0..n /\ m \in Nat
        /\ n = Len(assignments) /\ c = assignmentControl[k + 1] /\ m = Len(t)
        /\ k + 1 \in 1..DecLevel /\ c <= m
        /\ \A i \in 1..c : t[i] = assignments[i]
        /\ \A i \in (c + 1)..m : \E p \in (c + 1)..n :
              t[i] = assignments[p] /\ FixedLit(assignments[p])
        /\ \A p \in (c + 1)..n : FixedLit(assignments[p]) =>
              \E i \in (c + 1)..m : t[i] = assignments[p]
    BY ONLY <1>1, <1>2 DEF TrailParts
  <2> QED
    BY ONLY <2>1, <2>2
<1>4. DecLevel \in Nat /\ \A j \in 1..k : j \in 1..DecLevel /\ j \in 1..(k + 1)
  BY TypedFacts
<1>5. \A j \in 1..k : assignmentControl'[j] = assignmentControl[j] /\ assignmentControl[j] \in Nat
  <2>1. assignmentControl \in Seq(Nat) /\ k \in 0..Len(assignmentControl)
    <3>1. assignmentControl \in Seq(Nat) /\ Len(assignmentControl) = DecLevel
      BY TypedFacts
    <3> QED
      BY <1>4, <3>1
  <2>2. \A j \in 1..k : assignmentControl'[j] = assignmentControl[j]
    BY <2>1, Prefix
  <2> QED
    BY <1>4, <2>2, Elements
<1>6. \A v \in 1..nVars : v \in Var /\ lev[v] \in Nat /\ info[v].fixed \in BOOLEAN
  BY TypedFacts, InfoFields
<1>7. /\ \A v \in Var : val'[v] = IF lev[v] > k THEN 0 ELSE val[v]
      /\ \A v \in Var : lev'[v] = IF lev[v] > k THEN 0 ELSE lev[v]
  BY UnassignDoes
<1>8. \A v \in 1..nVars : /\ info'[v].active = info[v].active
                          /\ info'[v].fixed = info[v].fixed
  BY BacktrackInfo
<1>9. /\ \A v \in 1..nVars : info'[v].asg \in {0, info[v].asg}
      /\ \A v \in 1..nVars : info[v].active =>
            info'[v].asg = IF ~info[v].fixed /\ lev[v] > k THEN 0 ELSE info[v].asg
  BY BacktrackAsg
<1>10. /\ 1..nVars \subseteq 1..nVars'
       /\ \A v \in 1..nVars' : v \in 1..nVars \/ (info'[v].asg = 0 /\ ~info'[v].fixed)
  BY BacktrackVars
<1>11. /\ \A i \in 1..m : i \in 1..c \/ i \in (c + 1)..m
       /\ \A i \in (c + 1)..m : i \in 1..m
       /\ \A p \in 1..n : p \in 1..c \/ p \in (c + 1)..n
  BY <1>3
<1>12. \A p \in 1..c : p \in 1..n /\ p \in 1..m
  BY <1>3
<1>13. \A p \in (c + 1)..n : p \in 1..n /\ p > c
  BY <1>3
<1>14. \A i \in 1..n : LET v == VarOf(assignments[i])
                       IN v \in 1..nVars /\ info[v].active /\ info[v].asg = assignments[i]
  BY <1>3 DEF Trailed
<1>15. \A i \in 1..n : LET v == VarOf(assignments[i])
                       IN ~info[v].fixed => (lev[v] >= k + 1) = (i > c)
  BY <1>3 DEF Trailed
<1>16. ASSUME NEW i \in 1..m
       PROVE  LET v == VarOf(assignments'[i])
              IN /\ v \in 1..nVars /\ info[v].active /\ info[v].asg = assignments'[i]
                 /\ ~info[v].fixed => i \in 1..c /\ lev[v] <= k /\ assignments'[i] = assignments[i]
  <2>1. CASE i \in 1..c
    <3>1. i \in 1..n /\ ~(i > c) /\ assignments'[i] = assignments[i]
      BY <1>3, <1>12, <2>1
    <3>2. ~info[VarOf(assignments[i])].fixed => lev[VarOf(assignments[i])] <= k
      BY <1>6, <1>14, <1>15, <3>1
    <3> QED
      BY <1>14, <2>1, <3>1, <3>2
  <2>2. CASE i \in (c + 1)..m
    <3>1. PICK p \in (c + 1)..n : assignments'[i] = assignments[p] /\ FixedLit(assignments[p])
      BY <1>3, <2>2
    <3> QED
      BY <1>13, <1>14, <3>1 DEF FixedLit
  <2> QED
    BY <1>11, <2>1, <2>2
<1>17. \A v \in Var : val'[v] \in {0, v, -v} /\ lev'[v] <= k
  <2> TAKE v \in Var
  <2>1. val[v] \in {0, v, -v} /\ lev[v] \in Nat
    BY TypedFacts DEF Trailed
  <2> QED
    BY <1>7, <2>1
<1>18. \A v \in 1..nVars' : info'[v].asg \in {0, v, -v}
  BY <1>9, <1>10 DEF Trailed
<1>19. ASSUME NEW v \in 1..nVars', info'[v].active
       PROVE  /\ info'[v].asg # 0 => val'[v] = info'[v].asg
              /\ info'[v].fixed => info'[v].asg # 0 /\ lev'[v] = 0
              /\ info'[v].asg # 0 /\ ~info'[v].fixed => lev'[v] >= 1
              /\ info'[v].asg # 0 => \E i \in 1..m : assignments'[i] = info'[v].asg
  <2>1. CASE v \in 1..nVars
    <3>1. /\ info[v].active /\ info'[v].fixed = info[v].fixed
          /\ info'[v].asg = IF ~info[v].fixed /\ lev[v] > k THEN 0 ELSE info[v].asg
      BY <1>8, <1>9, <1>19, <2>1
    <3>2. /\ info[v].asg # 0 => val[v] = info[v].asg
          /\ info[v].fixed => info[v].asg # 0 /\ lev[v] = 0
          /\ info[v].asg # 0 /\ ~info[v].fixed => lev[v] >= 1
      BY <2>1, <3>1 DEF Trailed
    <3>3. info'[v].asg # 0 => ~(lev[v] > k) /\ info'[v].asg = info[v].asg
      BY <1>6, <2>1, <3>1, <3>2
    <3>4. ~(lev[v] > k) => val'[v] = val[v] /\ lev'[v] = lev[v]
      BY <1>6, <1>7, <2>1
    <3>5. ASSUME info'[v].asg # 0 PROVE \E i \in 1..m : assignments'[i] = info'[v].asg
      <4>1. PICK p \in 1..n : assignments[p] = info[v].asg
        BY <1>3, <2>1, <3>1, <3>3, <3>5 DEF Trailed
      <4>2. VarOf(assignments[p]) = v
        BY <2>1, <3>3, <3>5, <4>1, LitOfVar DEF Trailed
      <4>3. CASE p \in 1..c
        BY <1>3, <1>12, <3>3, <3>5, <4>1, <4>3
      <4>4. CASE p \in (c + 1)..n
        <5>1. info[v].fixed
          BY <1>6, <1>13, <1>15, <2>1, <3>3, <3>5, <4>2, <4>4
        <5>2. PICK i \in (c + 1)..m : assignments'[i] = assignments[p]
          BY <1>3, <4>2, <4>4, <5>1 DEF FixedLit
        <5>3. i \in 1..m
          BY <1>11
        <5> QED
          BY <3>3, <3>5, <4>1, <5>2, <5>3
      <4> QED
        BY <1>11, <4>3, <4>4
    <3> QED
      BY <3>1, <3>2, <3>3, <3>4, <3>5
  <2>2. CASE v \notin 1..nVars
    BY <1>10, <2>2
  <2> QED
    BY <2>1, <2>2
<1>20. \A i \in 1..m : LET v == VarOf(assignments'[i])
                       IN v \in 1..nVars' /\ info'[v].active /\ info'[v].asg = assignments'[i]
  <2> TAKE i \in 1..m
  <2>1. PICK v : v = VarOf(assignments'[i])
    OBVIOUS
  <2>2. /\ v \in 1..nVars /\ info[v].active /\ info[v].asg = assignments'[i]
        /\ ~info[v].fixed => lev[v] <= k
    BY <1>16, <2>1
  <2>3. info'[v].asg = info[v].asg
    BY <1>6, <1>9, <2>2
  <2> QED
    BY <1>8, <1>10, <2>1, <2>2, <2>3
<1>21. \A j \in 1..k : assignmentControl'[j] <= m
  <2> TAKE j \in 1..k
  <2>1. assignmentControl[j] <= c
    BY <1>3, <1>4 DEF Trailed
  <2>2. PICK a \in Nat : a = assignmentControl[j] /\ a = assignmentControl'[j]
    BY <1>5
  <2>3. a <= c /\ c <= m /\ c \in Nat /\ m \in Nat
    BY <1>3, <2>1, <2>2
  <2>4. a <= m
    BY ONLY a \in Nat, <2>3
  <2> QED
    BY <2>2, <2>4
<1>22. \A j \in 1..k : \A q \in 1..j : assignmentControl'[q] <= assignmentControl'[j]
  <2> TAKE j \in 1..k
  <2> TAKE q \in 1..j
  <2>1. q \in 1..k /\ j \in 1..DecLevel
    BY <1>4
  <2> QED
    BY <1>5, <2>1 DEF Trailed
<1>23. \A j \in 1..k, i \in 1..m :
         LET v == VarOf(assignments'[i])
         IN ~info'[v].fixed => (lev'[v] >= j) = (i > assignmentControl'[j])
  <2> TAKE j \in 1..k, i \in 1..m
  <2>1. PICK v : v = VarOf(assignments'[i])
    OBVIOUS
  <2>2. /\ v \in 1..nVars
        /\ ~info[v].fixed => i \in 1..c /\ lev[v] <= k /\ assignments'[i] = assignments[i]
    BY <1>16, <2>1
  <2>3. ASSUME ~info'[v].fixed PROVE (lev'[v] >= j) = (i > assignmentControl'[j])
    <3>1. ~info[v].fixed /\ lev[v] <= k /\ i \in 1..n /\ v = VarOf(assignments[i])
      BY <1>8, <1>12, <2>1, <2>2, <2>3
    <3>2. lev'[v] = lev[v]
      BY <1>6, <1>7, <2>2, <3>1
    <3>3. (lev[v] >= j) = (i > assignmentControl[j])
      BY <1>3, <1>4, <3>1 DEF Trailed
    <3> QED
      BY <1>5, <3>2, <3>3
  <2> QED
    BY <2>1, <2>3
<1> QED
  BY <1>3, <1>17, <1>18, <1>19, <1>20, <1>21, <1>22, <1>23 DEF Trailed

\* A sequence cut after L + 1 elements, with X added to the last one.
LEMMA CutAdded ==
  ASSUME NEW S, NEW s \in Seq(S), NEW L \in Nat, L + 1 <= Len(s), NEW X, s[L + 1] \cup X \in S,
         NEW t, t = AddTop(SubSeq(s, 1, L + 1), X)
  PROVE  /\ t \in Seq(S) /\ Len(t) = L + 1 /\ t[L + 1] = s[L + 1] \cup X
         /\ \A i \in 1..L : t[i] = s[i]
<1>1. PICK u : u = SubSeq(s, 1, L + 1)
  OBVIOUS
<1>2. u \in Seq(S) /\ Len(u) = L + 1 /\ \A i \in 1..(L + 1) : u[i] = s[i]
  <2>1. L + 1 \in 0..Len(s)
    OBVIOUS
  <2> QED
    BY ONLY s \in Seq(S), <1>1, <2>1, Prefix
<1>3. Len(u) >= 1 /\ u[Len(u)] \cup X \in S /\ Len(u) - 1 = L /\ t = AddTop(u, X)
  <2>1. L + 1 \in 1..(L + 1) /\ L + 1 >= 1 /\ L + 1 - 1 = L
    OBVIOUS
  <2>2. u[L + 1] = s[L + 1] /\ Len(u) = L + 1
    BY <1>2, <2>1
  <2>3. u[Len(u)] \cup X \in S
    BY <2>2
  <2>4. t = AddTop(u, X)
    BY <1>1
  <2>5. Len(u) >= 1 /\ Len(u) - 1 = L
    BY ONLY <2>1, <2>2
  <2> QED
    BY <2>3, <2>4, <2>5
<1>4. /\ t \in Seq(S) /\ Len(t) = Len(u) /\ t[Len(u)] = u[Len(u)] \cup X
      /\ \A i \in 1..(Len(u) - 1) : t[i] = u[i]
  <2>1. u \in Seq(S)
    BY <1>2
  <2> QED
    BY ONLY <2>1, <1>3, TopAdded
<1>5. L + 1 \in 1..(L + 1) /\ \A i \in 1..L : i \in 1..(L + 1)
  OBVIOUS
<1>6. Len(u) = L + 1 /\ Len(u) - 1 = L
  BY <1>2
<1>7. Len(t) = L + 1 /\ t[L + 1] = u[L + 1] \cup X /\ \A i \in 1..L : t[i] = u[i]
  BY ONLY <1>4, <1>6
<1> QED
  BY <1>2, <1>4, <1>5, <1>7

\* What the theories hold after a backtrack.
LEMMA SeenBacktrack ==
  ASSUME Typed, Trailed, NEW k \in Nat, k < DecLevel,
         seen' = AddTop(PopContexts(seen, k), Reenqueued(k))
  PROVE  /\ UserLevel + k \in Nat /\ 1 + UserLevel + k < Len(seen)
         /\ seen' \in Seq(SUBSET Lit) /\ Len(seen') = 1 + UserLevel + k
         /\ seen'[1 + UserLevel + k] = seen[1 + UserLevel + k] \cup Reenqueued(k)
         /\ \A j \in 1..(UserLevel + k) : seen'[j] = seen[j]
<1>1. /\ UserLevel \in Nat /\ DecLevel \in Nat /\ Len(seen) = 1 + UserLevel + DecLevel
      /\ seen \in Seq(SUBSET Lit)
  BY TypedFacts
<1>2. PICK L \in Nat : L = UserLevel + k /\ 1 + UserLevel + k = L + 1
  BY <1>1
<1>3. L + 1 <= Len(seen) /\ L + 1 < Len(seen) /\ L + 1 \in 1..Len(seen)
  BY <1>1, <1>2
<1>4. Reenqueued(k) \subseteq Lit
  <2>1. PICK n, c, t : TrailParts(k, n, c, t)
    BY KeptTrail
  <2>2. ToSet(Undone(k)) = {assignments[p] : p \in (c + 1)..n} /\ c \in Nat /\ n = Len(assignments)
    BY <2>1 DEF TrailParts
  <2>3. \A p \in (c + 1)..n : assignments[p] \in Lit
    BY <2>2, Elements
  <2> QED
    BY <2>2, <2>3 DEF Reenqueued
<1>5. PICK S, X : S = SUBSET Lit /\ X = Reenqueued(k)
  OBVIOUS
<1>6. /\ seen \in Seq(S) /\ seen[L + 1] \cup X \in S
      /\ seen' = AddTop(SubSeq(seen, 1, L + 1), X)
  <2>1. seen[L + 1] \in SUBSET Lit
    BY <1>3, Elements
  <2>2. PopContexts(seen, k) = SubSeq(seen, 1, L + 1)
    BY <1>2 DEF PopContexts
  <2> QED
    BY <1>1, <1>4, <1>5, <2>1, <2>2
<1>7. /\ seen' \in Seq(S) /\ Len(seen') = L + 1 /\ seen'[L + 1] = seen[L + 1] \cup X
      /\ \A i \in 1..L : seen'[i] = seen[i]
  BY ONLY L \in Nat, <1>3, <1>6, CutAdded
<1> QED
  BY <1>2, <1>3, <1>5, <1>7

\* What the theories were told stays in step with the trail.
LEMMA ToldBacktrack ==
  ASSUME Typed, Typed', Trailed, Told, NEW k \in Nat, k < DecLevel, NEW fresh \in BOOLEAN,
         Reregister(k, fresh), Unassign(k), UserLevel' = UserLevel, DecLevel' = k,
         assignments' = KeptAssignments(k),
         assignmentControl' = SubSeq(assignmentControl, 1, k),
         seen' = AddTop(PopContexts(seen, k), Reenqueued(k)), renotify' = renotify
  PROVE  Told'
<1>1. PICK n, c, t : TrailParts(k, n, c, t)
  BY KeptTrail
<1>2. PICK m : m = Len(t)
  OBVIOUS
<1>3. /\ n \in Nat /\ c \in Nat /\ c <= n /\ m \in Nat
      /\ n = Len(assignments) /\ c = assignmentControl[k + 1] /\ m = Len(assignments')
      /\ k + 1 \in 1..DecLevel /\ c <= m
      /\ \A i \in 1..c : assignments'[i] = assignments[i]
      /\ \A i \in (c + 1)..m : \E p \in (c + 1)..n :
            assignments'[i] = assignments[p] /\ FixedLit(assignments[p])
      /\ ToSet(Undone(k)) = {assignments[p] : p \in (c + 1)..n}
  <2>1. t = assignments'
    BY <1>1 DEF TrailParts
  <2>2. /\ n \in Nat /\ c \in Nat /\ c <= n /\ m \in Nat
        /\ n = Len(assignments) /\ c = assignmentControl[k + 1] /\ m = Len(t)
        /\ k + 1 \in 1..DecLevel /\ c <= m
        /\ \A i \in 1..c : t[i] = assignments[i]
        /\ \A i \in (c + 1)..m : \E p \in (c + 1)..n :
              t[i] = assignments[p] /\ FixedLit(assignments[p])
        /\ ToSet(Undone(k)) = {assignments[p] : p \in (c + 1)..n}
    BY ONLY <1>1, <1>2 DEF TrailParts
  <2> QED
    BY ONLY <2>1, <2>2
<1>4. UserLevel \in Nat /\ DecLevel \in Nat /\ \A j \in 1..k : j \in 1..DecLevel /\ j \in 1..(k + 1)
  BY TypedFacts
<1>5. PICK L \in Nat : L = UserLevel + k /\ L + 1 = 1 + UserLevel + k
  BY <1>4
<1>6. /\ L + 1 < Len(seen) /\ Len(seen) \in Nat /\ Len(seen') = L + 1
      /\ seen'[L + 1] = seen[L + 1] \cup Reenqueued(k)
      /\ \A j \in 1..L : seen'[j] = seen[j]
  <2>1. /\ 1 + UserLevel + k < Len(seen) /\ Len(seen') = 1 + UserLevel + k
        /\ seen'[1 + UserLevel + k] = seen[1 + UserLevel + k] \cup Reenqueued(k)
        /\ \A j \in 1..(UserLevel + k) : seen'[j] = seen[j]
    BY SeenBacktrack
  <2>2. Len(seen) \in Nat
    BY TypedFacts, SeqElement
  <2> QED
    BY ONLY <1>5, <2>1, <2>2
<1>7. /\ \A j \in 1..(L + 1) : j \in 1..L \/ j = L + 1
      /\ \A j \in 1..(L + 1) : j \in 1..Len(seen)
  BY <1>6
<1>8. \A j \in 1..(L + 1) : seen[j] \subseteq seen'[j]
  BY <1>6, <1>7
<1>9. \A v \in 1..nVars : v \in Var /\ lev[v] \in Nat /\ info[v].fixed \in BOOLEAN
  BY TypedFacts, InfoFields
<1>10. \A v \in Var : lev'[v] = IF lev[v] > k THEN 0 ELSE lev[v]
  BY UnassignDoes
<1>11. \A v \in 1..nVars : /\ info'[v].active = info[v].active
                           /\ info'[v].fixed = info[v].fixed
                           /\ info'[v].atom = info[v].atom
                           /\ info'[v].fixedAt = info[v].fixedAt
  BY BacktrackInfo
<1>12. \A v \in 1..nVars : info[v].active =>
          info'[v].asg = IF ~info[v].fixed /\ lev[v] > k THEN 0 ELSE info[v].asg
  BY BacktrackAsg
<1>13. /\ 1..nVars \subseteq 1..nVars'
       /\ \A v \in 1..nVars' : v \in 1..nVars \/ (info'[v].asg = 0 /\ ~info'[v].fixed)
  BY BacktrackVars
<1>14. \A i \in 1..n : LET v == VarOf(assignments[i])
                       IN v \in 1..nVars /\ info[v].active /\ info[v].asg = assignments[i]
  BY <1>3 DEF Trailed
<1>15. ASSUME NEW l, AssignedAtom(l), info[VarOf(l)].fixed \/ lev[VarOf(l)] <= k
       PROVE  AssignedAtom(l)'
  <2>1. /\ VarOf(l) \in 1..nVars /\ info[VarOf(l)].active /\ info[VarOf(l)].atom
        /\ info[VarOf(l)].asg = l
    BY <1>15 DEF AssignedAtom
  <2>2. info'[VarOf(l)].asg = l
    BY <1>9, <1>12, <1>15, <2>1
  <2> QED
    BY <1>11, <1>13, <2>1, <2>2 DEF AssignedAtom
<1>16. ASSUME NEW l \in Reenqueued(k)
       PROVE  AssignedAtom(l) /\ info[VarOf(l)].fixed
  <2>1. PICK p \in (c + 1)..n : l = assignments[p]
    BY <1>3 DEF Reenqueued
  <2>2. p \in 1..n
    BY <1>3
  <2>3. info[VarOf(l)].fixed /\ info[VarOf(l)].atom
    BY DEF Reenqueued, FixedLit
  <2> QED
    BY <1>14, <2>1, <2>2, <2>3 DEF AssignedAtom
<1>17. ASSUME NEW j \in 1..(L + 1), NEW l \in seen'[j]
       PROVE  AssignedAtom(l)' /\ (info'[VarOf(l)].fixed \/ 1 + UserLevel + lev'[VarOf(l)] <= j)
  <2>1. CASE l \in seen[j]
    <3>1. AssignedAtom(l) /\ (info[VarOf(l)].fixed \/ 1 + UserLevel + lev[VarOf(l)] <= j)
      BY <1>7, <2>1 DEF Told
    <3>2. VarOf(l) \in 1..nVars
      BY <3>1 DEF AssignedAtom
    <3>3. PICK d \in Nat : d = lev[VarOf(l)]
      BY <1>9, <3>2
    <3>4. info[VarOf(l)].fixed \/ d <= k
      BY <1>4, <1>5, <3>1, <3>3
    <3>5. d <= k => lev'[VarOf(l)] = d
      BY <1>9, <1>10, <3>2, <3>3
    <3> QED
      BY <1>11, <1>15, <3>1, <3>2, <3>3, <3>4, <3>5
  <2>2. CASE l \in Reenqueued(k)
    <3>1. AssignedAtom(l) /\ info[VarOf(l)].fixed /\ VarOf(l) \in 1..nVars
      BY <1>16, <2>2 DEF AssignedAtom
    <3> QED
      BY <1>11, <1>15, <3>1
  <2> QED
    BY <1>6, <1>7, <2>1, <2>2
<1>18. ASSUME NEW i \in 1..m, info'[VarOf(assignments'[i])].atom,
              NEW j \in 0..k, j < k => i <= assignmentControl'[j + 1]
       PROVE  assignments'[i] \in seen'[1 + UserLevel + j] \cup ToSet(renotify)
  <2>1. j \in Nat /\ j \in 0..DecLevel /\ j < DecLevel /\ 1 + UserLevel + j \in 1..(L + 1)
    BY <1>4, <1>5
  <2>2. j < k => /\ assignmentControl'[j + 1] = assignmentControl[j + 1]
                 /\ assignmentControl[j + 1] <= c /\ assignmentControl[j + 1] \in Nat
    <3>1. assignmentControl \in Seq(Nat) /\ k \in 0..Len(assignmentControl)
      <4>1. assignmentControl \in Seq(Nat) /\ Len(assignmentControl) = DecLevel
        BY TypedFacts
      <4> QED
        BY <1>4, <4>1
    <3>2. \A q \in 1..k : assignmentControl'[q] = assignmentControl[q]
      BY <3>1, Prefix
    <3>3. j < k => j + 1 \in 1..k /\ j + 1 \in 1..DecLevel /\ j + 1 \in 1..(k + 1)
      BY <1>4
    <3> QED
      BY <1>3, <3>2, <3>3, Elements DEF Trailed
  <2>3. CASE i \in 1..c
    <3>1. i \in 1..n /\ i <= c /\ assignments'[i] = assignments[i]
      BY <1>3, <2>3
    <3>2. j < DecLevel => i <= assignmentControl[j + 1]
      <4>1. CASE j < k
        BY <1>18, <2>2, <4>1
      <4>2. CASE j = k
        BY <1>3, <3>1, <4>2
      <4> QED
        BY <4>1, <4>2
    <3>3. info[VarOf(assignments[i])].atom
      BY <1>11, <1>14, <1>18, <3>1
    <3>4. assignments[i] \in seen[1 + UserLevel + j] \cup ToSet(renotify)
      BY <1>3, <2>1, <3>1, <3>2, <3>3 DEF Told
    <3> QED
      BY <1>8, <2>1, <3>1, <3>4
  <2>4. CASE i \in (c + 1)..m
    <3>1. PICK p \in (c + 1)..n : assignments'[i] = assignments[p] /\ FixedLit(assignments[p])
      BY <1>3, <2>4
    <3>2. p \in 1..n /\ i > c /\ i \in Nat
      BY <1>3, <2>4
    <3>3. j = k
      BY <1>3, <1>18, <2>2, <3>2
    <3>4. info[VarOf(assignments[p])].atom
      BY <1>11, <1>14, <1>18, <3>1, <3>2
    <3>5. assignments[p] \in Reenqueued(k)
      BY <1>3, <3>1, <3>4 DEF Reenqueued
    <3> QED
      BY <1>5, <1>6, <3>1, <3>3, <3>5
  <2>5. i \in 1..c \/ i \in (c + 1)..m
    BY <1>3
  <2> QED
    BY <2>3, <2>4, <2>5
<1>19. ASSUME NEW v \in 1..nVars', info'[v].active, info'[v].atom, info'[v].fixed,
              NEW j \in (1 + info'[v].fixedAt)..UserLevel
       PROVE  info'[v].asg \in seen'[j] \cup ToSet(renotify)
  <2>1. v \in 1..nVars
    BY <1>13, <1>19
  <2>2. /\ info[v].active /\ info[v].atom /\ info[v].fixed /\ info'[v].asg = info[v].asg
        /\ info[v].fixedAt \in Nat /\ j \in (1 + info[v].fixedAt)..UserLevel
    BY <1>11, <1>12, <1>19, <2>1, TypedFacts, InfoFields
  <2>3. info[v].asg \in seen[j] \cup ToSet(renotify)
    BY <2>1, <2>2 DEF Told
  <2>4. j \in 1..(L + 1)
    <3>1. PICK a \in Nat : a = info[v].fixedAt /\ j \in (1 + a)..UserLevel
      BY <2>2
    <3> QED
      BY <1>4, <1>5, <3>1
  <2> QED
    BY <1>8, <2>2, <2>3, <2>4
<1>20. \A l \in ToSet(renotify) : AssignedAtom(l)' /\ info'[VarOf(l)].fixed
  <2> TAKE l \in ToSet(renotify)
  <2>1. AssignedAtom(l) /\ info[VarOf(l)].fixed /\ VarOf(l) \in 1..nVars
    BY DEF Told, AssignedAtom
  <2> QED
    BY <1>11, <1>15, <2>1
<1>21. \A j \in 1..Len(seen') : \A l \in seen'[j] :
         AssignedAtom(l)' /\ (info'[VarOf(l)].fixed \/ 1 + UserLevel' + lev'[VarOf(l)] <= j)
  BY <1>6, <1>17
<1>22. \A i \in 1..Len(assignments') : info'[VarOf(assignments'[i])].atom =>
         \A j \in 0..DecLevel' : (j < DecLevel' => i <= assignmentControl'[j + 1]) =>
            assignments'[i] \in seen'[1 + UserLevel' + j] \cup ToSet(renotify')
  BY <1>3, <1>18
<1>23. \A v \in 1..nVars' : info'[v].active /\ info'[v].atom /\ info'[v].fixed =>
         \A j \in (1 + info'[v].fixedAt)..UserLevel' : info'[v].asg \in seen'[j] \cup ToSet(renotify')
  BY <1>19
<1> QED
  BY <1>20, <1>21, <1>22, <1>23 DEF Told

-----------------------------------------------------------------------------
(***************************************************************************)
(* Assigning a literal: at the current level, at a new one, or for good.   *)
(***************************************************************************)
\* The control marks stay, or a level is opened.
Marks ==
    \/ assignmentControl' = assignmentControl /\ DecLevel' = DecLevel
    \/ assignmentControl' = Append(assignmentControl, Len(assignments)) /\ DecLevel' = DecLevel + 1

\* CaDiCaL assigns l to v, if v is a variable at all, and nothing to others.
Takes(v, l) ==
    /\ v \in Var => v \in 1..nVars
    /\ \A u \in Var : u # v => val'[u] = val[u] /\ lev'[u] = lev[u]
    /\ \A u \in 1..nVars : u # v => info'[u] = info[u]
    /\ v \in 1..nVars =>
         /\ l \in {v, -v} /\ val'[v] = l
         /\ info'[v].active = info[v].active /\ info'[v].atom = info[v].atom
         /\ info'[v].intro = info[v].intro

\* At the level that is current afterwards.
TakesNow(v) ==
    v \in 1..nVars => /\ val[v] = 0 /\ lev'[v] = DecLevel' /\ DecLevel' >= 1
                      /\ info'[v].fixed = info[v].fixed /\ info'[v].fixedAt = info[v].fixedAt

\* For good.
TakesFixed(v, l) ==
    v \in 1..nVars => /\ info[v].active /\ val[v] # -l /\ lev'[v] = 0
                      /\ info'[v].fixed /\ info'[v].fixedAt = UserLevel

\* The propagator records it, or ignores it.
Records(v, l) ==
    /\ v \in 1..nVars /\ info[v].active /\ info[v].asg = 0
    /\ info'[v].asg = l /\ assignments' = Append(assignments, l)
Ignores(v) ==
    /\ v \in 1..nVars => info'[v].asg = info[v].asg /\ (info'[v].fixed => info[v].asg # 0 \/ ~info[v].active)
    /\ assignments' = assignments

\* A step that assigns l to v.
Assigns(v, l) ==
    /\ UNCHANGED <<instance, nVars>>
    /\ Marks /\ Takes(v, l)
    /\ TakesNow(v) \/ TakesFixed(v, l)
    /\ Records(v, l) \/ Ignores(v)

\* The marks after the step.
LEMMA MarksAre ==
  ASSUME Typed, Trailed, Marks
  PROVE  /\ DecLevel' \in {DecLevel, DecLevel + 1}
         /\ \A j \in 1..DecLevel : j \in 1..DecLevel' /\ assignmentControl'[j] = assignmentControl[j]
         /\ \A j \in 1..DecLevel' : j \in 1..DecLevel \/
               (j = DecLevel + 1 /\ assignmentControl'[j] = Len(assignments))
         /\ \A j \in 1..DecLevel' : assignmentControl'[j] \in Nat /\ assignmentControl'[j] <= Len(assignments)
         /\ \A j \in 1..DecLevel' : \A m \in 1..j : assignmentControl'[m] <= assignmentControl'[j]
<1>1. /\ DecLevel \in Nat /\ assignmentControl \in Seq(Nat) /\ Len(assignmentControl) = DecLevel
      /\ Len(assignments) \in Nat
  BY TypedFacts, SeqElement
<1>2. /\ \A j \in 1..DecLevel : assignmentControl[j] \in Nat /\ assignmentControl[j] <= Len(assignments)
      /\ \A j \in 1..DecLevel : \A m \in 1..j : assignmentControl[m] <= assignmentControl[j]
  BY Elements DEF Trailed
<1>3. CASE assignmentControl' = assignmentControl /\ DecLevel' = DecLevel
  BY <1>1, <1>2, <1>3
<1>4. CASE assignmentControl' = Append(assignmentControl, Len(assignments)) /\ DecLevel' = DecLevel + 1
  <2>1. /\ \A j \in 1..DecLevel : assignmentControl'[j] = assignmentControl[j]
        /\ assignmentControl'[DecLevel + 1] = Len(assignments)
        /\ \A j \in 1..(DecLevel + 1) : j \in 1..DecLevel \/ j = DecLevel + 1
        /\ \A j \in 1..DecLevel : j \in 1..(DecLevel + 1)
    BY <1>1, <1>4, Appended
  <2>2. ASSUME NEW j \in 1..(DecLevel + 1)
        PROVE  assignmentControl'[j] \in Nat /\ assignmentControl'[j] <= Len(assignments)
    <3>1. CASE j \in 1..DecLevel
      BY <1>2, <2>1, <3>1
    <3>2. CASE j = DecLevel + 1
      <4>1. assignmentControl'[j] = Len(assignments)
        BY <2>1, <3>2
      <4> QED
        BY <1>1, <4>1
    <3> QED
      BY <2>1, <3>1, <3>2
  <2>3. ASSUME NEW j \in 1..(DecLevel + 1), NEW m \in 1..j
        PROVE  assignmentControl'[m] <= assignmentControl'[j]
    <3>1. CASE j \in 1..DecLevel
      <4>1. m \in 1..DecLevel
        BY <1>1, <3>1
      <4> QED
        BY <1>2, <2>1, <3>1, <4>1
    <3>2. CASE j = DecLevel + 1
      <4>1. m \in 1..(DecLevel + 1)
        BY <1>1, <3>2
      <4> QED
        BY <2>1, <2>2, <3>2, <4>1
    <3> QED
      BY <2>1, <3>1, <3>2
  <2> QED
    BY <1>4, <2>1, <2>2, <2>3
<1> QED
  BY <1>3, <1>4 DEF Marks

\* What the step does to its variable.
LEMMA AssignDoes ==
  ASSUME Typed, Trailed, NEW v \in 1..nVars, NEW l, Assigns(v, l)
  PROVE  /\ l \in {v, -v} /\ l # 0 /\ VarOf(l) = v /\ val'[v] = l
         /\ info'[v].active = info[v].active
         /\ info'[v].asg = l \/ info'[v].asg = info[v].asg
         /\ info[v].active => (info[v].asg = 0 \/ info[v].asg = l)
         /\ info[v].active => (info[v].asg # 0 => info'[v].asg = l /\ info'[v].fixed)
         /\ info[v].active => (info[v].fixed => info'[v].fixed)
         /\ info[v].active => (info'[v].fixed => lev'[v] = 0 /\ info'[v].asg = l)
         /\ ~info'[v].fixed => lev'[v] = DecLevel' /\ DecLevel' >= 1
         /\ ~Records(v, l) => info'[v].asg = info[v].asg
<1>a. /\ Takes(v, l) /\ (TakesNow(v) \/ TakesFixed(v, l)) /\ (Records(v, l) \/ Ignores(v))
  BY DEF Assigns
<1>b. \A u \in 1..nVars : VarOf(u) = u /\ VarOf(-u) = u /\ u # 0 /\ -u # 0
  BY LitOfVar
<1>c. info[v].active => /\ info[v].asg # 0 => val[v] = info[v].asg
                        /\ info[v].fixed => info[v].asg # 0
  BY DEF Trailed
<1>d. info[v].asg \in {0, v, -v}
  BY DEF Trailed
<1>1. l \in {v, -v} /\ val'[v] = l /\ info'[v].active = info[v].active
  BY <1>a DEF Takes
<1>2. l # 0 /\ VarOf(l) = v
  BY <1>b, <1>1
<1>3. info'[v].asg = l \/ info'[v].asg = info[v].asg
  BY <1>a DEF Records, Ignores
<1>4. ~Records(v, l) => /\ info'[v].asg = info[v].asg
                        /\ info'[v].fixed => info[v].asg # 0 \/ ~info[v].active
  BY <1>a DEF Ignores
<1>5. Records(v, l) => info[v].active /\ info[v].asg = 0 /\ info'[v].asg = l
  BY DEF Records
<1>6. CASE TakesNow(v)
  <2>1. val[v] = 0 /\ lev'[v] = DecLevel' /\ DecLevel' >= 1 /\ info'[v].fixed = info[v].fixed
    BY <1>6 DEF TakesNow
  <2>2. info[v].active => info[v].asg = 0 /\ ~info[v].fixed
    BY <1>c, <1>d, <2>1
  <2> QED
    BY <1>1, <1>2, <1>3, <1>4, <1>5, <2>1, <2>2
<1>7. CASE TakesFixed(v, l)
  <2>1. val[v] # -l /\ lev'[v] = 0 /\ info'[v].fixed /\ info[v].active
    BY <1>7 DEF TakesFixed
  <2>2. info[v].asg = 0 \/ info[v].asg = l
    <3>1. info[v].asg \in {0, v, -v} /\ (info[v].asg # 0 => info[v].asg # -l)
      BY <1>c, <1>d, <2>1
    <3>2. -(-v) = v
      BY LitOfVar
    <3> QED
      BY <1>1, <3>1, <3>2
  <2> QED
    BY <1>1, <1>2, <1>3, <1>4, <1>5, <2>1, <2>2
<1> QED
  BY <1>a, <1>6, <1>7

\* The trail after the step.
LEMMA TrailedAssign ==
  ASSUME Typed, Typed', Trailed, NEW v, NEW l \in Lit \cup {0}, Assigns(v, l)
  PROVE  Trailed'
<1>1. /\ nVars' = nVars /\ Var' = Var /\ DecLevel \in Nat
      /\ DecLevel' \in Nat /\ DecLevel <= DecLevel'
  <2>1. nVars' = nVars /\ Var' = Var /\ Marks
    BY DEF Assigns, Var, MaxVar
  <2>2. DecLevel \in Nat /\ DecLevel' \in {DecLevel, DecLevel + 1}
    BY <2>1, TypedFacts, MarksAre
  <2> QED
    BY <2>1, <2>2
<1>2. /\ Takes(v, l) /\ (TakesNow(v) \/ TakesFixed(v, l)) /\ (Records(v, l) \/ Ignores(v))
  BY DEF Assigns
<1>3. /\ \A j \in 1..DecLevel' : assignmentControl'[j] \in Nat /\ assignmentControl'[j] <= Len(assignments)
      /\ \A j \in 1..DecLevel' : \A m \in 1..j : assignmentControl'[m] <= assignmentControl'[j]
      /\ \A j \in 1..DecLevel' : j \in 1..DecLevel \/
               (j = DecLevel + 1 /\ assignmentControl'[j] = Len(assignments))
      /\ \A j \in 1..DecLevel : assignmentControl'[j] = assignmentControl[j]
  BY MarksAre DEF Assigns
<1>4. PICK n \in Nat : n = Len(assignments)
  BY TypedFacts, SeqElement
<1>5. \A u \in 1..nVars : u \in Var /\ lev[u] \in Nat /\ info[u].fixed \in BOOLEAN
  BY TypedFacts, InfoFields
<1>6. \A u \in 1..nVars : VarOf(u) = u /\ VarOf(-u) = u /\ u # 0 /\ -u # 0
  BY LitOfVar
<1>7. \A i \in 1..n : LET u == VarOf(assignments[i])
                      IN u \in 1..nVars /\ info[u].active /\ info[u].asg = assignments[i]
  BY <1>4 DEF Trailed
<1>8. \A u \in 1..nVars : info[u].active =>
         /\ info[u].asg # 0 => val[u] = info[u].asg
         /\ info[u].fixed => info[u].asg # 0 /\ lev[u] = 0
         /\ info[u].asg # 0 /\ ~info[u].fixed => lev[u] >= 1
         /\ info[u].asg # 0 => \E i \in 1..n : assignments[i] = info[u].asg
  BY <1>4 DEF Trailed
<1>9. \A u \in 1..nVars : info[u].asg \in {0, u, -u} /\ val[u] \in {0, u, -u}
  BY <1>5 DEF Trailed
<1>10. PICK m \in Nat :
         /\ m = Len(assignments')
         /\ \A i \in 1..n : i \in 1..m /\ assignments'[i] = assignments[i]
         /\ \A i \in 1..m : i \in 1..n \/ (i = n + 1 /\ Records(v, l) /\ assignments'[i] = l)
         /\ Records(v, l) => n + 1 \in 1..m /\ assignments'[n + 1] = l
         /\ n <= m
  <2>1. CASE Records(v, l)
    <3>1. assignments' = Append(assignments, l) /\ l \in Lit /\ assignments \in Seq(Lit)
      <4>1. v \in 1..nVars /\ l \in {v, -v}
        BY <1>2, <2>1 DEF Records, Takes
      <4>2. l # 0
        BY <1>6, <4>1
      <4> QED
        BY <2>1, <4>2, TypedFacts DEF Records
    <3>2. /\ Len(assignments') = n + 1 /\ assignments'[n + 1] = l
          /\ \A i \in 1..n : assignments'[i] = assignments[i]
          /\ \A i \in 1..(n + 1) : i \in 1..n \/ i = n + 1
      BY <1>4, <3>1, Appended
    <3>3. n + 1 \in Nat /\ n + 1 \in 1..(n + 1) /\ n <= n + 1 /\ \A i \in 1..n : i \in 1..(n + 1)
      OBVIOUS
    <3> QED
      BY <2>1, <3>2, <3>3
  <2>2. CASE ~Records(v, l)
    <3>1. assignments' = assignments
      BY <1>2, <2>2 DEF Ignores
    <3> QED
      BY <1>4, <2>2, <3>1
  <2> QED
    BY <2>1, <2>2
<1>11. ASSUME NEW u \in Var PROVE val'[u] \in {0, u, -u} /\ lev'[u] <= DecLevel'
  <2>1. CASE u # v
    <3>1. val'[u] = val[u] /\ lev'[u] = lev[u] /\ val[u] \in {0, u, -u} /\ lev[u] <= DecLevel
      BY <1>2, <2>1 DEF Takes, Trailed
    <3>2. lev[u] \in Nat
      BY TypedFacts
    <3> QED
      BY <1>1, <3>1, <3>2
  <2>2. CASE u = v
    <3>1. v \in 1..nVars /\ l \in {v, -v} /\ val'[v] = l
      BY <1>2, <2>2 DEF Takes
    <3>2. lev'[v] = DecLevel' \/ lev'[v] = 0
      BY <1>2, <3>1 DEF TakesNow, TakesFixed
    <3> QED
      BY <1>1, <2>2, <3>1, <3>2
  <2> QED
    BY <2>1, <2>2
<1>12. ASSUME v \in 1..nVars
       PROVE  /\ l \in {v, -v} /\ l # 0 /\ VarOf(l) = v /\ val'[v] = l
              /\ info'[v].active = info[v].active
              /\ info'[v].asg = l \/ info'[v].asg = info[v].asg
              /\ info[v].active => (info[v].asg = 0 \/ info[v].asg = l)
              /\ info[v].active => (info[v].asg # 0 => info'[v].asg = l /\ info'[v].fixed)
              /\ info[v].active => (info[v].fixed => info'[v].fixed)
              /\ info[v].active => (info'[v].fixed => lev'[v] = 0 /\ info'[v].asg = l)
              /\ ~info'[v].fixed => lev'[v] = DecLevel' /\ DecLevel' >= 1
              /\ ~Records(v, l) => info'[v].asg = info[v].asg
  BY ONLY Typed, Trailed, Assigns(v, l), <1>12, AssignDoes
<1>13. \A u \in 1..nVars : u # v =>
          /\ info'[u] = info[u] /\ val'[u] = val[u] /\ lev'[u] = lev[u]
  BY <1>2, <1>5 DEF Takes
<1>14. ASSUME NEW u \in 1..nVars PROVE info'[u].asg \in {0, u, -u}
  <2>1. CASE u # v
    BY <1>9, <1>13, <2>1
  <2>2. CASE u = v
    <3>1. (info'[u].asg = l \/ info'[u].asg = info[u].asg) /\ l \in {u, -u}
      BY <1>12, <2>2
    <3> QED
      BY <1>9, <3>1
  <2> QED
    BY <2>1, <2>2
<1>15. ASSUME NEW u \in 1..nVars, info'[u].active
       PROVE  /\ info'[u].asg # 0 => val'[u] = info'[u].asg
              /\ info'[u].fixed => info'[u].asg # 0 /\ lev'[u] = 0
              /\ info'[u].asg # 0 /\ ~info'[u].fixed => lev'[u] >= 1
              /\ info'[u].asg # 0 => \E i \in 1..m : assignments'[i] = info'[u].asg
  <2>1. CASE u # v
    <3>1. info'[u] = info[u] /\ val'[u] = val[u] /\ lev'[u] = lev[u] /\ info[u].active
      BY <1>13, <1>15, <2>1
    <3>2. info[u].asg # 0 => \E i \in 1..m : assignments'[i] = info[u].asg
      BY <1>8, <1>10, <3>1
    <3> QED
      BY <1>8, <3>1, <3>2
  <2>2. CASE u = v
    <3>1. v \in 1..nVars /\ info[v].active
      BY <1>12, <1>15, <2>2
    <3>2. info'[v].asg # 0 => info'[v].asg = l
      BY <1>12, <3>1
    <3>3. info'[v].asg # 0 => \E i \in 1..m : assignments'[i] = info'[v].asg
      <4>1. CASE Records(v, l)
        BY <1>10, <3>2, <4>1
      <4>2. CASE ~Records(v, l)
        <5>1. info'[v].asg = info[v].asg
          BY <1>12, <3>1, <4>2
        <5> QED
          BY <1>8, <1>10, <3>1, <5>1
      <4> QED
        BY <4>1, <4>2
    <3>4. /\ info'[v].asg # 0 => val'[v] = info'[v].asg
          /\ info'[v].fixed => info'[v].asg # 0 /\ lev'[v] = 0
      BY <1>12, <3>1, <3>2
    <3>5. ~info'[v].fixed => lev'[v] >= 1
      BY <1>12, <3>1
    <3> QED
      BY <2>2, <3>3, <3>4, <3>5
  <2> QED
    BY <2>1, <2>2
<1>16. ASSUME NEW i \in 1..m
       PROVE  LET u == VarOf(assignments'[i])
              IN u \in 1..nVars /\ info'[u].active /\ info'[u].asg = assignments'[i]
  <2>1. CASE i \in 1..n
    <3>1. PICK u : u = VarOf(assignments[i])
      OBVIOUS
    <3>2. u \in 1..nVars /\ info[u].active /\ info[u].asg = assignments[i] /\ assignments'[i] = assignments[i]
      BY <1>7, <1>10, <2>1, <3>1
    <3>3. info[u].asg # 0
      <4>1. assignments[i] \in Lit
        BY <1>4, <2>1, Elements
      <4> QED
        BY <3>2, <4>1, TypedFacts, InstanceFacts
    <3>4. info'[u].active /\ info'[u].asg = assignments[i]
      BY <1>12, <1>13, <3>2, <3>3
    <3> QED
      BY <3>1, <3>2, <3>4
  <2>2. CASE Records(v, l) /\ assignments'[i] = l
    <3>1. v \in 1..nVars /\ info[v].active /\ info'[v].asg = l
      BY <2>2 DEF Records
    <3> QED
      BY <1>12, <2>2, <3>1
  <2> QED
    BY <1>10, <2>1, <2>2
<1>17. ASSUME NEW j \in 1..DecLevel', NEW i \in 1..m, ~info'[VarOf(assignments'[i])].fixed
       PROVE  (lev'[VarOf(assignments'[i])] >= j) = (i > assignmentControl'[j])
  <2>1. PICK u : u = VarOf(assignments'[i])
    OBVIOUS
  <2>2. CASE i \in 1..n
    <3>1. /\ u \in 1..nVars /\ info[u].active /\ info[u].asg = assignments[i]
          /\ assignments'[i] = assignments[i] /\ u = VarOf(assignments[i])
      BY <1>7, <1>10, <2>1, <2>2
    <3>2. info[u].asg # 0
      <4>1. assignments[i] \in Lit
        BY <1>4, <2>2, Elements
      <4> QED
        BY <3>1, <4>1, TypedFacts, InstanceFacts
    <3>3. u # v
      BY <1>12, <1>17, <2>1, <3>1, <3>2
    <3>4. lev'[u] = lev[u] /\ ~info[u].fixed
      BY <1>13, <1>17, <2>1, <3>1, <3>3
    <3>5. CASE j \in 1..DecLevel
      <4>1. (lev[u] >= j) = (i > assignmentControl[j])
        BY <1>4, <2>2, <3>1, <3>4, <3>5 DEF Trailed
      <4> QED
        BY <1>3, <2>1, <3>4, <3>5, <4>1
    <3>6. CASE j = DecLevel + 1 /\ assignmentControl'[j] = Len(assignments)
      <4>1. lev[u] <= DecLevel /\ lev[u] \in Nat
        BY <1>5, <3>1 DEF Trailed
      <4>2. ~(lev'[u] >= j) /\ ~(i > assignmentControl'[j])
        BY <1>1, <1>4, <2>2, <3>4, <3>6, <4>1
      <4> QED
        BY <2>1, <4>2
    <3> QED
      BY <1>3, <3>5, <3>6
  <2>3. CASE i = n + 1 /\ Records(v, l) /\ assignments'[i] = l
    <3>1. v \in 1..nVars
      BY <2>3 DEF Records
    <3>2. u = v
      BY <1>12, <2>1, <2>3, <3>1
    <3>3. lev'[u] = DecLevel' 
      BY <1>12, <1>17, <2>1, <3>1, <3>2
    <3>4. assignmentControl'[j] \in Nat /\ assignmentControl'[j] <= n
      BY <1>3, <1>4
    <3>5. i > assignmentControl'[j] /\ lev'[u] >= j
      BY <1>1, <2>3, <3>3, <3>4
    <3> QED
      BY <2>1, <3>5
  <2> QED
    BY <1>10, <2>2, <2>3
<1>18. \A j \in 1..DecLevel' : assignmentControl'[j] <= m
  <2> TAKE j \in 1..DecLevel'
  <2>1. PICK a \in Nat : a = assignmentControl'[j] /\ a <= n
    BY <1>3, <1>4
  <2>2. a <= m
    BY <1>10, <2>1
  <2> QED
    BY <2>1, <2>2
<1>19. \A i \in 1..m :
         LET u == VarOf(assignments'[i])
         IN u \in 1..nVars' /\ info'[u].active /\ info'[u].asg = assignments'[i]
  BY <1>1, <1>16
<1>20. \A j \in 1..DecLevel', i \in 1..m :
         LET u == VarOf(assignments'[i])
         IN ~info'[u].fixed => (lev'[u] >= j) = (i > assignmentControl'[j])
  BY <1>17
<1> QED
  BY <1>1, <1>3, <1>10, <1>11, <1>14, <1>15, <1>18, <1>19, <1>20 DEF Trailed

\* The theories are told the literals X, in the current level or a new one.
Tells(X) ==
    LET n == Len(seen)
    IN \/ /\ DecLevel' = DecLevel /\ Len(seen') = n /\ seen'[n] = seen[n] \cup X
          /\ \A j \in 1..(n - 1) : seen'[j] = seen[j]
       \/ /\ DecLevel' = DecLevel + 1 /\ Len(seen') = n + 1 /\ seen'[n + 1] = seen[n] \cup X
          /\ \A j \in 1..n : seen'[j] = seen[j]

\* What the theories hold after being told.
LEMMA TellsAre ==
  ASSUME Typed, NEW X, Tells(X)
  PROVE  /\ \A j \in 1..Len(seen) : j \in 1..Len(seen') /\ seen[j] \subseteq seen'[j]
         /\ \A j \in 1..Len(seen') : \A l \in seen'[j] :
               \/ l \in X /\ j = Len(seen')
               \/ \E i \in 1..Len(seen) : i <= j /\ l \in seen[i]
         /\ seen[Len(seen)] \cup X \subseteq seen'[Len(seen')]
         /\ Len(seen) \in Nat /\ Len(seen) >= 1
<1>1. PICK n \in Nat : n = Len(seen) /\ n >= 1
  <2>1. Len(seen) = 1 + UserLevel + DecLevel /\ UserLevel \in Nat /\ DecLevel \in Nat
    BY TypedFacts
  <2> QED
    BY <2>1
<1>2. n \in 1..n /\ \A j \in 1..n : j \in 1..(n - 1) \/ j = n
  BY <1>1
<1>3. CASE Len(seen') = n /\ seen'[n] = seen[n] \cup X /\ \A j \in 1..(n - 1) : seen'[j] = seen[j]
  <2>1. ASSUME NEW j \in 1..n PROVE seen[j] \subseteq seen'[j]
    BY <1>2, <1>3
  <2>2. ASSUME NEW j \in 1..n, NEW l \in seen'[j]
        PROVE  (l \in X /\ j = n) \/ \E i \in 1..n : i <= j /\ l \in seen[i]
    <3>1. j <= j
      BY <1>1
    <3> QED
      BY <1>2, <1>3, <3>1
  <2> QED
    BY <1>1, <1>3, <2>1, <2>2
<1>4. CASE Len(seen') = n + 1 /\ seen'[n + 1] = seen[n] \cup X /\ \A j \in 1..n : seen'[j] = seen[j]
  <2>1. \A j \in 1..n : j \in 1..(n + 1) /\ seen[j] \subseteq seen'[j]
    BY <1>1, <1>4
  <2>2. ASSUME NEW j \in 1..(n + 1), NEW l \in seen'[j]
        PROVE  (l \in X /\ j = n + 1) \/ \E i \in 1..n : i <= j /\ l \in seen[i]
    <3>1. CASE j \in 1..n
      <4>1. j <= j
        BY <1>1
      <4> QED
        BY <1>4, <3>1, <4>1
    <3>2. CASE j = n + 1
      <4>1. n <= j
        BY <1>1, <3>2
      <4> QED
        BY <1>2, <1>4, <3>2, <4>1
    <3> QED
      BY <1>1, <3>1, <3>2
  <2> QED
    BY <1>1, <1>4, <2>1, <2>2
<1> QED
  BY <1>1, <1>3, <1>4 DEF Tells

\* What the theories were told stays in step with the trail.
LEMMA ToldAssign ==
  ASSUME Typed, Typed', Trailed, Told, NEW v, NEW l \in Lit \cup {0}, Assigns(v, l),
         UserLevel' = UserLevel, renotify' = renotify, NEW X, Tells(X),
         Records(v, l) /\ info[v].atom => l \in X,
         \A x \in X : x = l /\ Records(v, l) /\ info[v].atom
  PROVE  Told'
<1>1. nVars' = nVars
  BY DEF Assigns
<1>2. UserLevel \in Nat /\ DecLevel \in Nat /\ Len(seen) = 1 + UserLevel + DecLevel
  BY TypedFacts
<1>3. /\ DecLevel' \in {DecLevel, DecLevel + 1}
      /\ \A j \in 1..DecLevel : j \in 1..DecLevel' /\ assignmentControl'[j] = assignmentControl[j]
      /\ \A j \in 1..DecLevel' : assignmentControl'[j] \in Nat /\ assignmentControl'[j] <= Len(assignments)
  BY MarksAre DEF Assigns
<1>4. Len(seen') = 1 + UserLevel + DecLevel' /\ DecLevel' \in Nat
  BY CreatedNext
<1>5. /\ \A j \in 1..Len(seen) : j \in 1..Len(seen') /\ seen[j] \subseteq seen'[j]
      /\ \A j \in 1..Len(seen') : \A x \in seen'[j] :
            \/ x \in X /\ j = Len(seen')
            \/ \E i \in 1..Len(seen) : i <= j /\ x \in seen[i]
      /\ seen[Len(seen)] \cup X \subseteq seen'[Len(seen')]
  BY TellsAre
<1>6. PICK n \in Nat : n = Len(assignments)
  BY TypedFacts, SeqElement
<1>7. \A u \in 1..nVars : u \in Var /\ lev[u] \in Nat /\ info[u].fixed \in BOOLEAN
  BY TypedFacts, InfoFields
<1>8. \A u \in 1..nVars : u # v => info'[u] = info[u] /\ lev'[u] = lev[u]
  BY <1>7 DEF Assigns, Takes
<1>9. ASSUME v \in 1..nVars
      PROVE  /\ VarOf(l) = v /\ info'[v].active = info[v].active
             /\ info'[v].atom = info[v].atom /\ l # 0
             /\ info[v].active => (info[v].asg = 0 \/ info[v].asg = l)
             /\ info[v].active => (info[v].asg # 0 => info'[v].asg = l /\ info'[v].fixed)
             /\ info[v].active => (info[v].fixed => info'[v].fixed)
             /\ info[v].active => (info'[v].fixed => info'[v].asg = l)
             /\ ~info'[v].fixed => lev'[v] = DecLevel'
             /\ info'[v].fixed => (info[v].active => info'[v].fixedAt = UserLevel)
  <2>1. /\ VarOf(l) = v /\ info'[v].active = info[v].active /\ l # 0
        /\ info[v].active => (info[v].asg = 0 \/ info[v].asg = l)
        /\ info[v].active => (info[v].asg # 0 => info'[v].asg = l /\ info'[v].fixed)
        /\ info[v].active => (info[v].fixed => info'[v].fixed)
        /\ info[v].active => (info'[v].fixed => info'[v].asg = l)
        /\ ~info'[v].fixed => lev'[v] = DecLevel'
    BY ONLY Typed, Trailed, Assigns(v, l), <1>9, AssignDoes
  <2>2. info'[v].atom = info[v].atom
    BY <1>9 DEF Assigns, Takes
  <2>3. ASSUME info'[v].fixed, info[v].active PROVE info'[v].fixedAt = UserLevel
    <3>1. CASE TakesNow(v)
      <4>1. val[v] = 0 /\ info[v].fixed
        BY <1>9, <2>3, <3>1 DEF TakesNow
      <4>2. info[v].asg # 0 /\ val[v] = info[v].asg
        BY <1>9, <2>3, <4>1 DEF Trailed
      <4> QED
        BY <4>1, <4>2
    <3>2. CASE TakesFixed(v, l)
      BY <1>9, <3>2 DEF TakesFixed
    <3> QED
      BY <3>1, <3>2 DEF Assigns
  <2> QED
    BY <2>1, <2>2, <2>3
<1>10. ASSUME NEW x, AssignedAtom(x)
       PROVE  /\ AssignedAtom(x)' /\ VarOf(x) \in 1..nVars
              /\ info[VarOf(x)].fixed => info'[VarOf(x)].fixed
              /\ VarOf(x) # v \/ info'[VarOf(x)].fixed \/ x = 0
  <2>1. PICK u : u = VarOf(x)
    OBVIOUS
  <2>2. u \in 1..nVars /\ info[u].active /\ info[u].atom /\ info[u].asg = x
    BY <1>10, <2>1 DEF AssignedAtom
  <2>3. CASE u # v
    BY <1>1, <1>8, <2>1, <2>2, <2>3 DEF AssignedAtom
  <2>4. CASE u = v
    <3>1. x # 0
      <4>1. VarOf(0) = 0 /\ 0 \notin 1..nVars
        BY DEF VarOf
      <4> QED
        BY <2>1, <2>2, <4>1
    <3>2. info'[v].asg = l /\ info'[v].fixed /\ x = l
      BY <1>9, <2>2, <2>4, <3>1
    <3> QED
      BY <1>1, <1>9, <2>1, <2>2, <2>4, <3>2 DEF AssignedAtom
  <2> QED
    BY <2>3, <2>4
<1>11. ASSUME NEW j \in 1..Len(seen'), NEW x \in seen'[j]
       PROVE  AssignedAtom(x)' /\ (info'[VarOf(x)].fixed \/ 1 + UserLevel + lev'[VarOf(x)] <= j)
  <2>1. CASE x \in X /\ j = Len(seen')
    <3>1. x = l /\ v \in 1..nVars /\ info[v].active /\ info'[v].asg = l /\ info[v].atom
      BY <2>1 DEF Records
    <3>2. VarOf(x) = v /\ AssignedAtom(x)'
      BY <1>1, <1>9, <3>1 DEF AssignedAtom
    <3>3. ~info'[v].fixed => 1 + UserLevel + lev'[v] <= j
      <4>1. ~info'[v].fixed => lev'[v] = DecLevel'
        BY <1>9, <3>1
      <4>2. j = 1 + UserLevel + DecLevel' /\ j <= j
        <5>1. j = 1 + UserLevel + DecLevel'
          BY <1>4, <2>1
        <5>2. j \in Nat
          <6>1. PICK a \in Nat, b \in Nat : j = 1 + a + b
            BY <1>2, <1>4, <5>1
          <6> QED
            BY ONLY a \in Nat, b \in Nat, <6>1
        <5>3. j <= j
          BY ONLY <5>2
        <5> QED
          BY <5>1, <5>3
      <4> QED
        BY <4>1, <4>2
    <3> QED
      BY <3>2, <3>3
  <2>2. CASE \E i \in 1..Len(seen) : i <= j /\ x \in seen[i]
    <3>1. PICK i \in 1..Len(seen) : i <= j /\ x \in seen[i]
      BY <2>2
    <3>2. AssignedAtom(x) /\ (info[VarOf(x)].fixed \/ 1 + UserLevel + lev[VarOf(x)] <= i)
      BY <3>1 DEF Told
    <3>3. /\ AssignedAtom(x)' /\ VarOf(x) \in 1..nVars
          /\ info[VarOf(x)].fixed => info'[VarOf(x)].fixed
          /\ VarOf(x) # v \/ info'[VarOf(x)].fixed \/ x = 0
      BY <1>10, <3>2
    <3>4. x # 0
      <4>1. VarOf(0) = 0 /\ 0 \notin 1..nVars
        BY DEF VarOf
      <4> QED
        BY <3>3, <4>1
    <3>5. CASE VarOf(x) # v
      <4>1. lev'[VarOf(x)] = lev[VarOf(x)]
        BY <1>8, <3>3, <3>5
      <4>2. PICK d \in Nat : d = lev[VarOf(x)]
        BY <1>7, <3>3
      <4>3. 1 + UserLevel + d <= i => 1 + UserLevel + d <= j
        <5>1. UserLevel \in Nat /\ i \in Int /\ j \in Int
          BY <1>2
        <5> QED
          BY ONLY <5>1, <3>1, d \in Nat
      <4> QED
        BY <3>2, <3>3, <4>1, <4>2, <4>3
    <3> QED
      BY <3>3, <3>4, <3>5
  <2> QED
    BY <1>5, <2>1, <2>2
<1>12. \A i \in 1..n : VarOf(assignments[i]) \in 1..nVars
  BY <1>6 DEF Trailed
<1>13. \A u \in 1..nVars : info'[u].atom = info[u].atom
  BY <1>8, <1>9
<1>14. ASSUME NEW i \in 1..n, info[VarOf(assignments[i])].atom,
              NEW j \in 0..DecLevel', j < DecLevel' => i <= assignmentControl'[j + 1]
       PROVE  assignments[i] \in seen'[1 + UserLevel + j] \cup ToSet(renotify)
  <2>1. CASE j \in 0..DecLevel
    <3>1. j < DecLevel => i <= assignmentControl[j + 1]
      <4>1. j < DecLevel => j < DecLevel' /\ j + 1 \in 1..DecLevel
        BY <1>2, <1>3, <2>1
      <4> QED
        BY <1>3, <1>14, <4>1
    <3>2. assignments[i] \in seen[1 + UserLevel + j] \cup ToSet(renotify)
      BY <1>6, <1>14, <2>1, <3>1 DEF Told
    <3>3. 1 + UserLevel + j \in 1..Len(seen)
      BY <1>2, <2>1
    <3> QED
      BY <1>5, <3>2, <3>3
  <2>2. CASE j = DecLevel + 1
    <3>1. 1 + UserLevel + j = Len(seen') /\ DecLevel \in 0..DecLevel
      <4>1. DecLevel' = DecLevel + 1
        BY <1>2, <1>3, <1>4, <2>2
      <4> QED
        BY ONLY <4>1, <1>2, <1>4, <2>2
    <3>2. assignments[i] \in seen[1 + UserLevel + DecLevel] \cup ToSet(renotify)
      <4>1. ~(DecLevel < DecLevel)
        BY <1>2
      <4> QED
        BY <1>6, <1>14, <3>1, <4>1 DEF Told
    <3> QED
      BY <1>2, <1>5, <3>1, <3>2
  <2>3. j \in 0..DecLevel \/ j = DecLevel + 1
    BY <1>2, <1>3
  <2> QED
    BY <2>1, <2>2, <2>3
<1>15. ASSUME NEW i \in 1..Len(assignments'), info'[VarOf(assignments'[i])].atom,
              NEW j \in 0..DecLevel', j < DecLevel' => i <= assignmentControl'[j + 1]
       PROVE  assignments'[i] \in seen'[1 + UserLevel + j] \cup ToSet(renotify)
  <2>1. CASE Ignores(v)
    <3>1. assignments' = assignments
      BY <2>1 DEF Ignores
    <3> QED
      BY <1>6, <1>12, <1>13, <1>14, <1>15, <3>1
  <2>2. CASE Records(v, l)
    <3>1. assignments' = Append(assignments, l) /\ assignments \in Seq(Lit) /\ l \in Lit
      <4>1. l # 0
        BY <1>9, <2>2 DEF Records
      <4> QED
        BY <2>2, <4>1, TypedFacts DEF Records
    <3>2. /\ Len(assignments') = n + 1 /\ assignments'[n + 1] = l
          /\ \A p \in 1..n : assignments'[p] = assignments[p]
          /\ \A p \in 1..(n + 1) : p \in 1..n \/ p = n + 1
      BY <1>6, <3>1, Appended
    <3>3. CASE i \in 1..n
      <4>1. assignments'[i] = assignments[i] /\ info[VarOf(assignments[i])].atom
        BY <1>12, <1>13, <1>15, <3>2, <3>3
      <4> QED
        BY <1>14, <1>15, <3>3, <4>1
    <3>4. CASE i = n + 1
      <4>1. j = DecLevel'
        <5>1. j < DecLevel' => j + 1 \in 1..DecLevel'
          BY <1>4
        <5>2. j < DecLevel' => assignmentControl'[j + 1] \in Nat /\ assignmentControl'[j + 1] <= n
          BY <1>3, <1>6, <5>1
        <5>3. ~(j < DecLevel')
          BY <1>15, <3>4, <5>2
        <5> QED
          BY <1>4, <5>3
      <4>2. assignments'[i] = l /\ info'[v].atom /\ v \in 1..nVars
        BY <1>9, <1>15, <2>2, <3>2, <3>4 DEF Records
      <4>3. l \in X
        BY <1>13, <2>2, <4>2
      <4> QED
        BY <1>4, <1>5, <4>1, <4>2, <4>3
    <3> QED
      BY <3>2, <3>3, <3>4
  <2> QED
    BY <2>1, <2>2 DEF Assigns
<1>16. ASSUME NEW u \in 1..nVars, info'[u].active, info'[u].atom, info'[u].fixed,
              NEW j \in (1 + info'[u].fixedAt)..UserLevel
       PROVE  info'[u].asg \in seen'[j] \cup ToSet(renotify)
  <2>1. CASE u # v
    <3>1. /\ info'[u] = info[u] /\ info[u].active /\ info[u].atom /\ info[u].fixed
          /\ info[u].fixedAt \in Nat /\ j \in (1 + info[u].fixedAt)..UserLevel
      BY <1>7, <1>8, <1>16, <2>1, InfoFields
    <3>2. info[u].asg \in seen[j] \cup ToSet(renotify)
      BY <3>1 DEF Told
    <3>3. j \in 1..Len(seen)
      <4>1. PICK a \in Nat : a = info[u].fixedAt /\ j \in (1 + a)..UserLevel
        BY <3>1
      <4> QED
        <5>1. PICK b \in Nat, c \in Nat : b = UserLevel /\ Len(seen) = 1 + b + c
          BY <1>2
        <5>2. j \in (1 + a)..b
          BY <4>1, <5>1
        <5>3. j \in 1..(1 + b + c)
          BY ONLY a \in Nat, b \in Nat, c \in Nat, <5>2
        <5> QED
          BY <5>1, <5>3
    <3> QED
      BY <1>5, <3>1, <3>2, <3>3
  <2>2. CASE u = v
    <3>1. info'[u].fixedAt = UserLevel
      BY <1>9, <1>16, <2>2
    <3>2. j \in (1 + UserLevel)..UserLevel
      BY <1>16, <3>1
    <3> QED
      BY <1>2, <3>2
  <2> QED
    BY <2>1, <2>2
<1>17. \A x \in ToSet(renotify) : AssignedAtom(x)' /\ info'[VarOf(x)].fixed
  BY <1>10 DEF Told
<1>18. \A j \in 1..Len(seen') : \A x \in seen'[j] :
         AssignedAtom(x)' /\ (info'[VarOf(x)].fixed \/ 1 + UserLevel' + lev'[VarOf(x)] <= j)
  BY <1>11
<1>19. \A i \in 1..Len(assignments') : info'[VarOf(assignments'[i])].atom =>
         \A j \in 0..DecLevel' : (j < DecLevel' => i <= assignmentControl'[j + 1]) =>
            assignments'[i] \in seen'[1 + UserLevel' + j] \cup ToSet(renotify')
  BY <1>15
<1>20. \A u \in 1..nVars' : info'[u].active /\ info'[u].atom /\ info'[u].fixed =>
         \A j \in (1 + info'[u].fixedAt)..UserLevel' : info'[u].asg \in seen'[j] \cup ToSet(renotify')
  BY <1>1, <1>16
<1> QED
  BY <1>17, <1>18, <1>19, <1>20 DEF Told

-----------------------------------------------------------------------------
(***************************************************************************)
(* Push and Solve.                                                         *)
(***************************************************************************)
\* What Push does to the variables.
LEMMA PushDoes ==
  ASSUME Typed, Push, instance' = instance
  PROVE  /\ nVars' = nVars + 1 /\ nVars + 1 \in Var /\ UserLevel' = UserLevel + 1
         /\ \A v \in 1..nVars : info'[v] = info[v]
         /\ info' \in [Var -> VarInfo]
         /\ info'[nVars + 1].active /\ info'[nVars + 1].intro = UserLevel + 1
         /\ info'[nVars + 1].asg = 0 /\ ~info'[nVars + 1].fixed /\ ~info'[nVars + 1].atom
         /\ activeVars' \in Seq(Var) /\ activationLits' \in Seq(Var) /\ activeVarsControl' \in Seq(Nat)
         /\ Len(activationLits') = UserLevel + 1 /\ Len(activeVars') = Len(activeVars) + 1
         /\ \A j \in 1..UserLevel : /\ activationLits'[j] = activationLits[j]
                                    /\ activeVarsControl'[j] = activeVarsControl[j]
         /\ activationLits'[UserLevel + 1] = nVars + 1
         /\ activeVarsControl'[UserLevel + 1] = Len(activeVars)
         /\ \A i \in 1..Len(activeVars) : activeVars'[i] = activeVars[i]
         /\ activeVars'[Len(activeVars) + 1] = nVars + 1
<1>1. /\ nVars \in Nat /\ nVars < MaxVar /\ nVars' = nVars + 1 /\ 1..nVars \subseteq Var
      /\ instance \in Instances /\ info \in [Var -> VarInfo] /\ UserLevel \in Nat
      /\ activeVars \in Seq(Var) /\ activationLits \in Seq(Var) /\ activeVarsControl \in Seq(Nat)
      /\ Len(activationLits) = UserLevel /\ Len(activeVarsControl) = UserLevel
  BY TypedFacts DEF Push, UserLevel
<1>2. nVars + 1 \in Var
  BY <1>1, InstanceFacts DEF Var
<1> DEFINE e == [FreshInfo EXCEPT !.active = TRUE, !.intro = UserLevel + 1]
<1>3. /\ e \in VarInfo /\ e.active /\ e.intro = UserLevel + 1
      /\ e.asg = 0 /\ ~e.fixed /\ ~e.atom
  <2>1. PICK i \in Nat : i = UserLevel + 1
    BY <1>1
  <2>2. e = [FreshInfo EXCEPT !.active = TRUE, !.intro = i]
    BY <2>1
  <2> HIDE DEF e
  <2> QED
    BY ONLY i \in Nat, <2>1, <2>2 DEF FreshInfo, VarInfo
<1> HIDE DEF e
<1>4. info' = [info EXCEPT ![nVars + 1] = e]
  BY DEF Push, e
<1>5. /\ info' \in [Var -> VarInfo] /\ info'[nVars + 1] = e
      /\ \A v \in 1..nVars : info'[v] = info[v]
  BY <1>1, <1>2, <1>3, <1>4
<1>6. Len(activeVars) \in Nat
  BY <1>1, SeqElement
<1>7. /\ activeVars' \in Seq(Var) /\ Len(activeVars') = Len(activeVars) + 1
      /\ \A i \in 1..Len(activeVars) : activeVars'[i] = activeVars[i]
      /\ activeVars'[Len(activeVars) + 1] = nVars + 1
  <2>1. activeVars' = Append(activeVars, nVars + 1)
    BY DEF Push
  <2> QED
    BY ONLY <1>1, <1>2, <2>1, Appended
<1>8. /\ activationLits' \in Seq(Var) /\ Len(activationLits') = UserLevel + 1
      /\ \A i \in 1..UserLevel : activationLits'[i] = activationLits[i]
      /\ activationLits'[UserLevel + 1] = nVars + 1
  <2>1. activationLits' = Append(activationLits, nVars + 1)
    BY DEF Push
  <2> QED
    BY ONLY <1>1, <1>2, <2>1, Appended
<1>9. /\ activeVarsControl' \in Seq(Nat) /\ Len(activeVarsControl') = UserLevel + 1
      /\ \A i \in 1..UserLevel : activeVarsControl'[i] = activeVarsControl[i]
      /\ activeVarsControl'[UserLevel + 1] = Len(activeVars)
  <2>1. activeVarsControl' = Append(activeVarsControl, Len(activeVars))
    BY DEF Push
  <2> QED
    BY ONLY <1>1, <1>6, <2>1, Appended
<1>10. UserLevel' = UserLevel + 1
  BY <1>9 DEF UserLevel
<1> QED
  BY <1>1, <1>2, <1>3, <1>5, <1>7, <1>8, <1>9, <1>10

\* The variables after Push: the activation literal is the last one.
LEMMA LevelledPush ==
  ASSUME Typed, Levelled, Push, instance' = instance
  PROVE  Levelled' /\ Problem' = Problem
<1>1. PICK U \in Nat, n \in Nat, N \in Nat \ {0} : U = UserLevel /\ n = Len(activeVars) /\ N = nVars
  BY TypedFacts, SeqElement
<1>2. /\ nVars' = N + 1 /\ UserLevel' = U + 1
      /\ \A v \in 1..N : info'[v] = info[v]
      /\ info'[N + 1].active /\ info'[N + 1].intro = U + 1 /\ ~info'[N + 1].atom
      /\ Len(activationLits') = U + 1 /\ Len(activeVars') = n + 1
      /\ \A j \in 1..U : /\ activationLits'[j] = activationLits[j]
                         /\ activeVarsControl'[j] = activeVarsControl[j]
      /\ activationLits'[U + 1] = N + 1
      /\ activeVarsControl'[U + 1] = n
      /\ \A i \in 1..n : activeVars'[i] = activeVars[i]
      /\ activeVars'[n + 1] = N + 1
  BY ONLY <1>1, Typed, Push, instance' = instance, PushDoes
<1>3. /\ \A j \in 1..U :
           LET a == activationLits[j]
           IN a \in 1..N /\ info[a].active /\ info[a].intro = j /\ ~info[a].atom
      /\ \A i \in 1..n : activeVars[i] \in 1..N /\ info[activeVars[i]].active
      /\ \A v \in 1..N : info[v].active => \E i \in 1..n : activeVars[i] = v
      /\ \A j \in 1..U : activeVarsControl[j] \in 0..n
      /\ \A j \in 1..U, i \in 1..n :
           (i > activeVarsControl[j]) = (info[activeVars[i]].intro >= j)
      /\ \A v \in 1..N : info[v].active => info[v].intro <= U
      /\ \A v \in 1..N : ~info[v].active => info[v].intro >= 1
      /\ info[1].intro = 0
  BY <1>1 DEF Levelled
<1>4. /\ \A x \in 1..(N + 1) : x \in 1..N \/ x = N + 1
      /\ N + 1 \in 1..(N + 1) /\ N + 1 \notin 1..N /\ 1..N \subseteq 1..(N + 1) /\ 1 \in 1..N
  OBVIOUS
<1>5. /\ \A x \in 1..(n + 1) : x \in 1..n \/ x = n + 1
      /\ n + 1 \in 1..(n + 1) /\ 1..n \subseteq 1..(n + 1)
  OBVIOUS
<1>6. /\ \A x \in 1..(U + 1) : x \in 1..U \/ x = U + 1
      /\ U + 1 \in 1..(U + 1) /\ 1..U \subseteq 1..(U + 1)
  OBVIOUS
<1>7. \A v \in 1..N : info[v].intro \in Nat
  BY <1>1, TypedFacts, InfoFields
<1>8. \A j \in 1..(U + 1) :
         LET a == activationLits'[j]
         IN a \in 1..(N + 1) /\ info'[a].active /\ info'[a].intro = j /\ ~info'[a].atom
  BY <1>2, <1>3, <1>4, <1>6
<1>9. \A i \in 1..(n + 1) : activeVars'[i] \in 1..(N + 1) /\ info'[activeVars'[i]].active
  <2> TAKE i \in 1..(n + 1)
  <2>1. CASE i \in 1..n
    <3>1. activeVars'[i] = activeVars[i] /\ activeVars[i] \in 1..N /\ info[activeVars[i]].active
      BY <1>2, <1>3, <2>1
    <3> QED
      BY <1>2, <1>4, <3>1
  <2>2. CASE i = n + 1
    BY <1>2, <1>4, <2>2
  <2> QED
    BY <1>5, <2>1, <2>2
<1>10. \A v \in 1..(N + 1) : info'[v].active => \E i \in 1..(n + 1) : activeVars'[i] = v
  BY <1>2, <1>3, <1>4, <1>5
<1>11. \A j \in 1..(U + 1) : activeVarsControl'[j] \in 0..(n + 1)
  <2> TAKE j \in 1..(U + 1)
  <2>1. CASE j \in 1..U
    <3>1. activeVarsControl'[j] \in 0..n
      BY <1>2, <1>3, <2>1
    <3> QED
      BY <3>1
  <2>2. CASE j = U + 1
    BY <1>2, <2>2
  <2> QED
    BY <1>6, <2>1, <2>2
<1>12. ASSUME NEW j \in 1..(U + 1), NEW i \in 1..(n + 1)
       PROVE  (i > activeVarsControl'[j]) = (info'[activeVars'[i]].intro >= j)
  <2>1. CASE i \in 1..n /\ j \in 1..U
    <3>1. /\ activeVars'[i] = activeVars[i] /\ activeVars[i] \in 1..N
          /\ activeVarsControl'[j] = activeVarsControl[j]
      BY <1>2, <1>3, <2>1
    <3>2. info'[activeVars[i]] = info[activeVars[i]]
      BY <1>2, <3>1
    <3> QED
      BY <1>3, <2>1, <3>1, <3>2
  <2>2. CASE i \in 1..n /\ j = U + 1
    <3>1. activeVars'[i] = activeVars[i] /\ activeVars[i] \in 1..N /\ activeVarsControl'[j] = n
      BY <1>2, <1>3, <2>2
    <3>2. info'[activeVars[i]].intro <= U /\ info'[activeVars[i]].intro \in Nat
      <4>1. PICK x \in 1..N : x = activeVars[i]
        BY <3>1
      <4>2. info'[x] = info[x] /\ info[x].active
        BY <1>2, <1>3, <2>2, <4>1
      <4> QED
        BY <1>3, <1>7, <4>1, <4>2
    <3>3. ~(info'[activeVars'[i]].intro >= j) /\ ~(i > activeVarsControl'[j])
      BY <2>2, <3>1, <3>2
    <3> QED
      BY <3>3
  <2>3. CASE i = n + 1
    <3>1. info'[activeVars'[i]].intro = U + 1
      BY <1>2, <2>3
    <3>2. activeVarsControl'[j] <= n /\ activeVarsControl'[j] \in Nat
      <4>1. CASE j \in 1..U
        BY <1>2, <1>3, <4>1
      <4>2. CASE j = U + 1
        BY <1>2, <4>2
      <4> QED
        BY <1>6, <4>1, <4>2
    <3>3. i > activeVarsControl'[j] /\ info'[activeVars'[i]].intro >= j
      BY <2>3, <3>1, <3>2
    <3> QED
      BY <3>3
  <2> QED
    BY <1>5, <1>6, <2>1, <2>2, <2>3
<1>13. ASSUME NEW v \in 1..(N + 1)
       PROVE  /\ info'[v].active => info'[v].intro <= U + 1
              /\ ~info'[v].active => info'[v].intro >= 1
  <2>1. CASE v \in 1..N
    <3>1. info'[v] = info[v]
      BY <1>2, <2>1
    <3>2. PICK a \in Nat : a = info[v].intro
      BY <1>7, <2>1
    <3>3. info[v].active => a <= U + 1
      BY <1>3, <2>1, <3>2
    <3> QED
      BY <1>3, <2>1, <3>1, <3>2, <3>3
  <2>2. CASE v = N + 1
    BY <1>2, <2>2
  <2> QED
    BY <1>4, <2>1, <2>2
<1>14. info'[1].intro = 0
  BY <1>2, <1>3, <1>4
<1>15. Levelled'
  BY <1>2, <1>8, <1>9, <1>10, <1>11, <1>12, <1>13, <1>14 DEF Levelled
<1>16. Problem' = Problem
  <2>1. ActivationVars = {activationLits[j] : j \in 1..U}
    BY <1>1, TypedFacts, SeqSet DEF ActivationVars
  <2>2. ActivationVars' = {activationLits'[j] : j \in 1..(U + 1)}
    <3>1. activationLits' \in Seq(Var) /\ Len(activationLits') = U + 1
      BY <1>2, PushDoes
    <3>2. ToSet(activationLits') = {activationLits'[j] : j \in 1..Len(activationLits')}
      BY <3>1, SeqSet
    <3> QED
      BY <3>1, <3>2 DEF ActivationVars
  <2>3. ActivationVars' = ActivationVars \cup {N + 1}
    <3>1. \A j \in 1..(U + 1) : activationLits'[j] \in ActivationVars \cup {N + 1}
      BY <1>2, <1>6, <2>1
    <3>2. N + 1 \in ActivationVars'
      BY <1>2, <1>6, <2>2
    <3>3. \A j \in 1..U : activationLits[j] \in ActivationVars'
      BY <1>2, <1>6, <2>2
    <3> QED
      BY <2>1, <2>2, <3>1, <3>2, <3>3
  <2> QED
    BY <1>1, <1>2, <1>4, <2>3 DEF Problem
<1> QED
  BY <1>15, <1>16

\* Without decision levels, what is assigned is fixed.
LEMMA FixedAtBase ==
  ASSUME Typed, Trailed, DecLevel = 0
  PROVE  /\ \A v \in 1..nVars : info[v].active /\ info[v].asg # 0 => info[v].fixed
         /\ \A l : AssignedAtom(l) => /\ info[VarOf(l)].fixed /\ l # 0 /\ VarOf(l) \in 1..nVars
                                      /\ \E i \in 1..Len(assignments) : assignments[i] = l
<1>1. ASSUME NEW v \in 1..nVars, info[v].active, info[v].asg # 0 PROVE info[v].fixed
  <2>1. v \in Var /\ lev[v] \in Nat /\ info[v].fixed \in BOOLEAN
    BY TypedFacts, InfoFields
  <2>2. lev[v] <= 0 /\ (~info[v].fixed => lev[v] >= 1)
    BY <1>1, <2>1 DEF Trailed
  <2> QED
    BY <2>1, <2>2
<1>2. ASSUME NEW l, AssignedAtom(l)
      PROVE  /\ info[VarOf(l)].fixed /\ l # 0 /\ VarOf(l) \in 1..nVars
             /\ \E i \in 1..Len(assignments) : assignments[i] = l
  <2>1. VarOf(l) \in 1..nVars /\ info[VarOf(l)].active /\ info[VarOf(l)].asg = l
    BY <1>2 DEF AssignedAtom
  <2>2. l # 0
    <3>1. VarOf(0) = 0 /\ 0 \notin 1..nVars
      BY DEF VarOf
    <3> QED
      BY <2>1, <3>1
  <2>3. info[VarOf(l)].asg # 0
    BY <2>1, <2>2
  <2>4. \E i \in 1..Len(assignments) : assignments[i] = info[VarOf(l)].asg
    BY <2>1, <2>3 DEF Trailed
  <2> QED
    BY <1>1, <2>1, <2>2, <2>3, <2>4
<1> QED
  BY <1>1, <1>2

\* What the theories hold at the last level, without decision levels.
LEMMA ToldAtBase ==
  ASSUME Typed, Trailed, Told, DecLevel = 0
  PROVE  \A l : AssignedAtom(l) => l \in seen[1 + UserLevel] \cup ToSet(renotify)
<1> SUFFICES ASSUME NEW l, AssignedAtom(l)
             PROVE  l \in seen[1 + UserLevel] \cup ToSet(renotify)
  OBVIOUS
<1>1. PICK i \in 1..Len(assignments) : assignments[i] = l
  BY FixedAtBase
<1>2. info[VarOf(assignments[i])].atom
  BY <1>1 DEF AssignedAtom
<1>3. 0 \in 0..DecLevel /\ ~(0 < DecLevel) /\ 1 + UserLevel + 0 = 1 + UserLevel
  BY TypedFacts
<1> QED
  BY <1>1, <1>2, <1>3 DEF Told

\* A new user level takes over what the level below was told.
LEMMA ToldPush ==
  ASSUME Typed, Typed', Trailed, Told, Push, instance' = instance, DecLevel = 0
  PROVE  Told'
<1>1. /\ nVars' = nVars + 1 /\ UserLevel' = UserLevel + 1
      /\ \A v \in 1..nVars : info'[v] = info[v]
      /\ ~info'[nVars + 1].fixed /\ nVars + 1 \in Var
  BY PushDoes
<1>2. /\ assignments' = assignments /\ assignmentControl' = assignmentControl
      /\ renotify' = renotify /\ lev' = lev /\ DecLevel' = 0
      /\ seen' = Append(seen, Last(seen))
  BY DEF Push, searchVars, cadicalVars, DecLevel
<1>3. PICK U \in Nat, N \in Nat : U = UserLevel /\ Len(seen) = U + 1 /\ N = nVars
  BY TypedFacts
<1>4. /\ Len(seen') = U + 2 /\ seen'[U + 2] = seen[U + 1]
      /\ \A j \in 1..(U + 1) : seen'[j] = seen[j]
      /\ \A j \in 1..(U + 2) : j \in 1..(U + 1) \/ j = U + 2
      /\ U + 1 \in 1..(U + 1)
  <2>1. PICK S, x : S = SUBSET Lit /\ x = seen[U + 1]
    OBVIOUS
  <2>2. seen \in Seq(S) /\ x \in S /\ seen' = Append(seen, x) /\ Len(seen) = U + 1
    <3>1. seen[U + 1] \in SUBSET Lit /\ Last(seen) = seen[U + 1]
      BY <1>3, Elements DEF Last
    <3> QED
      BY <1>2, <1>3, <2>1, <3>1, TypedFacts
  <2>3. /\ Len(seen') = U + 1 + 1 /\ seen'[U + 1 + 1] = x
        /\ \A j \in 1..(U + 1) : seen'[j] = seen[j]
    BY ONLY U \in Nat, <2>2, Appended
  <2>4. U + 1 + 1 = U + 2 /\ U + 1 \in 1..(U + 1)
        /\ \A j \in 1..(U + 2) : j \in 1..(U + 1) \/ j = U + 2
    BY ONLY U \in Nat
  <2>5. Len(seen') = U + 2 /\ seen'[U + 2] = x
    BY ONLY <2>3, <2>4
  <2> QED
    BY <2>1, <2>3, <2>4, <2>5
<1>5. 1..N \subseteq 1..(N + 1) /\ \A v \in 1..(N + 1) : v \in 1..N \/ v = N + 1
  BY N \in Nat
<1>6. \A l : AssignedAtom(l) => AssignedAtom(l)' /\ info'[VarOf(l)] = info[VarOf(l)]
  BY <1>1, <1>3, <1>5 DEF AssignedAtom
<1>7. ASSUME NEW j \in 1..(U + 2), NEW l \in seen'[j]
      PROVE  AssignedAtom(l) /\ AssignedAtom(l)' /\ info'[VarOf(l)].fixed
  <2>1. (l \in seen[j] /\ j \in 1..(U + 1)) \/ l \in seen[U + 1]
    BY <1>4
  <2>2. AssignedAtom(l)
    BY <1>3, <1>4, <2>1 DEF Told
  <2> QED
    BY <1>6, <2>2, FixedAtBase
<1>8. \A j \in 1..Len(seen') : \A l \in seen'[j] :
         AssignedAtom(l)' /\ (info'[VarOf(l)].fixed \/ 1 + UserLevel' + lev'[VarOf(l)] <= j)
  BY <1>4, <1>7
<1>9. \A i \in 1..Len(assignments) : /\ VarOf(assignments[i]) \in 1..nVars
                                     /\ info[VarOf(assignments[i])].atom => AssignedAtom(assignments[i])
  BY DEF Trailed, AssignedAtom
<1>10. \A i \in 1..Len(assignments') : info'[VarOf(assignments'[i])].atom =>
         \A j \in 0..DecLevel' : (j < DecLevel' => i <= assignmentControl'[j + 1]) =>
            assignments'[i] \in seen'[1 + UserLevel' + j] \cup ToSet(renotify')
  <2> SUFFICES ASSUME NEW i \in 1..Len(assignments), info'[VarOf(assignments[i])].atom, NEW j \in 0..0
               PROVE  assignments[i] \in seen'[1 + UserLevel' + j] \cup ToSet(renotify)
    BY <1>2
  <2>1. AssignedAtom(assignments[i])
    BY <1>1, <1>9
  <2>2. assignments[i] \in seen[U + 1] \cup ToSet(renotify)
    <3>1. 1 + U = U + 1
      BY U \in Nat
    <3> QED
      BY <1>3, <2>1, <3>1, ToldAtBase
  <2>3. 1 + UserLevel' + j = U + 2
    BY <1>1, <1>3
  <2> QED
    BY <1>4, <2>2, <2>3
<1>11. ASSUME NEW v \in 1..nVars', info'[v].active, info'[v].atom, info'[v].fixed,
              NEW j \in (1 + info'[v].fixedAt)..(U + 1)
       PROVE  info'[v].asg \in seen'[j] \cup ToSet(renotify)
  <2>1. v \in 1..nVars /\ info'[v] = info[v]
    BY <1>1, <1>3, <1>5, <1>11
  <2>2. info[v].active /\ info[v].atom /\ info[v].fixed /\ info[v].asg # 0
    BY <1>11, <2>1 DEF Trailed
  <2>3. PICK a \in Nat : a = info[v].fixedAt /\ j \in (1 + a)..(U + 1)
    BY <1>11, <2>1, TypedFacts, InfoFields
  <2>4. j \in 1..(U + 1) /\ (j = U + 1 \/ j \in (1 + a)..U)
    BY ONLY a \in Nat, U \in Nat, <2>3
  <2>5. CASE j \in (1 + a)..U
    <3>1. info[v].asg \in seen[j] \cup ToSet(renotify)
      BY <1>3, <2>1, <2>2, <2>3, <2>5 DEF Told
    <3> QED
      BY <1>4, <2>1, <2>4, <3>1
  <2>6. CASE j = U + 1
    <3>1. VarOf(info[v].asg) = v
      BY <2>1, <2>2, LitOfVar DEF Trailed
    <3>2. AssignedAtom(info[v].asg) /\ 1 + U = U + 1
      BY <2>1, <2>2, <3>1 DEF AssignedAtom
    <3>3. info[v].asg \in seen[U + 1] \cup ToSet(renotify)
      BY <1>3, <3>2, ToldAtBase
    <3> QED
      BY <1>4, <2>1, <2>6, <3>3
  <2> QED
    BY <2>4, <2>5, <2>6
<1>12. \A v \in 1..nVars' : info'[v].active /\ info'[v].atom /\ info'[v].fixed =>
         \A j \in (1 + info'[v].fixedAt)..UserLevel' : info'[v].asg \in seen'[j] \cup ToSet(renotify')
  BY <1>1, <1>2, <1>3, <1>11
<1>13. \A l \in ToSet(renotify') : AssignedAtom(l)' /\ info'[VarOf(l)].fixed
  BY <1>2, <1>6 DEF Told
<1> QED
  BY <1>8, <1>10, <1>12, <1>13 DEF Told

\* What Solve does to the variables.
LEMMA SolveDoes ==
  ASSUME Typed, info' = RenotifiedInfo
  PROVE  /\ info' \in [Var -> VarInfo]
         /\ \A v \in Var : /\ info'[v].active = info[v].active /\ info'[v].atom = info[v].atom
                           /\ info'[v].intro = info[v].intro /\ info'[v].fixed = info[v].fixed
                           /\ info'[v].asg = info[v].asg
         /\ \A v \in Var : \/ info'[v].fixedAt = UserLevel
                           \/ /\ info'[v].fixedAt = info[v].fixedAt
                              /\ \A l \in ToSet(renotify) : VarOf(l) # v
<1>1. info \in [Var -> VarInfo] /\ UserLevel \in Nat
  BY TypedFacts
<1> DEFINE R(v) == \E l \in ToSet(renotify) : VarOf(l) = v
<1>2. info' = [v \in Var |-> IF R(v) THEN [info[v] EXCEPT !.fixedAt = UserLevel] ELSE info[v]]
  BY DEF RenotifiedInfo
<1>3. \A v : ~R(v) => \A l \in ToSet(renotify) : VarOf(l) # v
  OBVIOUS
<1> HIDE DEF R
<1>4. ASSUME NEW v \in Var
      PROVE  /\ info'[v] \in VarInfo
             /\ info'[v].active = info[v].active /\ info'[v].atom = info[v].atom
             /\ info'[v].intro = info[v].intro /\ info'[v].fixed = info[v].fixed
             /\ info'[v].asg = info[v].asg
             /\ info'[v].fixedAt = UserLevel \/ (info'[v].fixedAt = info[v].fixedAt /\ ~R(v))
  <2>1. info[v] \in VarInfo
    BY <1>1
  <2>2. CASE R(v)
    <3>1. info'[v] = [info[v] EXCEPT !.fixedAt = UserLevel]
      BY <1>2, <2>2
    <3> QED
      BY <1>1, <2>1, <3>1 DEF VarInfo
  <2>3. CASE ~R(v)
    <3>1. info'[v] = info[v]
      BY <1>2, <2>3
    <3> QED
      BY <2>1, <2>3, <3>1
  <2> QED
    BY <2>2, <2>3
<1>5. info' \in [Var -> VarInfo]
  <2>1. info' = [v \in Var |-> info'[v]]
    BY <1>2
  <2> QED
    BY <1>4, <2>1
<1> QED
  BY <1>3, <1>4, <1>5

\* The literals remembered by pop are enqueued again before a search.
LEMMA ToldSolve ==
  ASSUME Typed, Typed', Trailed, Told, Solve, instance' = instance, DecLevel = 0
  PROVE  Told'
<1>1. /\ nVars' = nVars /\ UserLevel' = UserLevel /\ assignments' = assignments
      /\ assignmentControl' = assignmentControl /\ DecLevel' = 0 /\ lev' = lev
      /\ renotify' = << >> /\ seen' = AddTop(seen, ToSet(renotify))
      /\ ToSet(renotify') = {}
  <2>1. ToSet(<< >>) = {}
    BY DEF ToSet
  <2> QED
    BY <2>1 DEF Solve, userVars, cadicalVars, UserLevel, DecLevel
<1>2. info' = RenotifiedInfo /\ 1..nVars \subseteq Var
  BY TypedFacts DEF Solve
<1>3. /\ \A v \in 1..nVars : /\ info'[v].active = info[v].active /\ info'[v].atom = info[v].atom
                             /\ info'[v].fixed = info[v].fixed /\ info'[v].asg = info[v].asg
      /\ \A v \in 1..nVars : \/ info'[v].fixedAt = UserLevel
                             \/ /\ info'[v].fixedAt = info[v].fixedAt
                                /\ \A l \in ToSet(renotify) : VarOf(l) # v
  BY <1>2, SolveDoes
<1>4. PICK U \in Nat : U = UserLevel /\ Len(seen) = U + 1
  BY TypedFacts
<1>5. /\ Len(seen') = U + 1 /\ seen'[U + 1] = seen[U + 1] \cup ToSet(renotify)
      /\ \A j \in 1..U : seen'[j] = seen[j]
      /\ \A j \in 1..(U + 1) : j \in 1..U \/ j = U + 1
      /\ U + 1 \in 1..(U + 1)
  <2>1. PICK S, X : S = SUBSET Lit /\ X = ToSet(renotify)
    OBVIOUS
  <2>2. /\ seen \in Seq(S) /\ seen[Len(seen)] \cup X \in S /\ seen' = AddTop(seen, X)
        /\ Len(seen) = U + 1 /\ Len(seen) >= 1 /\ Len(seen) - 1 = U
    <3>1. seen[U + 1] \in SUBSET Lit /\ ToSet(renotify) \in SUBSET Lit
      BY <1>4, Elements
    <3>2. U + 1 >= 1 /\ U + 1 - 1 = U
      BY U \in Nat
    <3> QED
      BY <1>1, <1>4, <2>1, <3>1, <3>2, TypedFacts
  <2>3. /\ Len(seen') = Len(seen) /\ seen'[Len(seen)] = seen[Len(seen)] \cup X
        /\ \A j \in 1..(Len(seen) - 1) : seen'[j] = seen[j]
    BY ONLY <2>2, TopAdded
  <2>4. U + 1 \in 1..(U + 1) /\ \A j \in 1..(U + 1) : j \in 1..U \/ j = U + 1
    BY ONLY U \in Nat
  <2>5. Len(seen') = U + 1 /\ seen'[U + 1] = seen[U + 1] \cup X /\ \A j \in 1..U : seen'[j] = seen[j]
    BY ONLY <2>2, <2>3
  <2> QED
    BY <2>1, <2>4, <2>5
<1>6. \A l : AssignedAtom(l) => AssignedAtom(l)' /\ VarOf(l) \in 1..nVars
  BY <1>1, <1>3 DEF AssignedAtom
<1>7. ASSUME NEW j \in 1..(U + 1), NEW l \in seen'[j]
      PROVE  AssignedAtom(l)' /\ info'[VarOf(l)].fixed
  <2>1. AssignedAtom(l)
    BY <1>4, <1>5 DEF Told
  <2> QED
    BY <1>3, <1>6, <2>1, FixedAtBase
<1>8. \A j \in 1..Len(seen') : \A l \in seen'[j] :
         AssignedAtom(l)' /\ (info'[VarOf(l)].fixed \/ 1 + UserLevel' + lev'[VarOf(l)] <= j)
  BY <1>5, <1>7
<1>9. \A i \in 1..Len(assignments) : /\ VarOf(assignments[i]) \in 1..nVars
                                     /\ info[VarOf(assignments[i])].atom => AssignedAtom(assignments[i])
  BY DEF Trailed, AssignedAtom
<1>10. \A i \in 1..Len(assignments') : info'[VarOf(assignments'[i])].atom =>
         \A j \in 0..DecLevel' : (j < DecLevel' => i <= assignmentControl'[j + 1]) =>
            assignments'[i] \in seen'[1 + UserLevel' + j] \cup ToSet(renotify')
  <2> SUFFICES ASSUME NEW i \in 1..Len(assignments), info'[VarOf(assignments[i])].atom, NEW j \in 0..0
               PROVE  assignments[i] \in seen'[1 + UserLevel' + j] \cup ToSet(renotify')
    BY <1>1
  <2>1. AssignedAtom(assignments[i])
    BY <1>3, <1>9
  <2>2. assignments[i] \in seen[U + 1] \cup ToSet(renotify)
    <3>1. 1 + U = U + 1
      BY U \in Nat
    <3> QED
      BY <1>4, <2>1, <3>1, ToldAtBase
  <2>3. 1 + UserLevel' + j = U + 1
    BY <1>1, <1>4
  <2> QED
    BY <1>5, <2>2, <2>3
<1>11. ASSUME NEW v \in 1..nVars, info'[v].active, info'[v].atom, info'[v].fixed,
              NEW j \in (1 + info'[v].fixedAt)..U
       PROVE  info'[v].asg \in seen'[j]
  <2>1. info[v].active /\ info[v].atom /\ info[v].fixed /\ info[v].asg # 0 /\ info'[v].asg = info[v].asg
    BY <1>3, <1>11 DEF Trailed
  <2>2. VarOf(info[v].asg) = v
    BY <2>1, LitOfVar DEF Trailed
  <2>3. CASE info'[v].fixedAt = UserLevel
    <3>1. j \in (1 + U)..U
      BY <1>4, <1>11, <2>3
    <3> QED
      BY <3>1
  <2>4. CASE info'[v].fixedAt = info[v].fixedAt /\ \A l \in ToSet(renotify) : VarOf(l) # v
    <3>1. PICK a \in Nat : a = info[v].fixedAt /\ j \in (1 + a)..U
      BY <1>2, <1>11, <2>4, InfoFields
    <3>2. info[v].asg \in seen[j] \cup ToSet(renotify)
      BY <1>4, <2>1, <3>1 DEF Told
    <3>3. j \in 1..U
      BY ONLY a \in Nat, U \in Nat, <3>1
    <3> QED
      BY <1>5, <2>1, <2>2, <2>4, <3>2, <3>3
  <2> QED
    BY <1>3, <2>3, <2>4
<1>12. \A v \in 1..nVars' : info'[v].active /\ info'[v].atom /\ info'[v].fixed =>
         \A j \in (1 + info'[v].fixedAt)..UserLevel' : info'[v].asg \in seen'[j] \cup ToSet(renotify')
  BY <1>1, <1>4, <1>11
<1> QED
  BY <1>1, <1>8, <1>10, <1>12 DEF Told

-----------------------------------------------------------------------------
(***************************************************************************)
(* Pop.                                                                    *)
(***************************************************************************)
\* The variables of the level that is closed.
Gone == {v \in 1..nVars : info[v].active /\ info[v].intro = UserLevel}

\* The last control mark.
LEMMA LastMark ==
  ASSUME Typed, Levelled, UserLevel >= 1
  PROVE  /\ UserLevel \in 1..UserLevel /\ UserLevel - 1 \in Nat
         /\ Last(activeVarsControl) = activeVarsControl[UserLevel]
         /\ activeVarsControl[UserLevel] \in 0..Len(activeVars)
<1>1. UserLevel \in Nat
  BY TypedFacts
<1>2. UserLevel \in 1..UserLevel /\ UserLevel - 1 \in Nat
  BY <1>1
<1>3. Last(activeVarsControl) = activeVarsControl[UserLevel]
  BY DEF Last, UserLevel
<1> QED
  BY <1>2, <1>3 DEF Levelled

\* No variable of the closed level stays: a fixed atom of a lower level is not
\* behind the last control mark.
LEMMA GoneIs ==
  ASSUME Typed, Levelled, UserLevel >= 1
  PROVE  /\ ToSet(PoppedVars) = Gone /\ PoppedVars \in Seq(Var)
         /\ {v \in ToSet(PoppedVars) : ~KeptVar(v, UserLevel - 1)} = Gone
         /\ Gone \subseteq Var
<1>1. PICK U \in Nat, n \in Nat : U = UserLevel /\ n = Len(activeVars) /\ U >= 1
  BY TypedFacts, SeqElement
<1>2. PICK c \in 0..n : c = Last(activeVarsControl) /\ c = activeVarsControl[U]
  BY <1>1, LastMark
<1>3. PoppedVars = SubSeq(activeVars, c + 1, n) /\ activeVars \in Seq(Var)
  BY <1>1, <1>2, TypedFacts DEF PoppedVars
<1>4. ToSet(PoppedVars) = {activeVars[i] : i \in (c + 1)..n} /\ PoppedVars \in Seq(Var)
  <2>1. c + 1 \in Nat \ {0} /\ n \in 0..Len(activeVars)
    BY <1>1, <1>2
  <2> QED
    BY <1>3, <2>1, Segment, SegmentSet
<1>5. U \in 1..U /\ \A i \in (c + 1)..n : i \in 1..n /\ i > c
  BY <1>1, <1>2
<1>6. ASSUME NEW i \in 1..n
      PROVE  /\ activeVars[i] \in 1..nVars /\ info[activeVars[i]].active
             /\ info[activeVars[i]].intro \in Nat /\ info[activeVars[i]].intro <= U
             /\ (i > c) = (info[activeVars[i]].intro >= U)
  <2>1. activeVars[i] \in 1..nVars /\ info[activeVars[i]].active
    BY <1>1 DEF Levelled
  <2>2. info[activeVars[i]].intro \in Nat /\ info[activeVars[i]].intro <= U
    BY <1>1, <2>1, TypedFacts, InfoFields DEF Levelled
  <2>3. (i > c) = (info[activeVars[i]].intro >= U)
    BY <1>1, <1>2, <1>5 DEF Levelled
  <2> QED
    BY <2>1, <2>2, <2>3
<1>7. ASSUME NEW v \in ToSet(PoppedVars) PROVE v \in Gone
  <2>1. PICK i \in (c + 1)..n : v = activeVars[i]
    BY <1>4
  <2>2. /\ v \in 1..nVars /\ info[v].active /\ info[v].intro \in Nat /\ info[v].intro <= U
        /\ info[v].intro >= U
    BY <1>5, <1>6, <2>1
  <2>3. info[v].intro = U
    BY <1>1, <2>2
  <2> QED
    BY <1>1, <2>2, <2>3 DEF Gone
<1>8. ASSUME NEW v \in Gone PROVE v \in ToSet(PoppedVars) /\ ~KeptVar(v, UserLevel - 1)
  <2>1. v \in 1..nVars /\ info[v].active /\ info[v].intro = U
    BY <1>1 DEF Gone
  <2>2. PICK i \in 1..n : activeVars[i] = v
    BY <1>1, <2>1 DEF Levelled
  <2>3. info[activeVars[i]].intro >= U
    BY <1>1, <2>1, <2>2
  <2>4. i > c
    BY <1>6, <2>3
  <2>5. i \in (c + 1)..n
    BY <1>1, <1>2, <2>4
  <2>6. ~(info[v].intro <= UserLevel - 1)
    BY <1>1, <2>1
  <2> QED
    BY <1>4, <2>2, <2>5, <2>6 DEF KeptVar
<1>9. Gone \subseteq Var
  BY TypedFacts DEF Gone
<1> QED
  BY <1>4, <1>7, <1>8, <1>9

\* What Pop does to the variables.
LEMMA PopDoes ==
  ASSUME Typed, Levelled, Pop
  PROVE  /\ UserLevel >= 1 /\ UserLevel' = UserLevel - 1 /\ nVars' = nVars
         /\ info' \in [Var -> VarInfo]
         /\ \A v \in Var : /\ info'[v].atom = info[v].atom /\ info'[v].intro = info[v].intro
                           /\ info'[v].fixed = info[v].fixed /\ info'[v].asg = info[v].asg
                           /\ info'[v].fixedAt = info[v].fixedAt
                           /\ info'[v].active <=> info[v].active /\ v \notin Gone
         /\ activeVars' = SubSeq(activeVars, 1, activeVarsControl[UserLevel])
         /\ db' = db \cup {{v} : v \in Gone}
         /\ \A v \in Var : val'[v] = IF v \in Gone /\ val[v] = 0 THEN v ELSE val[v]
         /\ val' \in [Var -> Lit \cup {0}]
         /\ assignments' \in Seq(Lit) /\ renotify' \in Seq(Lit)
         /\ ToSet(assignments') = {l \in ToSet(assignments) : VarOf(l) \notin Gone}
         /\ ToSet(renotify') = ToSet(renotify) \cup
                {l \in ToSet(assignments') : StaleFixed(l, UserLevel - 1)}
         /\ inputs' = {r \in inputs : r.level <= UserLevel - 1}
         /\ lemmas' = {r \in lemmas : /\ VarsOf(r.clause) \cap Gone = {}
                                      /\ proofProducing => r.level <= UserLevel - 1}
<1> DEFINE level == UserLevel - 1
           gone == {v \in ToSet(PoppedVars) : ~KeptVar(v, level)}
           still == Only(assignments, {l \in Lit : VarOf(l) \notin gone})
<1>1. UserLevel >= 1 /\ UserLevel \in Nat
  BY TypedFacts DEF Pop
<1>2. gone = Gone
  BY <1>1, GoneIs
<1>3. PICK G : G = Gone
  OBVIOUS
<1>4. PICK t : t = Only(assignments, {l \in Lit : VarOf(l) \notin G})
  OBVIOUS
<1>5. still = t
  BY <1>2, <1>3, <1>4
<1>6. /\ activeVars' = SubSeq(activeVars, 1, Last(activeVarsControl)) \o Only(PoppedVars, Var \ G)
      /\ info' = [v \in Var |-> IF v \in G THEN [info[v] EXCEPT !.active = FALSE] ELSE info[v]]
      /\ db' = db \cup {{v} : v \in G}
      /\ val' = [v \in Var |-> IF v \in G /\ val[v] = 0 THEN v ELSE val[v]]
      /\ assignments' = t
      /\ renotify' = renotify \o Only(t, {l \in Lit : StaleFixed(l, UserLevel - 1)})
      /\ inputs' = {r \in inputs : r.level <= UserLevel - 1}
      /\ lemmas' = {r \in lemmas : /\ VarsOf(r.clause) \cap G = {}
                                   /\ proofProducing => r.level <= UserLevel - 1}
  <2>1. /\ activeVars' = SubSeq(activeVars, 1, Last(activeVarsControl)) \o Only(PoppedVars, Var \ gone)
        /\ info' = [v \in Var |-> IF v \in gone THEN [info[v] EXCEPT !.active = FALSE] ELSE info[v]]
        /\ db' = db \cup {{v} : v \in gone}
        /\ val' = [v \in Var |-> IF v \in gone /\ val[v] = 0 THEN v ELSE val[v]]
        /\ assignments' = still
        /\ renotify' = renotify \o Only(still, {l \in Lit : StaleFixed(l, level)})
        /\ inputs' = {r \in inputs : r.level <= level}
        /\ lemmas' = {r \in lemmas : /\ VarsOf(r.clause) \cap gone = {}
                                     /\ proofProducing => r.level <= level}
    BY DEF Pop
  <2>2. gone = G
    BY <1>2, <1>3
  <2> HIDE DEF gone, still
  <2> QED
    BY <1>5, <2>1, <2>2
<1> HIDE DEF gone, still, level
<1>7. nVars' = nVars /\ UserLevel' = UserLevel - 1
  <2>1. activeVarsControl' = Front(activeVarsControl) /\ nVars' = nVars
    BY DEF Pop
  <2>2. activeVarsControl \in Seq(Nat) /\ Len(activeVarsControl) = UserLevel
    BY TypedFacts DEF UserLevel
  <2>3. activeVarsControl' = SubSeq(activeVarsControl, 1, UserLevel - 1)
    BY <2>1, <2>2 DEF Front
  <2>4. UserLevel - 1 \in 0..Len(activeVarsControl)
    BY <1>1, <2>2
  <2>5. Len(activeVarsControl') = UserLevel - 1
    BY ONLY <2>2, <2>3, <2>4, Prefix
  <2> QED
    BY <2>1, <2>5 DEF UserLevel
<1>8. info \in [Var -> VarInfo] /\ val \in [Var -> Lit \cup {0}] /\ G \subseteq Var
  BY <1>1, <1>3, TypedFacts, GoneIs
<1>9. ASSUME NEW v \in Var
      PROVE  /\ info'[v] \in VarInfo
             /\ info'[v].atom = info[v].atom /\ info'[v].intro = info[v].intro
             /\ info'[v].fixed = info[v].fixed /\ info'[v].asg = info[v].asg
             /\ info'[v].fixedAt = info[v].fixedAt
             /\ info'[v].active <=> info[v].active /\ v \notin G
  <2>1. info[v] \in VarInfo
    BY <1>8
  <2>2. CASE v \in G
    <3>1. info'[v] = [info[v] EXCEPT !.active = FALSE]
      BY <1>6, <2>2
    <3> QED
      BY <2>1, <2>2, <3>1 DEF VarInfo
  <2>3. CASE v \notin G
    <3>1. info'[v] = info[v]
      BY <1>6, <2>3
    <3> QED
      BY <2>1, <2>3, <3>1
  <2> QED
    BY <2>2, <2>3
<1>10. info' \in [Var -> VarInfo]
  <2>1. info' = [v \in Var |-> info'[v]]
    BY <1>6
  <2> QED
    BY <1>9, <2>1
<1>11. activeVars' = SubSeq(activeVars, 1, activeVarsControl[UserLevel])
  <2>1. ToSet(PoppedVars) = G /\ PoppedVars \in Seq(Var)
    BY <1>1, <1>3, GoneIs
  <2>2. PICK w : w = Only(PoppedVars, Var \ G)
    OBVIOUS
  <2>3. w \in Seq(Var) /\ ToSet(w) = {}
    BY <2>1, <2>2, OnlySet
  <2>4. w = << >>
    <3>1. ToSet(w) = {w[p] : p \in 1..Len(w)} /\ Len(w) \in Nat
      BY <2>3, SeqSet, SeqElement
    <3>2. Len(w) = 0
      <4>1. Len(w) # 0 => 1 \in 1..Len(w)
        BY <3>1
      <4> QED
        BY <2>3, <3>1, <4>1
    <3> QED
      BY <2>3, <3>2, EmptySeq
  <2>5. PICK u : u = SubSeq(activeVars, 1, activeVarsControl[UserLevel])
    OBVIOUS
  <2>6. u \in Seq(Var)
    <3>1. activeVars \in Seq(Var) /\ activeVarsControl[UserLevel] \in 0..Len(activeVars)
      BY <1>1, TypedFacts, LastMark
    <3> QED
      BY ONLY <2>5, <3>1, Prefix
  <2>7. activeVars' = u \o w
    BY <1>1, <1>6, <2>2, <2>5, LastMark
  <2> QED
    BY <2>4, <2>5, <2>6, <2>7
<1>12. /\ \A v \in Var : val'[v] = IF v \in G /\ val[v] = 0 THEN v ELSE val[v]
       /\ val' \in [Var -> Lit \cup {0}]
  <2>1. \A v \in Var : v \in Lit
    BY TypedFacts, InstanceFacts
  <2> QED
    BY <1>6, <1>8, <2>1
<1>13. assignments' \in Seq(Lit) /\ ToSet(assignments') = {l \in ToSet(assignments) : VarOf(l) \notin G}
  <2>1. assignments \in Seq(Lit) /\ ToSet(assignments) \subseteq Lit
    BY TypedFacts, SeqSet
  <2>2. PICK F : F = {l \in Lit : VarOf(l) \notin G}
    OBVIOUS
  <2>3. t \in Seq(Lit) /\ ToSet(t) = ToSet(assignments) \cap F
    BY <1>4, <2>1, <2>2, OnlySet
  <2> QED
    BY <1>6, <2>1, <2>2, <2>3
<1>14. /\ renotify' \in Seq(Lit)
       /\ ToSet(renotify') = ToSet(renotify) \cup {l \in ToSet(assignments') : StaleFixed(l, UserLevel - 1)}
  <2>1. renotify \in Seq(Lit) /\ t \in Seq(Lit) /\ ToSet(t) \subseteq Lit /\ t = assignments'
    BY <1>6, <1>13, TypedFacts, SeqSet
  <2>2. PICK F : F = {l \in Lit : StaleFixed(l, UserLevel - 1)}
    OBVIOUS
  <2>3. PICK w : w = Only(t, F)
    OBVIOUS
  <2>4. w \in Seq(Lit) /\ ToSet(w) = ToSet(t) \cap F
    BY <2>1, <2>3, OnlySet
  <2>5. renotify' = renotify \o w
    BY <1>6, <2>2, <2>3
  <2>6. renotify' \in Seq(Lit) /\ ToSet(renotify') = ToSet(renotify) \cup ToSet(w)
    BY ONLY <2>1, <2>4, <2>5, Concat, ConcatSet
  <2> QED
    BY <2>1, <2>2, <2>4, <2>6
<1> QED
  BY <1>1, <1>3, <1>6, <1>7, <1>9, <1>10, <1>11, <1>12, <1>13, <1>14

\* A sequence without its last element.
LEMMA FrontIs ==
  ASSUME NEW S, NEW s \in Seq(S), Len(s) >= 1
  PROVE  /\ Front(s) \in Seq(S) /\ Len(Front(s)) = Len(s) - 1
         /\ \A i \in 1..(Len(s) - 1) : Front(s)[i] = s[i]
<1>1. PICK n \in Nat : n = Len(s) - 1 /\ n \in 0..Len(s)
  <2>1. Len(s) \in Nat
    OBVIOUS
  <2>2. Len(s) - 1 \in Nat /\ Len(s) - 1 \in 0..Len(s)
    BY <2>1
  <2> QED
    BY <2>2
<1>2. Front(s) = SubSeq(s, 1, n)
  BY <1>1 DEF Front
<1>3. /\ SubSeq(s, 1, n) \in Seq(S) /\ Len(SubSeq(s, 1, n)) = n
      /\ \A i \in 1..n : SubSeq(s, 1, n)[i] = s[i]
  BY <1>1, Prefix
<1> QED
  BY <1>1, <1>2, <1>3

\* What Pop does to the stacks.
LEMMA PopStacks ==
  ASSUME Typed, Pop
  PROVE  /\ activationLits' \in Seq(Var) /\ activeVarsControl' \in Seq(Nat)
         /\ seen' \in Seq(SUBSET Lit) /\ checked' \in Seq(SUBSET Lit) /\ registered' \in Seq(SUBSET Var)
         /\ Len(activationLits') = UserLevel - 1 /\ Len(activeVarsControl') = UserLevel - 1
         /\ Len(seen') = Len(seen) - 1 /\ Len(checked') = Len(seen) - 1
         /\ Len(registered') = Len(seen) - 1 /\ Len(seen) >= 2
         /\ \A j \in 1..(UserLevel - 1) : /\ activationLits'[j] = activationLits[j]
                                          /\ activeVarsControl'[j] = activeVarsControl[j]
         /\ \A j \in 1..(Len(seen) - 1) : seen'[j] = seen[j]
<1>1. /\ activeVarsControl' = Front(activeVarsControl) /\ activationLits' = Front(activationLits)
      /\ registered' = Front(registered) /\ seen' = Front(seen) /\ checked' = Front(checked)
      /\ UserLevel >= 1 /\ UserLevel \in Nat /\ DecLevel \in Nat
  BY TypedFacts DEF Pop
<1>2. /\ activationLits \in Seq(Var) /\ activeVarsControl \in Seq(Nat)
      /\ seen \in Seq(SUBSET Lit) /\ checked \in Seq(SUBSET Lit) /\ registered \in Seq(SUBSET Var)
      /\ Len(activationLits) = UserLevel /\ Len(activeVarsControl) = UserLevel
      /\ Len(seen) = 1 + UserLevel + DecLevel /\ Len(checked) = Len(seen) /\ Len(registered) = Len(seen)
  BY TypedFacts DEF UserLevel
<1>3. Len(seen) >= 2
  BY <1>1, <1>2
<1>4. /\ Front(activationLits) \in Seq(Var) /\ Len(Front(activationLits)) = Len(activationLits) - 1
      /\ \A i \in 1..(Len(activationLits) - 1) : Front(activationLits)[i] = activationLits[i]
  BY ONLY <1>1, <1>2, FrontIs
<1>5. /\ Front(activeVarsControl) \in Seq(Nat) /\ Len(Front(activeVarsControl)) = Len(activeVarsControl) - 1
      /\ \A i \in 1..(Len(activeVarsControl) - 1) : Front(activeVarsControl)[i] = activeVarsControl[i]
  BY ONLY <1>1, <1>2, FrontIs
<1>6. /\ Front(seen) \in Seq(SUBSET Lit) /\ Len(Front(seen)) = Len(seen) - 1
      /\ \A i \in 1..(Len(seen) - 1) : Front(seen)[i] = seen[i]
  <2>1. PICK T, t : T = SUBSET Lit /\ t = seen /\ Len(t) >= 1 /\ t \in Seq(T)
    BY <1>1, <1>2
  <2>2. /\ Front(t) \in Seq(T) /\ Len(Front(t)) = Len(t) - 1
        /\ \A i \in 1..(Len(t) - 1) : Front(t)[i] = t[i]
    BY ONLY <2>1, FrontIs
  <2> QED
    BY ONLY <2>1, <2>2
<1>7. Front(checked) \in Seq(SUBSET Lit) /\ Len(Front(checked)) = Len(checked) - 1
  BY ONLY <1>2, <1>3, FrontIs
<1>8. Front(registered) \in Seq(SUBSET Var) /\ Len(Front(registered)) = Len(registered) - 1
  BY ONLY <1>2, <1>3, FrontIs
<1> QED
  BY ONLY <1>1, <1>2, <1>3, <1>4, <1>5, <1>6, <1>7, <1>8

\* Pop leaves the active variables of the levels still open.
LEMMA LevelledPop ==
  ASSUME Typed, Levelled, Pop, instance' = instance
  PROVE  Levelled' /\ Problem' = Problem \ Gone
<1>1. PICK U \in Nat \ {0}, n \in Nat, N \in Nat \ {0}, m \in Nat :
         /\ m \in 0..n /\ U = UserLevel /\ n = Len(activeVars) /\ N = nVars /\ m = activeVarsControl[U]
  <2>1. UserLevel \in Nat /\ UserLevel >= 1
    BY ONLY Typed, Levelled, Pop, TypedFacts, PopDoes
  <2>2. UserLevel \in Nat \ {0} /\ UserLevel \in 1..UserLevel
    BY <2>1
  <2>3. activeVarsControl[UserLevel] \in 0..Len(activeVars)
    BY <2>2 DEF Levelled
  <2>4. Len(activeVars) \in Nat /\ nVars \in Nat \ {0}
    BY TypedFacts, SeqElement
  <2> QED
    BY <2>2, <2>3, <2>4
<1>2. /\ nVars' = N /\ UserLevel' = U - 1
      /\ \A v \in 1..N : /\ info'[v].atom = info[v].atom /\ info'[v].intro = info[v].intro
                         /\ info'[v].active <=> info[v].active /\ v \notin Gone
      /\ activeVars' = SubSeq(activeVars, 1, m)
  BY <1>1, PopDoes, TypedFacts
<1>3. /\ Len(activationLits') = U - 1
      /\ activationLits' \in Seq(Var)
      /\ \A j \in 1..(U - 1) : /\ activationLits'[j] = activationLits[j]
                               /\ activeVarsControl'[j] = activeVarsControl[j]
  BY ONLY <1>1, Typed, Pop, PopStacks
<1>4. Len(activeVars') = m /\ \A i \in 1..m : activeVars'[i] = activeVars[i]
  <2>1. activeVars \in Seq(Var) /\ m \in 0..Len(activeVars)
    BY <1>1, TypedFacts
  <2>2. /\ Len(SubSeq(activeVars, 1, m)) = m
        /\ \A i \in 1..m : SubSeq(activeVars, 1, m)[i] = activeVars[i]
    BY ONLY <2>1, Prefix
  <2> QED
    BY <1>2, <2>2
<1>5. /\ \A j \in 1..U :
           LET a == activationLits[j]
           IN a \in 1..N /\ info[a].active /\ info[a].intro = j /\ ~info[a].atom
      /\ \A i \in 1..n : activeVars[i] \in 1..N /\ info[activeVars[i]].active
      /\ \A v \in 1..N : info[v].active => \E i \in 1..n : activeVars[i] = v
      /\ \A j \in 1..U : activeVarsControl[j] \in 0..n
      /\ \A j \in 1..U, i \in 1..n :
           (i > activeVarsControl[j]) = (info[activeVars[i]].intro >= j)
      /\ \A v \in 1..N : info[v].active => info[v].intro <= U
      /\ \A v \in 1..N : ~info[v].active => info[v].intro >= 1
      /\ info[1].intro = 0
  BY <1>1 DEF Levelled
<1>6. \A v \in 1..N : info[v].intro \in Nat
  BY <1>1, TypedFacts, InfoFields
<1>7. /\ U \in 1..U /\ \A j \in 1..(U - 1) : j \in 1..U /\ j # U
      /\ \A i \in 1..m : i \in 1..n /\ ~(i > m)
  BY <1>1
<1>8. \A v : v \in Gone <=> v \in 1..N /\ info[v].active /\ info[v].intro = U
  BY <1>1 DEF Gone
<1>9. \A i \in 1..n : activeVars[i] \in Gone <=> i > m
  <2> TAKE i \in 1..n
  <2>1. PICK x \in 1..N : x = activeVars[i]
    BY <1>5
  <2>2. info[x].active /\ info[x].intro <= U /\ info[x].intro \in Nat
    BY <1>5, <1>6, <2>1
  <2>3. (i > m) = (info[x].intro >= U)
    BY <1>1, <1>5, <1>7, <2>1
  <2> QED
    BY <1>8, <2>1, <2>2, <2>3
<1>10. \A j \in 1..(U - 1) :
          LET a == activationLits'[j]
          IN a \in 1..N /\ info'[a].active /\ info'[a].intro = j /\ ~info'[a].atom
  <2> TAKE j \in 1..(U - 1)
  <2>1. PICK a \in 1..N : a = activationLits[j] /\ info[a].active /\ info[a].intro = j /\ ~info[a].atom
    BY <1>5, <1>7
  <2>2. a \notin Gone /\ activationLits'[j] = a
    BY <1>3, <1>7, <1>8, <2>1
  <2> QED
    BY <1>2, <2>1, <2>2
<1>11. \A i \in 1..m : activeVars'[i] \in 1..N /\ info'[activeVars'[i]].active
  <2> TAKE i \in 1..m
  <2>1. PICK x \in 1..N : x = activeVars[i]
    BY <1>5, <1>7
  <2>2. info[x].active /\ x \notin Gone /\ activeVars'[i] = x
    BY <1>4, <1>5, <1>7, <1>9, <2>1
  <2> QED
    BY <1>2, <2>1, <2>2
<1>12. ASSUME NEW v \in 1..N, info'[v].active PROVE \E i \in 1..m : activeVars'[i] = v
  <2>1. info[v].active /\ v \notin Gone
    BY <1>2, <1>12
  <2>2. PICK i \in 1..n : activeVars[i] = v
    BY <1>5, <2>1
  <2>3. ~(i > m)
    BY <1>9, <2>1, <2>2
  <2>4. i \in 1..m
    BY <2>3
  <2> QED
    BY <1>4, <2>2, <2>4
<1>13. ASSUME NEW j \in 1..(U - 1)
       PROVE  /\ activeVarsControl'[j] \in 0..m
              /\ \A i \in 1..m : (i > activeVarsControl'[j]) = (info'[activeVars'[i]].intro >= j)
  <2>1. PICK b \in 0..n : b = activeVarsControl[j]
    BY <1>5, <1>7
  <2>2. activeVarsControl'[j] = b
    BY <1>3, <2>1
  <2>3. b <= m
    <3> SUFFICES ASSUME b > m PROVE FALSE
      OBVIOUS
    <3>1. b \in 1..n /\ ~(b > b)
      OBVIOUS
    <3>2. PICK x \in 1..N : x = activeVars[b]
      BY <1>5, <3>1
    <3>3. ~(info[x].intro >= j) /\ info[x].intro \in Nat
      BY <1>5, <1>6, <1>7, <2>1, <3>1, <3>2
    <3>4. info[x].intro = U
      BY <1>8, <1>9, <3>1, <3>2
    <3> QED
      BY <3>3, <3>4
  <2>4. ASSUME NEW i \in 1..m PROVE (i > b) = (info'[activeVars'[i]].intro >= j)
    <3>1. PICK x \in 1..N : x = activeVars[i]
      BY <1>5, <1>7
    <3>2. info'[activeVars'[i]].intro = info[x].intro
      BY <1>2, <1>4, <3>1
    <3>3. (i > b) = (info[x].intro >= j)
      BY <1>5, <1>7, <2>1, <3>1
    <3> QED
      BY <3>2, <3>3
  <2> QED
    BY <2>2, <2>3, <2>4
<1>14. ASSUME NEW v \in 1..N
       PROVE  /\ info'[v].active => info'[v].intro <= U - 1
              /\ ~info'[v].active => info'[v].intro >= 1
  <2>1. PICK a \in Nat : a = info[v].intro /\ info'[v].intro = a
    BY <1>2, <1>6
  <2>2. ASSUME info'[v].active PROVE a <= U - 1
    <3>1. a <= U /\ a # U
      BY <1>2, <1>5, <1>8, <2>1, <2>2
    <3> QED
      BY <3>1
  <2>3. ASSUME ~info'[v].active PROVE a >= 1
    BY <1>2, <1>5, <1>8, <2>1, <2>3
  <2> QED
    BY <2>1, <2>2, <2>3
<1>15. info'[1].intro = 0
  BY <1>2, <1>5
<1>16. Levelled'
  BY <1>2, <1>4, <1>10, <1>11, <1>12, <1>13, <1>14, <1>15 DEF Levelled
<1>17. Problem' = Problem \ Gone
  <2>1. ActivationVars = {activationLits[j] : j \in 1..U}
    <3>1. activationLits \in Seq(Var) /\ Len(activationLits) = U
      BY <1>1, TypedFacts
    <3>2. ToSet(activationLits) = {activationLits[j] : j \in 1..Len(activationLits)}
      BY <3>1, SeqSet
    <3> QED
      BY <3>1, <3>2 DEF ActivationVars
  <2>2. ActivationVars' = {activationLits'[j] : j \in 1..(U - 1)}
    <3>1. ToSet(activationLits') = {activationLits'[j] : j \in 1..Len(activationLits')}
      BY <1>3, SeqSet
    <3> QED
      BY <1>3, <3>1 DEF ActivationVars
  <2>3. \A j \in 1..U : j \in 1..(U - 1) \/ j = U
    OBVIOUS
  <2>4. activationLits[U] \in Gone
    BY <1>5, <1>7, <1>8
  <2>5. \A v \in ActivationVars : v \in ActivationVars' \/ v \in Gone
    BY <1>3, <2>1, <2>2, <2>3, <2>4
  <2>6. \A v \in ActivationVars' : v \in ActivationVars
    BY <1>3, <1>7, <2>1, <2>2
  <2> QED
    BY <1>1, <1>2, <2>5, <2>6 DEF Problem
<1> QED
  BY <1>16, <1>17

\* Pop leaves the trail of the variables that stay.
LEMMA TrailedPop ==
  ASSUME Typed, Typed', Levelled, Trailed, Pop, instance' = instance, DecLevel = 0
  PROVE  Trailed'
<1>1. /\ nVars' = nVars /\ Var' = Var /\ lev' = lev /\ decisions' = decisions
  BY DEF Pop, Var, MaxVar
<1>2. DecLevel' = 0 /\ 1..DecLevel' = {}
  BY <1>1 DEF DecLevel
<1>3. PICK N \in Nat \ {0} : N = nVars /\ 1..N \subseteq Var
  BY TypedFacts
<1>4. /\ \A v \in Var : /\ info'[v].fixed = info[v].fixed /\ info'[v].asg = info[v].asg
                        /\ info'[v].active <=> info[v].active /\ v \notin Gone
      /\ \A v \in Var : val'[v] = IF v \in Gone /\ val[v] = 0 THEN v ELSE val[v]
      /\ assignments' \in Seq(Lit)
      /\ ToSet(assignments') = {l \in ToSet(assignments) : VarOf(l) \notin Gone}
  BY ONLY Typed, Levelled, Pop, PopDoes
<1>5. /\ ToSet(assignments) = {assignments[i] : i \in 1..Len(assignments)}
      /\ ToSet(assignments') = {assignments'[i] : i \in 1..Len(assignments')}
  <2>1. assignments \in Seq(Lit)
    BY TypedFacts
  <2>2. ToSet(assignments) = {assignments[i] : i \in 1..Len(assignments)}
    BY ONLY <2>1, SeqSet
  <2>3. ToSet(assignments') = {assignments'[i] : i \in 1..Len(assignments')}
    BY ONLY <1>4, SeqSet
  <2> QED
    BY <2>2, <2>3
<1>6. /\ \A v \in Var : val[v] \in {0, v, -v} /\ lev[v] <= DecLevel
      /\ \A v \in 1..N : info[v].asg \in {0, v, -v}
      /\ \A v \in 1..N : info[v].active =>
           /\ info[v].asg # 0 => val[v] = info[v].asg
           /\ info[v].fixed => info[v].asg # 0 /\ lev[v] = 0
           /\ info[v].asg # 0 /\ ~info[v].fixed => lev[v] >= 1
           /\ info[v].asg # 0 => \E i \in 1..Len(assignments) : assignments[i] = info[v].asg
      /\ \A i \in 1..Len(assignments) :
           LET v == VarOf(assignments[i])
           IN v \in 1..N /\ info[v].active /\ info[v].asg = assignments[i]
  BY <1>3 DEF Trailed
<1>7. \A v \in Var : val'[v] \in {0, v, -v} /\ lev'[v] <= DecLevel'
  BY <1>1, <1>2, <1>4, <1>6
<1>8. \A v \in 1..N : info'[v].asg \in {0, v, -v}
  BY <1>3, <1>4, <1>6
<1>9. ASSUME NEW v \in 1..N, info'[v].active
      PROVE  /\ info'[v].asg # 0 => val'[v] = info'[v].asg
             /\ info'[v].fixed => info'[v].asg # 0 /\ lev'[v] = 0
             /\ info'[v].asg # 0 /\ ~info'[v].fixed => lev'[v] >= 1
             /\ info'[v].asg # 0 => \E i \in 1..Len(assignments') : assignments'[i] = info'[v].asg
  <2>1. /\ v \in Var /\ info[v].active /\ v \notin Gone /\ val'[v] = val[v]
        /\ info'[v].asg = info[v].asg /\ info'[v].fixed = info[v].fixed
    BY <1>3, <1>4, <1>9
  <2>2. ASSUME info[v].asg # 0 PROVE \E i \in 1..Len(assignments') : assignments'[i] = info[v].asg
    <3>1. VarOf(info[v].asg) = v
      BY <1>3, <1>6, <2>2, LitOfVar
    <3>2. info[v].asg \in ToSet(assignments)
      BY <1>5, <1>6, <2>1, <2>2
    <3>3. info[v].asg \in ToSet(assignments')
      BY <1>4, <2>1, <3>1, <3>2
    <3> QED
      BY <1>5, <3>3
  <2> QED
    BY <1>1, <1>6, <2>1, <2>2
<1>10. ASSUME NEW i \in 1..Len(assignments')
       PROVE  LET v == VarOf(assignments'[i])
              IN v \in 1..N /\ info'[v].active /\ info'[v].asg = assignments'[i]
  <2>1. assignments'[i] \in ToSet(assignments) /\ VarOf(assignments'[i]) \notin Gone
    BY <1>4, <1>5
  <2>2. PICK k \in 1..Len(assignments) : assignments[k] = assignments'[i]
    BY <1>5, <2>1
  <2>3. PICK v \in 1..N : v = VarOf(assignments[k]) /\ info[v].active /\ info[v].asg = assignments[k]
    BY <1>6
  <2>4. v \in Var /\ v \notin Gone
    BY <1>3, <2>1, <2>2, <2>3
  <2> QED
    BY <1>4, <2>2, <2>3, <2>4
<1> QED
  BY <1>1, <1>2, <1>3, <1>7, <1>8, <1>9, <1>10 DEF Trailed

\* The variables that Pop takes back are not those of assigned atoms.
LEMMA AtomsStay ==
  ASSUME Typed, Levelled, Trailed, Justified, Pop, DecLevel = 0, NEW l, AssignedAtom(l)
  PROVE  VarOf(l) \in 1..nVars /\ VarOf(l) \notin Gone /\ info[VarOf(l)].fixed
<1>1. PICK v \in 1..nVars : v = VarOf(l) /\ info[v].active /\ info[v].atom
  BY DEF AssignedAtom
<1>2. info[v].fixed
  BY <1>1, FixedAtBase
<1>3. v \notin ActivationVars
  <2>1. activationLits \in Seq(Var) /\ Len(activationLits) = UserLevel
    BY TypedFacts
  <2>2. ActivationVars = {activationLits[j] : j \in 1..UserLevel}
    BY ONLY <2>1, SeqSet DEF ActivationVars
  <2> QED
    BY <1>1, <2>2 DEF Levelled
<1>4. v \in Problem
  BY <1>1, <1>3 DEF Problem
<1>5. info[v].intro = 0
  BY <1>2, <1>4 DEF Justified
<1>6. UserLevel >= 1 /\ UserLevel \in Nat
  BY TypedFacts, PopDoes
<1> QED
  BY <1>1, <1>2, <1>5, <1>6 DEF Gone

\* Pop tells again, at the next solve, what the level left was not told.
LEMMA ToldPop ==
  ASSUME Typed, Typed', Levelled, Trailed, Told, Justified, Pop, instance' = instance, DecLevel = 0
  PROVE  Told'
<1>1. PICK U \in Nat \ {0}, N \in Nat \ {0} :
         U = UserLevel /\ N = nVars /\ Len(seen) = U + 1 /\ 1..N \subseteq Var
  <2>1. UserLevel \in Nat /\ UserLevel >= 1
    BY ONLY Typed, Levelled, Pop, TypedFacts, PopDoes
  <2>2. UserLevel \in Nat \ {0} /\ Len(seen) = UserLevel + 1
    BY <2>1, TypedFacts
  <2> QED
    BY <2>2, TypedFacts
<1>2. /\ nVars' = N /\ UserLevel' = U - 1
      /\ \A v \in 1..N : /\ info'[v].atom = info[v].atom /\ info'[v].fixed = info[v].fixed
                         /\ info'[v].asg = info[v].asg /\ info'[v].fixedAt = info[v].fixedAt
                         /\ info'[v].active <=> info[v].active /\ v \notin Gone
      /\ assignments' \in Seq(Lit)
      /\ ToSet(assignments') = {l \in ToSet(assignments) : VarOf(l) \notin Gone}
      /\ ToSet(renotify') = ToSet(renotify) \cup
             {l \in ToSet(assignments') : StaleFixed(l, U - 1)}
  BY <1>1, PopDoes
<1>3. DecLevel' = 0 /\ 0..DecLevel' = {0}
  BY DEF Pop, DecLevel
<1>4. Len(seen') = U /\ \A j \in 1..U : seen'[j] = seen[j] /\ j \in 1..Len(seen)
  <2>1. Len(seen') = Len(seen) - 1 /\ \A j \in 1..(Len(seen) - 1) : seen'[j] = seen[j]
    BY ONLY Typed, Pop, PopStacks
  <2> QED
    BY <1>1, <2>1
<1>5. ASSUME NEW l, AssignedAtom(l)
      PROVE  /\ VarOf(l) \in 1..N /\ AssignedAtom(l)' /\ info[VarOf(l)].asg = l
             /\ info[VarOf(l)].fixed /\ info'[VarOf(l)].fixed
             /\ info[VarOf(l)].active /\ info[VarOf(l)].atom
  <2>1. VarOf(l) \in 1..N /\ VarOf(l) \notin Gone /\ info[VarOf(l)].fixed
    BY <1>1, <1>5, AtomsStay
  <2> QED
    BY <1>1, <1>2, <1>5, <2>1 DEF AssignedAtom
<1>6. /\ ToSet(assignments) = {assignments[i] : i \in 1..Len(assignments)}
      /\ ToSet(assignments') = {assignments'[i] : i \in 1..Len(assignments')}
  <2>1. assignments \in Seq(Lit)
    BY TypedFacts
  <2>2. ToSet(assignments) = {assignments[i] : i \in 1..Len(assignments)}
    BY ONLY <2>1, SeqSet
  <2>3. ToSet(assignments') = {assignments'[i] : i \in 1..Len(assignments')}
    BY ONLY <1>2, SeqSet
  <2> QED
    BY <2>2, <2>3
<1>7. ASSUME NEW l \in ToSet(assignments'), info[VarOf(l)].atom
      PROVE  AssignedAtom(l)
  <2>1. PICK i \in 1..Len(assignments) : assignments[i] = l
    BY <1>2, <1>6
  <2> QED
    BY <1>7, <2>1 DEF AssignedAtom, Trailed
<1>8. ASSUME NEW l, AssignedAtom(l), NEW j \in (1 + info[VarOf(l)].fixedAt)..U
      PROVE  l \in seen[j] \cup ToSet(renotify)
  <2>1. PICK v \in 1..N : v = VarOf(l) /\ info[v].asg = l /\ info[v].fixed /\ info[v].active /\ info[v].atom
    BY <1>5, <1>8
  <2> QED
    BY <1>1, <2>1 DEF Told
<1>9. \A j \in 1..Len(seen') : \A l \in seen'[j] :
         AssignedAtom(l)' /\ (info'[VarOf(l)].fixed \/ 1 + UserLevel' + lev'[VarOf(l)] <= j)
  BY <1>4, <1>5 DEF Told
<1>10. ASSUME NEW i \in 1..Len(assignments'), info'[VarOf(assignments'[i])].atom
       PROVE  assignments'[i] \in seen'[U] \cup ToSet(renotify')
  <2>1. PICK l \in ToSet(assignments') : l = assignments'[i]
    BY <1>6
  <2>2. PICK k \in 1..Len(assignments) : assignments[k] = l
    BY <1>2, <1>6
  <2>3. VarOf(l) \in 1..N
    BY <1>1, <2>2 DEF Trailed
  <2>4. info[VarOf(l)].atom
    BY <1>2, <1>10, <2>1, <2>3
  <2>5. AssignedAtom(l)
    BY <1>7, <2>4
  <2>6. PICK a \in Nat : a = info[VarOf(l)].fixedAt
    BY <1>1, <2>3, InfoFields
  <2>7. CASE a > U - 1
    BY <1>2, <2>1, <2>4, <2>6, <2>7 DEF StaleFixed
  <2>8. CASE ~(a > U - 1)
    <3>1. U \in (1 + a)..U /\ U \in 1..U
      BY <2>8
    <3>2. l \in seen[U] \cup ToSet(renotify)
      BY <1>8, <2>5, <2>6, <3>1
    <3> QED
      BY <1>2, <1>4, <2>1, <3>1, <3>2
  <2> QED
    BY <2>7, <2>8
<1>11. \A i \in 1..Len(assignments') : info'[VarOf(assignments'[i])].atom =>
         \A j \in 0..DecLevel' : (j < DecLevel' => i <= assignmentControl'[j + 1]) =>
            assignments'[i] \in seen'[1 + UserLevel' + j] \cup ToSet(renotify')
  <2>1. \A j \in 0..DecLevel' : 1 + UserLevel' + j = U
    BY <1>2, <1>3
  <2> QED
    BY <1>10, <2>1
<1>12. ASSUME NEW v \in 1..nVars', info'[v].active, info'[v].atom, info'[v].fixed,
              NEW j \in (1 + info'[v].fixedAt)..UserLevel'
       PROVE  info'[v].asg \in seen'[j] \cup ToSet(renotify')
  <2>1. /\ v \in 1..N /\ info[v].active /\ info[v].atom /\ info[v].fixed
        /\ info'[v].asg = info[v].asg
    BY <1>2, <1>12
  <2>2. PICK a \in Nat : a = info[v].fixedAt /\ j \in (1 + a)..(U - 1)
    BY <1>1, <1>2, <1>12, <2>1, InfoFields
  <2>3. j \in (1 + a)..U /\ j \in 1..U
    BY <2>2
  <2>4. info[v].asg \in seen[j] \cup ToSet(renotify)
    BY <1>1, <2>1, <2>2, <2>3 DEF Told
  <2> QED
    BY <1>2, <1>4, <2>1, <2>3, <2>4
<1>13. \A l \in ToSet(renotify') : AssignedAtom(l)' /\ info'[VarOf(l)].fixed
  <2> TAKE l \in ToSet(renotify')
  <2>1. AssignedAtom(l)
    <3>1. CASE l \in ToSet(renotify)
      BY <3>1 DEF Told
    <3>2. CASE l \in ToSet(assignments') /\ StaleFixed(l, U - 1)
      BY <1>7, <3>2 DEF StaleFixed
    <3> QED
      BY <1>2, <3>1, <3>2
  <2> QED
    BY <1>5, <2>1
<1> QED
  BY <1>9, <1>11, <1>12, <1>13 DEF Told

\* Pop takes back the clauses guarded by the level it leaves, and no others.
LEMMA GuardsPop ==
  ASSUME Typed, Levelled, Guards, Pop, instance' = instance
  PROVE  Guards'
<1>1. PICK U \in Nat \ {0}, N \in Nat \ {0} : U = UserLevel /\ N = nVars /\ 1..N \subseteq Var
  <2>1. UserLevel \in Nat /\ UserLevel >= 1
    BY ONLY Typed, Levelled, Pop, TypedFacts, PopDoes
  <2>2. UserLevel \in Nat \ {0}
    BY <2>1
  <2> QED
    BY <2>2, TypedFacts
<1>2. /\ nVars' = N /\ UserLevel' = U - 1
      /\ \A v \in 1..N : /\ info'[v].fixed = info[v].fixed /\ info'[v].asg = info[v].asg
                         /\ info'[v].intro = info[v].intro
                         /\ info'[v].active <=> info[v].active /\ v \notin Gone
      /\ db' = db \cup {{v} : v \in Gone}
      /\ inputs' = {r \in inputs : r.level <= U - 1}
      /\ lemmas' = {r \in lemmas : /\ VarsOf(r.clause) \cap Gone = {}
                                   /\ proofProducing => r.level <= U - 1}
  BY <1>1, PopDoes
<1>3. /\ proofProducing' = proofProducing /\ newClauses' = newClauses
      /\ Stored' = Stored \cup {{v} : v \in Gone}
  <2>1. proofProducing' = proofProducing /\ newClauses' = newClauses
    BY DEF Pop
  <2> QED
    BY <1>2, <2>1 DEF Stored
<1>4. \A v : v \in Gone <=> v \in 1..N /\ info[v].active /\ info[v].intro = U
  BY <1>1 DEF Gone
<1>5. /\ \A L \in 0..(U - 1) : L \in 0..U /\ L # U /\ (L # 0 => L \in 1..(U - 1))
      /\ \A L \in 0..U : L \in 0..(U - 1) \/ L = U
      /\ U \in 1..U /\ U # 0
  OBVIOUS
<1>6. \A c, L : L \in 0..(U - 1) => WithActivation(c, L)' = WithActivation(c, L)
  <2>1. \A j \in 1..(U - 1) : activationLits'[j] = activationLits[j]
    BY ONLY <1>1, Typed, Pop, PopStacks
  <2> QED
    BY <1>5, <2>1 DEF WithActivation
<1>7. activationLits[U] \in Gone /\ \A c : activationLits[U] \in WithActivation(c, U)
  BY <1>1, <1>4, <1>5 DEF Levelled, WithActivation
<1>8. \A r \in inputs \cup lemmas : \A v \in VarsOf(r.clause) : v \in 1..N /\ v \in Problem /\ info[v].active
  BY <1>1 DEF Guards, Problem
<1>9. \A v \in 1..N : info[v].intro \in Nat
  BY <1>1, InfoFields
<1>10. \A r \in inputs \cup lemmas : \A L : Within(r.clause, L) => Within(r.clause, L)'
  BY <1>2, <1>8 DEF Within
<1>11. ASSUME NEW r \in inputs \cup lemmas, NEW L \in 0..(U - 1), Within(r.clause, L)
       PROVE  VarsOf(r.clause) \cap Gone = {}
  <2> SUFFICES ASSUME NEW v \in VarsOf(r.clause), v \in Gone PROVE FALSE
    OBVIOUS
  <2>1. info[v].intro = U /\ info[v].intro <= L
    BY <1>4, <1>11 DEF Within
  <2> QED
    BY <2>1
<1>12. ASSUME NEW r \in inputs, NEW L \in 0..(U - 1), InputAt(r, L)
       PROVE  r \in inputs' /\ InputAt(r, L)'
  BY <1>2, <1>10, <1>12 DEF InputAt
<1>13. ASSUME NEW r \in lemmas, NEW L \in 0..(U - 1), LemmaAt(r, L)
       PROVE  r \in lemmas' /\ LemmaAt(r, L)'
  <2>1. Within(r.clause, L) /\ (proofProducing => L = r.level)
    BY <1>13 DEF LemmaAt
  <2>2. r \in lemmas'
    BY <1>2, <1>11, <2>1
  <2>3. \A v \in VarsOf(r.clause) : info'[v].intro = info[v].intro
    BY <1>2, <1>8
  <2> QED
    BY <1>3, <1>10, <1>13, <2>1, <2>2, <2>3 DEF LemmaAt
<1>14. ({1} \in db)'
  BY <1>2 DEF Guards
<1>15. ASSUME NEW x \in Gone, NEW c, x \in c PROVE Origin(c)'
  <2>1. x \in 1..N /\ ~info'[x].active
    BY <1>2, <1>4
  <2> QED
    BY <1>2, <1>15, <2>1 DEF Origin
<1>16. ASSUME NEW c \in Stored PROVE Origin(c)'
  <2>1. Origin(c)
    BY DEF Guards
  <2>2. CASE \E x \in 1..nVars : x \in c /\ ~info[x].active
    BY <1>1, <1>2, <2>2 DEF Origin
  <2>3. CASE c = Tautology \/ c = {1}
    BY <2>3 DEF Origin, Tautology
  <2>4. CASE \E r \in inputs, L \in 0..UserLevel :
                InputAt(r, L) /\ c = WithActivation(r.clause, L)
    <3>1. PICK r \in inputs, L \in 0..U : InputAt(r, L) /\ c = WithActivation(r.clause, L)
      BY <1>1, <2>4
    <3>2. CASE L \in 0..(U - 1)
      <4>1. r \in inputs' /\ L \in 0..UserLevel' /\ InputAt(r, L)' /\ c = WithActivation(r.clause, L)'
        BY <1>2, <1>6, <1>12, <3>1, <3>2
      <4> QED
        BY <4>1 DEF Origin
    <3>3. CASE L = U
      BY <1>7, <1>15, <3>1, <3>3
    <3> QED
      BY <1>5, <3>2, <3>3
  <2>5. CASE \E r \in lemmas, L \in 0..UserLevel :
                LemmaAt(r, L) /\ c = WithActivation(r.clause, L)
    <3>1. PICK r \in lemmas, L \in 0..U : LemmaAt(r, L) /\ c = WithActivation(r.clause, L)
      BY <1>1, <2>5
    <3>2. CASE L \in 0..(U - 1)
      <4>1. r \in lemmas' /\ L \in 0..UserLevel' /\ LemmaAt(r, L)' /\ c = WithActivation(r.clause, L)'
        BY <1>2, <1>6, <1>13, <3>1, <3>2
      <4> QED
        BY <4>1 DEF Origin
    <3>3. CASE L = U
      BY <1>7, <1>15, <3>1, <3>3
    <3> QED
      BY <1>5, <3>2, <3>3
  <2> QED
    BY <2>1, <2>2, <2>3, <2>4, <2>5 DEF Origin
<1>17. ASSUME NEW c \in Stored' PROVE VarsOf(c) \subseteq 1..nVars' /\ Origin(c)'
  <2>1. CASE c \in Stored
    BY <1>1, <1>2, <1>16, <2>1 DEF Guards
  <2>2. CASE \E v \in Gone : c = {v}
    <3>1. PICK v \in Gone : c = {v}
      BY <2>2
    <3>2. v \in 1..N /\ v \in Nat \ {0}
      BY <1>4
    <3>3. VarsOf(c) = {v}
      BY <3>1, <3>2 DEF VarsOf, VarOf
    <3> QED
      BY <1>2, <1>15, <3>1, <3>2, <3>3
  <2> QED
    BY <1>3, <2>1, <2>2
<1>18. \A x \in 1..nVars' : ~info'[x].active => {x} \in db'
  BY <1>1, <1>2 DEF Guards
<1>19. ASSUME NEW r \in inputs' \cup lemmas', NEW v \in VarsOf(r.clause) PROVE v \in Problem'
  <2>1. r \in inputs \cup lemmas
    BY <1>2
  <2>2. VarsOf(r.clause) \cap Gone = {}
    <3>1. CASE r \in inputs'
      <4>1. r \in inputs /\ r.level <= U - 1 /\ r.level \in Nat
        BY <1>2, <3>1 DEF Typed
      <4>2. r.level \in 0..(U - 1) /\ Within(r.clause, r.level)
        BY <4>1 DEF Guards
      <4> QED
        BY <1>11, <2>1, <4>2
    <3>2. CASE r \in lemmas'
      BY <1>2, <3>2
    <3> QED
      BY <3>1, <3>2
  <2>3. Problem' = Problem \ Gone
    BY LevelledPop
  <2> QED
    BY <1>8, <2>1, <2>2, <2>3
<1>20. \A r \in inputs' : Within(r.clause, r.level)'
  BY <1>2, <1>10 DEF Guards
<1>21. \A r \in inputs \cup lemmas : FixedTrue(r.clause) => FixedTrue(r.clause)'
  BY <1>1, <1>2 DEF FixedTrue
<1>22. ASSUME NEW r \in inputs'
       PROVE  FixedTrue(r.clause)' \/
              \E L \in 0..UserLevel' : InputAt(r, L)' /\ WithActivation(r.clause, L)' \in Stored'
  <2>1. r \in inputs /\ r.level <= U - 1
    BY <1>2
  <2>2. CASE FixedTrue(r.clause)
    BY <1>21, <2>1, <2>2
  <2>3. CASE \E L \in 0..U : InputAt(r, L) /\ WithActivation(r.clause, L) \in Stored
    <3>1. PICK L \in 0..U : InputAt(r, L) /\ WithActivation(r.clause, L) \in Stored
      BY <2>3
    <3>2. L \in 0..(U - 1)
      BY <2>1, <3>1 DEF InputAt
    <3>3. InputAt(r, L)' /\ WithActivation(r.clause, L)' \in Stored'
      BY <1>3, <1>6, <1>12, <2>1, <3>1, <3>2
    <3> QED
      BY <1>2, <3>2, <3>3
  <2> QED
    BY <1>1, <2>1, <2>2, <2>3 DEF Guards
<1>23. ASSUME NEW r \in lemmas'
       PROVE  FixedTrue(r.clause)' \/
              \E L \in 0..UserLevel' : LemmaAt(r, L)' /\ WithActivation(r.clause, L)' \in Stored'
  <2>1. r \in lemmas /\ VarsOf(r.clause) \cap Gone = {} /\ (proofProducing => r.level <= U - 1)
    BY <1>2
  <2>2. CASE FixedTrue(r.clause)
    BY <1>21, <2>1, <2>2
  <2>3. CASE \E L \in 0..U : LemmaAt(r, L) /\ WithActivation(r.clause, L) \in Stored
    <3>1. PICK L \in 0..U : LemmaAt(r, L) /\ WithActivation(r.clause, L) \in Stored
      BY <2>3
    <3>2. L # U
      <4> SUFFICES ASSUME L = U PROVE FALSE
        OBVIOUS
      <4>1. ~proofProducing
        <5>1. ~(U <= U - 1)
          OBVIOUS
        <5> QED
          BY <2>1, <3>1, <5>1 DEF LemmaAt
      <4>2. PICK v \in VarsOf(r.clause) : info[v].intro = U
        BY <1>5, <3>1, <4>1 DEF LemmaAt
      <4>3. v \in Gone
        BY <1>4, <1>8, <2>1, <4>2
      <4> QED
        BY <2>1, <4>3
    <3>3. L \in 0..(U - 1)
      BY <1>5, <3>2
    <3>4. LemmaAt(r, L)' /\ WithActivation(r.clause, L)' \in Stored'
      BY <1>3, <1>6, <1>13, <2>1, <3>1, <3>3
    <3> QED
      BY <1>2, <3>3, <3>4
  <2> QED
    BY <1>1, <2>1, <2>2, <2>3 DEF Guards
<1> QED
  BY <1>14, <1>17, <1>18, <1>19, <1>20, <1>22, <1>23 DEF Guards

-----------------------------------------------------------------------------
(***************************************************************************)
(* The steps that assign a literal.                                        *)
(***************************************************************************)
\* The variable of a literal that exists.
LEMMA LitCreated ==
  ASSUME Typed, NEW l \in Lit, VarOf(l) <= nVars
  PROVE  VarOf(l) \in 1..nVars /\ VarOf(l) \in Var /\ l \in {VarOf(l), -VarOf(l)}
<1>1. nVars \in Nat /\ instance \in Instances
  BY TypedFacts
<1>2. VarOf(l) \in Var
  BY <1>1, LitVar
<1>3. VarOf(l) \in Nat /\ 1 <= VarOf(l)
  BY <1>1, <1>2, InstanceFacts
<1>4. l \in {VarOf(l), -VarOf(l)}
  BY <1>1, InstanceFacts, VarOfLit
<1> QED
  BY <1>1, <1>2, <1>3, <1>4

\* What recording a literal changes.
SetsAsg(inf2, inf, l, h) ==
    LET v == VarOf(l)
    IN /\ inf2 \in [Var -> VarInfo]
       /\ \A u \in Var : u # v => inf2[u] = inf[u]
       /\ inf2[v].active = inf[v].active /\ inf2[v].atom = inf[v].atom
       /\ inf2[v].intro = inf[v].intro /\ inf2[v].fixed = inf[v].fixed
       /\ inf2[v].fixedAt = inf[v].fixedAt
       /\ inf2[v].asg = IF h THEN l ELSE inf[v].asg

\* Recording a literal changes nothing else.
LEMMA NotifiedIs ==
  ASSUME instance \in Instances, NEW inf \in [Var -> VarInfo], NEW l \in Lit, NEW h, NEW inf2,
         inf2 = IF h THEN [inf EXCEPT ![VarOf(l)].asg = l] ELSE inf
  PROVE  SetsAsg(inf2, inf, l, h)
<1>1. PICK v \in Var : v = VarOf(l)
  BY LitVar
<1>2. CASE ~h
  BY <1>1, <1>2 DEF SetsAsg
<1>3. CASE h
  <2>1. PICK w : w = [inf[v] EXCEPT !.asg = l]
    OBVIOUS
  <2>2. inf[v] \in VarInfo
    OBVIOUS
  <2>3. w \in VarInfo /\ w.active = inf[v].active /\ w.atom = inf[v].atom /\ w.intro = inf[v].intro
        /\ w.fixed = inf[v].fixed /\ w.fixedAt = inf[v].fixedAt /\ w.asg = l
    BY ONLY <2>1, <2>2, l \in Lit DEF VarInfo
  <2>4. inf2 = [inf EXCEPT ![v] = w]
    BY <1>1, <1>3, <2>1
  <2>5. inf2 \in [Var -> VarInfo] /\ inf2[v] = w /\ \A u \in Var : u # v => inf2[u] = inf[u]
    BY ONLY <2>3, <2>4, inf \in [Var -> VarInfo], v \in Var
  <2> QED
    BY <1>1, <1>3, <2>3, <2>5 DEF SetsAsg
<1> QED
  BY <1>2, <1>3

\* What fixing a variable changes.
FixedInfo(inf, v) ==
    /\ inf \in [Var -> VarInfo]
    /\ \A u \in Var : u # v => inf[u] = info[u]
    /\ inf[v].active = info[v].active /\ inf[v].atom = info[v].atom
    /\ inf[v].intro = info[v].intro /\ inf[v].asg = info[v].asg
    /\ inf[v].fixed = TRUE /\ inf[v].fixedAt = UserLevel

\* Fixing a variable changes nothing else.
LEMMA FixedIs ==
  ASSUME Typed, NEW v \in Var
  PROVE  FixedInfo([info EXCEPT ![v].fixed = TRUE, ![v].fixedAt = UserLevel], v)
<1>0. PICK inf : inf = [info EXCEPT ![v].fixed = TRUE, ![v].fixedAt = UserLevel]
  OBVIOUS
<1>1. PICK x : x = [info[v] EXCEPT !.fixed = TRUE]
  OBVIOUS
<1>2. PICK w : w = [x EXCEPT !.fixedAt = UserLevel]
  OBVIOUS
<1>3. info[v] \in VarInfo /\ info \in [Var -> VarInfo] /\ UserLevel \in Nat
  BY TypedFacts
<1>4. x \in VarInfo /\ x.active = info[v].active /\ x.atom = info[v].atom /\ x.intro = info[v].intro
      /\ x.fixed = TRUE /\ x.asg = info[v].asg
  BY ONLY <1>1, <1>3 DEF VarInfo
<1>5. w \in VarInfo /\ w.active = x.active /\ w.atom = x.atom /\ w.intro = x.intro
      /\ w.fixed = x.fixed /\ w.asg = x.asg /\ w.fixedAt = UserLevel
  BY ONLY <1>2, <1>3, <1>4 DEF VarInfo
<1>6. PICK f : f = [info EXCEPT ![v] = x]
  OBVIOUS
<1>7. f \in [Var -> VarInfo] /\ f[v] = x /\ \A u \in Var : u # v => f[u] = info[u]
  BY ONLY <1>3, <1>4, <1>6, v \in Var
<1>8. inf = [f EXCEPT ![v] = w]
  BY <1>0, <1>1, <1>2, <1>6, <1>7
<1>9. inf \in [Var -> VarInfo] /\ inf[v] = w /\ \A u \in Var : u # v => inf[u] = f[u]
  BY ONLY <1>5, <1>7, <1>8, v \in Var
<1>10. FixedInfo(inf, v)
  BY <1>4, <1>5, <1>7, <1>9 DEF FixedInfo
<1> QED
  BY <1>0, <1>10

\* What a notification adds to the trail and tells the theories.
LEMMA NotifiedTells ==
  ASSUME Typed, NEW l \in Lit, DecLevel' = DecLevel,
         assignments' = NotifiedAssignments(l), seen' = NotifiedSeen(seen, l)
  PROVE  /\ assignments' \in Seq(Lit) /\ seen' \in Seq(SUBSET Lit) /\ Len(seen') = Len(seen)
         /\ Tells(IF Heard(l) /\ info[VarOf(l)].atom THEN {l} ELSE {})
<1>1. assignments' \in Seq(Lit)
  BY TypedFacts DEF NotifiedAssignments
<1>2. PICK T, s, n : T = SUBSET Lit /\ s = seen /\ n = Len(s) /\ s \in Seq(T) /\ n \in Nat /\ n >= 1
  <2>1. seen \in Seq(SUBSET Lit) /\ Len(seen) \in Nat /\ Len(seen) >= 1
    BY TypedFacts
  <2> QED
    BY <2>1
<1>3. s[n] \in SUBSET Lit
  BY <1>2, Elements
<1>4. CASE Heard(l) /\ info[VarOf(l)].atom
  <2>1. s[n] \cup {l} \in T
    BY <1>2, <1>3
  <2>2. PICK X, t : X = {l} /\ t = seen' /\ t = AddTop(s, X) /\ s[n] \cup X \in T
    BY <1>2, <1>4, <2>1 DEF NotifiedSeen
  <2>4. s \in Seq(T) /\ Len(s) >= 1 /\ s[Len(s)] \cup X \in T /\ t = AddTop(s, X)
    BY ONLY <1>2, <2>2
  <2>5. /\ t \in Seq(T) /\ Len(t) = Len(s) /\ t[Len(s)] = s[Len(s)] \cup X
        /\ \A i \in 1..(Len(s) - 1) : t[i] = s[i]
    BY ONLY <2>4, TopAdded
  <2>3. /\ seen' \in Seq(T) /\ Len(seen') = n /\ seen'[n] = s[n] \cup {l}
        /\ \A i \in 1..(n - 1) : seen'[i] = s[i]
    BY ONLY <1>2, <2>2, <2>5
  <2>6. Tells({l})
    BY <1>2, <2>3 DEF Tells
  <2> QED
    BY <1>1, <1>2, <1>4, <2>3, <2>6
<1>5. CASE ~(Heard(l) /\ info[VarOf(l)].atom)
  <2>1. seen' = seen
    BY <1>5 DEF NotifiedSeen
  <2>2. Tells({})
    BY <2>1 DEF Tells
  <2> QED
    BY <1>1, <1>2, <1>5, <2>1, <2>2
<1> QED
  BY <1>4, <1>5

\* Fixing a literal.
LEMMA FixDoes ==
  ASSUME Typed, Trailed, NEW l \in Lit, Fix(l), instance' = instance
  PROVE  LET v == VarOf(l)
         IN /\ v \in 1..nVars /\ Assigns(v, l) /\ SameVars /\ TakesFixed(v, l)
            /\ info' \in [Var -> VarInfo] /\ val' \in [Var -> Lit \cup {0}] /\ lev' \in [Var -> Nat]
            /\ assignments' \in Seq(Lit) /\ seen' \in Seq(SUBSET Lit) /\ Len(seen') = Len(seen)
            /\ UserLevel' = UserLevel /\ DecLevel' = DecLevel
            /\ Records(v, l) <=> Heard(l)
            /\ Tells(IF Heard(l) /\ info[v].atom THEN {l} ELSE {})
<1>1. /\ VarOf(l) <= nVars /\ info[VarOf(l)].active /\ ~foundSolution /\ val[VarOf(l)] # -l
      /\ info' = NotifiedInfo([info EXCEPT ![VarOf(l)].fixed = TRUE,
                                           ![VarOf(l)].fixedAt = UserLevel], l)
      /\ assignments' = NotifiedAssignments(l)
      /\ seen' = NotifiedSeen(seen, l)
      /\ val' = [val EXCEPT ![VarOf(l)] = l]
      /\ lev' = [lev EXCEPT ![VarOf(l)] = 0]
      /\ nVars' = nVars /\ activeVars' = activeVars /\ activeVarsControl' = activeVarsControl
      /\ activationLits' = activationLits /\ decisions' = decisions
      /\ assignmentControl' = assignmentControl
  BY DEF Fix, userVars
<1>2. PICK v \in 1..nVars : v = VarOf(l)
  BY <1>1, LitCreated
<1>3. v \in Var /\ instance \in Instances /\ 1..nVars \subseteq Var /\ l \in {v, -v}
  BY <1>1, <1>2, TypedFacts, LitCreated
<1>4. PICK inf : inf = [info EXCEPT ![v].fixed = TRUE, ![v].fixedAt = UserLevel]
  OBVIOUS
<1>5. /\ inf \in [Var -> VarInfo]
      /\ \A u \in Var : u # v => inf[u] = info[u]
      /\ inf[v].active = info[v].active /\ inf[v].atom = info[v].atom
      /\ inf[v].intro = info[v].intro /\ inf[v].asg = info[v].asg
      /\ inf[v].fixed = TRUE /\ inf[v].fixedAt = UserLevel
  <2>1. FixedInfo([info EXCEPT ![v].fixed = TRUE, ![v].fixedAt = UserLevel], v)
    BY ONLY <1>3, Typed, FixedIs
  <2> QED
    BY ONLY <1>4, <2>1 DEF FixedInfo
<1>6. info' = IF Heard(l) THEN [inf EXCEPT ![VarOf(l)].asg = l] ELSE inf
  BY <1>1, <1>2, <1>4 DEF NotifiedInfo
<1>7. /\ info' \in [Var -> VarInfo]
      /\ \A u \in Var : u # v => info'[u] = inf[u]
      /\ info'[v].active = inf[v].active /\ info'[v].atom = inf[v].atom
      /\ info'[v].intro = inf[v].intro /\ info'[v].fixed = inf[v].fixed
      /\ info'[v].fixedAt = inf[v].fixedAt
      /\ info'[v].asg = IF Heard(l) THEN l ELSE inf[v].asg
  <2>1. SetsAsg(info', inf, l, Heard(l))
    BY ONLY <1>3, <1>5, <1>6, l \in Lit, NotifiedIs
  <2> QED
    BY ONLY <1>2, <2>1 DEF SetsAsg
<1>8. /\ val \in [Var -> Lit \cup {0}] /\ lev \in [Var -> Nat]
  BY TypedFacts
<1>9. /\ val' \in [Var -> Lit \cup {0}] /\ lev' \in [Var -> Nat]
      /\ val'[v] = l /\ lev'[v] = 0
      /\ \A u \in Var : u # v => val'[u] = val[u] /\ lev'[u] = lev[u]
  BY <1>1, <1>2, <1>3, <1>8
<1>10. UserLevel' = UserLevel /\ DecLevel' = DecLevel
  BY <1>1 DEF UserLevel, DecLevel
<1>11. SameVars
  BY <1>1, <1>3, <1>5, <1>7 DEF SameVars
<1>12. Heard(l) <=> info[v].asg = 0
  BY <1>1, <1>2 DEF Heard
<1>13. Records(v, l) <=> Heard(l)
  <2>1. CASE Heard(l)
    BY <1>1, <1>2, <1>7, <1>12, <2>1 DEF Records, NotifiedAssignments
  <2>2. CASE ~Heard(l)
    BY <1>12, <2>2 DEF Records
  <2> QED
    BY <2>1, <2>2
<1>14. ~Heard(l) => Ignores(v)
  BY <1>1, <1>2, <1>5, <1>7, <1>12 DEF Ignores, NotifiedAssignments
<1>15. Marks
  BY <1>1, <1>10 DEF Marks
<1>16. Takes(v, l) /\ TakesFixed(v, l)
  <2>1. \A u \in 1..nVars : u # v => info'[u] = info[u]
    BY ONLY <1>3, <1>5, <1>7
  <2>2. info'[v].active = info[v].active /\ info'[v].atom = info[v].atom /\ info'[v].intro = info[v].intro
    BY ONLY <1>5, <1>7
  <2>3. Takes(v, l)
    BY ONLY <1>3, <1>9, <2>1, <2>2, v \in 1..nVars DEF Takes
  <2>4. TakesFixed(v, l)
    BY <1>1, <1>2, <1>5, <1>7, <1>9 DEF TakesFixed
  <2> QED
    BY <2>3, <2>4
<1>17. Assigns(v, l)
  BY <1>1, <1>13, <1>14, <1>15, <1>16 DEF Assigns
<1>18. /\ assignments' \in Seq(Lit) /\ seen' \in Seq(SUBSET Lit) /\ Len(seen') = Len(seen)
       /\ Tells(IF Heard(l) /\ info[VarOf(l)].atom THEN {l} ELSE {})
  BY ONLY <1>1, <1>10, Typed, l \in Lit, NotifiedTells
<1> QED
  BY <1>2, <1>7, <1>9, <1>10, <1>11, <1>13, <1>16, <1>17, <1>18

\* CaDiCaL propagates a literal.
LEMMA PropagateDoes ==
  ASSUME Typed, Trailed, NEW l \in Lit, Propagate(l), instance' = instance
  PROVE  LET v == VarOf(l)
         IN /\ v \in 1..nVars /\ Assigns(v, l) /\ SameVars
            /\ info' \in [Var -> VarInfo] /\ val' \in [Var -> Lit \cup {0}] /\ lev' \in [Var -> Nat]
            /\ assignments' \in Seq(Lit) /\ seen' \in Seq(SUBSET Lit) /\ Len(seen') = Len(seen)
            /\ UserLevel' = UserLevel /\ DecLevel' = DecLevel
            /\ Records(v, l) <=> Heard(l)
            /\ Tells(IF Heard(l) /\ info[v].atom THEN {l} ELSE {})
            /\ \A u \in Var : info'[u].fixed = info[u].fixed
            /\ info[v].fixed => ~info[v].active
<1>1. /\ VarOf(l) <= nVars /\ val[VarOf(l)] = 0 /\ DecLevel > 0
      /\ info' = NotifiedInfo(info, l)
      /\ assignments' = NotifiedAssignments(l)
      /\ seen' = NotifiedSeen(seen, l)
      /\ val' = [val EXCEPT ![VarOf(l)] = l]
      /\ lev' = [lev EXCEPT ![VarOf(l)] = DecLevel]
      /\ nVars' = nVars /\ activeVars' = activeVars /\ activeVarsControl' = activeVarsControl
      /\ activationLits' = activationLits /\ decisions' = decisions
      /\ assignmentControl' = assignmentControl
  BY DEF Propagate, userVars
<1>2. PICK v \in 1..nVars : v = VarOf(l)
  BY <1>1, LitCreated
<1>3. v \in Var /\ instance \in Instances /\ 1..nVars \subseteq Var /\ l \in {v, -v}
  BY <1>1, <1>2, TypedFacts, LitCreated
<1>4. info \in [Var -> VarInfo] /\ val \in [Var -> Lit \cup {0}] /\ lev \in [Var -> Nat] /\ DecLevel \in Nat
  BY TypedFacts
<1>5. info' = IF Heard(l) THEN [info EXCEPT ![VarOf(l)].asg = l] ELSE info
  BY <1>1 DEF NotifiedInfo
<1>6. /\ info' \in [Var -> VarInfo]
      /\ \A u \in Var : u # v => info'[u] = info[u]
      /\ info'[v].active = info[v].active /\ info'[v].atom = info[v].atom
      /\ info'[v].intro = info[v].intro /\ info'[v].fixed = info[v].fixed
      /\ info'[v].fixedAt = info[v].fixedAt
      /\ info'[v].asg = IF Heard(l) THEN l ELSE info[v].asg
  <2>1. SetsAsg(info', info, l, Heard(l))
    BY ONLY <1>3, <1>4, <1>5, l \in Lit, NotifiedIs
  <2> QED
    BY ONLY <1>2, <2>1 DEF SetsAsg
<1>7. /\ val' \in [Var -> Lit \cup {0}] /\ lev' \in [Var -> Nat]
      /\ val'[v] = l /\ lev'[v] = DecLevel
      /\ \A u \in Var : u # v => val'[u] = val[u] /\ lev'[u] = lev[u]
  BY <1>1, <1>2, <1>3, <1>4
<1>8. UserLevel' = UserLevel /\ DecLevel' = DecLevel
  BY <1>1 DEF UserLevel, DecLevel
<1>9. SameVars
  BY <1>1, <1>3, <1>6 DEF SameVars
<1>10. /\ info[v].active => info[v].asg = 0
       /\ info[v].active => ~info[v].fixed
  <2>1. val[v] = 0
    BY <1>1, <1>2
  <2>2. info[v].active => /\ info[v].asg # 0 => val[v] = info[v].asg
                          /\ info[v].fixed => info[v].asg # 0
    BY DEF Trailed
  <2> QED
    BY <2>1, <2>2
<1>11. Records(v, l) <=> Heard(l)
  <2>1. CASE Heard(l)
    BY <1>2, <1>6, <1>1, <2>1 DEF Records, NotifiedAssignments, Heard
  <2>2. CASE ~Heard(l)
    <3> SUFFICES ASSUME Records(v, l) PROVE FALSE
      BY <2>2
    <3>1. assignments' = Append(assignments, l) /\ assignments' = assignments
      BY <1>1, <2>2 DEF Records, NotifiedAssignments
    <3>2. Len(Append(assignments, l)) = Len(assignments) + 1 /\ Len(assignments) \in Nat
      BY TypedFacts, Appended
    <3> QED
      BY <3>1, <3>2
  <2> QED
    BY <2>1, <2>2
<1>12. ~Heard(l) => Ignores(v)
  BY <1>1, <1>6, <1>10 DEF Ignores, NotifiedAssignments
<1>13. Marks
  BY <1>1, <1>8 DEF Marks
<1>14. Takes(v, l)
  BY ONLY <1>3, <1>6, <1>7, v \in 1..nVars DEF Takes
<1>15. TakesNow(v)
  BY <1>1, <1>2, <1>4, <1>6, <1>7, <1>8 DEF TakesNow
<1>16. Assigns(v, l)
  BY <1>1, <1>11, <1>12, <1>13, <1>14, <1>15 DEF Assigns
<1>17. /\ assignments' \in Seq(Lit) /\ seen' \in Seq(SUBSET Lit) /\ Len(seen') = Len(seen)
       /\ Tells(IF Heard(l) /\ info[VarOf(l)].atom THEN {l} ELSE {})
  BY ONLY <1>1, <1>8, Typed, l \in Lit, NotifiedTells
<1>18. \A u \in Var : info'[u].fixed = info[u].fixed
  BY <1>6
<1> QED
  BY <1>2, <1>6, <1>7, <1>8, <1>9, <1>10, <1>11, <1>16, <1>17, <1>18

\* What a step that assigns l tells the theories.
TellsOf(l) ==
    LET v == VarOf(l)
    IN \E X : /\ Tells(X)
              /\ Records(v, l) /\ info[v].atom => l \in X
              /\ \A x \in X : x = l /\ Records(v, l) /\ info[v].atom

\* A new decision level, with or without a decision.
LEMMA OpenDoes ==
  ASSUME Typed, Trailed, NEW l \in Lit \cup {0}, NEW found, OpenLevel(l, found),
         UNCHANGED <<instance, userVars>>,
         l # 0 => VarOf(l) <= nVars /\ val[VarOf(l)] = 0
  PROVE  /\ Assigns(VarOf(l), l) /\ SameVars /\ TellsOf(l)
         /\ info' \in [Var -> VarInfo] /\ val' \in [Var -> Lit \cup {0}] /\ lev' \in [Var -> Nat]
         /\ assignments' \in Seq(Lit) /\ seen' \in Seq(SUBSET Lit) /\ Len(seen') = Len(seen) + 1
         /\ registered' \in Seq(SUBSET Var) /\ Len(registered') = Len(seen) + 1
         /\ decisions' \in Seq(Lit \cup {0}) /\ decisions' # << >>
         /\ assignmentControl' \in Seq(Nat) /\ Len(assignmentControl') = DecLevel + 1
         /\ UserLevel' = UserLevel /\ DecLevel' = DecLevel + 1
         /\ \A u \in 1..nVars : info'[u].fixed = info[u].fixed
         /\ \A u \in 1..nVars : info[u].active /\ info[u].fixed => info'[u] = info[u]
         /\ registered' = Append(registered, Last(registered))
<1> DEFINE heard == l # 0 /\ ~found /\ info[VarOf(l)].active
           atom == heard /\ info[VarOf(l)].atom
<1>1. /\ assignmentControl' = Append(assignmentControl, Len(assignments))
      /\ decisions' = Append(decisions, IF heard THEN l ELSE 0)
      /\ info' = IF heard THEN [info EXCEPT ![VarOf(l)].asg = l] ELSE info
      /\ assignments' = IF heard THEN Append(assignments, l) ELSE assignments
      /\ registered' = Append(registered, Last(registered))
      /\ seen' = Append(seen, Last(seen) \cup IF atom THEN {l} ELSE {})
      /\ val' = IF l = 0 THEN val ELSE [val EXCEPT ![VarOf(l)] = l]
      /\ lev' = IF l = 0 THEN lev ELSE [lev EXCEPT ![VarOf(l)] = DecLevel + 1]
  BY DEF OpenLevel
<1>2. PICK h \in BOOLEAN : h = heard
  OBVIOUS
<1>3. PICK a \in BOOLEAN : a = (h /\ info[VarOf(l)].atom)
  OBVIOUS
<1>4. /\ assignmentControl' = Append(assignmentControl, Len(assignments))
      /\ decisions' = Append(decisions, IF h THEN l ELSE 0)
      /\ info' = IF h THEN [info EXCEPT ![VarOf(l)].asg = l] ELSE info
      /\ assignments' = IF h THEN Append(assignments, l) ELSE assignments
      /\ registered' = Append(registered, Last(registered))
      /\ seen' = Append(seen, Last(seen) \cup IF a THEN {l} ELSE {})
      /\ h => l # 0 /\ info[VarOf(l)].active
      /\ a <=> h /\ info[VarOf(l)].atom
  BY <1>1, <1>2, <1>3
<1> HIDE DEF heard, atom
<1>5. /\ nVars' = nVars /\ activeVars' = activeVars /\ activeVarsControl' = activeVarsControl
      /\ activationLits' = activationLits /\ instance' = instance
  BY DEF userVars
<1>6. /\ info \in [Var -> VarInfo] /\ val \in [Var -> Lit \cup {0}] /\ lev \in [Var -> Nat]
      /\ DecLevel \in Nat /\ Len(decisions) = DecLevel /\ Len(assignmentControl) = DecLevel
      /\ decisions \in Seq(Lit \cup {0}) /\ assignmentControl \in Seq(Nat) /\ assignments \in Seq(Lit)
      /\ Len(assignments) \in Nat /\ 1..nVars \subseteq Var /\ instance \in Instances
      /\ nVars \in Nat
  BY TypedFacts DEF DecLevel
<1>7. /\ decisions' \in Seq(Lit \cup {0}) /\ Len(decisions') = DecLevel + 1 /\ decisions' # << >>
  <2>1. PICK S, x : S = Lit \cup {0} /\ x = (IF h THEN l ELSE 0) /\ x \in S
    OBVIOUS
  <2>2. decisions \in Seq(S) /\ x \in S /\ decisions' = Append(decisions, x)
    BY <1>4, <1>6, <2>1
  <2>3. decisions' \in Seq(S) /\ Len(decisions') = Len(decisions) + 1
    BY ONLY <2>2, Appended
  <2>4. decisions' # << >>
    BY <1>6, <2>3, EmptySeq
  <2> QED
    BY <1>6, <2>1, <2>3, <2>4
<1>8. UserLevel' = UserLevel /\ DecLevel' = DecLevel + 1
  BY <1>5, <1>7 DEF UserLevel, DecLevel
<1>9. assignmentControl' \in Seq(Nat) /\ Len(assignmentControl') = DecLevel + 1
  <2>1. assignmentControl' \in Seq(Nat) /\ Len(assignmentControl') = Len(assignmentControl) + 1
    BY ONLY <1>4, <1>6, Appended
  <2> QED
    BY <1>6, <2>1
<1>10. assignments' \in Seq(Lit)
  BY <1>4, <1>6
<1>11. PICK T, s, n, X : T = SUBSET Lit /\ s = seen /\ n = Len(s) /\ s \in Seq(T) /\ n \in Nat /\ n >= 1
                     /\ X = IF a THEN {l} ELSE {}
  <2>1. seen \in Seq(SUBSET Lit) /\ Len(seen) \in Nat /\ Len(seen) >= 1
    BY TypedFacts
  <2> QED
    BY <2>1
<1>12. /\ seen' \in Seq(T) /\ Len(seen') = n + 1 /\ seen'[n + 1] = s[n] \cup X
       /\ \A j \in 1..n : seen'[j] = s[j]
  <2>1. PICK y : y = s[n] \cup X
    OBVIOUS
  <2>2. y \in T
    <3>1. s[n] \in SUBSET Lit
      BY <1>11, Elements
    <3> QED
      BY <1>4, <1>11, <2>1, <3>1
  <2>3. seen' = Append(s, y)
    BY <1>4, <1>11, <2>1 DEF Last
  <2>4. /\ seen' \in Seq(T) /\ Len(seen') = Len(s) + 1
        /\ \A i \in 1..Len(s) : seen'[i] = s[i]
        /\ seen'[Len(s) + 1] = y
    BY ONLY <1>11, <2>2, <2>3, Appended
  <2> QED
    BY ONLY <1>11, <2>1, <2>4
<1>13. Tells(X)
  BY <1>8, <1>11, <1>12 DEF Tells
<1>14. registered' \in Seq(SUBSET Var) /\ Len(registered') = Len(seen) + 1
  <2>1. PICK R, r : R = SUBSET Var /\ r = registered /\ r \in Seq(R) /\ Len(r) = Len(seen) /\ Len(r) >= 1
    BY <1>11, TypedFacts
  <2>2. PICK y : y = r[Len(r)]
    OBVIOUS
  <2>3. y \in R
    BY <2>1, <2>2, SeqElement
  <2>4. registered' = Append(r, y)
    BY <1>4, <2>1, <2>2 DEF Last
  <2>5. registered' \in Seq(R) /\ Len(registered') = Len(r) + 1
    BY ONLY <2>1, <2>3, <2>4, Appended
  <2> QED
    BY <2>1, <2>5
<1>15. Marks
  BY <1>4, <1>8 DEF Marks
<1>16. CASE l = 0
  <2>1. PICK v : v = VarOf(l)
    OBVIOUS
  <2>2. v \notin Var /\ v \notin 1..nVars
    BY <1>6, <1>16, <2>1, InstanceFacts DEF VarOf
  <2>3. info' = info /\ val' = val /\ lev' = lev /\ assignments' = assignments /\ ~h /\ ~a
    BY <1>1, <1>4, <1>16
  <2>4. Takes(v, l) /\ TakesNow(v) /\ Ignores(v) /\ ~Records(v, l)
    BY <2>2, <2>3 DEF Takes, TakesNow, Ignores, Records
  <2>5. Assigns(v, l)
    BY <1>5, <1>15, <2>4 DEF Assigns
  <2>6. TellsOf(l)
    BY <1>11, <1>13, <2>1, <2>3, <2>4 DEF TellsOf
  <2>7. SameVars
    BY <1>5, <2>3 DEF SameVars
  <2> QED
    BY <1>4, <1>6, <1>7, <1>8, <1>9, <1>10, <1>11, <1>12, <1>14, <2>1, <2>3, <2>5, <2>6, <2>7
<1>17. CASE l # 0
  <2>1. l \in Lit /\ VarOf(l) <= nVars /\ val[VarOf(l)] = 0
    BY <1>17
  <2>2. PICK v \in 1..nVars : v = VarOf(l)
    BY <2>1, LitCreated
  <2>3. v \in Var /\ l \in {v, -v} /\ val[v] = 0
    BY <2>1, <2>2, LitCreated
  <2>4. /\ info' \in [Var -> VarInfo]
        /\ \A u \in Var : u # v => info'[u] = info[u]
        /\ info'[v].active = info[v].active /\ info'[v].atom = info[v].atom
        /\ info'[v].intro = info[v].intro /\ info'[v].fixed = info[v].fixed
        /\ info'[v].fixedAt = info[v].fixedAt
        /\ info'[v].asg = IF h THEN l ELSE info[v].asg
    <3>1. PICK w : w = info' /\ w = IF h THEN [info EXCEPT ![VarOf(l)].asg = l] ELSE info
      BY <1>4
    <3>2. SetsAsg(w, info, l, h)
      BY ONLY <1>6, <2>1, <3>1, NotifiedIs
    <3> QED
      BY ONLY <2>2, <3>1, <3>2 DEF SetsAsg
  <2>5. /\ val' \in [Var -> Lit \cup {0}] /\ lev' \in [Var -> Nat]
        /\ val'[v] = l /\ lev'[v] = DecLevel + 1
        /\ \A u \in Var : u # v => val'[u] = val[u] /\ lev'[u] = lev[u]
    BY <1>1, <1>6, <1>17, <2>1, <2>2, <2>3
  <2>6. /\ info[v].active => info[v].asg = 0
        /\ info[v].active => ~info[v].fixed
    <3>1. info[v].active => /\ info[v].asg # 0 => val[v] = info[v].asg
                            /\ info[v].fixed => info[v].asg # 0
      BY DEF Trailed
    <3> QED
      BY <2>3, <3>1
  <2>7. Records(v, l) <=> h
    <3>1. CASE h
      BY <1>4, <2>2, <2>4, <2>6, <3>1 DEF Records
    <3>2. CASE ~h
      <4> SUFFICES ASSUME Records(v, l) PROVE FALSE
        BY <3>2
      <4>1. assignments' = Append(assignments, l) /\ assignments' = assignments
        BY <1>4, <3>2 DEF Records
      <4>2. Len(Append(assignments, l)) = Len(assignments) + 1 /\ Len(assignments) \in Nat
        BY <1>6, <2>1, Appended
      <4> QED
        BY <4>1, <4>2
    <3> QED
      BY <3>1, <3>2
  <2>8. ~h => Ignores(v)
    BY <1>4, <2>4, <2>6 DEF Ignores
  <2>9. Takes(v, l)
    BY ONLY <1>6, <2>3, <2>4, <2>5, v \in 1..nVars DEF Takes
  <2>10. TakesNow(v)
    BY <1>6, <1>8, <2>3, <2>4, <2>5 DEF TakesNow
  <2>11. Assigns(v, l)
    BY <1>5, <1>15, <2>7, <2>8, <2>9, <2>10 DEF Assigns
  <2>12. TellsOf(l)
    <3>1. Records(v, l) /\ info[v].atom <=> a
      BY <1>4, <2>2, <2>7
    <3>2. /\ Records(v, l) /\ info[v].atom => l \in X
          /\ \A x \in X : x = l /\ Records(v, l) /\ info[v].atom
      BY <1>11, <3>1
    <3> QED
      BY <1>13, <2>2, <3>2 DEF TellsOf
  <2>13. SameVars
    BY <1>5, <1>6, <2>4 DEF SameVars
  <2>14. /\ \A u \in 1..nVars : info'[u].fixed = info[u].fixed
         /\ \A u \in 1..nVars : info[u].active /\ info[u].fixed => info'[u] = info[u]
    BY <1>6, <2>4, <2>6
  <2> QED
    BY <1>4, <1>7, <1>8, <1>9, <1>10, <1>11, <1>12, <1>14, <2>2, <2>4, <2>5, <2>11, <2>12, <2>13, <2>14
<1> QED
  BY <1>16, <1>17

-----------------------------------------------------------------------------
(***************************************************************************)
(* Fixed literals: Fix.                                                    *)
(***************************************************************************)
\* The solution s of the permanent clauses with g for the variables of the
\* open levels: the guards and what was popped are true.
Extension(s, g) ==
    [v \in 1..nVars |-> IF info[v].intro = 0 THEN s[v]
                        ELSE IF v \in Problem THEN g[v] ELSE v]

\* Guarded clauses cannot refute a solution of the permanent ones.
LEMMA Extends ==
  ASSUME Typed, Levelled, Guards, NEW s \in Models(nVars, Permanent), NEW g \in [1..nVars -> Int],
         \A v \in 1..nVars : g[v] = v \/ g[v] = -v
  PROVE  Extension(s, g) \in Models(nVars, db)
<1>1. PICK t : t = Extension(s, g)
  OBVIOUS
<1>2. /\ s \in [1..nVars -> Int] /\ \A v \in 1..nVars : s[v] = v \/ s[v] = -v
      /\ \A c \in Permanent : Holds(c, s)
  BY DEF Models
<1>3. nVars \in Nat \ {0} /\ 1..nVars \subseteq Var /\ \A v \in 1..nVars : v \in Nat \ {0}
  BY TypedFacts
<1>4. t \in [1..nVars -> Int] /\ \A v \in 1..nVars : t[v] = v \/ t[v] = -v
  BY <1>1, <1>2, <1>3 DEF Extension
<1>5. /\ \A v \in 1..nVars : info[v].intro = 0 => t[v] = s[v]
      /\ \A v \in 1..nVars : info[v].intro # 0 /\ v \notin Problem => t[v] = v
  BY <1>1 DEF Extension
<1>6. ASSUME NEW c \in db, \A v \in VarsOf(c) : info[v].intro = 0
      PROVE  Holds(c, t)
  <2>1. c \in Permanent
    BY <1>6 DEF Permanent
  <2>2. c \in SUBSET (Int \ {0}) /\ VarsOf(c) \subseteq 1..nVars
    BY StoredOver DEF Over
  <2>3. Holds(c, s) /\ \A v \in VarsOf(c) : s[v] = t[v]
    BY <1>2, <1>5, <1>6, <2>1, <2>2
  <2> QED
    BY <1>3, <2>2, <2>3, HoldsIn
<1>7. ASSUME NEW c \in db, NEW x \in 1..nVars, x \in c, t[x] = x PROVE Holds(c, t)
  <2>1. VarOf(x) = x
    BY <1>3 DEF VarOf
  <2> QED
    BY <1>7, <2>1 DEF Holds
<1>8. ASSUME NEW L \in 0..UserLevel, NEW b, WithActivation(b, L) \in db, Within(b, L), VarsOf(b) \subseteq 1..nVars
      PROVE  Holds(WithActivation(b, L), t)
  <2>1. CASE L = 0
    <3>1. WithActivation(b, L) = b
      BY <2>1 DEF WithActivation
    <3>2. \A v \in VarsOf(b) : info[v].intro = 0
      <4> TAKE v \in VarsOf(b)
      <4>1. info[v].intro <= 0 /\ info[v].intro \in Nat
        BY <1>3, <1>8, <2>1, InfoFields DEF Within
      <4> QED
        BY <4>1
    <3> QED
      BY <1>6, <1>8, <3>1, <3>2
  <2>2. CASE L # 0
    <3>1. L \in 1..UserLevel
      BY <2>2
    <3>2. PICK a \in 1..nVars : a = activationLits[L] /\ info[a].intro = L
      BY <3>1 DEF Levelled
    <3>3. a \in WithActivation(b, L)
      BY <2>2, <3>2 DEF WithActivation
    <3>4. a \notin Problem
      <4>1. activationLits \in Seq(Var) /\ Len(activationLits) = UserLevel
        BY TypedFacts
      <4>2. ActivationVars = {activationLits[j] : j \in 1..UserLevel}
        BY ONLY <4>1, SeqSet DEF ActivationVars
      <4> QED
        BY <3>1, <3>2, <4>2 DEF Problem
    <3>5. t[a] = a
      BY <1>5, <2>2, <3>2, <3>4
    <3> QED
      BY <1>7, <1>8, <3>3, <3>5
  <2> QED
    BY <2>1, <2>2
<1>9. ASSUME NEW c \in db PROVE Holds(c, t)
  <2>1. Origin(c)
    BY DEF Guards, Stored
  <2>2. CASE \E x \in 1..nVars : x \in c /\ ~info[x].active
    <3>1. PICK x \in 1..nVars : x \in c /\ ~info[x].active
      BY <2>2
    <3>2. info[x].intro # 0
      <4>1. info[x].intro >= 1
        BY <3>1 DEF Levelled
      <4> QED
        BY <4>1
    <3>3. x \notin Problem
      BY <3>1 DEF Problem
    <3> QED
      BY <1>5, <1>7, <3>1, <3>2, <3>3
  <2>3. CASE c = Tautology
    <3>1. 1 \in 1..nVars
      BY <1>3
    <3>2. VarOf(1) = 1 /\ VarOf(-1) = 1
      BY <3>1, LitOfVar
    <3> QED
      BY <1>4, <2>3, <3>2, <3>1 DEF Holds, Tautology
  <2>4. CASE c = {1}
    <3>1. VarsOf(c) = {1}
      BY <2>4 DEF VarsOf, VarOf
    <3> QED
      BY <1>6, <3>1 DEF Levelled
  <2>5. CASE \E r \in inputs, L \in 0..UserLevel : InputAt(r, L) /\ c = WithActivation(r.clause, L)
    <3>1. PICK r \in inputs, L \in 0..UserLevel : InputAt(r, L) /\ c = WithActivation(r.clause, L)
      BY <2>5
    <3>2. VarsOf(r.clause) \subseteq 1..nVars /\ Within(r.clause, L)
      BY <3>1 DEF Guards, Problem, InputAt
    <3> QED
      BY <1>8, <3>1, <3>2
  <2>6. CASE \E r \in lemmas, L \in 0..UserLevel : LemmaAt(r, L) /\ c = WithActivation(r.clause, L)
    <3>1. PICK r \in lemmas, L \in 0..UserLevel : LemmaAt(r, L) /\ c = WithActivation(r.clause, L)
      BY <2>6
    <3>2. VarsOf(r.clause) \subseteq 1..nVars /\ Within(r.clause, L)
      BY <3>1 DEF Guards, Problem, LemmaAt
    <3> QED
      BY <1>8, <3>1, <3>2
  <2> QED
    BY <2>1, <2>2, <2>3, <2>4, <2>5, <2>6 DEF Origin
<1>10. t \in Models(nVars, db)
  BY <1>4, <1>9 DEF Models
<1> QED
  BY <1>1, <1>10

\* A literal that CaDiCaL fixes follows from the permanent clauses alone.
LEMMA JustifiedFix ==
  ASSUME Typed, Typed', Levelled, Trailed, Guards, Justified, NEW l \in Lit, Fix(l), instance' = instance
  PROVE  Justified'
<1>1. PICK v \in 1..nVars : v = VarOf(l) /\ Assigns(v, l) /\ SameVars /\ TakesFixed(v, l)
  BY FixDoes
<1>2. /\ ~RootUnsat /\ Entailed(l) /\ info[v].active /\ ~info[v].fixed
      /\ db' = db /\ nVars' = nVars
  BY <1>1 DEF Fix, userVars
<1>3. /\ nVars \in Nat /\ l \in Int /\ l # 0 /\ 1..nVars \subseteq Var
      /\ l \in {v, -v} /\ v \in Nat \ {0}
  BY <1>1, TypedFacts, InstanceFacts, VarOfLit
<1>4. /\ \A u \in 1..nVars : u # v => info'[u] = info[u]
      /\ info'[v].fixed
      /\ \A u \in 1..nVars : info'[u].active = info[u].active /\ info'[u].intro = info[u].intro
  <2>1. info'[v].fixed
    BY <1>1 DEF TakesFixed
  <2> QED
    BY <1>1, <2>1 DEF Assigns, Takes, SameVars
<1>5. info'[v].asg = l
  BY <1>1, <1>2, <1>4, AssignDoes
<1>6. Problem' = Problem
  BY <1>1, LevelledSame
<1>7. Permanent' = Permanent
  <2>1. \A c \in db : VarsOf(c) \subseteq 1..nVars
    BY StoredOver DEF Over
  <2> QED
    BY <1>2, <1>4, <2>1 DEF Permanent
<1>8. /\ Solutions(db)' = Models(nVars, db) /\ Solutions(db) = Models(nVars, db)
      /\ Solutions(Permanent)' = Models(nVars, Permanent)
      /\ Solutions(Permanent) = Models(nVars, Permanent)
  BY <1>2, <1>3, <1>7, DbSolutions, DbSolutionsNext
<1>9. \A s \in Models(nVars, db) : s[v] = l
  BY <1>1, <1>2, <1>8 DEF Entailed
<1>10. \A u \in 1..nVars' : info'[u].fixed => \A s \in Models(nVars, db) : s[u] = info'[u].asg
  BY <1>2, <1>4, <1>5, <1>8, <1>9 DEF Justified
<1>11. ASSUME v \in Problem
       PROVE  info[v].intro = 0 /\ \A s \in Models(nVars, Permanent) : s[v] = l
  <2> DEFINE h == [u \in 1..nVars |-> IF u = v THEN -l ELSE u]
  <2>2. h \in [1..nVars -> Int] /\ h[v] = -l /\ \A u \in 1..nVars : h[u] = u \/ h[u] = -u
    BY <1>3
  <2> HIDE DEF h
  <2>3. ASSUME NEW s \in Models(nVars, Permanent)
        PROVE  Extension(s, h)[v] = l
    <3>1. Extension(s, h) \in Models(nVars, db)
      BY <2>2, Extends
    <3> QED
      BY <1>9, <3>1
  <2>4. info[v].intro = 0
    <3> SUFFICES ASSUME info[v].intro # 0 PROVE FALSE
      OBVIOUS
    <3>1. PICK s \in Models(nVars, db) : TRUE
      BY <1>2, <1>8 DEF RootUnsat
    <3>2. s \in Models(nVars, Permanent)
      BY DEF Models, Permanent
    <3>3. Extension(s, h)[v] = h[v]
      BY <1>11 DEF Extension
    <3>4. l # -l
      BY <1>3
    <3> QED
      BY <2>2, <2>3, <3>2, <3>3, <3>4
  <2>5. ASSUME NEW s \in Models(nVars, Permanent) PROVE s[v] = l
    <3>1. Extension(s, h)[v] = s[v]
      BY <2>4 DEF Extension
    <3> QED
      BY <2>3, <3>1
  <2> QED
    BY <2>4, <2>5
<1>12. ASSUME NEW u \in Problem', info'[u].fixed
       PROVE  /\ info'[u].intro = 0
              /\ \A s \in Models(nVars, Permanent) : s[u] = info'[u].asg
  <2>1. u \in 1..nVars /\ u \in Problem
    BY <1>6 DEF Problem
  <2>2. CASE u = v
    BY <1>4, <1>5, <1>11, <2>1, <2>2
  <2>3. CASE u # v
    <3>1. info'[u] = info[u]
      BY <1>4, <2>1, <2>3
    <3> QED
      BY <1>8, <1>12, <2>1, <3>1 DEF Justified
  <2> QED
    BY <2>2, <2>3
<1> QED
  BY <1>8, <1>10, <1>12 DEF Justified

-----------------------------------------------------------------------------
(***************************************************************************)
(* Types, by the groups of variables that a step changes together.         *)
(***************************************************************************)
TypedVars ==
    /\ nVars \in Var /\ info \in [Var -> VarInfo]
    /\ activeVars \in Seq(Var) /\ activationLits \in Seq(Var) /\ activeVarsControl \in Seq(Nat)
    /\ Len(activationLits) = UserLevel

TypedTrail ==
    /\ assignments \in Seq(Lit) /\ assignmentControl \in Seq(Nat) /\ decisions \in Seq(Lit \cup {0})
    /\ Len(assignmentControl) = DecLevel
    /\ val \in [Var -> Lit \cup {0}] /\ lev \in [Var -> Nat]

TypedSearch ==
    /\ renotify \in Seq(Lit) /\ propagations \in Seq(Lit)
    /\ foundSolution \in BOOLEAN /\ inSearch \in BOOLEAN
    /\ result \in {"none", "sat", "unsat", "unknown"}

TypedClauses ==
    /\ newClauses \in Seq(SUBSET Lit) /\ db \subseteq SUBSET Lit
    /\ inputs \subseteq [clause : SUBSET Lit, level : Nat]
    /\ lemmas \subseteq [clause : SUBSET Lit, level : Nat]

TypedTheories ==
    /\ seen \in Seq(SUBSET Lit) /\ checked \in Seq(SUBSET Lit)
    /\ registered \in Seq(SUBSET Var) /\ Len(registered) = Len(seen)
    /\ Len(seen) = 1 + UserLevel + DecLevel /\ Len(checked) = Len(seen)
    /\ satLiterals \in Seq([var : Var, level : Nat])

\* The groups make up the type.
LEMMA TypedParts ==
  Typed <=> /\ instance \in Instances /\ proofProducing \in instance.proofs
            /\ TypedVars /\ TypedTrail /\ TypedSearch /\ TypedClauses /\ TypedTheories
BY DEF Typed, TypeOK, TypedVars, TypedTrail, TypedSearch, TypedClauses, TypedTheories

\* The same after a step.
LEMMA TypedPartsNext ==
  (Typed <=> /\ instance \in Instances /\ proofProducing \in instance.proofs
             /\ TypedVars /\ TypedTrail /\ TypedSearch /\ TypedClauses /\ TypedTheories)'
BY TypedParts, PTL

\* The instance does not change.
LEMMA SameInstance ==
  ASSUME instance' = instance
  PROVE  /\ Var' = Var /\ Lit' = Lit /\ VarInfo' = VarInfo /\ MaxVar' = MaxVar
         /\ Clauses' = Clauses
BY DEF Var, Lit, VarInfo, MaxVar, Clauses

\* Groups that a step leaves alone.
LEMMA SameTypes ==
  ASSUME Typed, instance' = instance
  PROVE  /\ UNCHANGED proofProducing => proofProducing' \in instance'.proofs
         /\ UNCHANGED <<userVars, info>> => TypedVars' /\ UserLevel' = UserLevel
         /\ UNCHANGED <<assignments, assignmentControl, decisions, val, lev>> => TypedTrail' /\ DecLevel' = DecLevel
         /\ UNCHANGED <<renotify, propagations, foundSolution, inSearch, result>> => TypedSearch'
         /\ UNCHANGED <<newClauses, db, inputs, lemmas>> => TypedClauses'
         /\ UNCHANGED <<activeVarsControl, decisions, theoryVars, registrarVars>> => TypedTheories'
<1>1. /\ proofProducing \in instance.proofs /\ TypedVars /\ TypedTrail /\ TypedSearch
      /\ TypedClauses /\ TypedTheories
  BY TypedParts
<1>2. /\ Var' = Var /\ Lit' = Lit /\ VarInfo' = VarInfo
  BY SameInstance
<1>3. UNCHANGED proofProducing => proofProducing' \in instance'.proofs
  BY <1>1
<1>4. UNCHANGED <<userVars, info>> => TypedVars' /\ UserLevel' = UserLevel
  BY <1>1, <1>2 DEF TypedVars, userVars, UserLevel
<1>5. UNCHANGED <<assignments, assignmentControl, decisions, val, lev>> => TypedTrail' /\ DecLevel' = DecLevel
  BY <1>1, <1>2 DEF TypedTrail, DecLevel
<1>6. UNCHANGED <<renotify, propagations, foundSolution, inSearch, result>> => TypedSearch'
  BY <1>1, <1>2 DEF TypedSearch
<1>7. UNCHANGED <<newClauses, db, inputs, lemmas>> => TypedClauses'
  BY <1>1, <1>2 DEF TypedClauses
<1>8. UNCHANGED <<activeVarsControl, decisions, theoryVars, registrarVars>> => TypedTheories'
  BY <1>1, <1>2 DEF TypedTheories, theoryVars, registrarVars, UserLevel, DecLevel
<1> QED
  BY <1>3, <1>4, <1>5, <1>6, <1>7, <1>8

-----------------------------------------------------------------------------
(***************************************************************************)
(* Steps that add clauses, queue propagations or end a search.             *)
(***************************************************************************)
\* Clauses are only added, and those added have their guards.
Adds ==
    /\ db \subseteq db' /\ Stored \subseteq Stored' /\ inputs \subseteq inputs' /\ lemmas \subseteq lemmas'
    /\ \A c \in Stored' : c \in Stored \/ (VarsOf(c) \subseteq 1..nVars' /\ Origin(c)')
    /\ \A r \in inputs' \cup lemmas' :
          r \in inputs \cup lemmas \/ \A v \in VarsOf(r.clause) : v \in Problem'
    /\ \A r \in inputs' : r \in inputs \/ Within(r.clause, r.level)'
    /\ \A r \in inputs' : r \in inputs \/ FixedTrue(r.clause)' \/
          \E L \in 0..UserLevel' : InputAt(r, L)' /\ WithActivation(r.clause, L)' \in Stored'
    /\ \A r \in lemmas' : r \in lemmas \/ FixedTrue(r.clause)' \/
          \E L \in 0..UserLevel' : LemmaAt(r, L)' /\ WithActivation(r.clause, L)' \in Stored'

\* A step that changes neither the variables nor the trail nor what the
\* theories were told.
Quiet ==
    UNCHANGED <<instance, proofProducing, userVars, trailVars, renotify, registrarVars,
                seen, val, lev>>

\* What a quiet step keeps.
LEMMA QuietKeeps ==
  ASSUME IInv, Quiet, Adds, TypedClauses', TypedSearch', Modes',
         checked' \in Seq(SUBSET Lit), Len(checked') = Len(seen)
  PROVE  IInv'
<1>1. /\ Typed /\ Levelled /\ Trailed /\ Registered /\ Told /\ Guards /\ Justified
  BY DEF IInv
<1>2. /\ instance' = instance /\ proofProducing' = proofProducing /\ nVars' = nVars
      /\ activeVars' = activeVars /\ activeVarsControl' = activeVarsControl
      /\ activationLits' = activationLits /\ info' = info /\ assignments' = assignments
      /\ assignmentControl' = assignmentControl /\ decisions' = decisions /\ renotify' = renotify
      /\ satLiterals' = satLiterals /\ registered' = registered /\ seen' = seen
      /\ val' = val /\ lev' = lev
  BY DEF Quiet, userVars, trailVars, registrarVars
<1>3. UNCHANGED <<userVars, info>> /\ UNCHANGED registrarVars
      /\ UNCHANGED <<assignments, assignmentControl, decisions, val, lev>>
  BY <1>2 DEF userVars, registrarVars
<1>4. /\ proofProducing' \in instance'.proofs /\ TypedVars' /\ TypedTrail'
      /\ UserLevel' = UserLevel /\ DecLevel' = DecLevel
  BY <1>1, <1>2, <1>3, SameTypes
<1>5. TypedTheories'
  <2>1. TypedTheories /\ Var' = Var /\ Lit' = Lit
    BY <1>1, <1>2, TypedParts, SameInstance
  <2> QED
    BY <1>2, <1>4, <2>1 DEF TypedTheories
<1>6. Typed'
  <2>1. instance' \in Instances
    BY <1>1, <1>2 DEF Typed
  <2> QED
    BY <1>4, <1>5, <2>1, TypedPartsNext
<1>7. nVars \in Nat /\ nVars <= nVars'
  BY <1>1, <1>2, TypedFacts
<1>8. SameVars /\ SameTrail
  BY <1>2, <1>7 DEF SameVars, SameTrail
<1>9. Levelled' /\ Problem' = Problem
  BY <1>1, <1>8, LevelledSame
<1>10. Trailed'
  BY <1>1, <1>6, <1>8, TrailedSame
<1>11. Told'
  BY <1>1, <1>2, <1>4, <1>6, <1>8, ToldSame
<1>12. Registered'
  BY <1>1, <1>2, <1>3, <1>4, <1>6, <1>7, RegisteredSame
<1>13. Justified'
  <2>1. db \subseteq db'
    BY DEF Adds
  <2>2. \A v \in 1..nVars' : info'[v].fixed =>
            /\ v \in 1..nVars /\ info[v].fixed /\ info'[v].asg = info[v].asg
            /\ v \in Problem' => v \in Problem
    BY <1>2, <1>9
  <2> QED
    BY <1>1, <1>2, <1>6, <1>7, <2>1, <2>2, JustifiedGrows
<1>14. Guards'
  <2>1. UserLevel <= UserLevel'
    BY <1>1, <1>4, TypedFacts
  <2>2. Grows
    BY <1>2, <1>7, <1>9, <2>1 DEF Grows, Adds
  <2> QED
    BY <1>1, <1>6, <2>2, GuardsGrow DEF Adds
<1> QED
  BY <1>6, <1>9, <1>10, <1>11, <1>12, <1>13, <1>14 DEF IInv

\* What a quiet step says about clauses does not change.
LEMMA QuietSame ==
  ASSUME Quiet
  PROVE  /\ UserLevel' = UserLevel /\ nVars' = nVars /\ Problem' = Problem
         /\ \A c, L : WithActivation(c, L)' = WithActivation(c, L)
         /\ \A c, L : Within(c, L) => Within(c, L)'
         /\ \A r, L : InputAt(r, L) => InputAt(r, L)'
         /\ \A r, L : LemmaAt(r, L) => LemmaAt(r, L)'
         /\ \A c : FixedTrue(c) => FixedTrue(c)'
<1>1. /\ nVars' = nVars /\ activeVarsControl' = activeVarsControl /\ proofProducing' = proofProducing
      /\ activationLits' = activationLits /\ info' = info
  BY DEF Quiet, userVars, trailVars
<1>2. \A c, L : Within(c, L) => Within(c, L)'
  BY <1>1 DEF Within
<1>3. UserLevel' = UserLevel /\ Problem' = Problem
  BY <1>1 DEF UserLevel, Problem, ActivationVars
<1>4. \A c, L : WithActivation(c, L)' = WithActivation(c, L)
  BY <1>1 DEF WithActivation
<1>5. \A r, L : InputAt(r, L) => InputAt(r, L)'
  BY <1>2 DEF InputAt
<1>6. \A r, L : LemmaAt(r, L) => LemmaAt(r, L)'
  BY <1>1, <1>2 DEF LemmaAt
<1>7. \A c : FixedTrue(c) => FixedTrue(c)'
  BY <1>1 DEF FixedTrue
<1> QED
  BY <1>1, <1>2, <1>3, <1>4, <1>5, <1>6, <1>7

\* A step that at most moves clauses from the buffer to CaDiCaL.
LEMMA AddsNothing ==
  ASSUME Stored' = Stored, db \subseteq db', inputs' = inputs, lemmas' = lemmas
  PROVE  Adds
BY DEF Adds

\* The clause that explains a rejected model.
LEMMA AddsTautology ==
  ASSUME nVars' \in Nat \ {0}, Stored' = Stored \cup {Tautology}, db \subseteq db',
         inputs' = inputs, lemmas' = lemmas
  PROVE  Adds
<1>1. VarsOf(Tautology) \subseteq 1..nVars'
  <2>1. 1 \in 1..nVars'
    OBVIOUS
  <2>2. VarOf(1) = 1
    BY DEF VarOf
  <2>3. VarOf(-1) = VarOf(1)
    BY VarOfLit
  <2> QED
    BY <2>1, <2>2, <2>3 DEF VarsOf, Tautology
<1>2. Origin(Tautology)'
  BY DEF Origin, Tautology
<1> QED
  BY <1>1, <1>2 DEF Adds

\* A clause with the activation literal of its level.
LEMMA GuardedClause ==
  ASSUME Typed, Levelled, NEW c \in SUBSET (Int \ {0}), Usable(c), NEW base \in 0..UserLevel,
         NEW L, L = LevelOf(c, base), NEW w, w = WithActivation(c, L)
  PROVE  /\ L \in 0..UserLevel /\ base <= L /\ Within(c, L)
         /\ L = base \/ \E v \in VarsOf(c) : info[v].intro = L
         /\ w \in SUBSET Lit /\ VarsOf(w) \subseteq 1..nVars
         /\ \A v \in VarsOf(c) : v \in Problem
         /\ c \in SUBSET Lit
         /\ Satisfied(c) => FixedTrue(c)
<1>1. /\ L \in 0..UserLevel /\ base <= L /\ Within(c, L)
      /\ L = base \/ \E v \in VarsOf(c) : info[v].intro = L
  BY LevelOfIs
<1>2. c \subseteq Lit /\ VarsOf(c) \subseteq 1..nVars /\ \A v \in VarsOf(c) : v \in Problem
  BY UsableVars
<1>3. Satisfied(c) => FixedTrue(c)
  BY <1>2 DEF Satisfied, FixedTrue, VarsOf
<1>4. CASE L = 0
  BY <1>1, <1>2, <1>3, <1>4 DEF WithActivation
<1>5. CASE L # 0
  <2>1. L \in 1..UserLevel /\ UserLevel \in Nat
    BY <1>1, <1>5, TypedFacts
  <2>2. PICK a \in 1..nVars : a = activationLits[L]
    BY <2>1 DEF Levelled
  <2>3. w = c \cup {a}
    BY <1>5, <2>2 DEF WithActivation
  <2>4. a \in Lit /\ VarOf(a) = a
    BY LitOfVar, TypedFacts, InstanceFacts
  <2>5. VarsOf(w) = VarsOf(c) \cup {a}
    BY <2>3, <2>4 DEF VarsOf
  <2> QED
    BY <1>1, <1>2, <1>3, <2>3, <2>4, <2>5
<1> QED
  BY <1>4, <1>5

\* A lemma, with or without its clause: that is left out if satisfied for good.
LEMMA AddsLemma ==
  ASSUME IInv, Quiet, inSearch, NEW c \in SUBSET (Int \ {0}), Usable(c),
         lemmas' = lemmas \cup {Lemma(c)}, inputs' = inputs, db \subseteq db',
         NEW w, w = WithActivation(c, ClauseUserLevel(c)),
         Stored' = Stored \cup {w} \/ (Satisfied(c) /\ Stored' = Stored)
  PROVE  Adds /\ w \in SUBSET Lit /\ Lemma(c) \in [clause : SUBSET Lit, level : Nat]
<1>1. Typed /\ Levelled /\ UserLevel \in Nat /\ proofProducing \in BOOLEAN
  BY TypedFacts DEF IInv
<1>2. PICK base \in 0..UserLevel : base = IF proofProducing THEN UserLevel ELSE 0
  BY <1>1
<1>3. PICK L : L = LevelOf(c, base)
  OBVIOUS
<1>4. w = WithActivation(c, L)
  BY <1>2, <1>3 DEF ClauseUserLevel
<1>5. /\ L \in 0..UserLevel /\ base <= L /\ Within(c, L)
      /\ L = base \/ \E v \in VarsOf(c) : info[v].intro = L
      /\ w \in SUBSET Lit /\ VarsOf(w) \subseteq 1..nVars
      /\ \A v \in VarsOf(c) : v \in Problem
      /\ c \in SUBSET Lit
      /\ Satisfied(c) => FixedTrue(c)
  BY ONLY <1>1, <1>3, <1>4, c \in SUBSET (Int \ {0}), Usable(c), base \in 0..UserLevel, GuardedClause
<1>6. PICK r : r = Lemma(c)
  OBVIOUS
<1>7. r.clause = c /\ r.level = UserLevel /\ r \in [clause : SUBSET Lit, level : Nat]
  BY <1>1, <1>5, <1>6 DEF Lemma
<1>8. LemmaAt(r, L)
  <2>1. proofProducing => L = UserLevel
    BY <1>1, <1>2, <1>5
  <2> QED
    BY <1>2, <1>5, <1>7, <2>1 DEF LemmaAt
<1>9. /\ UserLevel' = UserLevel /\ nVars' = nVars /\ Problem' = Problem
      /\ WithActivation(r.clause, L)' = w /\ LemmaAt(r, L)'
      /\ FixedTrue(c) => FixedTrue(r.clause)'
  BY <1>4, <1>7, <1>8, QuietSame
<1>10. r \in lemmas' /\ L \in 0..UserLevel'
  BY <1>5, <1>6, <1>9
<1>11. Origin(w)'
  BY <1>9, <1>10 DEF Origin
<1>12. \A d \in Stored' : d \in Stored \/ (VarsOf(d) \subseteq 1..nVars' /\ Origin(d)')
  BY <1>5, <1>9, <1>11
<1>13. \A q \in lemmas' : q \in lemmas \/ q = r
  BY <1>6
<1>14. FixedTrue(r.clause)' \/
          \E K \in 0..UserLevel' : LemmaAt(r, K)' /\ WithActivation(r.clause, K)' \in Stored'
  BY <1>5, <1>9, <1>10
<1>15. \A q \in inputs' \cup lemmas' : q \in inputs \cup lemmas \/ \A v \in VarsOf(q.clause) : v \in Problem'
  BY <1>5, <1>7, <1>9, <1>13
<1>16. \A q \in lemmas' : q \in lemmas \/ FixedTrue(q.clause)' \/
          \E K \in 0..UserLevel' : LemmaAt(q, K)' /\ WithActivation(q.clause, K)' \in Stored'
  BY <1>13, <1>14
<1>17. Stored \subseteq Stored' /\ lemmas \subseteq lemmas'
  OBVIOUS
<1>18. Adds
  BY <1>12, <1>15, <1>16, <1>17 DEF Adds
<1> QED
  BY <1>5, <1>6, <1>7, <1>18

\* An assertion of the current level.
LEMMA AddsInput ==
  ASSUME IInv, Quiet, ~inSearch, NEW c \in SUBSET (Int \ {0}), Usable(c),
         inputs' = inputs \cup {[clause |-> c, level |-> UserLevel]}, lemmas' = lemmas, db \subseteq db',
         NEW w, w = WithActivation(c, LevelOf(c, BaseLevel)),
         Stored' = Stored \cup {w} \/ (Satisfied(c) /\ Stored' = Stored)
  PROVE  /\ Adds /\ w \in SUBSET Lit
         /\ [clause |-> c, level |-> UserLevel] \in [clause : SUBSET Lit, level : Nat]
<1>1. Typed /\ Levelled /\ UserLevel \in Nat
  BY TypedFacts DEF IInv
<1>2. PICK base \in 0..UserLevel : base = UserLevel /\ base = BaseLevel
  BY <1>1 DEF BaseLevel
<1>3. PICK L : L = LevelOf(c, base)
  OBVIOUS
<1>4. w = WithActivation(c, L)
  BY <1>2, <1>3
<1>5. /\ L \in 0..UserLevel /\ base <= L /\ Within(c, L)
      /\ L = base \/ \E v \in VarsOf(c) : info[v].intro = L
      /\ w \in SUBSET Lit /\ VarsOf(w) \subseteq 1..nVars
      /\ \A v \in VarsOf(c) : v \in Problem
      /\ c \in SUBSET Lit
      /\ Satisfied(c) => FixedTrue(c)
  BY ONLY <1>1, <1>3, <1>4, c \in SUBSET (Int \ {0}), Usable(c), base \in 0..UserLevel, GuardedClause
<1>6. PICK r : r = [clause |-> c, level |-> UserLevel]
  OBVIOUS
<1>7. r.clause = c /\ r.level = UserLevel /\ r \in [clause : SUBSET Lit, level : Nat]
  BY <1>1, <1>5, <1>6
<1>8. InputAt(r, L) /\ Within(r.clause, r.level)
  <2>1. L = UserLevel
    BY <1>1, <1>2, <1>5
  <2> QED
    BY <1>5, <1>7, <2>1 DEF InputAt
<1>9. /\ UserLevel' = UserLevel /\ nVars' = nVars /\ Problem' = Problem
      /\ WithActivation(r.clause, L)' = w /\ InputAt(r, L)' /\ Within(r.clause, r.level)'
      /\ FixedTrue(c) => FixedTrue(r.clause)'
  BY <1>4, <1>7, <1>8, QuietSame
<1>10. r \in inputs' /\ L \in 0..UserLevel'
  BY <1>5, <1>6, <1>9
<1>11. Origin(w)'
  BY <1>9, <1>10 DEF Origin
<1>12. \A d \in Stored' : d \in Stored \/ (VarsOf(d) \subseteq 1..nVars' /\ Origin(d)')
  BY <1>5, <1>9, <1>11
<1>13. \A q \in inputs' : q \in inputs \/ q = r
  BY <1>6
<1>14. FixedTrue(r.clause)' \/
          \E K \in 0..UserLevel' : InputAt(r, K)' /\ WithActivation(r.clause, K)' \in Stored'
  BY <1>5, <1>9, <1>10
<1>15. \A q \in inputs' \cup lemmas' : q \in inputs \cup lemmas \/ \A v \in VarsOf(q.clause) : v \in Problem'
  BY <1>5, <1>7, <1>9, <1>13
<1>16. \A q \in inputs' : q \in inputs \/ FixedTrue(q.clause)' \/
          \E K \in 0..UserLevel' : InputAt(q, K)' /\ WithActivation(q.clause, K)' \in Stored'
  BY <1>13, <1>14
<1>17. \A q \in inputs' : q \in inputs \/ Within(q.clause, q.level)'
  BY <1>9, <1>13
<1>18. Stored \subseteq Stored' /\ inputs \subseteq inputs'
  OBVIOUS
<1>19. Adds
  BY <1>12, <1>15, <1>16, <1>17, <1>18 DEF Adds
<1> QED
  BY <1>5, <1>6, <1>7, <1>19

\* A theory check takes what was enqueued.
LEMMA DrainedIs ==
  ASSUME Typed
  PROVE  /\ Drained \in Seq(SUBSET Lit) /\ Len(Drained) = Len(seen) /\ Last(Drained) = Last(seen)
         /\ Last(seen) = seen[Len(seen)] /\ Last(seen) \in SUBSET Lit
<1>1. PICK T, s, c, n : /\ T = SUBSET Lit /\ s = seen /\ c = checked /\ n = Len(s)
                        /\ s \in Seq(T) /\ c \in Seq(T) /\ Len(c) = n /\ n \in Nat /\ n >= 1
  <2>1. /\ seen \in Seq(SUBSET Lit) /\ checked \in Seq(SUBSET Lit) /\ Len(checked) = Len(seen)
        /\ Len(seen) \in Nat /\ Len(seen) >= 1
    BY TypedFacts
  <2> QED
    BY ONLY <2>1
<1>2. PICK x : x = s[n]
  OBVIOUS
<1>3. Last(seen) = x /\ c # << >>
  BY <1>1, <1>2, EmptySeq DEF Last
<1>4. x \in T
  BY <1>1, <1>2, SeqElement
<1>5. PICK d : d = Append(Front(c), x)
  OBVIOUS
<1>6. d \in Seq(T) /\ Len(d) = Len(c) /\ d[Len(c)] = x
  BY ONLY <1>1, <1>3, <1>4, <1>5, ReplaceLast
<1>7. Drained = d
  BY <1>1, <1>3, <1>5 DEF Drained
<1>8. Last(d) = x
  BY <1>6 DEF Last
<1> QED
  BY <1>1, <1>2, <1>3, <1>4, <1>6, <1>7, <1>8

\* During a search without a found solution the flags imply nothing more.
LEMMA SearchModes ==
  ASSUME Modes, inSearch, inSearch', ~foundSolution', result' = result, renotify' = renotify
  PROVE  Modes'
BY DEF Modes, Idle

\* A clause of the theories is buffered.
LEMMA TheoryClauseDoes ==
  ASSUME IInv, Quiet, inSearch, NEW c \in SUBSET (Int \ {0}), TheoryClause(c),
         db' = db, inputs' = inputs
  PROVE  Adds /\ TypedClauses'
<1>1. /\ Usable(c) /\ newClauses' = newClauses \o AddedClauses(c) /\ lemmas' = lemmas \cup {Lemma(c)}
  BY DEF TheoryClause, CanAdd
<1>2. PICK w : w = WithActivation(c, ClauseUserLevel(c))
  OBVIOUS
<1>3. Typed /\ proofProducing \in BOOLEAN
  BY TypedFacts DEF IInv
<1>4. LevelOf(c, BaseLevel) = ClauseUserLevel(c)
  BY <1>3 DEF BaseLevel, ClauseUserLevel
<1>5. AddedClauses(c) = IF Satisfied(c) THEN << >> ELSE <<w>>
  BY <1>2, <1>4 DEF AddedClauses
<1>6. PICK N, B : N = newClauses /\ B = SUBSET Lit /\ N \in Seq(B)
  BY <1>3, TypedFacts
<1>7. CASE Satisfied(c)
  <2>1. newClauses' = newClauses
    <3>1. newClauses' = N \o << >>
      BY <1>1, <1>5, <1>6, <1>7
    <3>2. N \o << >> = N
      BY <1>6
    <3> QED
      BY <1>6, <3>1, <3>2
  <2>2. Stored' = Stored
    BY <2>1 DEF Stored
  <2>3. Adds /\ Lemma(c) \in [clause : SUBSET Lit, level : Nat]
    BY <1>1, <1>2, <1>7, <2>2, AddsLemma
  <2> QED
    <3>1. TypedClauses /\ Lit' = Lit
      BY <1>3, TypedParts, SameInstance DEF Quiet
    <3> QED
      BY <1>1, <2>1, <2>3, <3>1 DEF TypedClauses
<1>8. CASE ~Satisfied(c)
  <2>1. newClauses' = N \o <<w>>
    BY <1>1, <1>5, <1>6, <1>8
  <2>2. N \o <<w>> = Append(N, w)
    BY <1>6
  <2>3. ToSet(newClauses') = ToSet(newClauses) \cup {w} /\ (w \in B => newClauses' \in Seq(B))
    <3>1. PICK S : S = B \cup {w}
      OBVIOUS
    <3>2. N \in Seq(S)
      BY <1>6, <3>1
    <3>3. ToSet(Append(N, w)) = ToSet(N) \cup {w}
      BY <3>1, <3>2, AppendedSet
    <3>4. newClauses' = Append(N, w)
      BY <2>1, <2>2
    <3>5. ToSet(newClauses') = ToSet(N) \cup {w}
      BY <3>3, <3>4
    <3>6. w \in B => Append(N, w) \in Seq(B)
      BY ONLY <1>6, Appended
    <3> QED
      BY <1>6, <3>4, <3>5, <3>6
  <2>4. Stored' = Stored \cup {w}
    BY <2>3 DEF Stored
  <2>5. Adds /\ w \in SUBSET Lit /\ Lemma(c) \in [clause : SUBSET Lit, level : Nat]
    BY <1>1, <1>2, <2>4, AddsLemma
  <2>6. newClauses' \in Seq(SUBSET Lit)
    BY <1>6, <2>3, <2>5
  <2> QED
    <3>1. TypedClauses /\ Lit' = Lit
      BY <1>3, TypedParts, SameInstance DEF Quiet
    <3> QED
      BY <1>1, <2>5, <2>6, <3>1 DEF TypedClauses
<1> QED
  BY <1>7, <1>8

\* Explanations are clauses of literals seen.
LEMMA ExplanationsAre ==
  ASSUME Typed, NEW p \in Lit, NEW c \in Explanations(p)
  PROVE  c \in SUBSET (Int \ {0})
<1>1. /\ Last(seen) \subseteq Lit /\ Lit \subseteq Int \ {0} /\ \A l \in Lit : -l \in Lit
  BY TypedFacts, DrainedIs, LitVar, InstanceFacts
<1>2. PICK E \in SUBSET {e \in Last(seen) : VarOf(e) # VarOf(p)} : c = {p} \cup {-e : e \in E}
  BY DEF Explanations
<1>3. \A x \in c : x \in Lit
  BY <1>1, <1>2
<1> QED
  BY <1>1, <1>3

-----------------------------------------------------------------------------
(***************************************************************************)
(* Steps that create a variable.                                           *)
(***************************************************************************)
\* What add_new_var and notifySatLiteral change.
LEMMA NewVarDoes ==
  ASSUME Typed, instance' = instance, NEW atom \in BOOLEAN, AddNewVar(atom),
         UNCHANGED <<activeVarsControl, activationLits>>
  PROVE  /\ OneMore /\ nVars' \in Var
         /\ info' \in [Var -> VarInfo] /\ \A v \in 1..nVars : info'[v] = info[v]
         /\ info'[nVars + 1] = NewInfo(atom) /\ activeVars' \in Seq(Var)
         /\ satLiterals' \in Seq([var : Var, level : Nat])
         /\ registered' \in Seq(SUBSET Var) /\ Len(registered') = Len(seen)
<1>1. /\ nVars < MaxVar /\ nVars' = nVars + 1
      /\ activeVars' = Append(activeVars, nVars + 1)
      /\ info' = [info EXCEPT ![nVars + 1] = NewInfo(atom)]
  BY DEF AddNewVar
<1>2. /\ nVars \in Nat \ {0} /\ MaxVar \in Nat /\ info \in [Var -> VarInfo] /\ UserLevel \in Nat
      /\ 1..nVars \subseteq Var /\ activeVars \in Seq(Var) /\ ContextLevel \in Nat
      /\ satLiterals \in Seq([var : Var, level : Nat]) /\ registered \in Seq(SUBSET Var)
      /\ Len(registered) = Len(seen) /\ Len(registered) >= 1 /\ Len(registered) \in Nat
  <2>1. /\ nVars \in Nat \ {0} /\ info \in [Var -> VarInfo] /\ UserLevel \in Nat /\ DecLevel \in Nat
        /\ 1..nVars \subseteq Var /\ activeVars \in Seq(Var) /\ ContextLevel = UserLevel + DecLevel
        /\ satLiterals \in Seq([var : Var, level : Nat]) /\ registered \in Seq(SUBSET Var)
        /\ Len(registered) = Len(seen) /\ Len(seen) = 1 + UserLevel + DecLevel /\ instance \in Instances
    BY TypedFacts
  <2>2. MaxVar \in Nat
    BY <2>1, InstanceFacts
  <2> QED
    BY ONLY <2>1, <2>2
<1>3. nVars + 1 \in Var
  BY <1>1, <1>2 DEF Var
<1>4. /\ NewInfo(atom).active /\ NewInfo(atom).atom = atom /\ NewInfo(atom).intro = UserLevel
      /\ NewInfo(atom) \in VarInfo
  BY <1>2, NewInfoFields
<1>5. nVars + 1 \notin 1..nVars
  BY <1>2
<1>6. /\ info' \in [Var -> VarInfo] /\ \A v \in 1..nVars : info'[v] = info[v]
      /\ info'[nVars + 1] = NewInfo(atom)
  BY <1>1, <1>2, <1>3, <1>4, <1>5
<1>7. activeVars' \in Seq(Var)
  BY <1>1, <1>2, <1>3, Appended
<1>8. OneMore
  BY <1>1, <1>3, <1>4, <1>6 DEF OneMore
<1>9. /\ satLiterals' \in Seq([var : Var, level : Nat])
      /\ registered' \in Seq(SUBSET Var) /\ Len(registered') = Len(seen)
  <2>1. CASE ~atom
    BY <1>2, <2>1 DEF AddNewVar, registrarVars
  <2>2. CASE atom
    <3>1. /\ satLiterals' = Append(satLiterals, [var |-> nVars + 1, level |-> ContextLevel])
          /\ registered' = AddTop(registered, {nVars + 1})
      BY <2>2 DEF AddNewVar
    <3>2. satLiterals' \in Seq([var : Var, level : Nat])
      <4>1. PICK e : e = [var |-> nVars + 1, level |-> ContextLevel] /\ e \in [var : Var, level : Nat]
        <5>1. [var |-> nVars + 1, level |-> ContextLevel] \in [var : Var, level : Nat]
          BY ONLY <1>2, <1>3
        <5> QED
          BY <5>1
      <4> QED
        BY <1>2, <3>1, <4>1, Appended
    <3>3. PICK R, s, X, t : /\ R = SUBSET Var /\ s = registered /\ X = {nVars + 1} /\ t = registered'
                            /\ s \in Seq(R) /\ Len(s) >= 1 /\ s[Len(s)] \cup X \in R /\ t = AddTop(s, X)
      <4>1. registered[Len(registered)] \in SUBSET Var
        BY <1>2, Elements
      <4>2. registered[Len(registered)] \cup {nVars + 1} \in SUBSET Var
        BY <1>3, <4>1
      <4> QED
        BY <1>2, <3>1, <4>2
    <3>5. s \in Seq(R) /\ Len(s) >= 1 /\ s[Len(s)] \cup X \in R /\ t = AddTop(s, X)
      BY <3>3
    <3>4. t \in Seq(R) /\ Len(t) = Len(s)
      BY ONLY <3>5, TopAdded
    <3> QED
      BY <1>2, <3>2, <3>3, <3>4
  <2> QED
    BY <2>1, <2>2
<1> QED
  BY <1>1, <1>3, <1>6, <1>7, <1>8, <1>9

\* What a step that creates a variable keeps.
LEMMA NewVarKeeps ==
  ASSUME IInv, instance' = instance, NEW atom \in BOOLEAN, AddNewVar(atom),
         UNCHANGED <<proofProducing, activeVarsControl, activationLits, assignments,
                     assignmentControl, decisions, renotify, seen, val, lev, db, inputs, lemmas>>,
         Stored' = Stored \/ Stored' = Stored \cup {Tautology},
         TypedSearch', newClauses' \in Seq(SUBSET Lit), Modes',
         checked' \in Seq(SUBSET Lit), Len(checked') = Len(seen)
  PROVE  IInv'
<1>1. /\ Typed /\ Levelled /\ Trailed /\ Registered /\ Told /\ Guards /\ Justified
  BY DEF IInv
<1>2. /\ OneMore /\ nVars' \in Var
      /\ info' \in [Var -> VarInfo] /\ \A v \in 1..nVars : info'[v] = info[v]
      /\ info'[nVars + 1] = NewInfo(atom) /\ activeVars' \in Seq(Var)
      /\ satLiterals' \in Seq([var : Var, level : Nat])
      /\ registered' \in Seq(SUBSET Var) /\ Len(registered') = Len(seen)
  BY <1>1, NewVarDoes
<1>3. /\ nVars' = nVars + 1 /\ nVars \in Nat \ {0} /\ 1..nVars \subseteq Var
      /\ UserLevel \in Nat /\ DecLevel \in Nat
  BY <1>1, <1>2, TypedFacts DEF OneMore
<1>4. UserLevel' = UserLevel /\ DecLevel' = DecLevel
  BY DEF UserLevel, DecLevel
<1>5. Typed'
  <2>1. /\ Var' = Var /\ Lit' = Lit /\ VarInfo' = VarInfo
    BY SameInstance
  <2>2. instance' \in Instances /\ proofProducing' \in instance'.proofs /\ TypedTrail'
    BY <1>1, SameTypes, TypedParts
  <2>3. TypedVars'
    <3>1. activationLits' \in Seq(Var) /\ activeVarsControl' \in Seq(Nat) /\ Len(activationLits') = UserLevel'
      BY <1>1, <1>4, TypedFacts
    <3> QED
      BY <1>2, <2>1, <3>1 DEF TypedVars
  <2>4. TypedTheories'
    <3>1. seen' = seen /\ seen \in Seq(SUBSET Lit) /\ Len(seen) = 1 + UserLevel + DecLevel
      BY <1>1, TypedFacts
    <3> QED
      BY <1>2, <1>4, <2>1, <3>1 DEF TypedTheories
  <2>5. TypedClauses'
    <3>1. TypedClauses
      BY <1>1, TypedParts
    <3> QED
      BY <2>1, <3>1 DEF TypedClauses
  <2> QED
    BY <2>2, <2>3, <2>4, <2>5, TypedPartsNext
<1>6. Levelled' /\ Problem' = Problem \cup {nVars + 1}
  BY <1>1, <1>2, LevelledOneMore
<1>7. \A v \in 1..nVars' : v \in 1..nVars \/ v = nVars + 1
  BY <1>3
<1>8. /\ NewInfo(atom).asg = 0 /\ ~NewInfo(atom).fixed /\ NewInfo(atom).atom = atom
      /\ NewInfo(atom).active
  BY NewInfoFields
<1>9. nVars <= nVars'
  BY <1>3
<1>10. SameTrail
  BY <1>2, <1>7, <1>8, <1>9 DEF SameTrail
<1>11. Trailed'
  BY <1>1, <1>5, <1>10, TrailedSame
<1>12. Told'
  BY <1>1, <1>2, <1>4, <1>5, <1>10, ToldSame
<1>13. Registered'
  <2>1. CASE atom
    <3>1. /\ satLiterals' = Append(satLiterals, [var |-> nVars + 1, level |-> ContextLevel])
          /\ registered' = AddTop(registered, {nVars + 1})
      BY <2>1 DEF AddNewVar
    <3> QED
      BY <1>1, <1>2, <1>4, <1>5, <3>1, RegisteredNew
  <2>2. CASE ~atom
    <3>1. UNCHANGED registrarVars
      BY <2>2 DEF AddNewVar
    <3>2. \A v \in 1..nVars' : v \in 1..nVars \/ ~info'[v].atom
      BY <1>2, <1>7, <1>8, <2>2
    <3> QED
      BY <1>1, <1>2, <1>4, <1>5, <1>9, <3>1, <3>2, RegisteredSame
  <2> QED
    BY <2>1, <2>2
<1>14. Justified'
  <2>1. \A v \in 1..nVars' : info'[v].fixed =>
            /\ v \in 1..nVars /\ info[v].fixed /\ info'[v].asg = info[v].asg
            /\ v \in Problem' => v \in Problem
    <3> SUFFICES ASSUME NEW v \in 1..nVars', info'[v].fixed
                 PROVE  /\ v \in 1..nVars /\ info[v].fixed /\ info'[v].asg = info[v].asg
                        /\ v \in Problem' => v \in Problem
      OBVIOUS
    <3>1. v \in 1..nVars /\ v # nVars + 1
      BY <1>2, <1>7, <1>8
    <3> QED
      BY <1>2, <1>6, <3>1
  <2> QED
    BY <1>1, <1>2, <1>5, <1>9, <2>1, JustifiedGrows
<1>15. Guards'
  <2>1. nVars' \in Nat \ {0} /\ UserLevel <= UserLevel'
    BY <1>3, <1>4
  <2>2. Adds
    BY <2>1, AddsNothing, AddsTautology
  <2>3. Stored \subseteq Stored'
    OBVIOUS
  <2>4. \A v \in 1..nVars' : v \in 1..nVars \/ info'[v].active
    BY <1>2, <1>7, <1>8
  <2>5. Grows
    BY <1>2, <1>6, <1>9, <2>1, <2>3, <2>4 DEF Grows
  <2> QED
    BY <1>1, <1>5, <2>2, <2>5, GuardsGrow DEF Adds
<1> QED
  BY <1>5, <1>6, <1>11, <1>12, <1>13, <1>14, <1>15 DEF IInv

-----------------------------------------------------------------------------
(***************************************************************************)
(* The actions: those that create a variable, add clauses or end a search. *)
(***************************************************************************)
\* CadicalSolver::newVar
LEMMA KeepsNewVar ==
  ASSUME IInv, instance' = instance, NEW atom \in BOOLEAN, NewVar(atom)
  PROVE  IInv'
<1>1. Typed /\ Modes /\ Guards
  BY DEF IInv
<1>2. /\ AddNewVar(atom) /\ Idle /\ nVars' = nVars + 1
      /\ UNCHANGED <<proofProducing, activeVarsControl, activationLits, assignments,
                     assignmentControl, decisions, renotify, seen, val, lev, db, inputs, lemmas>>
      /\ UNCHANGED <<propagations, newClauses, foundSolution, inSearch, checked, result>>
  BY DEF NewVar, AddNewVar, searchVars, theoryVars, cadicalVars, ghosts
<1>3. Stored' = Stored
  BY <1>2 DEF Stored
<1>4. TypedSearch'
  BY <1>1, <1>2, SameTypes
<1>5. /\ newClauses' \in Seq(SUBSET Lit) /\ checked' \in Seq(SUBSET Lit) /\ Len(checked') = Len(seen)
  BY <1>1, <1>2, TypedFacts
<1>6. RootUnsat => RootUnsat'
  <2>1. nVars \in Nat /\ nVars' \in Nat /\ nVars <= nVars' /\ db \subseteq db'
    BY <1>1, <1>2, TypedFacts
  <2> QED
    BY <1>1, <2>1, StoredOver, UnsatStays
<1>7. Modes'
  BY <1>1, <1>2, <1>6 DEF Modes, Idle
<1> QED
  BY <1>2, <1>3, <1>4, <1>5, <1>7, NewVarKeeps

\* CadicalSolver::addClause
LEMMA KeepsAddInput ==
  ASSUME IInv, instance' = instance, NEW c \in Clauses, AddInput(c)
  PROVE  IInv'
<1>1. Typed /\ Modes /\ Guards
  BY DEF IInv
<1>2. /\ Idle /\ Usable(c) /\ db' = db \cup ToSet(AddedClauses(c))
      /\ inputs' = inputs \cup {[clause |-> c, level |-> UserLevel]} /\ lemmas' = lemmas
      /\ UNCHANGED <<propagations, newClauses, foundSolution, inSearch, checked, result>>
      /\ UNCHANGED <<renotify, seen, decisions, nVars>>
      /\ Quiet
  BY DEF AddInput, CanAdd, searchVars, theoryVars, Quiet, trailVars, userVars
<1>3. c \in SUBSET (Int \ {0})
  BY <1>1, TypedFacts, InstanceFacts
<1>4. PICK w : w = WithActivation(c, LevelOf(c, BaseLevel))
  OBVIOUS
<1>5. /\ Satisfied(c) => db' = db
      /\ ~Satisfied(c) => db' = db \cup {w}
  <2>1. ToSet(<< >>) = {} /\ ToSet(<<w>>) = {w}
    BY DEF ToSet
  <2> QED
    BY <1>2, <1>4, <2>1 DEF AddedClauses
<1>6. db \subseteq db' /\ (Stored' = Stored \cup {w} \/ (Satisfied(c) /\ Stored' = Stored))
  BY <1>2, <1>5 DEF Stored
<1>7. /\ Adds /\ w \in SUBSET Lit
      /\ [clause |-> c, level |-> UserLevel] \in [clause : SUBSET Lit, level : Nat]
  BY <1>2, <1>3, <1>4, <1>6, AddsInput DEF Idle
<1>8. TypedClauses'
  <2>1. TypedClauses /\ Lit' = Lit
    BY <1>1, TypedParts, SameInstance
  <2> QED
    BY <1>2, <1>5, <1>7, <2>1 DEF TypedClauses
<1>9. TypedSearch'
  BY <1>1, <1>2, SameTypes
<1>10. checked' \in Seq(SUBSET Lit) /\ Len(checked') = Len(seen)
  BY <1>1, <1>2, TypedFacts
<1>11. RootUnsat => RootUnsat'
  <2>1. nVars \in Nat /\ nVars' \in Nat /\ nVars <= nVars'
    BY <1>1, <1>2, TypedFacts
  <2> QED
    BY <1>1, <1>6, <2>1, StoredOver, UnsatStays
<1>12. Modes'
  BY <1>1, <1>2, <1>11 DEF Modes, Idle
<1> QED
  BY <1>2, <1>7, <1>8, <1>9, <1>10, <1>12, QuietKeeps

\* cb_propagate with an empty queue.
LEMMA KeepsCbPropagate ==
  ASSUME IInv, instance' = instance, CbPropagate
  PROVE  IInv'
<1>1. Typed /\ Modes
  BY DEF IInv
<1>2. /\ inSearch /\ ~foundSolution /\ checked' = Drained
      /\ UNCHANGED <<proofProducing, assignments, assignmentControl, decisions,
                     renotify, foundSolution, inSearch, seen, db, val, lev, result, inputs>>
  BY DEF CbPropagate, CallsTheories, cadicalVars
<1>3. checked' \in Seq(SUBSET Lit) /\ Len(checked') = Len(seen)
  BY <1>1, <1>2, DrainedIs
<1>4. Modes'
  BY <1>1, <1>2, SearchModes
<1>5. Lit' = Lit /\ TypedSearch /\ TypedClauses
  BY <1>1, TypedParts, SameInstance
<1>6. CASE /\ \E c \in Clauses : TheoryClause(c)
           /\ UNCHANGED <<userVars, info, propagations, registrarVars>>
  <2>1. PICK c \in Clauses : TheoryClause(c)
    BY <1>6
  <2>2. c \in SUBSET (Int \ {0})
    BY <1>1, TypedFacts, InstanceFacts
  <2>3. Quiet
    BY <1>2, <1>6 DEF Quiet, trailVars
  <2>4. Adds /\ TypedClauses'
    BY <1>2, <2>1, <2>2, <2>3, TheoryClauseDoes
  <2>5. TypedSearch'
    BY <1>2, <1>5, <1>6 DEF TypedSearch
  <2> QED
    BY <1>3, <1>4, <2>3, <2>4, <2>5, QuietKeeps
<1>7. CASE /\ \E p \in Lit : propagations' = <<p>>
           /\ UNCHANGED <<userVars, info, newClauses, lemmas, registrarVars>>
  <2>1. PICK p \in Lit : propagations' = <<p>>
    BY <1>7
  <2>2. propagations' \in Seq(Lit)
    BY <2>1
  <2>3. Quiet
    BY <1>2, <1>7 DEF Quiet, trailVars
  <2>4. Adds
    <3>1. Stored' = Stored /\ db \subseteq db' /\ inputs' = inputs /\ lemmas' = lemmas
      BY <1>2, <1>7 DEF Stored
    <3> QED
      BY <3>1, AddsNothing
  <2>5. TypedSearch' /\ TypedClauses'
    BY <1>2, <1>5, <1>7, <2>2 DEF TypedSearch, TypedClauses
  <2> QED
    BY <1>3, <1>4, <2>3, <2>4, <2>5, QuietKeeps
<1>8. CASE /\ AddNewVar(TRUE)
           /\ UNCHANGED <<activeVarsControl, activationLits, propagations, newClauses, lemmas>>
  <2>1. Stored' = Stored
    BY <1>2, <1>8 DEF Stored
  <2>2. TypedSearch' /\ newClauses' \in Seq(SUBSET Lit)
    BY <1>2, <1>5, <1>8 DEF TypedSearch, TypedClauses
  <2> QED
    BY <1>2, <1>3, <1>4, <1>8, <2>1, <2>2, NewVarKeeps
<1>9. CASE UNCHANGED <<userVars, info, propagations, newClauses, lemmas, registrarVars>>
  <2>1. Quiet
    BY <1>2, <1>9 DEF Quiet, trailVars
  <2>2. Adds
    <3>1. Stored' = Stored /\ db \subseteq db' /\ inputs' = inputs /\ lemmas' = lemmas
      BY <1>2, <1>9 DEF Stored
    <3> QED
      BY <3>1, AddsNothing
  <2>3. TypedSearch' /\ TypedClauses'
    BY <1>2, <1>5, <1>9 DEF TypedSearch, TypedClauses
  <2> QED
    BY <1>3, <1>4, <2>1, <2>2, <2>3, QuietKeeps
<1> QED
  BY <1>6, <1>7, <1>8, <1>9 DEF CbPropagate

\* The first element of a queue and the others.
LEMMA HeadTail ==
  ASSUME NEW S, NEW s \in Seq(S), s # << >>
  PROVE  Head(s) \in S /\ Tail(s) \in Seq(S) /\ ToSet(s) = {Head(s)} \cup ToSet(Tail(s))
<1>1. PICK n \in Nat : n = Len(s) /\ n >= 1
  <2>1. Len(s) \in Nat /\ Len(s) # 0
    BY EmptySeq
  <2> QED
    BY <2>1
<1>2. PICK t : t = Tail(s)
  OBVIOUS
<1>3. /\ Head(s) = s[1] /\ t \in Seq(S) /\ Len(t) = n - 1
      /\ \A i \in 1..(n - 1) : t[i] = s[i + 1]
  BY <1>1, <1>2
<1>4. ToSet(s) = {s[p] : p \in 1..n} /\ ToSet(t) = {t[p] : p \in 1..(n - 1)}
  <2>1. ToSet(s) = {s[p] : p \in 1..Len(s)}
    BY SeqSet
  <2>2. ToSet(t) = {t[p] : p \in 1..Len(t)}
    BY <1>3, SeqSet
  <2> QED
    BY <1>1, <1>3, <2>1, <2>2
<1>5. \A p \in 1..n : p = 1 \/ (p - 1 \in 1..(n - 1) /\ p = (p - 1) + 1)
  BY <1>1
<1>6. \A p \in 1..n : s[p] = s[1] \/ s[p] \in ToSet(t)
  BY <1>3, <1>4, <1>5
<1>7. \A p \in 1..(n - 1) : t[p] \in ToSet(s)
  <2> TAKE p \in 1..(n - 1)
  <2>1. p + 1 \in 1..n
    BY <1>1
  <2> QED
    BY <1>3, <1>4, <2>1
<1>8. 1 \in 1..n /\ s[1] \in ToSet(s) /\ s[1] \in S
  BY <1>1, <1>4
<1>9. ToSet(s) = {s[1]} \cup ToSet(t)
  BY <1>4, <1>6, <1>7, <1>8
<1> QED
  BY <1>2, <1>3, <1>8, <1>9

\* cb_propagate with a queue, and the reason of the propagation.
LEMMA KeepsNextPropagation ==
  ASSUME IInv, instance' = instance, NextPropagation
  PROVE  IInv'
<1>1. Typed /\ Modes
  BY DEF IInv
<1>2. /\ inSearch /\ ~foundSolution /\ propagations # << >> /\ propagations' = Tail(propagations)
      /\ UNCHANGED <<renotify, newClauses, foundSolution, inSearch, checked, result, inputs>>
      /\ Quiet
  BY DEF NextPropagation, theoryVars, Quiet
<1>3. Head(propagations) \in Lit /\ propagations' \in Seq(Lit)
  BY <1>1, <1>2, TypedFacts, HeadTail
<1>4. checked' \in Seq(SUBSET Lit) /\ Len(checked') = Len(seen)
  BY <1>1, <1>2, TypedFacts
<1>5. Modes'
  BY <1>1, <1>2, SearchModes
<1>6. Lit' = Lit /\ TypedSearch /\ TypedClauses
  BY <1>1, TypedParts, SameInstance
<1>7. TypedSearch'
  BY <1>2, <1>3, <1>6 DEF TypedSearch
<1>8. Adds /\ TypedClauses'
  <2>1. CASE UNCHANGED <<db, lemmas>>
    <3>1. Stored' = Stored /\ db \subseteq db' /\ inputs' = inputs /\ lemmas' = lemmas
      BY <1>2, <2>1 DEF Stored
    <3> QED
      BY <1>2, <1>6, <2>1, <3>1, AddsNothing DEF TypedClauses
  <2>2. CASE \E c \in Explanations(Head(propagations)) :
                /\ CanAdd(c)
                /\ db' = db \cup {WithActivation(c, ClauseUserLevel(c))}
                /\ lemmas' = lemmas \cup {Lemma(c)}
    <3>1. PICK c \in Explanations(Head(propagations)) :
                /\ CanAdd(c)
                /\ db' = db \cup {WithActivation(c, ClauseUserLevel(c))}
                /\ lemmas' = lemmas \cup {Lemma(c)}
      BY <2>2
    <3>2. c \in SUBSET (Int \ {0}) /\ Usable(c)
      BY <1>1, <1>3, <3>1, ExplanationsAre DEF CanAdd
    <3>3. PICK w : w = WithActivation(c, ClauseUserLevel(c))
      OBVIOUS
    <3>4. Stored' = Stored \cup {w} /\ db \subseteq db' /\ db' = db \cup {w}
      BY <1>2, <3>1, <3>3 DEF Stored
    <3>5. Adds /\ w \in SUBSET Lit /\ Lemma(c) \in [clause : SUBSET Lit, level : Nat]
      BY <1>2, <3>1, <3>2, <3>3, <3>4, AddsLemma
    <3> QED
      BY <1>2, <1>6, <3>1, <3>4, <3>5 DEF TypedClauses
  <2> QED
    BY <2>1, <2>2 DEF NextPropagation
<1> QED
  BY <1>2, <1>4, <1>5, <1>7, <1>8, QuietKeeps

\* cb_add_external_clause_lit
LEMMA KeepsImportClause ==
  ASSUME IInv, instance' = instance, ImportClause
  PROVE  IInv'
<1>1. Typed /\ Modes
  BY DEF IInv
<1>2. /\ inSearch /\ newClauses # << >> /\ newClauses' = Tail(newClauses) /\ db' = db \cup {Head(newClauses)}
      /\ UNCHANGED <<renotify, propagations, foundSolution, inSearch, checked, result, inputs, lemmas>>
      /\ Quiet
  BY DEF ImportClause, theoryVars, Quiet, ghosts
<1>3. PICK B, N : B = SUBSET Lit /\ N = newClauses /\ N \in Seq(B)
  BY <1>1, TypedFacts
<1>4. Head(N) \in B /\ Tail(N) \in Seq(B) /\ ToSet(N) = {Head(N)} \cup ToSet(Tail(N))
  BY <1>2, <1>3, HeadTail
<1>5. checked' \in Seq(SUBSET Lit) /\ Len(checked') = Len(seen)
  BY <1>1, <1>2, TypedFacts
<1>6. ~foundSolution'
  BY <1>1, <1>2 DEF Modes
<1>7. Modes'
  BY <1>1, <1>2, <1>6, SearchModes
<1>8. Lit' = Lit /\ TypedSearch /\ TypedClauses
  BY <1>1, TypedParts, SameInstance
<1>9. TypedSearch'
  BY <1>2, <1>8 DEF TypedSearch
<1>10. TypedClauses'
  BY <1>2, <1>3, <1>4, <1>8 DEF TypedClauses
<1>11. Stored' = Stored
  BY <1>2, <1>3, <1>4 DEF Stored
<1>12. Adds
  BY <1>2, <1>11, AddsNothing
<1> QED
  BY <1>2, <1>5, <1>7, <1>9, <1>10, <1>12, QuietKeeps

\* cb_check_found_model with clauses in the buffer.
LEMMA KeepsRejectPending ==
  ASSUME IInv, instance' = instance, RejectPending
  PROVE  IInv'
<1>1. Typed /\ Modes
  BY DEF IInv
<1>2. /\ inSearch /\ ~foundSolution /\ newClauses' = Append(newClauses, Tautology)
      /\ UNCHANGED <<renotify, propagations, foundSolution, inSearch, checked, result, inputs, lemmas, db, nVars>>
      /\ Quiet
  BY DEF RejectPending, ChecksModel, FullModel, PartialModel, theoryVars, Quiet, ghosts, cadicalVars, userVars
<1>3. Tautology \in SUBSET Lit /\ nVars \in Nat \ {0}
  <2>1. 1 \in Lit /\ -1 \in Lit /\ nVars \in Nat \ {0}
    BY <1>1, TypedFacts, InstanceFacts
  <2> QED
    BY <2>1 DEF Tautology
<1>4. PICK B, N, t : B = SUBSET Lit /\ N = newClauses /\ N \in Seq(B) /\ t = Tautology /\ t \in B
  BY <1>1, <1>3, TypedFacts
<1>5. newClauses' = Append(N, t) /\ Append(N, t) \in Seq(B) /\ ToSet(Append(N, t)) = ToSet(N) \cup {t}
  BY <1>2, <1>4, Appended, AppendedSet
<1>6. checked' \in Seq(SUBSET Lit) /\ Len(checked') = Len(seen)
  BY <1>1, <1>2, TypedFacts
<1>7. Modes'
  BY <1>1, <1>2, SearchModes
<1>8. Lit' = Lit /\ TypedSearch /\ TypedClauses
  BY <1>1, TypedParts, SameInstance
<1>9. TypedSearch'
  BY <1>2, <1>8 DEF TypedSearch
<1>10. TypedClauses'
  BY <1>2, <1>4, <1>5, <1>8 DEF TypedClauses
<1>11. Stored' = Stored \cup {Tautology}
  BY <1>2, <1>4, <1>5 DEF Stored
<1>12. Adds
  BY <1>2, <1>3, <1>11, AddsTautology
<1> QED
  BY <1>2, <1>6, <1>7, <1>9, <1>10, <1>12, QuietKeeps

\* getNextDecisionRequest introduced a variable.
LEMMA KeepsRejectDecisionVar ==
  ASSUME IInv, instance' = instance, RejectDecisionVar
  PROVE  IInv'
<1>1. Typed /\ Modes
  BY DEF IInv
<1>2. /\ AddNewVar(TRUE) /\ inSearch /\ ~foundSolution
      /\ UNCHANGED <<proofProducing, activeVarsControl, activationLits, assignments,
                     assignmentControl, decisions, renotify, seen, val, lev, db, inputs, lemmas>>
      /\ UNCHANGED <<propagations, newClauses, foundSolution, inSearch, checked, result>>
  BY DEF RejectDecisionVar, ChecksModel, FullModel, PartialModel, searchVars, theoryVars,
         cadicalVars, ghosts
<1>3. Stored' = Stored
  BY <1>2 DEF Stored
<1>4. TypedSearch'
  BY <1>1, <1>2, SameTypes
<1>5. /\ newClauses' \in Seq(SUBSET Lit) /\ checked' \in Seq(SUBSET Lit) /\ Len(checked') = Len(seen)
  BY <1>1, <1>2, TypedFacts
<1>6. Modes'
  BY <1>1, <1>2, SearchModes
<1> QED
  BY <1>2, <1>3, <1>4, <1>5, <1>6, NewVarKeeps

\* The full effort check introduced a variable.
LEMMA KeepsRejectCheckVar ==
  ASSUME IInv, instance' = instance, RejectCheckVar
  PROVE  IInv'
<1>1. Typed /\ Modes
  BY DEF IInv
<1>2. /\ AddNewVar(TRUE) /\ inSearch /\ ~foundSolution /\ newClauses = << >>
      /\ checked' = Drained /\ newClauses' = << Tautology >> /\ propagations' = << >>
      /\ UNCHANGED <<proofProducing, activeVarsControl, activationLits, assignments,
                     assignmentControl, decisions, renotify, seen, val, lev, db, inputs, lemmas>>
      /\ UNCHANGED <<foundSolution, inSearch, result>>
  BY DEF RejectCheckVar, ChecksModel, FullModel, PartialModel, cadicalVars, ghosts
<1>3. Tautology \in SUBSET Lit
  <2>1. 1 \in Lit /\ -1 \in Lit
    BY <1>1, TypedFacts, InstanceFacts
  <2> QED
    BY <2>1 DEF Tautology
<1>4. Stored' = Stored \cup {Tautology}
  <2>1. PICK t : t = Tautology
    OBVIOUS
  <2>2. ToSet(<< >>) = {} /\ ToSet(<<t>>) = {t}
    BY DEF ToSet
  <2> QED
    BY <1>2, <2>1, <2>2 DEF Stored
<1>5. newClauses' \in Seq(SUBSET Lit)
  BY <1>2, <1>3
<1>6. /\ checked' \in Seq(SUBSET Lit) /\ Len(checked') = Len(seen)
  BY <1>1, <1>2, DrainedIs
<1>7. TypedSearch'
  <2>1. Lit' = Lit /\ TypedSearch /\ << >> \in Seq(Lit)
    BY <1>1, TypedParts, SameInstance
  <2> QED
    BY <1>2, <2>1 DEF TypedSearch
<1>8. Modes'
  BY <1>1, <1>2, SearchModes
<1> QED
  BY <1>2, <1>4, <1>5, <1>6, <1>7, <1>8, NewVarKeeps

\* The full effort check added a clause.
LEMMA KeepsRejectClause ==
  ASSUME IInv, instance' = instance, RejectClause
  PROVE  IInv'
<1>1. Typed /\ Modes
  BY DEF IInv
<1>2. /\ inSearch /\ ~foundSolution /\ checked' = Drained /\ propagations' = << >>
      /\ UNCHANGED <<renotify, foundSolution, inSearch, result, inputs, db>>
      /\ Quiet
  BY DEF RejectClause, ChecksModel, FullModel, PartialModel, cadicalVars, Quiet
<1>3. PICK c \in Clauses \cup UNION {Explanations(p) : p \in {l \in Lit : Propagatable(l)}} :
         TheoryClause(c)
  BY DEF RejectClause
<1>4. c \in SUBSET (Int \ {0})
  <2>1. CASE c \in Clauses
    BY <1>1, <2>1, TypedFacts, InstanceFacts
  <2>2. CASE \E p \in Lit : c \in Explanations(p)
    BY <1>1, <2>2, ExplanationsAre
  <2> QED
    BY <1>3, <2>1, <2>2
<1>5. Adds /\ TypedClauses'
  BY <1>2, <1>3, <1>4, TheoryClauseDoes
<1>6. /\ checked' \in Seq(SUBSET Lit) /\ Len(checked') = Len(seen)
  BY <1>1, <1>2, DrainedIs
<1>7. TypedSearch'
  <2>1. Lit' = Lit /\ TypedSearch /\ << >> \in Seq(Lit)
    BY <1>1, TypedParts, SameInstance
  <2> QED
    BY <1>2, <2>1 DEF TypedSearch
<1>8. Modes'
  BY <1>1, <1>2, SearchModes
<1> QED
  BY <1>2, <1>5, <1>6, <1>7, <1>8, QuietKeeps

\* A model is accepted.
LEMMA KeepsAcceptModel ==
  ASSUME IInv, instance' = instance, AcceptModel
  PROVE  IInv'
<1>1. Typed /\ Modes
  BY DEF IInv
<1>2. /\ inSearch /\ ~inSearch' /\ result' = "sat"
      /\ UNCHANGED <<renotify, newClauses, foundSolution, inputs, lemmas, db, seen, decisions>>
      /\ Quiet
  BY DEF AcceptModel, FullModel, ghosts, Quiet, trailVars
<1>3. /\ newClauses = << >> /\ propagations' = << >> /\ Last(checked') = Last(seen)
      /\ checked' \in Seq(SUBSET Lit) /\ Len(checked') = Len(seen)
  <2>1. CASE foundSolution
    <3>1. UNCHANGED <<checked, propagations>>
      BY <2>1 DEF AcceptModel
    <3> QED
      BY <1>1, <2>1, <3>1, TypedFacts DEF Modes
  <2>2. CASE ~foundSolution
    <3>1. newClauses = << >> /\ checked' = Drained /\ propagations' = << >>
      BY <2>2 DEF AcceptModel, Done
    <3> QED
      BY <1>1, <3>1, DrainedIs
  <2> QED
    BY <2>1, <2>2
<1>4. Modes'
  BY <1>1, <1>2, <1>3 DEF Modes, Idle
<1>5. TypedSearch' /\ TypedClauses'
  <2>1. Lit' = Lit /\ TypedSearch /\ TypedClauses /\ << >> \in Seq(Lit)
    BY <1>1, TypedParts, SameInstance
  <2>2. inSearch' \in BOOLEAN
    BY <1>2 DEF AcceptModel
  <2> QED
    BY <1>2, <1>3, <2>1, <2>2 DEF TypedSearch, TypedClauses
<1>6. Adds
  <2>1. Stored' = Stored /\ db \subseteq db'
    BY <1>2 DEF Stored
  <2> QED
    BY <1>2, <2>1, AddsNothing
<1> QED
  BY <1>2, <1>3, <1>4, <1>5, <1>6, QuietKeeps

\* solve returns without a model.
LEMMA KeepsEnd ==
  ASSUME IInv, instance' = instance, EndUnsat \/ EndUnknown
  PROVE  IInv'
<1>1. Typed /\ Modes
  BY DEF IInv
<1>2. /\ inSearch /\ inSearch' = FALSE /\ result' \in {"unsat", "unknown"}
      /\ RootUnsat \/ (newClauses = << >> /\ propagations = << >>)
      /\ UNCHANGED <<renotify, propagations, newClauses, foundSolution, checked, inputs, lemmas, db, seen, decisions, nVars>>
      /\ Quiet
  BY DEF EndUnsat, EndUnknown, ghosts, Quiet, trailVars, theoryVars, userVars
<1>3. RootUnsat' <=> RootUnsat
  BY <1>2 DEF RootUnsat, Solutions, Assignment
<1>4. Modes'
  BY <1>1, <1>2, <1>3 DEF Modes, Idle
<1>5. TypedSearch' /\ TypedClauses'
  <2>1. Lit' = Lit /\ TypedSearch /\ TypedClauses
    BY <1>1, TypedParts, SameInstance
  <2> QED
    BY <1>2, <2>1 DEF TypedSearch, TypedClauses
<1>6. Adds
  <2>1. Stored' = Stored /\ db \subseteq db'
    BY <1>2 DEF Stored
  <2> QED
    BY <1>2, <2>1, AddsNothing
<1>7. checked' \in Seq(SUBSET Lit) /\ Len(checked') = Len(seen)
  BY <1>1, <1>2, TypedFacts
<1> QED
  BY <1>2, <1>4, <1>5, <1>6, <1>7, QuietKeeps

-----------------------------------------------------------------------------
(***************************************************************************)
(* The actions: user levels and the start of a search.                     *)
(***************************************************************************)
\* Between two commands there is no decision and no found solution.
LEMMA IdleFacts ==
  ASSUME Typed, Modes, Idle
  PROVE  /\ DecLevel = 0 /\ ~foundSolution /\ ~inSearch /\ result = "none" /\ decisions = << >>
         /\ RootUnsat \/ (newClauses = << >> /\ propagations = << >>)
<1>1. /\ ~foundSolution /\ ~inSearch /\ result = "none" /\ decisions = << >>
      /\ RootUnsat \/ (newClauses = << >> /\ propagations = << >>)
  BY DEF Modes, Idle
<1>2. DecLevel = 0
  BY <1>1 DEF DecLevel
<1> QED
  BY <1>1, <1>2

\* What stays clean between two commands.
LEMMA IdleModes ==
  ASSUME Typed, Modes, Guards, Idle, nVars' \in Nat, nVars <= nVars', db \subseteq db',
         UNCHANGED <<decisions, inSearch, result, newClauses, propagations, foundSolution>>
  PROVE  Modes'
<1>1. /\ ~foundSolution /\ ~inSearch /\ result = "none" /\ decisions = << >>
      /\ RootUnsat \/ (newClauses = << >> /\ propagations = << >>)
  BY IdleFacts
<1>2. RootUnsat => RootUnsat'
  BY TypedFacts, StoredOver, UnsatStays
<1> QED
  BY <1>1, <1>2 DEF Modes, Idle

\* A stack that repeats its last element.
LEMMA Repeated ==
  ASSUME NEW S, NEW s \in Seq(S), Len(s) >= 1, NEW t, t = Append(s, Last(s))
  PROVE  t \in Seq(S) /\ Len(t) = Len(s) + 1
<1>1. Last(s) = s[Len(s)] /\ Len(s) \in 1..Len(s)
  BY EmptySeq DEF Last
<1>2. Last(s) \in S
  BY <1>1, SeqElement
<1> QED
  BY <1>2, Appended

\* CadicalSolver::push
LEMMA KeepsPush ==
  ASSUME IInv, instance' = instance, Push
  PROVE  IInv'
<1>1. /\ Typed /\ Modes /\ Levelled /\ Trailed /\ Registered /\ Told /\ Guards /\ Justified
  BY DEF IInv
<1>2. /\ Idle /\ registered' = Append(registered, Last(registered))
      /\ seen' = Append(seen, Last(seen)) /\ checked' = Append(checked, Last(checked))
      /\ UNCHANGED <<proofProducing, satLiterals, assignments, assignmentControl, decisions,
                     renotify, propagations, newClauses, foundSolution, inSearch, db, val, lev,
                     result, inputs, lemmas>>
  BY DEF Push, searchVars, cadicalVars, ghosts
<1>3. DecLevel = 0 /\ DecLevel' = DecLevel
  BY <1>1, <1>2, IdleFacts DEF DecLevel
<1>4. /\ nVars' = nVars + 1 /\ nVars + 1 \in Var /\ UserLevel' = UserLevel + 1
      /\ \A v \in 1..nVars : info'[v] = info[v]
      /\ info' \in [Var -> VarInfo]
      /\ info'[nVars + 1].active /\ info'[nVars + 1].intro = UserLevel + 1
      /\ info'[nVars + 1].asg = 0 /\ ~info'[nVars + 1].fixed /\ ~info'[nVars + 1].atom
      /\ activeVars' \in Seq(Var) /\ activationLits' \in Seq(Var) /\ activeVarsControl' \in Seq(Nat)
      /\ Len(activationLits') = UserLevel + 1
      /\ \A j \in 1..UserLevel : activationLits'[j] = activationLits[j]
  BY <1>1, PushDoes
<1>5. /\ nVars \in Nat \ {0} /\ UserLevel \in Nat
      /\ Len(seen) = 1 + UserLevel + DecLevel /\ Len(checked) = Len(seen) /\ Len(registered) = Len(seen)
      /\ seen \in Seq(SUBSET Lit) /\ checked \in Seq(SUBSET Lit) /\ registered \in Seq(SUBSET Var)
  BY <1>1, TypedFacts
<1>6. Typed'
  <2>1. /\ Var' = Var /\ Lit' = Lit /\ VarInfo' = VarInfo
    BY SameInstance
  <2>2. /\ instance' \in Instances /\ proofProducing' \in instance'.proofs /\ TypedTrail'
        /\ TypedSearch' /\ TypedClauses'
    BY <1>1, <1>2, SameTypes, TypedParts
  <2>3. TypedVars'
    BY <1>4, <2>1 DEF TypedVars
  <2>4. TypedTheories'
    <3>1. Len(seen) >= 1
      BY <1>3, <1>5
    <3>2. PICK B, V, s, c, r : /\ B = SUBSET Lit /\ V = SUBSET Var /\ s = seen /\ c = checked /\ r = registered
                               /\ s \in Seq(B) /\ c \in Seq(B) /\ r \in Seq(V)
                               /\ Len(s) >= 1 /\ Len(c) = Len(s) /\ Len(r) = Len(s)
      BY <1>5, <3>1
    <3>3. /\ s \in Seq(B) /\ c \in Seq(B) /\ r \in Seq(V)
          /\ Len(s) >= 1 /\ Len(c) >= 1 /\ Len(r) >= 1
      BY <3>2
    <3>4. /\ Append(s, Last(s)) \in Seq(B) /\ Len(Append(s, Last(s))) = Len(s) + 1
          /\ Append(c, Last(c)) \in Seq(B) /\ Len(Append(c, Last(c))) = Len(c) + 1
          /\ Append(r, Last(r)) \in Seq(V) /\ Len(Append(r, Last(r))) = Len(r) + 1
      BY ONLY <3>3, Repeated
    <3>5. /\ seen' \in Seq(SUBSET Lit) /\ checked' \in Seq(SUBSET Lit) /\ registered' \in Seq(SUBSET Var)
          /\ Len(seen') = Len(seen) + 1 /\ Len(checked') = Len(seen) + 1 /\ Len(registered') = Len(seen) + 1
      BY <1>2, <1>5, <3>2, <3>4
    <3>6. Len(seen) + 1 = 1 + UserLevel' + DecLevel'
      BY <1>3, <1>4, <1>5
    <3>7. satLiterals' \in Seq([var : Var, level : Nat])
      BY <1>1, <1>2, TypedFacts
    <3> QED
      BY <2>1, <3>5, <3>6, <3>7 DEF TypedTheories
  <2> QED
    BY <2>2, <2>3, <2>4, TypedPartsNext
<1>7. Levelled' /\ Problem' = Problem
  BY <1>1, LevelledPush
<1>8. \A v \in 1..nVars' : v \in 1..nVars \/ v = nVars + 1
  BY <1>4, <1>5
<1>9. nVars <= nVars' /\ nVars' \in Nat /\ UserLevel <= UserLevel'
  BY <1>4, <1>5
<1>10. SameTrail
  BY <1>2, <1>4, <1>8, <1>9 DEF SameTrail
<1>11. Trailed'
  BY <1>1, <1>6, <1>10, TrailedSame
<1>12. Told'
  BY <1>1, <1>3, <1>6, ToldPush
<1>13. Modes'
  BY <1>1, <1>2, <1>9, IdleModes
<1>14. Registered'
  <2>1. ContextLevel' = ContextLevel + 1 /\ ContextLevel = UserLevel
    BY <1>3, <1>4, <1>5 DEF ContextLevel
  <2>2. \A i \in 1..Len(satLiterals) :
           \/ satLiterals[i].level <= info[satLiterals[i].var].intro
           \/ info[satLiterals[i].var].intro = UserLevel'
    BY <1>1, <2>1 DEF Registered
  <2>3. \A v \in 1..nVars' : v \in 1..nVars \/ ~info'[v].atom
    BY <1>4, <1>8
  <2> QED
    BY <1>1, <1>2, <1>4, <1>6, <1>9, <2>1, <2>2, <2>3, RegisteredOpen
<1>15. Justified'
  <2>1. \A v \in 1..nVars' : info'[v].fixed =>
            /\ v \in 1..nVars /\ info[v].fixed /\ info'[v].asg = info[v].asg
            /\ v \in Problem' => v \in Problem
    BY <1>4, <1>7, <1>8
  <2> QED
    BY <1>1, <1>2, <1>4, <1>6, <1>9, <2>1, JustifiedGrows
<1>16. Guards'
  <2>1. Stored' = Stored
    BY <1>2 DEF Stored
  <2>2. Adds
    BY <1>2, <2>1, AddsNothing
  <2>3. \A v \in 1..nVars' : v \in 1..nVars \/ info'[v].active
    BY <1>4, <1>8
  <2>4. Grows
    BY <1>2, <1>4, <1>7, <1>9, <2>1, <2>3 DEF Grows
  <2> QED
    BY <1>1, <1>6, <2>2, <2>4, GuardsGrow DEF Adds
<1> QED
  BY <1>6, <1>7, <1>11, <1>12, <1>13, <1>14, <1>15, <1>16 DEF IInv

\* CadicalSolver::pop
LEMMA KeepsPop ==
  ASSUME IInv, instance' = instance, Pop
  PROVE  IInv'
<1>1. /\ Typed /\ Modes /\ Levelled /\ Trailed /\ Registered /\ Told /\ Guards /\ Justified
  BY DEF IInv
<1>2. /\ Idle /\ satLiterals' = << >> /\ registered' = Front(registered)
      /\ UNCHANGED <<proofProducing, nVars, assignmentControl, decisions, propagations,
                     newClauses, foundSolution, inSearch, lev, result>>
  BY DEF Pop
<1>3. DecLevel = 0 /\ DecLevel' = DecLevel
  BY <1>1, <1>2, IdleFacts DEF DecLevel
<1>4. /\ UserLevel >= 1 /\ UserLevel' = UserLevel - 1 /\ nVars' = nVars
      /\ info' \in [Var -> VarInfo]
      /\ \A v \in Var : /\ info'[v].atom = info[v].atom /\ info'[v].intro = info[v].intro
                        /\ info'[v].fixed = info[v].fixed /\ info'[v].asg = info[v].asg
                        /\ info'[v].fixedAt = info[v].fixedAt
                        /\ info'[v].active <=> info[v].active /\ v \notin Gone
      /\ activeVars' = SubSeq(activeVars, 1, activeVarsControl[UserLevel])
      /\ db' = db \cup {{v} : v \in Gone}
      /\ val' \in [Var -> Lit \cup {0}]
      /\ assignments' \in Seq(Lit) /\ renotify' \in Seq(Lit)
      /\ inputs' = {r \in inputs : r.level <= UserLevel - 1}
      /\ lemmas' = {r \in lemmas : /\ VarsOf(r.clause) \cap Gone = {}
                                   /\ proofProducing => r.level <= UserLevel - 1}
  BY <1>1, PopDoes
<1>5. /\ activationLits' \in Seq(Var) /\ activeVarsControl' \in Seq(Nat)
      /\ seen' \in Seq(SUBSET Lit) /\ checked' \in Seq(SUBSET Lit) /\ registered' \in Seq(SUBSET Var)
      /\ Len(activationLits') = UserLevel - 1
      /\ Len(seen') = Len(seen) - 1 /\ Len(checked') = Len(seen) - 1
      /\ Len(registered') = Len(seen) - 1
  BY <1>1, PopStacks
<1>6. /\ nVars \in Var /\ nVars \in Nat /\ 1..nVars \subseteq Var /\ UserLevel \in Nat
      /\ Len(seen) = 1 + UserLevel + DecLevel
      /\ lev \in [Var -> Nat] /\ assignmentControl \in Seq(Nat) /\ decisions \in Seq(Lit \cup {0})
      /\ Len(assignmentControl) = DecLevel /\ activeVars \in Seq(Var)
  BY <1>1, TypedFacts
<1>7. Typed'
  <2>1. /\ Var' = Var /\ Lit' = Lit /\ VarInfo' = VarInfo
    BY SameInstance
  <2>2. /\ instance' \in Instances /\ proofProducing' \in instance'.proofs
        /\ TypedSearch /\ TypedClauses
    BY <1>1, <1>2, SameTypes, TypedParts
  <2>3. TypedVars'
    <3>1. activeVars' \in Seq(Var)
      <4>1. activeVarsControl[UserLevel] \in 0..Len(activeVars)
        BY <1>1, <1>4, LastMark
      <4>2. PICK m, s : m = activeVarsControl[UserLevel] /\ s = activeVars /\ s \in Seq(Var) /\ m \in 0..Len(s)
        BY <1>6, <4>1
      <4>3. SubSeq(s, 1, m) \in Seq(Var)
        BY ONLY <4>2
      <4> QED
        BY <1>4, <4>2, <4>3
    <3> QED
      BY <1>4, <1>5, <1>6, <2>1, <3>1 DEF TypedVars
  <2>4. TypedTrail'
    BY <1>2, <1>3, <1>4, <1>6, <2>1 DEF TypedTrail
  <2>5. TypedSearch'
    BY <1>2, <1>4, <2>1, <2>2 DEF TypedSearch
  <2>6. TypedClauses'
    <3>1. \A v \in Gone : {v} \in SUBSET Lit
      <4>1. \A v \in Gone : v \in Lit
        BY <1>1, <1>6, TypedFacts, InstanceFacts DEF Gone
      <4> QED
        BY <4>1
    <3> QED
      BY <1>2, <1>4, <2>1, <2>2, <3>1 DEF TypedClauses
  <2>7. TypedTheories'
    <3>1. Len(seen) - 1 = 1 + UserLevel' + DecLevel'
      BY <1>3, <1>4, <1>6
    <3>2. satLiterals' \in Seq([var : Var, level : Nat])
      BY <1>2
    <3> QED
      BY <1>5, <2>1, <3>1, <3>2 DEF TypedTheories
  <2> QED
    BY <2>2, <2>3, <2>4, <2>5, <2>6, <2>7, TypedPartsNext
<1>8. Levelled' /\ Problem' = Problem \ Gone
  BY <1>1, LevelledPop
<1>9. Trailed' /\ Told'
  BY <1>1, <1>3, <1>7, TrailedPop, ToldPop
<1>10. Registered'
  <2>1. \A v \in 1..nVars : info'[v].atom = info[v].atom /\ info'[v].intro = info[v].intro
    BY <1>4, <1>6
  <2>2. \A v \in 1..nVars : info'[v].active => info[v].active
    BY <1>4, <1>6
  <2> QED
    BY <1>1, <1>2, <1>3, <1>4, <1>7, <2>1, <2>2, RegisteredPop
<1>11. Guards'
  BY <1>1, GuardsPop
<1>12. nVars <= nVars' /\ nVars' \in Nat /\ db \subseteq db'
  BY <1>4, <1>6
<1>13. Modes'
  BY <1>1, <1>2, <1>12, IdleModes
<1>14. Justified'
  <2>1. \A v \in 1..nVars' : info'[v].fixed =>
            /\ v \in 1..nVars /\ info[v].fixed /\ info'[v].asg = info[v].asg
            /\ v \in Problem' => v \in Problem
    BY <1>4, <1>6, <1>8
  <2>2. \A v \in 1..nVars : info'[v].intro = info[v].intro
    BY <1>4, <1>6
  <2> QED
    BY <1>1, <1>7, <1>12, <2>1, <2>2, JustifiedGrows
<1> QED
  BY <1>7, <1>8, <1>9, <1>10, <1>11, <1>13, <1>14 DEF IInv

\* CadicalSolver::solve, up to the search.
LEMMA KeepsSolve ==
  ASSUME IInv, instance' = instance, Solve
  PROVE  IInv'
<1>1. /\ Typed /\ Modes /\ Levelled /\ Trailed /\ Registered /\ Told /\ Guards /\ Justified
  BY DEF IInv
<1>2. /\ Idle /\ seen' = AddTop(seen, ToSet(renotify)) /\ info' = RenotifiedInfo
      /\ renotify' = << >> /\ inSearch' = TRUE
      /\ UNCHANGED <<proofProducing, satLiterals, registered, nVars, activeVars, activeVarsControl,
                     activationLits, assignments, assignmentControl, decisions, propagations,
                     newClauses, foundSolution, checked, db, val, lev, result, inputs, lemmas>>
  BY DEF Solve, cadicalVars, ghosts, registrarVars, userVars
<1>3. DecLevel = 0 /\ DecLevel' = DecLevel /\ UserLevel' = UserLevel
  BY <1>1, <1>2, IdleFacts DEF DecLevel, UserLevel
<1>4. /\ info' \in [Var -> VarInfo]
      /\ \A v \in Var : /\ info'[v].active = info[v].active /\ info'[v].atom = info[v].atom
                        /\ info'[v].intro = info[v].intro /\ info'[v].fixed = info[v].fixed
                        /\ info'[v].asg = info[v].asg
  BY <1>1, <1>2, SolveDoes
<1>5. /\ nVars \in Var /\ nVars \in Nat /\ 1..nVars \subseteq Var /\ UserLevel \in Nat
      /\ Len(seen) = 1 + UserLevel + DecLevel /\ seen \in Seq(SUBSET Lit)
      /\ checked \in Seq(SUBSET Lit) /\ registered \in Seq(SUBSET Var)
      /\ Len(checked) = Len(seen) /\ Len(registered) = Len(seen)
      /\ satLiterals \in Seq([var : Var, level : Nat])
      /\ activeVars \in Seq(Var) /\ activationLits \in Seq(Var) /\ activeVarsControl \in Seq(Nat)
      /\ Len(activationLits) = UserLevel
  BY <1>1, TypedFacts
<1>6. seen' \in Seq(SUBSET Lit) /\ Len(seen') = Len(seen)
  <2>1. Len(seen) >= 1 /\ Len(seen) \in 1..Len(seen)
    BY <1>3, <1>5
  <2>2. seen[Len(seen)] \cup ToSet(renotify) \in SUBSET Lit
    BY <1>1, <2>1, Elements
  <2>3. PICK B, s, X, t : B = SUBSET Lit /\ s = seen /\ X = ToSet(renotify) /\ t = seen'
                          /\ s \in Seq(B) /\ Len(s) >= 1 /\ s[Len(s)] \cup X \in B /\ t = AddTop(s, X)
    BY <1>2, <1>5, <2>1, <2>2
  <2>4. s \in Seq(B) /\ Len(s) >= 1 /\ s[Len(s)] \cup X \in B /\ t = AddTop(s, X)
    BY <2>3
  <2>5. t \in Seq(B) /\ Len(t) = Len(s)
    BY ONLY <2>4, TopAdded
  <2> QED
    BY <2>3, <2>5
<1>7. Typed'
  <2>1. /\ Var' = Var /\ Lit' = Lit /\ VarInfo' = VarInfo
    BY SameInstance
  <2>2. /\ instance' \in Instances /\ proofProducing' \in instance'.proofs
        /\ TypedTrail' /\ TypedClauses' /\ TypedSearch
    BY <1>1, <1>2, SameTypes, TypedParts
  <2>3. TypedVars'
    BY <1>2, <1>3, <1>4, <1>5, <2>1 DEF TypedVars
  <2>4. TypedSearch'
    BY <1>2, <2>1, <2>2 DEF TypedSearch
  <2>5. TypedTheories'
    BY <1>2, <1>3, <1>5, <1>6, <2>1 DEF TypedTheories
  <2> QED
    BY <2>2, <2>3, <2>4, <2>5, TypedPartsNext
<1>8. SameVars
  BY <1>2, <1>4, <1>5 DEF SameVars
<1>9. Levelled' /\ Problem' = Problem
  BY <1>1, <1>8, LevelledSame
<1>10. SameTrail
  BY <1>2, <1>4, <1>5 DEF SameTrail
<1>11. Trailed' /\ Told'
  BY <1>1, <1>3, <1>7, <1>10, TrailedSame, ToldSolve
<1>12. Registered'
  <2>1. UNCHANGED registrarVars /\ nVars <= nVars' /\ \A v \in 1..nVars' : v \in 1..nVars
    BY <1>2, <1>5 DEF registrarVars
  <2> QED
    BY <1>1, <1>3, <1>4, <1>5, <1>7, <2>1, RegisteredSame
<1>13. Modes'
  <2>1. ~foundSolution' /\ result' = "none" /\ inSearch'
    BY <1>1, <1>2, IdleFacts
  <2> QED
    BY <1>2, <2>1 DEF Modes, Idle
<1>14. Stored' = Stored /\ nVars <= nVars' /\ nVars' = nVars
  BY <1>2, <1>5 DEF Stored
<1>15. Justified'
  <2>1. \A v \in 1..nVars' : info'[v].fixed =>
            /\ v \in 1..nVars /\ info[v].fixed /\ info'[v].asg = info[v].asg
            /\ v \in Problem' => v \in Problem
    BY <1>4, <1>5, <1>9, <1>14
  <2> QED
    BY <1>1, <1>2, <1>4, <1>5, <1>7, <1>14, <2>1, JustifiedGrows
<1>16. Guards'
  <2>1. Adds
    BY <1>2, <1>14, AddsNothing
  <2>2. UserLevel <= UserLevel'
    BY <1>3, <1>5
  <2>3. Grows
    BY <1>2, <1>4, <1>5, <1>9, <1>14, <2>2 DEF Grows
  <2> QED
    BY <1>1, <1>7, <2>1, <2>3, GuardsGrow DEF Adds
<1> QED
  BY <1>7, <1>9, <1>11, <1>12, <1>13, <1>15, <1>16 DEF IInv

-----------------------------------------------------------------------------
(***************************************************************************)
(* The actions: notifications.                                             *)
(***************************************************************************)
\* What an assignment keeps of all but the trail: the variables, the clauses
\* and the registrations.
LEMMA AssignKeeps ==
  ASSUME Typed, Typed', Levelled, Guards, SameVars, db' = db,
         UNCHANGED <<proofProducing, newClauses, inputs, lemmas>>,
         \A v \in 1..nVars : info[v].active /\ info[v].fixed =>
            info'[v].fixed /\ info'[v].asg = info[v].asg,
         \A v \in 1..nVars : ~info[v].active => info'[v].fixed = info[v].fixed /\
            (info[v].fixed => info'[v].asg = info[v].asg)
  PROVE  Levelled' /\ Problem' = Problem /\ Guards'
<1>1. Levelled' /\ Problem' = Problem /\ UserLevel' = UserLevel
  BY LevelledSame
<1>2. nVars' = nVars /\ nVars \in Nat /\ UserLevel \in Nat
  BY TypedFacts DEF SameVars
<1>3. Stored' = Stored
  BY DEF Stored
<1>4. Adds
  BY <1>3, AddsNothing
<1>5. Grows
  <2>1. nVars <= nVars' /\ UserLevel <= UserLevel'
    BY <1>1, <1>2
  <2>2. /\ \A j \in 1..UserLevel : activationLits'[j] = activationLits[j]
        /\ \A v \in 1..nVars : info'[v].active = info[v].active /\ info'[v].intro = info[v].intro
    BY DEF SameVars
  <2>3. \A v \in 1..nVars : info[v].fixed => info'[v].fixed /\ info'[v].asg = info[v].asg
    OBVIOUS
  <2> QED
    BY <1>1, <1>2, <1>3, <2>1, <2>2, <2>3 DEF Grows
<1> QED
  BY <1>1, <1>4, <1>5, GuardsGrow DEF Adds

\* What the types need of an assignment that opens no level.
LEMMA AssignTyped ==
  ASSUME Typed, SameVars, UNCHANGED <<proofProducing, assignmentControl, decisions, searchVars, checked, db, result, ghosts>>,
         UNCHANGED registrarVars,
         info' \in [Var -> VarInfo], val' \in [Var -> Lit \cup {0}], lev' \in [Var -> Nat],
         assignments' \in Seq(Lit), seen' \in Seq(SUBSET Lit), Len(seen') = Len(seen)
  PROVE  Typed'
<1>1. instance' = instance /\ UNCHANGED <<nVars, activeVars, activeVarsControl, activationLits>>
  BY DEF SameVars
<1>2. /\ Var' = Var /\ Lit' = Lit /\ VarInfo' = VarInfo
  BY <1>1, SameInstance
<1>3. UserLevel' = UserLevel /\ DecLevel' = DecLevel
  BY <1>1 DEF UserLevel, DecLevel
<1>4. /\ UNCHANGED <<renotify, propagations, newClauses, foundSolution, inSearch, inputs, lemmas, satLiterals, registered>>
  BY DEF searchVars, ghosts, registrarVars
<1>5. /\ instance' \in Instances /\ proofProducing' \in instance'.proofs
      /\ TypedVars /\ TypedTrail /\ TypedTheories /\ TypedSearch' /\ TypedClauses'
  BY <1>1, <1>4, SameTypes, TypedParts
<1>6. TypedVars' /\ TypedTrail' /\ TypedTheories'
  BY <1>1, <1>2, <1>3, <1>4, <1>5 DEF TypedVars, TypedTrail, TypedTheories
<1> QED
  BY <1>5, <1>6, TypedPartsNext

\* notify_fixed_assignment
LEMMA KeepsFix ==
  ASSUME IInv, instance' = instance, NEW l \in Lit, Fix(l)
  PROVE  IInv'
<1>1. /\ Typed /\ Modes /\ Levelled /\ Trailed /\ Registered /\ Told /\ Guards /\ Justified
  BY DEF IInv
<1>2. PICK v : v = VarOf(l)
  OBVIOUS
<1>3. /\ v \in 1..nVars /\ Assigns(v, l) /\ SameVars /\ TakesFixed(v, l)
      /\ info' \in [Var -> VarInfo] /\ val' \in [Var -> Lit \cup {0}] /\ lev' \in [Var -> Nat]
      /\ assignments' \in Seq(Lit) /\ seen' \in Seq(SUBSET Lit) /\ Len(seen') = Len(seen)
      /\ UserLevel' = UserLevel /\ DecLevel' = DecLevel
      /\ Records(v, l) <=> Heard(l)
      /\ Tells(IF Heard(l) /\ info[v].atom THEN {l} ELSE {})
  BY <1>1, <1>2, FixDoes
<1>4. /\ inSearch \/ Idle
      /\ ~foundSolution /\ ~info[v].fixed /\ info[v].active
      /\ UNCHANGED <<proofProducing, registrarVars, userVars, assignmentControl,
                     decisions, searchVars, checked, db, result, ghosts>>
      /\ UNCHANGED <<renotify, propagations, newClauses, foundSolution, inSearch, inputs, lemmas>>
  BY <1>2 DEF Fix, searchVars, ghosts
<1>5. Typed'
  BY <1>1, <1>3, <1>4, AssignTyped
<1>6. Trailed'
  BY <1>1, <1>3, <1>5, TrailedAssign
<1>7. Told'
  <2>1. PICK X : X = IF Heard(l) /\ info[v].atom THEN {l} ELSE {}
    OBVIOUS
  <2>2. /\ Tells(X) /\ (Records(v, l) /\ info[v].atom => l \in X)
        /\ \A x \in X : x = l /\ Records(v, l) /\ info[v].atom
    BY <1>3, <2>1
  <2>3. l \in Lit \cup {0}
    OBVIOUS
  <2> QED
    BY <1>1, <1>3, <1>4, <1>5, <2>2, <2>3, ToldAssign
<1>8. Registered'
  <2>1. nVars' = nVars /\ nVars <= nVars'
    BY <1>1, <1>3, TypedFacts DEF SameVars
  <2>2. \A u \in 1..nVars : /\ info'[u].active = info[u].active
                            /\ info'[u].atom = info[u].atom /\ info'[u].intro = info[u].intro
    BY <1>3 DEF SameVars
  <2> QED
    BY <1>1, <1>3, <1>4, <1>5, <2>1, <2>2, RegisteredSame
<1>9. Levelled' /\ Guards'
  <2>1. \A u \in 1..nVars : u # v => info'[u] = info[u]
    BY <1>3 DEF Assigns, Takes
  <2> QED
    BY <1>1, <1>3, <1>4, <1>5, <2>1, AssignKeeps
<1>10. Justified'
  BY <1>1, <1>5, JustifiedFix
<1>11. Modes'
  <2>1. CASE inSearch
    BY <1>1, <1>4, <2>1, SearchModes
  <2>2. CASE Idle
    <3>1. nVars' \in Nat /\ nVars <= nVars'
      BY <1>1, <1>3, TypedFacts DEF SameVars
    <3> QED
      BY <1>1, <1>4, <2>2, <3>1, IdleModes
  <2> QED
    BY <1>4, <2>1, <2>2
<1> QED
  BY <1>5, <1>6, <1>7, <1>8, <1>9, <1>10, <1>11 DEF IInv

\* notify_assignment of a propagated literal.
LEMMA KeepsPropagate ==
  ASSUME IInv, instance' = instance, NEW l \in Lit, Propagate(l)
  PROVE  IInv'
<1>1. /\ Typed /\ Modes /\ Levelled /\ Trailed /\ Registered /\ Told /\ Guards /\ Justified
  BY DEF IInv
<1>2. PICK v : v = VarOf(l)
  OBVIOUS
<1>3. /\ v \in 1..nVars /\ Assigns(v, l) /\ SameVars
      /\ info' \in [Var -> VarInfo] /\ val' \in [Var -> Lit \cup {0}] /\ lev' \in [Var -> Nat]
      /\ assignments' \in Seq(Lit) /\ seen' \in Seq(SUBSET Lit) /\ Len(seen') = Len(seen)
      /\ UserLevel' = UserLevel /\ DecLevel' = DecLevel
      /\ Records(v, l) <=> Heard(l)
      /\ Tells(IF Heard(l) /\ info[v].atom THEN {l} ELSE {})
      /\ \A u \in Var : info'[u].fixed = info[u].fixed
      /\ info[v].fixed => ~info[v].active
  BY <1>1, <1>2, PropagateDoes
<1>4. /\ inSearch
      /\ UNCHANGED <<proofProducing, registrarVars, userVars, assignmentControl,
                     decisions, searchVars, checked, db, result, ghosts>>
      /\ UNCHANGED <<renotify, propagations, newClauses, foundSolution, inSearch, inputs, lemmas>>
  BY DEF Propagate, searchVars, ghosts
<1>5. Typed'
  BY <1>1, <1>3, <1>4, AssignTyped
<1>6. Trailed'
  BY <1>1, <1>3, <1>5, TrailedAssign
<1>7. Told'
  <2>1. PICK X : X = IF Heard(l) /\ info[v].atom THEN {l} ELSE {}
    OBVIOUS
  <2>2. /\ Tells(X) /\ (Records(v, l) /\ info[v].atom => l \in X)
        /\ \A x \in X : x = l /\ Records(v, l) /\ info[v].atom
    BY <1>3, <2>1
  <2>3. l \in Lit \cup {0}
    OBVIOUS
  <2> QED
    BY <1>1, <1>3, <1>4, <1>5, <2>2, <2>3, ToldAssign
<1>8. nVars' = nVars /\ nVars \in Nat /\ nVars <= nVars' /\ 1..nVars \subseteq Var
  <2>1. nVars' = nVars
    BY <1>3 DEF SameVars
  <2>2. nVars \in Nat /\ 1..nVars \subseteq Var
    BY <1>1, TypedFacts
  <2> QED
    BY <2>1, <2>2
<1>9. \A u \in 1..nVars : /\ info'[u].active = info[u].active
                          /\ info'[u].atom = info[u].atom /\ info'[u].intro = info[u].intro
  BY <1>3 DEF SameVars
<1>10. Registered'
  BY <1>1, <1>3, <1>4, <1>5, <1>8, <1>9, RegisteredSame
<1>11. \A u \in 1..nVars : info[u].fixed => info'[u].fixed /\ info'[u].asg = info[u].asg
  <2>1. \A u \in 1..nVars : u # v => info'[u] = info[u]
    BY <1>3 DEF Assigns, Takes
  <2>2. info[v].fixed => info'[v].asg = info[v].asg
    <3>1. Records(v, l) => info[v].active
      BY DEF Records
    <3>2. Ignores(v) => info'[v].asg = info[v].asg
      BY <1>3 DEF Ignores
    <3> QED
      BY <1>3, <3>1, <3>2 DEF Assigns
  <2> QED
    BY <1>3, <1>8, <2>1, <2>2
<1>12. Levelled' /\ Guards' /\ Problem' = Problem
  BY <1>1, <1>3, <1>4, <1>5, <1>8, <1>11, AssignKeeps
<1>13. Justified'
  <2>1. \A u \in 1..nVars' : info'[u].fixed =>
            /\ u \in 1..nVars /\ info[u].fixed /\ info'[u].asg = info[u].asg
            /\ u \in Problem' => u \in Problem
    BY <1>3, <1>8, <1>11, <1>12
  <2> QED
    BY <1>1, <1>4, <1>5, <1>8, <1>9, <2>1, JustifiedGrows
<1>14. Modes'
  <2>1. foundSolution => seen' = seen
    BY DEF Propagate, NotifiedSeen, Heard
  <2>2. UNCHANGED <<checked, decisions>>
    BY <1>4
  <2> QED
    BY <1>1, <1>4, <2>1, <2>2 DEF Modes, Idle
<1> QED
  BY <1>5, <1>6, <1>7, <1>10, <1>12, <1>13, <1>14 DEF IInv

\* A notification of a new level keeps the invariant.
LEMMA OpenKeeps ==
  ASSUME IInv, instance' = instance, NEW l \in Lit \cup {0}, NEW found, OpenLevel(l, found),
         l # 0 => VarOf(l) <= nVars /\ val[VarOf(l)] = 0,
         UNCHANGED <<proofProducing, satLiterals, userVars, renotify, newClauses, db, inputs, lemmas>>,
         TypedSearch', Modes', checked' \in Seq(SUBSET Lit), Len(checked') = Len(seen) + 1
  PROVE  IInv'
<1>1. /\ Typed /\ Levelled /\ Trailed /\ Registered /\ Told /\ Guards /\ Justified
  BY DEF IInv
<1>2. PICK v : v = VarOf(l)
  OBVIOUS
<1>3. /\ Assigns(v, l) /\ SameVars /\ TellsOf(l)
      /\ info' \in [Var -> VarInfo] /\ val' \in [Var -> Lit \cup {0}] /\ lev' \in [Var -> Nat]
      /\ assignments' \in Seq(Lit) /\ seen' \in Seq(SUBSET Lit) /\ Len(seen') = Len(seen) + 1
      /\ registered' \in Seq(SUBSET Var) /\ Len(registered') = Len(seen) + 1
      /\ decisions' \in Seq(Lit \cup {0})
      /\ assignmentControl' \in Seq(Nat) /\ Len(assignmentControl') = DecLevel + 1
      /\ UserLevel' = UserLevel /\ DecLevel' = DecLevel + 1
      /\ \A u \in 1..nVars : info'[u].fixed = info[u].fixed
      /\ \A u \in 1..nVars : info[u].active /\ info[u].fixed => info'[u] = info[u]
      /\ registered' = Append(registered, Last(registered))
  BY <1>1, <1>2, OpenDoes
<1>4. /\ nVars \in Nat /\ UserLevel \in Nat /\ DecLevel \in Nat /\ 1..nVars \subseteq Var
      /\ Len(seen) = 1 + UserLevel + DecLevel
      /\ satLiterals \in Seq([var : Var, level : Nat])
  BY <1>1, TypedFacts
<1>5. /\ nVars' = nVars
      /\ \A u \in 1..nVars : /\ info'[u].active = info[u].active
                             /\ info'[u].atom = info[u].atom /\ info'[u].intro = info[u].intro
  BY <1>3 DEF SameVars
<1>6. Typed'
  <2>1. /\ Var' = Var /\ Lit' = Lit /\ VarInfo' = VarInfo
    BY SameInstance
  <2>2. /\ instance' \in Instances /\ proofProducing' \in instance'.proofs /\ TypedClauses' /\ TypedVars
    BY <1>1, SameTypes, TypedParts
  <2>3. TypedVars'
    <3>1. UNCHANGED <<nVars, activeVars, activationLits, activeVarsControl>>
      BY <1>3 DEF SameVars
    <3> QED
      BY <1>3, <2>1, <2>2, <3>1 DEF TypedVars
  <2>4. TypedTrail'
    BY <1>3, <2>1 DEF TypedTrail
  <2>5. Len(seen) + 1 = 1 + UserLevel' + DecLevel'
    BY <1>3, <1>4
  <2>6. TypedTheories'
    BY <1>3, <1>4, <2>1, <2>5 DEF TypedTheories
  <2> QED
    BY <2>2, <2>3, <2>4, <2>6, TypedPartsNext
<1>7. Trailed'
  BY <1>1, <1>3, <1>6, TrailedAssign
<1>8. Told'
  <2>1. PICK X : /\ Tells(X) /\ (Records(v, l) /\ info[v].atom => l \in X)
                 /\ \A x \in X : x = l /\ Records(v, l) /\ info[v].atom
    BY <1>2, <1>3 DEF TellsOf
  <2>2. /\ Typed /\ Typed' /\ Trailed /\ Told /\ l \in Lit \cup {0} /\ Assigns(v, l)
        /\ UserLevel' = UserLevel /\ renotify' = renotify
    BY <1>1, <1>3, <1>6
  <2> QED
    BY ONLY <2>1, <2>2, ToldAssign
<1>9. Registered'
  <2>1. ContextLevel' = ContextLevel + 1 /\ nVars <= nVars'
    BY <1>3, <1>4, <1>5 DEF ContextLevel
  <2>2. \A i \in 1..Len(satLiterals) :
           \/ satLiterals[i].level <= info[satLiterals[i].var].intro
           \/ info[satLiterals[i].var].intro = UserLevel'
    BY <1>1, <1>3 DEF Registered
  <2>3. \A u \in 1..nVars' : u \in 1..nVars \/ ~info'[u].atom
    BY <1>5
  <2> QED
    BY <1>1, <1>3, <1>5, <1>6, <2>1, <2>2, <2>3, RegisteredOpen
<1>10. \A u \in 1..nVars : info[u].fixed => info'[u].fixed /\ info'[u].asg = info[u].asg
  <2> SUFFICES ASSUME NEW u \in 1..nVars, info[u].fixed, ~info[u].active
               PROVE  info'[u].asg = info[u].asg
    BY <1>3
  <2>1. CASE u # v
    BY <1>3, <2>1 DEF Assigns, Takes
  <2>2. CASE u = v
    <3>1. ~Records(v, l)
      BY <2>2 DEF Records
    <3>2. Ignores(v)
      BY <1>3, <3>1 DEF Assigns
    <3> QED
      BY <2>2, <3>2 DEF Ignores
  <2> QED
    BY <2>1, <2>2
<1>11. Levelled' /\ Guards' /\ Problem' = Problem
  BY <1>1, <1>3, <1>6, <1>10, AssignKeeps
<1>12. Justified'
  <2>1. \A u \in 1..nVars' : info'[u].fixed =>
            /\ u \in 1..nVars /\ info[u].fixed /\ info'[u].asg = info[u].asg
            /\ u \in Problem' => u \in Problem
    BY <1>3, <1>5, <1>10, <1>11
  <2>2. nVars <= nVars' /\ db \subseteq db'
    BY <1>4, <1>5
  <2> QED
    BY <1>1, <1>5, <1>6, <2>1, <2>2, JustifiedGrows
<1> QED
  BY <1>6, <1>7, <1>8, <1>9, <1>11, <1>12 DEF IInv

\* The last element of an extended sequence.
LEMMA LastAppended ==
  ASSUME NEW S, NEW s \in Seq(S), NEW x \in S
  PROVE  Last(Append(s, x)) = x
<1>1. Len(Append(s, x)) = Len(s) + 1 /\ Append(s, x)[Len(s) + 1] = x
  BY Appended
<1> QED
  BY <1>1 DEF Last

\* A level that opens after a solution was found tells the theories nothing,
\* so what they have checked stays what they have seen.
LEMMA OpenChecked ==
  ASSUME Typed, NEW l, OpenLevel(l, TRUE), NEW C \in Seq(SUBSET Lit), checked' = Append(C, Last(seen))
  PROVE  Last(checked') = Last(seen')
<1>1. seen \in Seq(SUBSET Lit) /\ Last(seen) \in SUBSET Lit
  BY TypedFacts, DrainedIs
<1>2. seen' = Append(seen, Last(seen))
  <2>1. seen' = Append(seen, Last(seen) \cup {})
    BY DEF OpenLevel
  <2>2. Last(seen) \cup {} = Last(seen)
    OBVIOUS
  <2> QED
    BY <2>1, <2>2
<1>3. PICK B, s, x : B = SUBSET Lit /\ s = seen /\ x = Last(seen) /\ s \in Seq(B) /\ x \in B /\ C \in Seq(B)
  BY <1>1
<1>4. s \in Seq(B) /\ x \in B /\ C \in Seq(B)
  BY <1>3
<1>5. Last(Append(s, x)) = x /\ Last(Append(C, x)) = x
  BY ONLY <1>4, LastAppended
<1> QED
  BY <1>2, <1>3, <1>5

\* The theories are not told of a level: what they have checked is repeated.
LEMMA CheckedRepeats ==
  ASSUME Typed, checked' = Append(checked, Last(checked))
  PROVE  checked' \in Seq(SUBSET Lit) /\ Len(checked') = Len(seen) + 1
<1>1. checked \in Seq(SUBSET Lit) /\ Len(checked) = Len(seen) /\ Len(checked) >= 1
  <2>1. checked \in Seq(SUBSET Lit) /\ Len(checked) = Len(seen) /\ Len(seen) = 1 + UserLevel + DecLevel
        /\ UserLevel \in Nat /\ DecLevel \in Nat
    BY TypedFacts
  <2> QED
    BY <2>1
<1>2. PICK B, s, t : B = SUBSET Lit /\ s = checked /\ t = checked' /\ s \in Seq(B) /\ Len(s) >= 1
                     /\ t = Append(s, Last(s))
  BY <1>1
<1>3. s \in Seq(B) /\ Len(s) >= 1 /\ t = Append(s, Last(s))
  BY <1>2
<1>4. t \in Seq(B) /\ Len(t) = Len(s) + 1
  BY ONLY <1>3, Repeated
<1> QED
  BY <1>1, <1>2, <1>4

\* A decision, asked for or assumed.
LEMMA KeepsOpen ==
  ASSUME IInv, instance' = instance, inSearch, NEW l \in Lit \cup {0}, OpenLevel(l, foundSolution),
         l # 0 => VarOf(l) <= nVars /\ val[VarOf(l)] = 0,
         checked' = Append(checked, Last(checked)),
         UNCHANGED <<proofProducing, satLiterals, userVars, searchVars, db, result, ghosts>>
  PROVE  IInv'
<1>1. Typed /\ Modes /\ Trailed
  BY DEF IInv
<1>2. /\ UNCHANGED <<renotify, propagations, newClauses, foundSolution, inSearch, result, inputs, lemmas>>
      /\ UNCHANGED <<proofProducing, satLiterals, userVars, renotify, newClauses, db, inputs, lemmas>>
  BY DEF searchVars, ghosts
<1>3. TypedSearch'
  BY <1>1, <1>2, SameTypes
<1>4. checked' \in Seq(SUBSET Lit) /\ Len(checked') = Len(seen) + 1
  BY <1>1, CheckedRepeats
<1>5. Modes'
  <2>1. CASE ~foundSolution
    BY <1>1, <1>2, <2>1, SearchModes
  <2>2. CASE foundSolution
    <3>1. Last(checked) = Last(seen) /\ newClauses = << >> /\ propagations = << >> /\ result = "none"
          /\ renotify = << >>
      BY <1>1, <2>2 DEF Modes, Idle
    <3>2. foundSolution = TRUE
      BY <1>1, <2>2 DEF Typed, TypeOK
    <3>3. Last(checked') = Last(seen')
      BY <1>1, <3>1, <3>2, TypedFacts, OpenChecked
    <3>4. decisions' # << >>
      <4>1. decisions \in Seq(Lit \cup {0})
        BY <1>1, TypedFacts
      <4>2. \E x : decisions' = Append(decisions, x)
        BY DEF OpenLevel
      <4> QED
        BY <4>1, <4>2
    <3> QED
      BY <1>2, <3>1, <3>3, <3>4 DEF Modes, Idle
  <2> QED
    BY <2>1, <2>2
<1> QED
  BY <1>2, <1>3, <1>4, <1>5, OpenKeeps

\* The assumption of an activation literal.
LEMMA KeepsAssume ==
  ASSUME IInv, instance' = instance, Assume
  PROVE  IInv'
<1>1. Typed /\ Levelled /\ Trailed
  BY DEF IInv
<1>2. PICK a : a = activationLits[DecLevel + 1]
  OBVIOUS
<1>3. /\ inSearch /\ DecLevel < UserLevel /\ val[a] # a
      /\ OpenLevel(IF val[a] = -a THEN 0 ELSE -a, foundSolution)
      /\ checked' = Append(checked, Last(checked))
      /\ UNCHANGED <<proofProducing, satLiterals, userVars, searchVars, db, result, ghosts>>
  BY <1>2 DEF Assume
<1>4. PICK l : l = IF val[a] = -a THEN 0 ELSE -a
  OBVIOUS
<1>5. a \in 1..nVars /\ a \in Var /\ VarOf(-a) = a
  <2>1. DecLevel \in Nat /\ UserLevel \in Nat /\ 1..nVars \subseteq Var
    BY <1>1, TypedFacts
  <2>2. DecLevel + 1 \in 1..UserLevel
    BY <1>3, <2>1
  <2>3. a \in 1..nVars
    BY <1>1, <1>2, <2>2 DEF Levelled
  <2> QED
    BY <1>1, <2>1, <2>3, LitOfVar
<1>6. l \in Lit \cup {0} /\ (l # 0 => VarOf(l) <= nVars /\ val[VarOf(l)] = 0)
  <2>1. -a \in Lit /\ a <= nVars
    BY <1>1, <1>5, TypedFacts, InstanceFacts
  <2>2. val[a] \in {0, a, -a}
    BY <1>1, <1>5 DEF Trailed
  <2> QED
    BY <1>3, <1>4, <1>5, <2>1, <2>2
<1> QED
  BY <1>3, <1>4, <1>6, KeepsOpen

\* cb_decide
LEMMA KeepsDecide ==
  ASSUME IInv, instance' = instance, NEW l \in Lit, Decide(l)
  PROVE  IInv'
<1>1. /\ inSearch /\ VarOf(l) <= nVars /\ val[VarOf(l)] = 0 /\ OpenLevel(l, foundSolution)
      /\ checked' = Append(checked, Last(checked))
      /\ UNCHANGED <<proofProducing, satLiterals, userVars, searchVars, db, result, ghosts>>
  BY DEF Decide, CanDecide
<1>2. l \in Lit \cup {0}
  OBVIOUS
<1> QED
  BY <1>1, <1>2, KeepsOpen

\* cb_decide with an accepted partial model.
LEMMA KeepsStopSearch ==
  ASSUME IInv, instance' = instance, NEW l \in Lit, NEW done \in BOOLEAN, StopSearch(l, done)
  PROVE  IInv'
<1>1. Typed /\ Modes
  BY DEF IInv
<1>2. /\ inSearch /\ VarOf(l) <= nVars /\ val[VarOf(l)] = 0 /\ OpenLevel(l, done)
      /\ newClauses = << >> /\ foundSolution' = done /\ propagations' = << >>
      /\ checked' = Append(Drained, Last(seen))
      /\ UNCHANGED <<renotify, newClauses, inSearch, result>>
      /\ UNCHANGED <<proofProducing, satLiterals, userVars, renotify, newClauses, db, inputs, lemmas>>
  BY DEF StopSearch, CanDecide, Done, ghosts
<1>3. TypedSearch'
  <2>1. Lit' = Lit /\ TypedSearch
    BY <1>1, TypedParts, SameInstance
  <2> QED
    BY <1>2, <2>1 DEF TypedSearch
<1>4. Drained \in Seq(SUBSET Lit) /\ Len(Drained) = Len(seen) /\ Last(seen) \in SUBSET Lit
  BY <1>1, DrainedIs
<1>5. checked' \in Seq(SUBSET Lit) /\ Len(checked') = Len(seen) + 1
  <2>1. PICK B, D, x : B = SUBSET Lit /\ D = Drained /\ x = Last(seen) /\ D \in Seq(B) /\ x \in B
    BY <1>4
  <2>2. D \in Seq(B) /\ x \in B
    BY <2>1
  <2>3. Append(D, x) \in Seq(B) /\ Len(Append(D, x)) = Len(D) + 1
    BY ONLY <2>2, Appended
  <2> QED
    BY <1>2, <1>4, <2>1, <2>3
<1>6. Modes'
  <2>1. CASE ~done
    BY <1>1, <1>2, <2>1, SearchModes
  <2>2. CASE done
    <3>1. result = "none" /\ renotify = << >>
      BY <1>1, <1>2 DEF Modes, Idle
    <3>2. OpenLevel(l, TRUE)
      <4>1. done = TRUE
        BY <2>2
      <4> QED
        BY <1>2, <4>1
    <3>3. Last(checked') = Last(seen')
      BY <1>1, <1>2, <1>4, <3>2, OpenChecked
    <3>4. decisions' # << >>
      <4>1. decisions \in Seq(Lit \cup {0})
        BY <1>1, TypedFacts
      <4>2. \E x : decisions' = Append(decisions, x)
        BY <1>2 DEF OpenLevel
      <4> QED
        BY <4>1, <4>2
    <3> QED
      BY <1>2, <3>1, <3>3, <3>4 DEF Modes, Idle
  <2> QED
    BY <2>1, <2>2
<1>7. l \in Lit \cup {0}
  OBVIOUS
<1> QED
  BY <1>2, <1>3, <1>5, <1>6, <1>7, OpenKeeps

-----------------------------------------------------------------------------
(***************************************************************************)
(* The actions: backtracking.                                              *)
(***************************************************************************)
\* The types of what a backtrack leaves.
LEMMA BacktrackTyped ==
  ASSUME IInv, instance' = instance, NEW k \in Nat, k < DecLevel, NEW fresh \in BOOLEAN,
         Reregister(k, fresh), Unassign(k),
         decisions' = SubSeq(decisions, 1, k), assignmentControl' = SubSeq(assignmentControl, 1, k),
         assignments' = KeptAssignments(k), seen' = AddTop(PopContexts(seen, k), Reenqueued(k)),
         checked' = PopContexts(checked, k),
         UNCHANGED <<proofProducing, activeVarsControl, activationLits, newClauses, db, inputs, lemmas>>,
         TypedSearch'
  PROVE  Typed' /\ DecLevel' = k /\ UserLevel' = UserLevel
<1>1. Typed /\ Trailed /\ Registered
  BY DEF IInv
<1>2. /\ Var' = Var /\ Lit' = Lit /\ VarInfo' = VarInfo
  BY SameInstance
<1>3. /\ instance' \in Instances /\ proofProducing' \in instance'.proofs /\ TypedClauses' /\ TypedVars
  BY <1>1, SameTypes, TypedParts
<1>4. /\ decisions \in Seq(Lit \cup {0}) /\ assignmentControl \in Seq(Nat) /\ DecLevel \in Nat
      /\ Len(assignmentControl) = DecLevel /\ UserLevel \in Nat
      /\ checked \in Seq(SUBSET Lit) /\ Len(checked) = 1 + UserLevel + DecLevel
      /\ Len(decisions) = DecLevel /\ nVars \in Var /\ activeVars \in Seq(Var)
      /\ activationLits \in Seq(Var) /\ activeVarsControl \in Seq(Nat) /\ Len(activationLits) = UserLevel
  <2>1. Len(decisions) = DecLevel
    BY DEF DecLevel
  <2> QED
    BY <1>1, <2>1, TypedFacts
<1>5. UserLevel' = UserLevel
  BY DEF UserLevel
<1>6. /\ decisions' \in Seq(Lit \cup {0}) /\ Len(decisions') = k
      /\ assignmentControl' \in Seq(Nat) /\ Len(assignmentControl') = k
  <2>1. PICK Z, d, n : Z = Lit \cup {0} /\ d = decisions /\ n = DecLevel /\ n \in Nat
                       /\ d \in Seq(Z) /\ Len(d) = n /\ k < n
    BY <1>4
  <2>2. k \in 0..Len(d) /\ d \in Seq(Z)
    BY ONLY <2>1, k \in Nat
  <2>3. SubSeq(d, 1, k) \in Seq(Z) /\ Len(SubSeq(d, 1, k)) = k
    BY ONLY <2>2, Prefix
  <2>4. k \in 0..Len(assignmentControl)
    BY <1>4
  <2>5. SubSeq(assignmentControl, 1, k) \in Seq(Nat) /\ Len(SubSeq(assignmentControl, 1, k)) = k
    BY <1>4, <2>4, Prefix
  <2> QED
    BY <2>1, <2>3, <2>5
<1>7. DecLevel' = k
  BY <1>6 DEF DecLevel
<1>8. assignments' \in Seq(Lit)
  <2>1. PICK n, c, t : TrailParts(k, n, c, t)
    BY <1>1, KeptTrail
  <2> QED
    BY <2>1 DEF TrailParts
<1>9. /\ val' \in [Var -> Lit \cup {0}] /\ lev' \in [Var -> Nat]
  BY <1>1, UnassignDoes
<1>10. TypedTrail'
  BY <1>2, <1>6, <1>7, <1>8, <1>9 DEF TypedTrail
<1>11. /\ info' \in [Var -> VarInfo] /\ nVars' \in Var /\ activeVars' \in Seq(Var)
  <2>1. /\ ~fresh => nVars' = nVars /\ activeVars' = activeVars
        /\ fresh => /\ nVars' = nVars + 1 /\ nVars + 1 \in Var
                    /\ activeVars' = Append(activeVars, nVars + 1)
        /\ info' \in [Var -> VarInfo]
    BY <1>1, BacktrackInfo
  <2>2. fresh => Append(activeVars, nVars + 1) \in Seq(Var)
    BY <1>4, <2>1, Appended
  <2> QED
    BY <1>4, <2>1, <2>2
<1>12. TypedVars'
  BY <1>2, <1>4, <1>5, <1>11 DEF TypedVars
<1>13. /\ seen' \in Seq(SUBSET Lit) /\ Len(seen') = 1 + UserLevel + k
  BY <1>1, SeenBacktrack
<1>14. /\ checked' \in Seq(SUBSET Lit) /\ Len(checked') = 1 + UserLevel + k
  <2>0. /\ 1 + UserLevel + k \in Nat /\ 1 + UserLevel + DecLevel \in Nat
        /\ 1 + UserLevel + k <= 1 + UserLevel + DecLevel
    BY <1>4
  <2>1. PICK B, s, m, n : B = SUBSET Lit /\ s = checked /\ m = 1 + UserLevel + k /\ n = 1 + UserLevel + DecLevel
                       /\ s \in Seq(B) /\ Len(s) = n /\ m \in Nat /\ n \in Nat /\ m <= n
    BY <1>4, <2>0
  <2>2. m \in 0..Len(s) /\ s \in Seq(B)
    BY ONLY <2>1
  <2>3. SubSeq(s, 1, m) \in Seq(B) /\ Len(SubSeq(s, 1, m)) = m
    BY ONLY <2>2, Prefix
  <2>4. checked' = SubSeq(s, 1, m)
    BY <2>1 DEF PopContexts
  <2> QED
    BY <2>1, <2>3, <2>4
<1>15. /\ Len(registered') = UserLevel + k + 1 /\ registered' \in Seq(SUBSET Var)
       /\ satLiterals' \in Seq([var : Var, level : Nat])
  BY <1>1, ReregisterDoes
<1>16. TypedTheories'
  <2>1. UserLevel + k + 1 = 1 + UserLevel + k /\ 1 + UserLevel' + DecLevel' = 1 + UserLevel + k
    BY <1>4, <1>5, <1>7
  <2> QED
    BY <1>2, <1>13, <1>14, <1>15, <2>1 DEF TypedTheories
<1> QED
  BY <1>3, <1>5, <1>7, <1>10, <1>12, <1>16, TypedPartsNext

\* A backtrack below the current level keeps the invariant.
LEMMA BacktrackKeeps ==
  ASSUME IInv, instance' = instance, NEW k \in Nat, k < DecLevel, NEW fresh \in BOOLEAN,
         NotifyBacktrack(k, fresh), Unassign(k),
         UNCHANGED <<proofProducing, activeVarsControl, activationLits, renotify, newClauses,
                     inSearch, db, inputs, lemmas>>,
         result' \in {"none", result}, Modes'
  PROVE  IInv'
<1>1. /\ Typed /\ Levelled /\ Trailed /\ Registered /\ Told /\ Guards /\ Justified
  BY DEF IInv
<1>2. /\ foundSolution' = FALSE /\ propagations' = << >> /\ Reregister(k, fresh)
      /\ decisions' = SubSeq(decisions, 1, k) /\ assignmentControl' = SubSeq(assignmentControl, 1, k)
      /\ assignments' = KeptAssignments(k) /\ seen' = AddTop(PopContexts(seen, k), Reenqueued(k))
      /\ checked' = PopContexts(checked, k)
  <2>1. ~(DecLevel <= k)
    BY <1>1, TypedFacts
  <2> QED
    BY <2>1 DEF NotifyBacktrack, FoundAfterBacktrack
<1>3. TypedSearch'
  <2>1. Lit' = Lit /\ TypedSearch /\ << >> \in Seq(Lit)
    BY <1>1, TypedParts, SameInstance
  <2> QED
    BY <1>2, <2>1 DEF TypedSearch
<1>4. Typed' /\ DecLevel' = k /\ UserLevel' = UserLevel
  BY <1>2, <1>3, BacktrackTyped
<1>5. Var' = Var
  BY SameInstance
<1>6. Trailed' /\ Told'
  <2>1. Trailed'
    BY <1>1, <1>2, <1>4, <1>5, TrailedBacktrack
  <2>2. Told'
    BY <1>1, <1>2, <1>4, ToldBacktrack
  <2> QED
    BY <2>1, <2>2
<1>7. Registered'
  BY <1>1, <1>2, <1>4, RegisteredBacktrack
<1>8. /\ \A v \in 1..nVars : /\ info'[v].active = info[v].active
                             /\ info'[v].atom = info[v].atom
                             /\ info'[v].intro = info[v].intro
                             /\ info'[v].fixed = info[v].fixed
      /\ \A v \in 1..nVars : info'[v].asg = IF Unassigns(k, v) THEN 0 ELSE info[v].asg
      /\ nVars <= nVars'
      /\ ~fresh => nVars' = nVars /\ activeVars' = activeVars
      /\ fresh => /\ nVars' = nVars + 1 /\ nVars + 1 \in Var
                  /\ activeVars' = Append(activeVars, nVars + 1)
  BY <1>1, <1>2, BacktrackInfo
<1>9. /\ \A v \in 1..nVars' : v \in 1..nVars \/ (fresh /\ v = nVars + 1)
      /\ fresh => /\ info'[nVars + 1].active /\ info'[nVars + 1].intro = UserLevel
                  /\ ~info'[nVars + 1].fixed
  BY <1>1, <1>2, BacktrackVars
<1>10. Levelled' /\ (\A v \in 1..nVars : v \in Problem' <=> v \in Problem) /\ Problem \subseteq Problem'
  <2>1. CASE ~fresh
    <3>1. SameVars
      BY <1>8, <2>1 DEF SameVars
    <3> QED
      BY <1>1, <3>1, LevelledSame
  <2>2. CASE fresh
    <3>1. OneMore
      BY <1>8, <1>9, <2>2 DEF OneMore
    <3>2. nVars \in Nat /\ nVars + 1 \notin 1..nVars
      BY <1>1, TypedFacts
    <3> QED
      BY <1>1, <3>1, <3>2, LevelledOneMore
  <2> QED
    BY <2>1, <2>2
<1>11. \A v \in 1..nVars : info[v].fixed => info'[v].fixed /\ info'[v].asg = info[v].asg
  BY <1>8 DEF Unassigns
<1>12. Guards'
  <2>1. Stored' = Stored
    BY DEF Stored
  <2>2. Adds
    BY <2>1, AddsNothing
  <2>3. UserLevel <= UserLevel'
    BY <1>1, <1>4, TypedFacts
  <2>4. Grows
    BY <1>8, <1>9, <1>10, <1>11, <2>1, <2>3 DEF Grows
  <2> QED
    BY <1>1, <1>4, <2>2, <2>4, GuardsGrow DEF Adds
<1>13. Justified'
  <2>1. \A v \in 1..nVars' : info'[v].fixed =>
            /\ v \in 1..nVars /\ info[v].fixed /\ info'[v].asg = info[v].asg
            /\ v \in Problem' => v \in Problem
    BY <1>8, <1>9, <1>10, <1>11
  <2> QED
    BY <1>1, <1>4, <1>8, <2>1, JustifiedGrows
<1> QED
  BY <1>4, <1>6, <1>7, <1>10, <1>12, <1>13 DEF IInv

\* notify_backtrack during a search.
LEMMA KeepsBacktrack ==
  ASSUME IInv, instance' = instance, NEW k \in 0..DecLevel, NEW fresh \in BOOLEAN,
         Backtrack(k, fresh)
  PROVE  IInv'
<1>1. Typed /\ Modes
  BY DEF IInv
<1>2. /\ inSearch /\ k < DecLevel /\ NotifyBacktrack(k, fresh) /\ Unassign(k)
      /\ UNCHANGED <<proofProducing, activeVarsControl, activationLits, renotify, newClauses,
                     inSearch, db, inputs, lemmas>>
      /\ result' = result
  BY DEF Backtrack, ghosts
<1>3. k \in Nat /\ ~(DecLevel <= k)
  BY <1>1, <1>2, TypedFacts
<1>4. ~foundSolution'
  BY <1>2, <1>3 DEF NotifyBacktrack, FoundAfterBacktrack
<1>5. Modes'
  BY <1>1, <1>2, <1>4, SearchModes
<1> QED
  BY <1>2, <1>3, <1>5, BacktrackKeeps

\* CadicalSolver::resetTrail
LEMMA KeepsResetTrail ==
  ASSUME IInv, instance' = instance, NEW fresh \in BOOLEAN, ResetTrail(fresh)
  PROVE  IInv'
<1>1. Typed /\ Modes /\ Guards /\ Trailed
  BY DEF IInv
<1>2. /\ ~inSearch /\ result # "none" /\ NotifyBacktrack(0, fresh) /\ Unassign(0) /\ result' = "none"
      /\ UNCHANGED <<proofProducing, activeVarsControl, activationLits, renotify, newClauses,
                     inSearch, db, inputs, lemmas>>
  BY DEF ResetTrail, ghosts
<1>3. DecLevel \in Nat /\ nVars \in Nat /\ val \in [Var -> Lit \cup {0}] /\ lev \in [Var -> Nat]
  BY <1>1, TypedFacts
<1>4. CASE DecLevel > 0
  <2>1. ~(DecLevel <= 0) /\ 0 \in Nat /\ 0 < DecLevel
    BY <1>3, <1>4
  <2>2. /\ foundSolution' = FALSE /\ propagations' = << >> /\ Reregister(0, fresh)
        /\ decisions' = SubSeq(decisions, 1, 0)
    BY <1>2, <2>1 DEF NotifyBacktrack, FoundAfterBacktrack
  <2>3. decisions' = << >>
    BY <1>1, <2>2, TypedFacts
  <2>4. RootUnsat => RootUnsat'
    <3>1. nVars <= nVars' /\ nVars' \in Nat
      <4>1. /\ ~fresh => nVars' = nVars
            /\ fresh => nVars' = nVars + 1
        BY <1>1, <2>2, BacktrackInfo
      <4> QED
        BY <1>3, <4>1
    <3>2. db \subseteq db'
      BY <1>2
    <3> QED
      BY <1>1, <1>3, <3>1, <3>2, StoredOver, UnsatStays
  <2>5. Modes'
    BY <1>1, <1>2, <2>2, <2>3, <2>4 DEF Modes, Idle
  <2> QED
    BY <1>2, <2>1, <2>5, BacktrackKeeps
<1>5. CASE DecLevel = 0
  <2>1. UNCHANGED <<nVars, activeVars, trailVars, propagations, foundSolution, registrarVars, theoryVars>>
    <3>1. DecLevel <= 0
      BY <1>5
    <3> QED
      BY <1>2, <3>1 DEF NotifyBacktrack
  <2>2. val' = val /\ lev' = lev
    <3>1. \A v \in Var : lev[v] = 0
      BY <1>1, <1>3, <1>5 DEF Trailed
    <3> QED
      BY <1>2, <1>3, <3>1 DEF Unassign
  <2>3. Quiet
    BY <1>2, <2>1, <2>2 DEF Quiet, userVars, theoryVars
  <2>4. Adds
    <3>1. Stored' = Stored
      BY <1>2 DEF Stored
    <3> QED
      BY <1>2, <3>1, AddsNothing
  <2>5. TypedSearch' /\ TypedClauses'
    <3>1. Lit' = Lit /\ TypedSearch /\ TypedClauses
      BY <1>1, TypedParts, SameInstance
    <3> QED
      BY <1>2, <2>1, <3>1 DEF TypedSearch, TypedClauses
  <2>6. checked' \in Seq(SUBSET Lit) /\ Len(checked') = Len(seen)
    BY <1>1, <2>1, TypedFacts DEF theoryVars
  <2>7. Modes'
    <3>1. decisions = << >> /\ decisions' = << >>
      <4>1. decisions \in Seq(Lit \cup {0}) /\ Len(decisions) = 0
        BY <1>1, <1>5, TypedFacts DEF DecLevel
      <4>2. decisions = << >>
        BY <4>1, EmptySeq
      <4> QED
        BY <2>1, <4>2 DEF trailVars
    <3>2. RootUnsat' <=> RootUnsat
      BY <1>2, <2>1 DEF RootUnsat, Solutions, Assignment
    <3> QED
      BY <1>1, <1>2, <2>1, <3>1, <3>2 DEF Modes, Idle
  <2> QED
    BY <2>3, <2>4, <2>5, <2>6, <2>7, QuietKeeps
<1> QED
  BY <1>3, <1>4, <1>5

-----------------------------------------------------------------------------
(***************************************************************************)
(* The invariant is inductive.                                             *)
(***************************************************************************)
\* CadicalSolver::initialize establishes the invariant.
LEMMA InitKeeps ==
  ASSUME Init
  PROVE  IInv
<1>1. /\ instance \in Instances /\ proofProducing \in instance.proofs /\ nVars = 1
      /\ info = [v \in Var |-> IF v = 1
                   THEN [FreshInfo EXCEPT !.active = TRUE, !.fixed = TRUE, !.asg = 1]
                   ELSE FreshInfo]
      /\ activeVars = <<1>> /\ activeVarsControl = << >> /\ activationLits = << >>
      /\ renotify = << >> /\ assignments = <<1>> /\ assignmentControl = << >> /\ decisions = << >>
      /\ propagations = << >> /\ newClauses = << >>
      /\ foundSolution = FALSE /\ inSearch = FALSE
      /\ satLiterals = << >> /\ registered = << {} >> /\ seen = << {} >> /\ checked = << {} >>
      /\ db = {{1}} /\ val = [v \in Var |-> IF v = 1 THEN 1 ELSE 0] /\ lev = [v \in Var |-> 0]
      /\ result = "none" /\ inputs = {} /\ lemmas = {}
  BY DEF Init
<1>2. /\ 1 \in Var /\ Var \subseteq Nat \ {0} /\ 1 \in Lit /\ -1 \in Lit
  BY <1>1, InstanceFacts
<1>3. UserLevel = 0 /\ DecLevel = 0 /\ ContextLevel = 0 /\ Len(seen) = 1 /\ Len(satLiterals) = 0
      /\ Len(activeVars) = 1 /\ Len(assignments) = 1 /\ Len(renotify) = 0
  BY <1>1 DEF UserLevel, DecLevel, ContextLevel
<1>4. /\ FreshInfo \in VarInfo
      /\ [FreshInfo EXCEPT !.active = TRUE, !.fixed = TRUE, !.asg = 1] \in VarInfo
      /\ LET t == [FreshInfo EXCEPT !.active = TRUE, !.fixed = TRUE, !.asg = 1]
         IN t.active /\ t.fixed /\ t.asg = 1 /\ t.intro = 0 /\ ~t.atom /\ t.fixedAt = 0
      /\ ~FreshInfo.fixed
  BY <1>2 DEF FreshInfo, VarInfo
<1>5. /\ info \in [Var -> VarInfo]
      /\ info[1].active /\ info[1].fixed /\ info[1].asg = 1 /\ info[1].intro = 0 /\ ~info[1].atom
      /\ \A v \in 1..nVars : v = 1
  <2>1. PICK t : t = [FreshInfo EXCEPT !.active = TRUE, !.fixed = TRUE, !.asg = 1]
    OBVIOUS
  <2>2. /\ t \in VarInfo /\ t.active /\ t.fixed /\ t.asg = 1 /\ t.intro = 0 /\ ~t.atom
        /\ info = [v \in Var |-> IF v = 1 THEN t ELSE FreshInfo]
    BY <1>1, <1>4, <2>1
  <2>3. info \in [Var -> VarInfo] /\ info[1] = t
    BY <1>2, <1>4, <2>2
  <2>4. \A v \in 1..nVars : v = 1
    BY <1>1
  <2> QED
    BY <2>2, <2>3, <2>4
<1>6. Typed
  <2>1. TypedVars
    BY <1>1, <1>2, <1>3, <1>5 DEF TypedVars
  <2>2. TypedTrail
    BY <1>1, <1>2, <1>3 DEF TypedTrail
  <2>3. TypedSearch
    <3>1. << >> \in Seq(Lit)
      OBVIOUS
    <3>2. foundSolution \in BOOLEAN /\ inSearch \in BOOLEAN
      BY <1>1, Zenon
    <3> QED
      BY <1>1, <3>1, <3>2 DEF TypedSearch
  <2>4. TypedClauses
    BY <1>1, <1>2 DEF TypedClauses
  <2>5. TypedTheories
    BY <1>1, <1>3 DEF TypedTheories
  <2> QED
    BY <1>1, <2>1, <2>2, <2>3, <2>4, <2>5, TypedParts
<1>7. Modes
  BY <1>1 DEF Modes, Idle
<1>8. VarOf(1) = 1
  BY DEF VarOf
<1>9. Levelled
  BY <1>1, <1>3, <1>5 DEF Levelled
<1>10. Trailed
  <2>1. \A v \in Var : val[v] \in {0, v, -v} /\ lev[v] <= DecLevel
    BY <1>1, <1>3
  <2>2. /\ val[1] = 1 /\ lev[1] = 0 /\ 1 \in 1..Len(assignments) /\ assignments[1] = 1
        /\ \A i \in 1..Len(assignments) : i = 1
    BY <1>1, <1>2, <1>3
  <2> QED
    BY <1>1, <1>3, <1>5, <1>8, <2>1, <2>2 DEF Trailed
<1>11. Registered
  BY <1>1, <1>3, <1>5 DEF Registered
<1>12. Told
  <2>1. seen[1] = {} /\ \A j \in 1..Len(seen) : j = 1
    BY <1>1, <1>3
  <2>2. ToSet(renotify) = {}
    BY <1>1 DEF ToSet
  <2>3. \A i \in 1..Len(assignments) : assignments[i] = 1
    BY <1>1, <1>3
  <2> QED
    BY <1>5, <1>8, <2>1, <2>2, <2>3 DEF Told
<1>13. Guards
  <2>1. Stored = {{1}}
    <3>1. ToSet(newClauses) = {}
      BY <1>1 DEF ToSet
    <3> QED
      BY <1>1, <3>1 DEF Stored
  <2>2. VarsOf({1}) = {1}
    BY <1>8 DEF VarsOf
  <2>3. \A c \in Stored : VarsOf(c) \subseteq 1..nVars /\ Origin(c)
    <3>1. {1} \subseteq 1..nVars
      BY <1>1
    <3>2. Origin({1})
      BY DEF Origin
    <3> QED
      BY <2>1, <2>2, <3>1, <3>2
  <2> QED
    BY <1>1, <1>5, <2>3 DEF Guards
<1>14. Justified
  <2>1. nVars \in Nat /\ 1 \in 1..1
    BY <1>1
  <2>2. \A v \in VarsOf({1}) : info[v].intro = 0
    BY <1>5, <1>8 DEF VarsOf
  <2>3. {1} \in db /\ {1} \in Permanent
    BY <1>1, <2>2 DEF Permanent
  <2>4. \A cs, s : {1} \in cs /\ s \in Models(nVars, cs) => s[1] = 1
    BY <1>8 DEF Models, Holds
  <2>5. /\ \A s \in Solutions(db) : s[1] = 1
        /\ \A s \in Solutions(Permanent) : s[1] = 1
    BY <2>1, <2>3, <2>4, DbSolutions
  <2>6. \A v \in Problem : v = 1
    BY <1>5 DEF Problem
  <2> QED
    BY <1>5, <2>5, <2>6 DEF Justified
<1> QED
  BY <1>6, <1>7, <1>9, <1>10, <1>11, <1>12, <1>13, <1>14 DEF IInv

\* A step that changes nothing changes no part of the invariant.
LEMMA KeepsStutter ==
  ASSUME IInv, UNCHANGED vars
  PROVE  IInv'
<1>1. /\ Quiet /\ instance' = instance
      /\ UNCHANGED <<propagations, newClauses, foundSolution, inSearch, result, checked, db,
                     inputs, lemmas, renotify, seen, decisions, nVars>>
  BY DEF vars, Quiet, searchVars, trailVars, userVars, theoryVars, cadicalVars, ghosts
<1>2. Typed /\ Modes
  BY DEF IInv
<1>3. Adds
  <2>1. Stored' = Stored /\ db \subseteq db'
    BY <1>1 DEF Stored
  <2> QED
    BY <1>1, <2>1, AddsNothing
<1>4. TypedSearch' /\ TypedClauses'
  BY <1>1, <1>2, SameTypes
<1>5. Modes'
  <2>1. RootUnsat' <=> RootUnsat
    BY <1>1 DEF RootUnsat, Solutions, Assignment
  <2> QED
    BY <1>1, <1>2, <2>1 DEF Modes, Idle
<1>6. checked' \in Seq(SUBSET Lit) /\ Len(checked') = Len(seen)
  BY <1>1, <1>2, TypedFacts
<1> QED
  BY <1>1, <1>3, <1>4, <1>5, <1>6, QuietKeeps

\* Every step of the propagator, of CaDiCaL and of the solver engine keeps
\* the invariant.
LEMMA NextKeeps ==
  ASSUME IInv, [Next]_vars
  PROVE  IInv'
<1>1. CASE UNCHANGED vars
  BY <1>1, KeepsStutter
<1>2. ASSUME Next PROVE IInv'
  <2>1. instance' = instance
    BY <1>2 DEF Next
  <2>2. ASSUME NEW atom \in BOOLEAN, NewVar(atom) PROVE IInv'
    BY <2>1, <2>2, KeepsNewVar
  <2>3. ASSUME NEW c \in Clauses, AddInput(c) PROVE IInv'
    BY <2>1, <2>3, KeepsAddInput
  <2>4. CASE Push
    BY <2>1, <2>4, KeepsPush
  <2>5. CASE Pop
    BY <2>1, <2>5, KeepsPop
  <2>6. CASE Solve
    BY <2>1, <2>6, KeepsSolve
  <2>7. ASSUME NEW l \in Lit, Fix(l) PROVE IInv'
    BY <2>1, <2>7, KeepsFix
  <2>8. ASSUME NEW l \in Lit, Propagate(l) PROVE IInv'
    BY <2>1, <2>8, KeepsPropagate
  <2>9. CASE Assume
    BY <2>1, <2>9, KeepsAssume
  <2>10. ASSUME NEW l \in Lit, Decide(l) PROVE IInv'
    BY <2>1, <2>10, KeepsDecide
  <2>11. ASSUME NEW k \in 0..DecLevel, NEW fresh \in BOOLEAN, Backtrack(k, fresh) PROVE IInv'
    BY <2>1, <2>11, KeepsBacktrack
  <2>12. ASSUME NEW fresh \in BOOLEAN, ResetTrail(fresh) PROVE IInv'
    BY <2>1, <2>12, KeepsResetTrail
  <2>13. CASE CbPropagate
    BY <2>1, <2>13, KeepsCbPropagate
  <2>14. CASE NextPropagation
    BY <2>1, <2>14, KeepsNextPropagation
  <2>15. CASE ImportClause
    BY <2>1, <2>15, KeepsImportClause
  <2>16. CASE Rejects
    BY <2>1, <2>16, KeepsRejectPending, KeepsRejectDecisionVar, KeepsRejectCheckVar,
       KeepsRejectClause DEF Rejects
  <2>17. CASE AcceptModel
    BY <2>1, <2>17, KeepsAcceptModel
  <2>18. ASSUME NEW l \in Lit, NEW done \in BOOLEAN, StopSearch(l, done) PROVE IInv'
    BY <2>1, <2>18, KeepsStopSearch
  <2>19. CASE EndUnsat \/ EndUnknown
    BY <2>1, <2>19, KeepsEnd
  <2> QED
    BY <1>2, <2>2, <2>3, <2>4, <2>5, <2>6, <2>7, <2>8, <2>9, <2>10, <2>11, <2>12, <2>13, <2>14,
       <2>15, <2>16, <2>17, <2>18, <2>19 DEF Next
<1> QED
  BY <1>1, <1>2

\* The invariant holds in every state.
LEMMA Inductive == Spec => []IInv
<1>1. Init => IInv
  BY InitKeeps
<1>2. IInv /\ [Next]_vars => IInv'
  BY NextKeeps
<1> QED
  BY <1>1, <1>2, PTL DEF Spec

-----------------------------------------------------------------------------
(***************************************************************************)
(* What the invariant implies: the properties that the runs check.         *)
(***************************************************************************)
\* The tops of the stacks of the SAT context.
LEMMA Tops ==
  ASSUME Typed
  PROVE  /\ Last(seen) = seen[Len(seen)] /\ Last(registered) = registered[Len(registered)]
         /\ Len(seen) \in 1..Len(seen) /\ Len(seen) = 1 + UserLevel + DecLevel
<1>1. /\ Len(seen) = 1 + UserLevel + DecLevel /\ UserLevel \in Nat /\ DecLevel \in Nat
  BY TypedFacts
<1>2. Last(seen) = seen[Len(seen)] /\ Last(registered) = registered[Len(registered)]
  BY DEF Last
<1>3. Len(seen) \in 1..Len(seen)
  BY <1>1
<1> QED
  BY <1>1, <1>2, <1>3

\* The theories know the atoms.
LEMMA ImpliesAtomsRegistered ==
  ASSUME IInv
  PROVE  AtomsRegistered
<1>1. Typed /\ Levelled /\ Registered
  BY DEF IInv
<1>2. \A v \in 1..nVars : info[v].active /\ info[v].atom => v \in registered[Len(registered)]
  BY <1>1, AtomsAtTop
<1> QED
  BY <1>1, <1>2, Tops DEF AtomsRegistered

\* The theories hold the assigned atoms.
LEMMA ImpliesTheoryInSync ==
  ASSUME IInv
  PROVE  TheoryInSync
<1> DEFINE assigned == {info[v].asg : v \in {u \in 1..nVars :
                          info[u].active /\ info[u].atom /\ info[u].asg # 0}}
<1>1. Typed /\ Trailed /\ Told
  BY DEF IInv
<1>2. /\ Last(seen) = seen[Len(seen)]
      /\ Len(seen) \in 1..Len(seen) /\ Len(seen) = 1 + UserLevel + DecLevel
  BY <1>1, Tops
<1>3. DecLevel \in Nat /\ DecLevel \in 0..DecLevel /\ ~(DecLevel < DecLevel) /\ instance \in Instances
  BY <1>1, TypedFacts
<1>4. \A l \in Lit : l # 0
  BY <1>3, InstanceFacts
<1>5. \A l \in Lit : AssignedAtom(l) => l \in assigned
  BY <1>4 DEF AssignedAtom
<1>6. Last(seen) \subseteq assigned
  <2>1. Last(seen) \subseteq Lit
    BY <1>1, DrainedIs
  <2>2. \A l \in Last(seen) : AssignedAtom(l)
    BY <1>1, <1>2 DEF Told
  <2> QED
    BY <1>5, <2>1, <2>2
<1>7. ToSet(renotify) \subseteq assigned
  <2>1. ToSet(renotify) \subseteq Lit
    BY <1>1, Elements
  <2>2. \A l \in ToSet(renotify) : AssignedAtom(l)
    BY <1>1 DEF Told
  <2> QED
    BY <1>5, <2>1, <2>2
<1>8. ASSUME NEW v \in 1..nVars, info[v].active, info[v].atom, info[v].asg # 0
      PROVE  info[v].asg \in Last(seen) \cup ToSet(renotify)
  <2>1. PICK i \in 1..Len(assignments) : assignments[i] = info[v].asg
    BY <1>1, <1>8 DEF Trailed
  <2>2. VarOf(assignments[i]) = v
    <3>1. info[v].asg = v \/ info[v].asg = -v
      BY <1>1, <1>8 DEF Trailed
    <3> QED
      BY <1>1, <2>1, <3>1, LitOfVar
  <2>3. assignments[i] \in seen[1 + UserLevel + DecLevel] \cup ToSet(renotify)
    BY <1>1, <1>3, <1>8, <2>2 DEF Told
  <2> QED
    BY <1>2, <2>1, <2>3
<1>9. assigned \subseteq Last(seen) \cup ToSet(renotify)
  BY <1>8
<1> QED
  BY <1>6, <1>7, <1>9 DEF TheoryInSync

\* The clauses of the levels that are still open, seen by CaDiCaL's models.
LEMMA GivenSolutions ==
  ASSUME IInv
  PROVE  /\ Solutions(Given) = Models(nVars, Given)
         /\ Solutions(Permanent) = Models(nVars, Permanent)
         /\ Solutions(db) = Models(nVars, db)
         /\ Solutions(db \cup ToSet(newClauses) \cup Assumed) = Models(nVars, Stored \cup Assumed)
<1>1. nVars \in Nat
  BY TypedFacts DEF IInv
<1> QED
  BY <1>1, SolutionsAre DEF Stored

\* An activation literal is a variable of its own level.
LEMMA Activation ==
  ASSUME Typed, Levelled
  PROVE  /\ \A a \in ActivationVars : a \in 1..nVars /\ info[a].active /\ info[a].intro >= 1
         /\ \A j \in 1..UserLevel : activationLits[j] \in ActivationVars
         /\ info[1].active /\ 1 \in Problem /\ info[1].intro = 0
<1>1. activationLits \in Seq(Var) /\ Len(activationLits) = UserLevel /\ nVars \in Nat \ {0} /\ UserLevel \in Nat
  BY TypedFacts
<1>2. ActivationVars = {activationLits[j] : j \in 1..UserLevel}
  BY <1>1, SeqSet DEF ActivationVars
<1>3. \A j \in 1..UserLevel : /\ activationLits[j] \in 1..nVars /\ info[activationLits[j]].active
                              /\ info[activationLits[j]].intro = j /\ j >= 1
  BY <1>1 DEF Levelled
<1>4. \A a \in ActivationVars : a \in 1..nVars /\ info[a].active /\ info[a].intro >= 1
  BY <1>2, <1>3
<1>5. info[1].active /\ info[1].intro = 0 /\ 1 \in 1..nVars
  BY <1>1 DEF Levelled
<1>6. 1 \in Problem
  BY <1>4, <1>5 DEF Problem
<1> QED
  BY <1>2, <1>4, <1>5, <1>6

\* A fixed literal of the problem follows from clauses that are given.
LEMMA ImpliesFixedJustified ==
  ASSUME IInv
  PROVE  FixedJustified
<1>1. Typed /\ Levelled /\ Guards /\ Justified
  BY DEF IInv
<1>2. nVars \in Nat \ {0} /\ 1..nVars \subseteq Var
  BY <1>1, TypedFacts
<1>3. ASSUME NEW s \in Models(nVars, Given) PROVE s \in Models(nVars, Permanent)
  <2> SUFFICES ASSUME NEW c \in Permanent PROVE Holds(c, s)
    BY <1>3 DEF Models
  <2>1. c \in Stored /\ \A v \in VarsOf(c) : info[v].intro = 0
    BY DEF Permanent, Stored
  <2>2. Origin(c)
    BY <1>1, <2>1 DEF Guards
  <2>3. ASSUME NEW x \in 1..nVars, x \in c, ~info[x].active PROVE FALSE
    <3>1. x \in VarsOf(c)
      BY <1>1, <2>3, LitOfVar DEF VarsOf
    <3>2. info[x].intro >= 1
      BY <1>1, <2>3 DEF Levelled
    <3> QED
      BY <2>1, <3>1, <3>2
  <2>4. ASSUME c = Tautology \/ c = {1} PROVE Holds(c, s)
    <3>1. s[1] = 1
      <4>1. Holds({1}, s)
        BY <1>3 DEF Models, Given
      <4>2. VarOf(1) = 1
        BY DEF VarOf
      <4> QED
        BY <4>1, <4>2 DEF Holds
    <3>2. 1 \in c /\ VarOf(1) = 1
      BY <2>4 DEF Tautology, VarOf
    <3> QED
      BY <3>1, <3>2 DEF Holds
  <2>5. ASSUME NEW r \in inputs \cup lemmas, NEW L \in 0..UserLevel, c = WithActivation(r.clause, L)
        PROVE  Holds(c, s)
    <3>1. CASE L = 0
      <4>1. c = r.clause /\ r.clause \in Given
        BY <2>5, <3>1 DEF WithActivation, Given
      <4> QED
        BY <1>3, <4>1 DEF Models
    <3>2. CASE L # 0
      <4>1. L \in 1..UserLevel
        BY <1>1, <3>2, TypedFacts
      <4>2. activationLits[L] \in c
        BY <2>5, <3>2 DEF WithActivation
      <4>3. activationLits[L] \in 1..nVars /\ info[activationLits[L]].intro >= 1
        BY <1>1, <4>1, Activation
      <4>4. activationLits[L] \in VarsOf(c)
        BY <1>1, <4>2, <4>3, LitOfVar DEF VarsOf
      <4> QED
        BY <2>1, <4>3, <4>4
    <3> QED
      BY <3>1, <3>2
  <2> QED
    BY <2>2, <2>3, <2>4, <2>5 DEF Origin
<1> QED
  BY <1>1, <1>3, GivenSolutions DEF FixedJustified, Justified

\* A solution of the clauses given, with the activation literals as assumed
\* and the popped variables as their units say.
Completed(g) ==
    [v \in 1..nVars |-> IF v \in Problem THEN g[v] ELSE IF info[v].active THEN -v ELSE v]

\* The guarded clauses have every solution of the clauses given.
LEMMA ImpliesNotTooStrong ==
  ASSUME IInv
  PROVE  NotTooStrong
<1>1. Typed /\ Levelled /\ Guards
  BY DEF IInv
<1>2. nVars \in Nat \ {0} /\ 1..nVars \subseteq Var
  BY <1>1, TypedFacts
<1>3. ASSUME NEW g \in Models(nVars, Given)
      PROVE  [v \in Problem |-> g[v]] \in {[v \in Problem |-> s[v]] : s \in Models(nVars, Stored \cup Assumed)}
  <2>1. PICK s : s = Completed(g)
    OBVIOUS
  <2>2. /\ s \in [1..nVars -> Int] /\ \A v \in 1..nVars : s[v] = v \/ s[v] = -v
    BY <1>2, <1>3, <2>1 DEF Completed, Models
  <2>3. Problem \subseteq 1..nVars /\ \A v \in Problem : s[v] = g[v]
    BY <2>1 DEF Completed, Problem
  <2>4. ASSUME NEW c, NEW l \in c, VarOf(l) \in Problem, g[VarOf(l)] = l PROVE Holds(c, s)
    BY <2>3, <2>4 DEF Holds
  <2>5. g[1] = 1 /\ 1 \in Problem /\ VarOf(1) = 1
    <3>1. Holds({1}, g)
      BY <1>3 DEF Models, Given
    <3>2. VarOf(1) = 1
      BY DEF VarOf
    <3> QED
      BY <1>1, <3>1, <3>2, Activation DEF Holds
  <2>6. ASSUME NEW c \in Stored PROVE Holds(c, s)
    <3>1. Origin(c)
      BY <1>1 DEF Guards
    <3>2. ASSUME NEW x \in 1..nVars, x \in c, ~info[x].active PROVE Holds(c, s)
      <4>1. VarOf(x) = x /\ x \notin Problem
        BY <1>1, <3>2, LitOfVar DEF Problem
      <4>2. s[x] = x
        BY <2>1, <3>2, <4>1 DEF Completed
      <4> QED
        BY <3>2, <4>1, <4>2 DEF Holds
    <3>3. ASSUME c = Tautology \/ c = {1} PROVE Holds(c, s)
      <4>1. 1 \in c
        BY <3>3 DEF Tautology
      <4> QED
        BY <2>4, <2>5, <4>1
    <3>4. ASSUME NEW r \in inputs \cup lemmas, NEW L, c = WithActivation(r.clause, L)
          PROVE  Holds(c, s)
      <4>1. r.clause \in Given /\ r.clause \subseteq c
        BY <3>4 DEF WithActivation, Given
      <4>2. PICK l \in r.clause : g[VarOf(l)] = l
        BY <1>3, <4>1 DEF Models, Holds
      <4>3. VarOf(l) \in Problem
        BY <1>1 DEF Guards, VarsOf
      <4> QED
        BY <2>4, <4>1, <4>2, <4>3
    <3> QED
      BY <3>1, <3>2, <3>3, <3>4 DEF Origin
  <2>7. ASSUME NEW c \in Assumed PROVE Holds(c, s)
    <3>1. PICK a \in ActivationVars : c = {-a}
      BY DEF Assumed
    <3>2. a \in 1..nVars /\ info[a].active /\ a \notin Problem
      BY <1>1, Activation DEF Problem
    <3>3. VarOf(-a) = a
      BY <1>1, <3>2, LitOfVar
    <3>4. s[a] = -a
      BY <2>1, <3>2 DEF Completed
    <3> QED
      BY <3>1, <3>3, <3>4 DEF Holds
  <2>8. s \in Models(nVars, Stored \cup Assumed)
    BY <2>2, <2>6, <2>7 DEF Models
  <2>9. [v \in Problem |-> g[v]] = [v \in Problem |-> s[v]]
    BY <2>3
  <2> QED
    BY <2>8, <2>9
<1> QED
  BY <1>3, GivenSolutions DEF NotTooStrong, Guarded, Project

\* The guarded clauses have no other solutions.
LEMMA ImpliesNotTooWeak ==
  ASSUME IInv
  PROVE  NotTooWeak
<1>1. Typed /\ Levelled /\ Guards /\ Justified
  BY DEF IInv
<1>2. nVars \in Nat \ {0} /\ 1..nVars \subseteq Var /\ UserLevel \in Nat
  BY <1>1, TypedFacts
<1>3. ASSUME NEW s \in Models(nVars, Stored \cup Assumed) PROVE s \in Models(nVars, Given)
  <2>1. \A c \in Stored : Holds(c, s)
    BY <1>3 DEF Models
  <2>2. s \in Models(nVars, db)
    BY <1>3 DEF Models, Stored
  <2>3. \A a \in ActivationVars : a \in 1..nVars /\ s[a] = -a /\ s[a] # a /\ VarOf(a) = a
    <3> TAKE a \in ActivationVars
    <3>1. {-a} \in Assumed
      BY DEF Assumed
    <3>2. Holds({-a}, s)
      BY <1>3, <3>1 DEF Models
    <3>3. a \in 1..nVars /\ VarOf(-a) = a /\ VarOf(a) = a /\ a \in Nat \ {0}
      BY <1>1, Activation, LitOfVar
    <3>4. s[a] = -a
      BY <3>2, <3>3 DEF Holds
    <3> QED
      BY <3>3, <3>4
  <2>4. ASSUME NEW c, FixedTrue(c) PROVE Holds(c, s)
    <3>1. PICK l \in c : VarOf(l) \in 1..nVars /\ info[VarOf(l)].fixed /\ info[VarOf(l)].asg = l
      BY <2>4 DEF FixedTrue
    <3>2. s[VarOf(l)] = l
      BY <1>1, <2>2, <3>1, GivenSolutions DEF Justified
    <3> QED
      BY <3>2 DEF Holds
  <2>5. ASSUME NEW c, NEW L \in 0..UserLevel, WithActivation(c, L) \in Stored PROVE Holds(c, s)
    <3>1. Holds(WithActivation(c, L), s)
      BY <2>1, <2>5
    <3>2. CASE L = 0
      BY <3>1, <3>2 DEF WithActivation
    <3>3. CASE L # 0
      <4>1. L \in 1..UserLevel
        BY <1>2, <3>3
      <4>2. activationLits[L] \in ActivationVars
        BY <1>1, <4>1, Activation
      <4>3. PICK l \in WithActivation(c, L) : s[VarOf(l)] = l
        BY <3>1 DEF Holds
      <4>4. l # activationLits[L]
        BY <2>3, <4>2, <4>3
      <4>5. l \in c
        BY <3>3, <4>3, <4>4 DEF WithActivation
      <4> QED
        BY <4>3, <4>5 DEF Holds
    <3> QED
      BY <3>2, <3>3
  <2>6. \A r \in inputs \cup lemmas : Holds(r.clause, s)
    BY <1>1, <2>4, <2>5 DEF Guards
  <2>7. Holds({1}, s)
    BY <1>1, <2>1 DEF Guards, Stored
  <2>8. \A c \in Given : Holds(c, s)
    BY <2>6, <2>7 DEF Given
  <2> QED
    BY <1>3, <2>8 DEF Models
<1> QED
  BY <1>3, GivenSolutions DEF NotTooWeak, Guarded, Project

\* An answer unsat is right: when solve gives it, the clauses of the open user
\* levels have no solution, whatever was popped, dropped or learned before.
UnsatRight == [][EndUnsat => Solutions(Given) = {}]_vars

\* The types of the propagator's state, at every reachable state.
THEOREM PropagatorTypeCorrect == Spec => []TypeOK
<1>1. IInv => TypeOK
  BY DEF IInv, Typed
<1> QED
  BY <1>1, Inductive, PTL

\* A value the propagator reports is CaDiCaL's own (notify_assignment,
\* notify_backtrack and notify_fixed_assignment in any order).
THEOREM PropagatorTrailMirrored == Spec => []TrailMirrored
<1>1. IInv => TrailMirrored
  BY DEF IInv, Trailed, TrailMirrored
<1> QED
  BY <1>1, Inductive, PTL

\* The theories know every atom (TheoryPreregistrar::notifyBacktrack).
THEOREM PropagatorAtomsRegistered == Spec => []AtomsRegistered
<1>1. IInv => AtomsRegistered
  BY ImpliesAtomsRegistered
<1> QED
  BY <1>1, Inductive, PTL

\* The theories hold exactly the assigned atoms, up to the fixed literals that
\* renotify_fixed will enqueue.
THEOREM PropagatorTheoryInSync == Spec => []TheoryInSync
<1>1. IInv => TheoryInSync
  BY ImpliesTheoryInSync
<1> QED
  BY <1>1, Inductive, PTL

\* solve answers sat only when the propagator is done.
THEOREM PropagatorSatAnswerChecked == Spec => []SatAnswerChecked
<1>1. IInv => SatAnswerChecked
  BY DEF IInv, Modes, SatAnswerChecked
<1> QED
  BY <1>1, Inductive, PTL

\* A search leaves nothing for the next one.
THEOREM PropagatorSearchReset == Spec => []SearchReset
<1>1. IInv => SearchReset
  BY IdleFacts DEF IInv, SearchReset
<1> QED
  BY <1>1, Inductive, PTL

\* A fixed literal stays true after any user_pop that keeps its variable.
THEOREM PropagatorFixedJustified == Spec => []FixedJustified
<1>1. IInv => FixedJustified
  BY ImpliesFixedJustified
<1> QED
  BY <1>1, Inductive, PTL

\* add_clause and user_pop never make the clauses stronger than those given.
THEOREM PropagatorNotTooStrong == Spec => []NotTooStrong
<1>1. IInv => NotTooStrong
  BY ImpliesNotTooStrong
<1> QED
  BY <1>1, Inductive, PTL

\* add_clause and user_pop never lose a clause that is still given.
THEOREM PropagatorNotTooWeak == Spec => []NotTooWeak
<1>1. IInv => NotTooWeak
  BY ImpliesNotTooWeak
<1> QED
  BY <1>1, Inductive, PTL

\* CadicalSolver::solve answers unsat only if the clauses given have no
\* solution.
THEOREM PropagatorUnsatRight == Spec => UnsatRight
<1>1. IInv => (EndUnsat => Solutions(Given) = {})
  <2> SUFFICES ASSUME IInv, EndUnsat PROVE Solutions(Given) = {}
    OBVIOUS
  <2>1. Solutions(db \cup Assumed) = {}
    BY DEF EndUnsat
  <2>2. Solutions(db \cup ToSet(newClauses) \cup Assumed) = {}
    BY <2>1 DEF Solutions
  <2>3. Guarded = {}
    BY <2>2 DEF Guarded, Project
  <2>4. Project(Solutions(Given)) = {}
    BY <2>3, ImpliesNotTooStrong DEF NotTooStrong
  <2> QED
    BY <2>4 DEF Project
<1>2. IInv /\ [Next]_vars => [EndUnsat => Solutions(Given) = {}]_vars
  BY <1>1
<1> QED
  BY <1>2, Inductive, PTL DEF Spec, UnsatRight

-----------------------------------------------------------------------------
(***************************************************************************)
(* An answer sat is right.  The propagator's trail says so only with one   *)
(* more fact: the level j of a search holds the j-th activation literal    *)
(* false, also after the search went back to a level below.                *)
(***************************************************************************)
Assumes ==
    \A j \in 1..UserLevel : j <= DecLevel =>
        val[activationLits[j]] = -activationLits[j] /\ lev[activationLits[j]] <= j

\* A full model that solve accepts satisfies the clauses of the open levels.
SatRight == [][AcceptModel => \A c \in Given : Holds(c, val)]_vars

\* The activation literals that are decided, as variables.
LEMMA AssumedAre ==
  ASSUME IInv, Assumes, NEW j \in 1..UserLevel, j <= DecLevel, NEW a, a = activationLits[j]
  PROVE  /\ a \in 1..nVars /\ a \in Var /\ a \in Nat \ {0} /\ val[a] = -a /\ lev[a] <= j
         /\ val[a] # 0 /\ lev[a] \in Nat
<1>1. Typed /\ Levelled
  BY DEF IInv
<1>2. a \in 1..nVars
  BY <1>1 DEF Levelled
<1>3. a \in Var /\ a \in Nat \ {0} /\ lev[a] \in Nat
  BY <1>1, <1>2, LitOfVar, TypedFacts
<1>4. val[a] = -a /\ lev[a] <= j
  BY DEF Assumes
<1> QED
  BY <1>2, <1>3, <1>4

\* Steps without decisions, and steps that keep CaDiCaL's assignment.
LEMMA AssumesSame ==
  ASSUME IInv, Assumes
  PROVE  /\ UserLevel' \in Nat /\ DecLevel' = 0 => Assumes'
         /\ UNCHANGED <<activationLits, activeVarsControl, decisions, val, lev>> => Assumes'
<1>1. UNCHANGED <<activationLits, activeVarsControl, decisions, val, lev>> => Assumes'
  BY DEF Assumes, UserLevel, DecLevel
<1>2. ASSUME UserLevel' \in Nat, DecLevel' = 0 PROVE Assumes'
  BY <1>2 DEF Assumes
<1> QED
  BY <1>1, <1>2

\* An assignment that opens no level.
LEMMA AssumesAssign ==
  ASSUME IInv, Assumes, NEW l \in Lit, Fix(l) \/ Propagate(l), instance' = instance
  PROVE  Assumes'
<1>1. Typed /\ Trailed
  BY DEF IInv
<1>2. PICK v : v = VarOf(l)
  OBVIOUS
<1>3. /\ UNCHANGED <<activationLits, activeVarsControl, decisions>>
      /\ val' = [val EXCEPT ![v] = l]
      /\ Fix(l) => val[v] # -l /\ lev' = [lev EXCEPT ![v] = 0]
      /\ Propagate(l) => val[v] = 0 /\ lev' = [lev EXCEPT ![v] = DecLevel]
      /\ v <= nVars
  BY <1>2 DEF Fix, Propagate, userVars
<1>4. UserLevel' = UserLevel /\ DecLevel' = DecLevel
  BY <1>3 DEF UserLevel, DecLevel
<1>5. v \in Var /\ l \in {v, -v} /\ val \in [Var -> Lit \cup {0}] /\ lev \in [Var -> Nat]
  BY <1>1, <1>2, <1>3, LitCreated, TypedFacts
<1> SUFFICES ASSUME NEW j \in 1..UserLevel, j <= DecLevel, NEW a, a = activationLits[j]
             PROVE  val'[a] = -a /\ lev'[a] <= j
  BY <1>3, <1>4 DEF Assumes
<1>6. /\ a \in Var /\ a \in Nat \ {0} /\ val[a] = -a /\ lev[a] <= j /\ val[a] # 0
  BY AssumedAre
<1>7. CASE a # v
  BY <1>3, <1>5, <1>6, <1>7
<1>8. CASE a = v
  <2>1. ~Propagate(l) /\ Fix(l)
    BY <1>3, <1>6, <1>8
  <2>2. l = -a
    BY <1>3, <1>5, <1>6, <1>8, <2>1
  <2>3. val'[a] = -a /\ lev'[a] = 0
    BY <1>3, <1>5, <1>8, <2>1, <2>2
  <2> QED
    BY <2>3
<1> QED
  BY <1>7, <1>8

\* A level that opens: CaDiCaL assumes the next activation literal, or all of
\* them are assumed.
LEMMA AssumesOpen ==
  ASSUME IInv, Assumes, instance' = instance,
         Assume \/ \E l \in Lit : Decide(l) \/ \E done \in BOOLEAN : StopSearch(l, done)
  PROVE  Assumes'
<1>1. Typed /\ Trailed /\ Levelled
  BY DEF IInv
<1>2. /\ DecLevel \in Nat /\ UserLevel \in Nat /\ val \in [Var -> Lit \cup {0}] /\ lev \in [Var -> Nat]
      /\ decisions \in Seq(Lit \cup {0})
  BY <1>1, TypedFacts
<1>3. PICK l, found : /\ OpenLevel(l, found) /\ UNCHANGED userVars
                      /\ \/ /\ l \in Lit /\ val[VarOf(l)] = 0 /\ DecLevel >= UserLevel
                         \/ LET a == activationLits[DecLevel + 1]
                            IN /\ DecLevel < UserLevel /\ val[a] # a
                               /\ l = IF val[a] = -a THEN 0 ELSE -a
  BY DEF Assume, Decide, StopSearch, CanDecide
<1>4. /\ UNCHANGED <<activationLits, activeVarsControl>>
      /\ val' = IF l = 0 THEN val ELSE [val EXCEPT ![VarOf(l)] = l]
      /\ lev' = IF l = 0 THEN lev ELSE [lev EXCEPT ![VarOf(l)] = DecLevel + 1]
      /\ \E x : decisions' = Append(decisions, x)
  BY <1>3 DEF OpenLevel, userVars
<1>5. UserLevel' = UserLevel /\ DecLevel' = DecLevel + 1
  BY <1>2, <1>4 DEF UserLevel, DecLevel
<1> SUFFICES ASSUME NEW j \in 1..UserLevel, j <= DecLevel + 1, NEW a, a = activationLits[j]
             PROVE  val'[a] = -a /\ lev'[a] <= j
  BY <1>4, <1>5 DEF Assumes
<1>6. a \in 1..nVars /\ a \in Var /\ a \in Nat \ {0} /\ VarOf(-a) = a
  <2>1. a \in 1..nVars
    BY <1>1 DEF Levelled
  <2> QED
    BY <1>1, <2>1, LitOfVar
<1>7. CASE j <= DecLevel
  <2>1. val[a] = -a /\ lev[a] <= j /\ val[a] # 0
    BY <1>7, AssumedAre
  <2>2. l = 0 \/ (val[VarOf(l)] = 0 /\ VarOf(l) # a)
    <3>1. CASE l \in Lit /\ val[VarOf(l)] = 0
      BY <2>1, <3>1
    <3>2. CASE LET b == activationLits[DecLevel + 1]
               IN DecLevel < UserLevel /\ val[b] # b /\ l = IF val[b] = -b THEN 0 ELSE -b
      <4>1. PICK b : b = activationLits[DecLevel + 1]
        OBVIOUS
      <4>2. DecLevel + 1 \in 1..UserLevel
        BY <1>2, <3>2
      <4>3. b \in 1..nVars
        BY <1>1, <4>1, <4>2 DEF Levelled
      <4>4. b \in Var /\ VarOf(-b) = b
        BY <1>1, <4>3, LitOfVar
      <4>5. val[b] \in {0, b, -b}
        BY <1>1, <4>4 DEF Trailed
      <4> QED
        BY <2>1, <3>2, <4>1, <4>4, <4>5
    <3> QED
      BY <1>3, <3>1, <3>2
  <2> QED
    BY <1>2, <1>4, <1>6, <2>1, <2>2
<1>8. CASE j = DecLevel + 1
  <2>1. DecLevel < UserLevel
    BY <1>2, <1>8
  <2>2. val[a] # a /\ l = IF val[a] = -a THEN 0 ELSE -a
    BY <1>2, <1>3, <1>8, <2>1
  <2>3. CASE l = 0
    <3>1. val[a] = -a
      BY <1>6, <2>2, <2>3
    <3>2. lev[a] <= DecLevel /\ lev[a] \in Nat
      BY <1>1, <1>2, <1>6 DEF Trailed
    <3>3. lev[a] <= j
      BY <1>2, <1>8, <3>2
    <3> QED
      BY <1>4, <2>3, <3>1, <3>3
  <2>4. CASE l = -a
    <3>1. l # 0 /\ VarOf(l) = a
      BY <1>6, <2>4
    <3>2. val'[a] = -a /\ lev'[a] = DecLevel + 1
      BY <1>2, <1>4, <1>6, <2>4, <3>1
    <3> QED
      BY <1>2, <1>8, <3>2
  <2> QED
    BY <2>2, <2>3, <2>4
<1> QED
  BY <1>2, <1>7, <1>8

\* A backtrack keeps the levels below.
LEMMA AssumesBacktrack ==
  ASSUME IInv, Assumes, instance' = instance, NEW k \in 0..DecLevel, NEW fresh \in BOOLEAN,
         Backtrack(k, fresh)
  PROVE  Assumes'
<1>1. Typed
  BY DEF IInv
<1>2. /\ k < DecLevel /\ NotifyBacktrack(k, fresh) /\ Unassign(k)
      /\ UNCHANGED <<activationLits, activeVarsControl>>
  BY DEF Backtrack
<1>3. DecLevel \in Nat /\ k \in Nat /\ decisions \in Seq(Lit \cup {0}) /\ UserLevel' = UserLevel
  BY <1>1, <1>2, TypedFacts DEF UserLevel
<1>4. decisions' = SubSeq(decisions, 1, k)
  BY <1>2, <1>3 DEF NotifyBacktrack
<1>5. DecLevel' = k
  <2>1. PICK Z, d : Z = Lit \cup {0} /\ d = decisions /\ d \in Seq(Z) /\ Len(d) = DecLevel
    BY <1>3 DEF DecLevel
  <2>2. d \in Seq(Z) /\ k \in 0..Len(d)
    BY <1>2, <1>3, <2>1
  <2>3. Len(SubSeq(d, 1, k)) = k
    BY ONLY <2>2, Prefix
  <2> QED
    BY <1>4, <2>1, <2>3 DEF DecLevel
<1> SUFFICES ASSUME NEW j \in 1..UserLevel, j <= k, NEW a, a = activationLits[j]
             PROVE  val'[a] = -a /\ lev'[a] <= j
  BY <1>2, <1>3, <1>5 DEF Assumes
<1>6. j \in Nat /\ j <= DecLevel
  BY <1>2, <1>3
<1>7. a \in Var /\ val[a] = -a /\ lev[a] <= j /\ lev[a] \in Nat
  BY <1>6, AssumedAre
<1>8. ~(lev[a] > k)
  BY <1>3, <1>6, <1>7
<1>9. val'[a] = val[a] /\ lev'[a] = lev[a]
  BY <1>1, <1>2, <1>3, <1>7, <1>8, UnassignDoes
<1> QED
  BY <1>7, <1>9

\* Between two commands there are no levels of a search.
LEMMA AssumesIdle ==
  ASSUME IInv, IInv', Assumes, Idle' \/ Idle, decisions' = decisions \/ Idle'
  PROVE  Assumes'
<1>1. Typed' /\ Modes' /\ Typed /\ Modes
  BY DEF IInv
<1>2. UserLevel' \in Nat
  BY <1>1, CreatedNext
<1>3. Idle => decisions = << >>
  BY <1>1 DEF Modes
<1>4. Idle' => decisions' = << >>
  BY <1>1 DEF Modes
<1>5. DecLevel' = 0
  BY <1>3, <1>4 DEF DecLevel
<1> QED
  BY <1>2, <1>5, AssumesSame

\* Every step keeps the assumed literals.
LEMMA NextAssumes ==
  ASSUME IInv, Assumes, [Next]_vars
  PROVE  Assumes'
<1>1. IInv'
  BY NextKeeps
<1>2. CASE UNCHANGED vars
  BY <1>2, AssumesSame DEF vars, userVars, trailVars, cadicalVars
<1>3. ASSUME Next PROVE Assumes'
  <2>1. instance' = instance
    BY <1>3 DEF Next
  <2>2. CASE \/ \E atom \in BOOLEAN : NewVar(atom)
             \/ \E c \in Clauses : AddInput(c)
             \/ Push \/ Pop \/ Solve
    <3>1. Idle /\ decisions' = decisions
      BY <2>2 DEF NewVar, AddInput, Push, Pop, Solve, trailVars
    <3> QED
      BY <1>1, <3>1, AssumesIdle
  <2>3. CASE \E l \in Lit : Fix(l) \/ Propagate(l)
    BY <2>1, <2>3, AssumesAssign
  <2>4. CASE Assume \/ \E l \in Lit : Decide(l) \/ \E done \in BOOLEAN : StopSearch(l, done)
    BY <2>1, <2>4, AssumesOpen
  <2>5. CASE \E k \in 0..DecLevel, fresh \in BOOLEAN : Backtrack(k, fresh)
    BY <2>1, <2>5, AssumesBacktrack
  <2>6. CASE \E fresh \in BOOLEAN : ResetTrail(fresh)
    <3>1. Idle'
      BY <2>6 DEF ResetTrail, Idle
    <3> QED
      BY <1>1, <3>1, AssumesIdle
  <2>7. CASE CbPropagate \/ NextPropagation \/ ImportClause \/ Rejects \/ AcceptModel
    <3>1. UNCHANGED <<activationLits, activeVarsControl, decisions, val, lev>>
      BY <2>7 DEF CbPropagate, NextPropagation, ImportClause, Rejects, AcceptModel, RejectPending,
         RejectDecisionVar, RejectCheckVar, RejectClause, userVars, trailVars, cadicalVars
    <3> QED
      BY <3>1, AssumesSame
  <2>8. CASE EndUnsat \/ EndUnknown
    <3>1. UNCHANGED <<activationLits, activeVarsControl, decisions, val, lev>>
      BY <2>8 DEF EndUnsat, EndUnknown, userVars, trailVars
    <3> QED
      BY <3>1, AssumesSame
  <2> QED
    BY <1>3, <2>2, <2>3, <2>4, <2>5, <2>6, <2>7, <2>8 DEF Next
<1> QED
  BY <1>2, <1>3

\* A model that CaDiCaL found and the propagator accepts solves all clauses.
LEMMA AcceptedSolves ==
  ASSUME IInv, Assumes, AcceptModel, NEW c \in Given
  PROVE  Holds(c, val)
<1>1. Typed /\ Levelled /\ Trailed /\ Modes /\ Guards
  BY DEF IInv
<1>2. /\ nVars \in Nat \ {0} /\ 1..nVars \subseteq Var /\ UserLevel \in Nat /\ DecLevel \in Nat
      /\ activationLits \in Seq(Var) /\ Len(activationLits) = UserLevel
  BY <1>1, TypedFacts
<1>3. /\ DecLevel >= UserLevel /\ \A v \in 1..nVars : val[v] # 0
      /\ \A d \in db : Holds(d, val)
  BY DEF AcceptModel, FullModel
<1>4. Stored = db
  <2>1. newClauses = << >>
    BY <1>1 DEF AcceptModel, Done, Modes
  <2>2. ToSet(newClauses) = {}
    BY <2>1 DEF ToSet
  <2> QED
    BY <2>2 DEF Stored
<1>5. PICK s : s = [v \in 1..nVars |-> val[v]]
  OBVIOUS
<1>6. \A v \in 1..nVars : (val[v] = v \/ val[v] = -v) /\ v \in Int
  BY <1>1, <1>2, <1>3 DEF Trailed
<1>7. s \in [1..nVars -> Int] /\ \A v \in 1..nVars : (s[v] = v \/ s[v] = -v) /\ s[v] = val[v]
  BY <1>5, <1>6
<1>8. \A d \in Stored : Holds(d, s)
  <2> TAKE d \in Stored
  <2>1. PICK l \in d : val[VarOf(l)] = l
    BY <1>3, <1>4 DEF Holds
  <2>2. VarOf(l) \in 1..nVars
    BY <1>1 DEF Guards, VarsOf
  <2> QED
    BY <1>7, <2>1, <2>2 DEF Holds
<1>9. \A d \in Assumed : Holds(d, s)
  <2> TAKE d \in Assumed
  <2>1. PICK a \in ActivationVars : d = {-a}
    BY DEF Assumed
  <2>2. PICK j \in 1..UserLevel : a = activationLits[j]
    BY <1>2, SeqSet DEF ActivationVars
  <2>3. j <= DecLevel
    BY <1>2, <1>3
  <2>4. a \in 1..nVars /\ val[a] = -a
    BY <2>2, <2>3, AssumedAre
  <2>5. VarOf(-a) = a
    BY <1>1, <2>4, LitOfVar
  <2> QED
    BY <1>7, <2>1, <2>4, <2>5 DEF Holds
<1>10. s \in Models(nVars, Stored \cup Assumed)
  BY <1>7, <1>8, <1>9 DEF Models
<1>11. PICK g \in Models(nVars, Given) : [v \in Problem |-> s[v]] = [v \in Problem |-> g[v]]
  <2>1. Guarded = {[v \in Problem |-> t[v]] : t \in Models(nVars, Stored \cup Assumed)}
    BY GivenSolutions DEF Guarded, Project
  <2>2. Project(Solutions(Given)) = {[v \in Problem |-> t[v]] : t \in Models(nVars, Given)}
    BY GivenSolutions DEF Project
  <2>3. Guarded \subseteq Project(Solutions(Given))
    BY ImpliesNotTooWeak DEF NotTooWeak
  <2>4. [v \in Problem |-> s[v]] \in Guarded
    BY <1>10, <2>1
  <2> QED
    BY <2>2, <2>3, <2>4
<1>12. \A v \in Problem : s[v] = g[v] /\ v \in 1..nVars
  <2>1. \A v \in Problem : [u \in Problem |-> s[u]][v] = s[v] /\ [u \in Problem |-> g[u]][v] = g[v]
    OBVIOUS
  <2> QED
    BY <1>11, <2>1 DEF Problem
<1>13. PICK l \in c : g[VarOf(l)] = l
  BY <1>11 DEF Models, Holds
<1>14. VarOf(l) \in Problem
  <2>1. CASE c = {1}
    <3>1. l = 1 /\ VarOf(1) = 1
      BY <1>13, <2>1 DEF VarOf
    <3> QED
      BY <1>1, <3>1, Activation
  <2>2. CASE \E r \in inputs \cup lemmas : c = r.clause
    BY <1>1, <1>13, <2>2 DEF Guards, VarsOf
  <2> QED
    BY <2>1, <2>2 DEF Given
<1> QED
  BY <1>7, <1>12, <1>13, <1>14 DEF Holds

\* CadicalSolver::solve answers sat only with a model of the clauses given.
THEOREM PropagatorSatRight == Spec => SatRight
<1>1. Init => Assumes
  <2> SUFFICES ASSUME Init PROVE Assumes
    OBVIOUS
  <2>1. UserLevel = 0
    BY DEF Init, UserLevel
  <2> QED
    BY <2>1 DEF Assumes
<1>2. IInv /\ Assumes /\ [Next]_vars => Assumes'
  BY NextAssumes
<1>3. IInv /\ Assumes /\ [Next]_vars => [AcceptModel => \A c \in Given : Holds(c, val)]_vars
  BY AcceptedSolves
<1> QED
  BY <1>1, <1>2, <1>3, Inductive, PTL DEF Spec, SatRight

=============================================================================
