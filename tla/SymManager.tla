----------------------------- MODULE SymManager -----------------------------
(***************************************************************************)
(* The scopes of the SMT-LIB front end (src/parser), composed with the     *)
(* engine that executes its commands.  Three stacks have to agree: the     *)
(* levels of the symbol table, the levels of the symbol manager's own      *)
(* context (names of assertions, declarations for the model), and the      *)
(* assertion levels of the engine.  The first two are pushed and popped    *)
(* while a command is PARSED, the third when it is EXECUTED; declarations  *)
(* are bound when they are executed, names of assertions when they are     *)
(* parsed.  The driver executes each command before it parses the next and *)
(* stops at the first one that fails.                                      *)
(*                                                                         *)
(* The engine is module AssertionStack.  A symbol is its name; a named     *)
(* assertion and its name are one thing.                                   *)
(***************************************************************************)
EXTENDS Integers, Sequences, SequencesExt

CONSTANTS Symbols,     \* functions to declare
          Names,       \* names for assertions
          Builtin,     \* stands for the symbols of the logic
          OptionValues,\* what (set-option :global-declarations ...) sets
          MaxLevel,    \* bound on the levels of the engine
          MaxResets    \* bound on (reset) and (reset-assertions)

ASSUME BuiltinAssumption == Builtin \notin Symbols \cup Names
ASSUME OptionAssumption == OptionValues \subseteq BOOLEAN

VARIABLES
    table,      \* SymbolTable: the symbols bound at each level of its context
    context,    \* SymManager::Implementation::d_context: names and declarations
    logicSet,   \* Smt2State::d_logicSet
    logicKnown, \* SymManager::d_logicIsSet
    global,     \* SymManager::d_globalDeclarations
    command,    \* parsed and not executed
    failed,     \* what refused a command: the parser, the engine or nothing
    resets,
    inited,     \* SolverEngineState::d_fullyInited
    stack, globals, answer, closed,  \* the engine
    scopes,     \* what each open level of the engine owns: the reference
    spared,     \* history: the last (reset-assertions) spared symbols or names
    forgot      \* history: a (reset-assertions) forgot what is still declared

Engine == INSTANCE AssertionStack WITH Formulas <- Names, Definitions <- {}

front == <<table, context>>
settings == <<logicSet, logicKnown, global>>
engine == <<inited, stack, globals, answer, closed>>
history == <<spared, forgot>>
vars == <<front, settings, command, failed, resets, engine, scopes, history>>

Empty == [names |-> {}, decls |-> {}]
Idle == [op |-> "none", n |-> 0, arg |-> Builtin]
Ready == command = Idle /\ failed = "none"

\* SymManager::Implementation() pushes an outermost level of its context, the
\* symbol table does not.  The option can come from the command line.
Init ==
    /\ table = << {} >> /\ context = <<Empty, Empty>>
    /\ logicSet = FALSE /\ logicKnown = FALSE /\ global \in BOOLEAN
    /\ command = Idle /\ failed = "none" /\ resets = 0
    /\ inited = FALSE /\ Engine!Init
    /\ scopes = <<Empty>> /\ spared = FALSE /\ forgot = FALSE

-----------------------------------------------------------------------------
(***************************************************************************)
(* The symbol manager, on a pair f of table and context.                   *)
(***************************************************************************)
Bind(f, s) == [f EXCEPT !.table = Append(Front(@), Last(@) \cup {s})]

\* setExpressionName: a term that has a name keeps it.
SetExpressionName(f, t) ==
    IF \E i \in DOMAIN f.context : t \in f.context[i].names THEN f
    ELSE [f EXCEPT !.context[Len(f.context)].names = @ \cup {t}]

AddModelDeclaration(f, s) ==
    [f EXCEPT !.context[Len(f.context)].decls = @ \cup {s}]

\* pushScope(true), n times.
PushScopes(f, n) ==
    IF global THEN f
    ELSE [table |-> f.table \o [i \in 1..n |-> {}],
          context |-> f.context \o [i \in 1..n |-> Empty]]

\* popScope, n times: it throws when the table has no level left to pop.
\* Mutant: it throws at the outermost level that set-logic opens.
CanPopInner(f, n) == global \/ n + 1 < Len(f.table)
CanPop(f, n) == global \/ n < Len(f.table)
PopScopes(f, n) ==
    IF global THEN f
    ELSE LET k == IF CanPop(f, n) THEN n ELSE Len(f.table) - 1
         IN [table |-> SubSeq(f.table, 1, Len(f.table) - k),
             context |-> SubSeq(f.context, 1, Len(f.context) - k)]

\* SymManager::reset.
ResetAll(f) == [table |-> << {} >>, context |-> <<Head(f.context), Empty>>]

\* SymManager::resetAssertions.
ResetLevels(f) ==
    [table |-> IF global THEN f.table ELSE <<Head(f.table), {}>>,
     context |-> SubSeq(f.context, 1, 2)]

\* Smt2State::setLogic: bind the symbols of the logic, then open the outermost
\* scope, unless this symbol manager has seen a logic before.
SetLogic(f) ==
    IF logicKnown THEN Bind(f, Builtin) ELSE PushScopes(Bind(f, Builtin), 1)

\* checkThatLogicIsSet.
WithLogic(f) == IF logicSet THEN f ELSE SetLogic(f)

Now == [table |-> table, context |-> context]
Become(f) == table' = f.table /\ context' = f.context

-----------------------------------------------------------------------------
(***************************************************************************)
(* Parsing a command.                                                      *)
(***************************************************************************)
Parsed(op, n, arg) == command' = [op |-> op, n |-> n, arg |-> arg]

\* The logic is ALL from here on if none was set; the parser sets it in the
\* solver and in the symbol manager at once.
EnsureLogic ==
    /\ logicSet' = TRUE
    /\ logicKnown' = (logicKnown \/ ~logicSet)
    /\ UNCHANGED global

ParseSetLogic ==
    /\ Ready /\ ~logicSet
    /\ Become(SetLogic(Now))
    /\ logicSet' = TRUE
    /\ Parsed("set-logic", 0, Builtin)
    /\ UNCHANGED <<logicKnown, global, failed, resets, scopes, engine, history>>

\* "Only one set-logic is allowed."
ParseSetLogicAgain ==
    /\ Ready /\ logicSet
    /\ failed' = "parser"
    /\ UNCHANGED <<front, settings, command, resets, scopes, engine, history>>

\* (set-option :global-declarations b): the parser obeys at any time; when the
\* command is executed, an engine that is initialised refuses it.
ParseGlobalDeclarations(b) ==
    /\ Ready
    /\ global' = b
    /\ Parsed("set-option", 0, Builtin)
    /\ UNCHANGED <<front, logicSet, logicKnown, failed, resets, scopes, engine, history>>

\* A symbol that is bound already would be overloaded: not modelled.
ParseDeclare(s) ==
    /\ Ready /\ s \notin UNION ToSet(table)
    /\ Become(WithLogic(Now))
    /\ EnsureLogic
    /\ Parsed("declare", 0, s)
    /\ UNCHANGED <<failed, resets, scopes, engine, history>>

\* (assert (! t :named t)): notifyNamedExpression, then the top-level name.
ParseAssert(t) ==
    /\ Ready /\ t \notin UNION ToSet(table)
    /\ Become(Bind(SetExpressionName(WithLogic(Now), t), t))
    /\ EnsureLogic
    /\ Parsed("assert", 0, t)
    /\ UNCHANGED <<failed, resets, scopes, engine, history>>

ParsePush(n) ==
    /\ Ready /\ Len(stack) + n <= MaxLevel
    /\ Become(PushScopes(WithLogic(Now), n))
    /\ EnsureLogic
    /\ Parsed("push", n, Builtin)
    /\ UNCHANGED <<failed, resets, scopes, engine, history>>

\* A ScopeException leaves the scopes that were popped before it popped.
\* Mutant: the scopes are popped when the command is executed, and not here.
ParsePopLate(n) ==
    /\ Ready
    /\ Become(WithLogic(Now))
    /\ EnsureLogic
    /\ Parsed("pop", n, Builtin)
    /\ UNCHANGED <<failed, resets, scopes, engine, history>>
ParsePop(n) ==
    /\ Ready
    /\ LET f == WithLogic(Now)
       IN /\ Become(PopScopes(f, n))
          /\ failed' = IF CanPop(f, n) THEN "none" ELSE "parser"
          /\ Parsed("pop", n, Builtin)
    /\ EnsureLogic
    /\ UNCHANGED <<resets, scopes, engine, history>>

\* (reset): Smt2State::reset; the symbol manager waits for the execution.
ParseReset ==
    /\ Ready /\ resets < MaxResets
    /\ logicSet' = FALSE
    /\ resets' = resets + 1
    /\ Parsed("reset", 0, Builtin)
    /\ UNCHANGED <<front, logicKnown, global, failed, scopes, engine, history>>

ParseResetAssertions ==
    /\ Ready /\ resets < MaxResets
    /\ resets' = resets + 1
    /\ Parsed("reset-assertions", 0, Builtin)
    /\ UNCHANGED <<front, settings, failed, scopes, engine, history>>

-----------------------------------------------------------------------------
(***************************************************************************)
(* Executing it.                                                           *)
(***************************************************************************)
Executing(op) == failed = "none" /\ command.op = op
Done == command' = Idle

\* The level that owns what is declared or asserted now.
Owner == IF global THEN 1 ELSE Len(scopes)

\* beginCall initialises the engine.
BeginCall == inited' = TRUE

\* The solver does not read the option.
ExecSetOption ==
    /\ Executing("set-option") /\ ~inited
    /\ Done
    /\ UNCHANGED <<front, settings, failed, resets, scopes, engine, history>>

\* "solver is already fully initialized"
ExecSetOptionRefused ==
    /\ Executing("set-option") /\ inited
    /\ failed' = "engine"
    /\ UNCHANGED <<front, settings, command, resets, scopes, engine, history>>

ExecSetLogic ==
    /\ Executing("set-logic")
    /\ logicKnown' = TRUE
    /\ Done
    /\ UNCHANGED <<front, logicSet, global, failed, resets, scopes, engine, history>>

ExecDeclare ==
    /\ Executing("declare")
    /\ Become(AddModelDeclaration(Bind(Now, command.arg), command.arg))
    /\ scopes' = [scopes EXCEPT ![Owner].decls = @ \cup {command.arg}]
    /\ Done
    /\ UNCHANGED <<settings, failed, resets, engine, history>>

ExecAssert ==
    /\ Executing("assert")
    /\ BeginCall /\ Engine!AddFormula(command.arg)
    /\ scopes' = [scopes EXCEPT ![Owner].names = @ \cup {command.arg}]
    /\ Done
    /\ UNCHANGED <<front, settings, failed, resets, history>>

\* Solver::push and pop call the engine once for each level.
OneLevelDone == command' = IF command.n = 1 THEN Idle ELSE [command EXCEPT !.n = @ - 1]

ExecPush ==
    /\ Executing("push")
    /\ BeginCall /\ Engine!Push
    /\ scopes' = Append(scopes, Empty)
    /\ OneLevelDone
    /\ UNCHANGED <<front, settings, failed, resets, history>>

ExecPop ==
    /\ Executing("pop") /\ command.n < Len(stack)
    /\ BeginCall /\ Engine!Pop
    /\ scopes' = Front(scopes)
    /\ OneLevelDone
    /\ UNCHANGED <<front, settings, failed, resets, history>>

\* "cannot pop beyond first pushed context"
ExecPopRefused ==
    /\ Executing("pop") /\ command.n >= Len(stack)
    /\ failed' = "engine"
    /\ UNCHANGED <<front, settings, command, resets, scopes, engine, history>>

\* A new engine takes the place of the old one.
ExecReset ==
    /\ Executing("reset")
    /\ Become(ResetAll(Now))
    /\ inited' = FALSE /\ Engine!Reset
    /\ scopes' = <<Empty>> /\ spared' = FALSE /\ forgot' = FALSE
    /\ Done
    /\ UNCHANGED <<settings, failed, resets>>

\* Whether (reset-assertions) leaves what was declared or named at the level of
\* the logic, or at the outermost level of the context, and whether it forgets
\* what global declarations keep.
SparesSome == table[1] \ {Builtin} # {} \/ context[2] # Empty
ForgetsSome == \E i \in 3..Len(context) : context[i] # Empty

ExecResetAssertions ==
    /\ Executing("reset-assertions")
    /\ Become(ResetLevels(Now))
    /\ Engine!Reset
    /\ scopes' = <<IF global THEN Head(scopes) ELSE Empty>>
    /\ spared' = IF global THEN spared ELSE SparesSome
    /\ forgot' = (global /\ (forgot \/ ForgetsSome))
    /\ Done
    /\ UNCHANGED <<settings, failed, resets, inited>>

Next ==
    \/ ParseSetLogic \/ ParseSetLogicAgain
    \/ \E b \in OptionValues : ParseGlobalDeclarations(b)
    \/ \E s \in Symbols : ParseDeclare(s)
    \/ \E t \in Names : ParseAssert(t)
    \/ \E n \in 1..2 : ParsePush(n) \/ ParsePop(n)
    \/ ParseReset \/ ParseResetAssertions
    \/ ExecSetLogic \/ ExecSetOption \/ ExecSetOptionRefused
    \/ ExecDeclare \/ ExecAssert \/ ExecPush
    \/ ExecPop \/ ExecPopRefused \/ ExecReset \/ ExecResetAssertions

Spec == Init /\ [][Next]_vars

-----------------------------------------------------------------------------
\* The levels of a front-end stack hold what the levels of the engine own,
\* where everything below the engine's second level counts as its first, of
\* which something may be missing unless it is exact.
Aligned(levels, owned, exact) ==
    LET extra == Len(levels) - Len(owned)
        first == UNION {levels[i] : i \in 1..(extra + 1)}
    IN /\ extra >= 0
       /\ first \subseteq owned[1] /\ (exact => owned[1] \subseteq first)
       /\ \A i \in 2..Len(owned) : owned[i] = levels[extra + i]

Fields(levels, pick(_)) == [i \in DOMAIN levels |-> pick(levels[i])]
NamesIn(levels) == Fields(levels, LAMBDA l : l.names)
DeclsIn(levels) == Fields(levels, LAMBDA l : l.decls)
SymbolsIn(levels) == Fields(levels, LAMBDA l : l.names \cup l.decls)
All(levels) == UNION ToSet(levels)

\* With global declarations everything belongs to the first level.
Shown == IF global THEN <<scopes[1]>> ELSE scopes
Bound == Fields(table, LAMBDA l : l \ {Builtin})

\* Between two commands the symbols that the parser resolves, the names that
\* an unsat core is printed with and the declarations that a model is printed
\* for are those of the engine's open levels, level by level, so that the next
\* (pop n) removes the same things on both sides: after any number of resets
\* and of switches of global declarations, unless the last (reset-assertions)
\* spared something.  When one has forgotten what is still declared, the names
\* and the declarations of the first level may be fewer than the symbols.
ScopesMatch ==
    Ready /\ ~spared =>
      /\ IF global THEN All(stack) \subseteq scopes[1].names ELSE stack = NamesIn(scopes)
      /\ Aligned(Bound, SymbolsIn(Shown), TRUE)
      /\ Aligned(NamesIn(context), NamesIn(Shown), ~forgot)
      /\ Aligned(DeclsIn(context), DeclsIn(Shown), ~forgot)

\* Without global declarations no symbol outlives the level that owns it: what
\* is declared under a logic is bound above the level that the logic opens, so
\* that a pop or (reset-assertions) takes it away.
NothingOutlives == Ready /\ ~global => All(Bound) \subseteq All(SymbolsIn(scopes))

\* The parser throws a ScopeException only for a (pop n) that the engine would
\* refuse as well: no order of push, pop and resets leaves the symbol table
\* with fewer levels than the engine.
RefusedTogether ==
    failed = "parser" /\ command.op = "pop" => command.n >= Len(stack)
=============================================================================
