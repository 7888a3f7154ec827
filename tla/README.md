# Ava6 in TLA+

Ava6 is an SMT solver: it decides whether formulas over arithmetic, strings,
bit-vectors, ... have a model, incrementally (`push`, `pop`, `check-sat` over
and over again). One thread does everything, so the hard part of its control is
not concurrency. It is *backtracking*: the SAT solver, the theories, the user
and the resource limit all undo work at different levels, lazily, from inside
callbacks, and every structure in the program has to be back at exactly the
state that the level stands for. This development models the parts that carry
that burden, checks them with TLC and proves the context layer, the CDCL(T)
propagator and the engine's command handling with TLAPS. The mathematics of the
theories is left out.

Paths below are relative to the repository (`src/` here is its root's `src/src`).

## 1. Inventory

| part | state | operations | what can go wrong |
|---|---|---|---|
| `context` | stack of scopes, per scope the objects changed in it; per object a chain of saved copies; regions of memory for the copies | push, pop, make, set, destroy an object; allocate | a version that pop misses, a copy in a region that is gone, an element of a shared array that is overwritten |
| `expr` node pool | hash-consed nodes with 20-bit sticky counts, zombies, maxed-out nodes, attribute tables | make, copy, assign, drop nodes; build; reclaim; destroy the manager | memory freed too early, twice, never; two nodes for one term |
| `prop/cadical` | mirror of CaDiCaL's trail, fixed literals, clause and propagation buffers, activation literals per user level | IPASIR-UP notifications and callbacks; push, pop, solve, resetTrail | literals lost or stale for the theories, clauses that outlive their level, answers before a check |
| `prop` preregistrar | list of atoms with the context level they were registered at | new atom, backtrack, user pop | an atom the theories have forgotten |
| `smt` engine | mode, user levels, pending pops, assertion list and indices | assert, define, push, pop, check (with assumptions), simplify, reset, destroy | four stacks (user context, SAT context, PropEngine, user levels) out of step; formulas handed over twice, too deep or not at all |
| `decision` with `TheoryProxy` and skolem definitions | backtrackable stack over two lists of assertions, cache of values, last decision; queue of literals, active definitions | next decision, new assertion, literal, presolve | stopping the search too early, a stale value, a walk that goes on from the wrong place |
| `theory/uf` equality engine | union-find with class lists, use lists, lookup table, edges with reasons, triggers, sets of shared terms: plain arrays, of which only the sizes are backtrackable | add term, assert (dis)equality or predicate, register trigger or shared term, explain, undo | classes that are not the congruence closure, a trigger that stays silent, an explanation that explains nothing, arrays that are not what they were |
| `theory` engine, combination | facts, flags, shared terms | check, assert fact, lemma, conflict | a fact not checked |
| `parser` symbols | levels of the symbol table and of the symbol manager, logic and declaration flags | parse and execute set-logic, set-option (global declarations on, off), declare, named assert, push, pop, reset, reset-assertions | scopes and engine levels apart |
| theories, rewriter, preprocessing, proof, printer, options, api, util, main | terms, tables, options | term transformations | mathematics and formatting, not order of steps |

How they interact: the API or the parser calls `SolverEngine`, which drives
`ContextManager` and `SmtDriver`/`SmtSolver`; these push and pop the user
context and hand formulas to `PropEngine`; that calls `CadicalSolver`, whose
`CadicalPropagator` CaDiCaL calls back; it pushes and pops the SAT context,
calls `TheoryProxy` (and through it the preregistrar, the theories and the
decision engine) and is called back by them to add clauses and variables.
Every backtrackable field of all these is a context object.

The behaviours that are hard: callbacks that re-enter (a new atom in the middle
of a backtrack, a batch of deletions in the middle of an assignment), lazy undo
(pending pops, copies made at the first write, zombies), state fixed at one
level and used at another (fixed literals after a user pop), interruption at
any point by the resource limit, exceptions in the middle of a check.
`PROJECT.json` lists them under `hazards`, each at its line.

## 2. Modules

| module | models | specification above it |
|---|---|---|
| `Context` | `Context`, `Scope`, `ContextObj`, `CDO` | `ContextStack`: every push takes a snapshot of all objects |
| `ContextMemoryManager` | `ContextMemoryManager` | - |
| `CDQueue` | `CDQueue` over `CDList` | `QueueStack`: a queue and a stack of its snapshots |
| `CDHashMap` | `CDHashMap`, `CDOhash_map` | `MapStack`: a map with its order and a stack of its snapshots |
| `CadicalPropagator` | `CadicalPropagator`, `CadicalSolver`, `TheoryPreregistrar` | the clauses given (`Given`) against the clauses guarded by activation literals |
| `SolverEngine` | `SolverEngine`, `ContextManager`, `SmtDriver`, `Assertions`, `SolverEngineState` | `AssertionStack`: a stack of sets of formulas |
| `NodeManager` | `NodeManager`, `NodeValue`, `NodeBuilder`, `Node`, `AttributeManager` | - |
| `EqualityEngine` | `eq::EqualityEngine` | the congruence closure of the literals in force (`Closure`), and a snapshot of the engine at each push |
| `JustificationStrategy` | `JustificationStrategy`, `JustifyCache`, `JustifyStack`, `AssertionList`, the parts of `TheoryProxy`, `SkolemDefManager` and `cb_decide` that drive it | the semantics of the assertions |
| `SymManager` | `SymManager`, `SymbolTable`, `Smt2State`, the commands, the driver's loop | composed with `AssertionStack`, which `SolverEngine` implements |
| `ContextProofs`, `ContextMemoryManagerProofs`, `CadicalPropagatorProofs`, `SolverEngineProofs`, `NodeManagerProofs`, `SymManagerProofs` | TLAPS proofs about the modules they extend | |
| `CDStructureProofs` | TLAPS proofs about `CDQueue`, which it extends, and `CDHashMap`, which it instantiates as `Map` | |
| `Filter` | the loops that erase from a vector or list (`Only`) | |
| `SequenceLemmas` | facts about prefixes, appends, fronts and `Only` that the proofs share | |

The `MC*` modules hold the constants of the TLC instances. Definitions whose
comment calls them a mutant are plausible mistakes in the definition that follows
them; no action uses them. They show that each property notices a mistake.

Two modules have a constant `Instances`, a set of records with the bounds and
data of an instance, and a variable `instance` that the initial state chooses and
no step changes. A run then explores several instances that stress different
parts of one component, instead of their much larger product.

### Context
`scopeList[l+1]` is the linked list of `Scope` *l*, `scope[o]` and `data[o]` are
the object itself and `saved[o]` the chain behind `d_pContextObjRestore`, each
copy with the memory region it was allocated in. `Push`, `Pop` (with `~Scope`
and `restoreAndContinue` for exactly the objects of the top list), `Create`
(link into the bottom scope, then `makeCurrent`), `Set` (`makeCurrent`/`update`)
and `Destroy` are the operations.

### ContextMemoryManager
Chunks are model values, positions are a chunk and an offset. `NewData(size)` cuts
a block or takes a chunk, `Push` saves the position, `Pop` releases the chunks
taken since and trims the free ones to the limit. `blocks` is a ghost: what
callers hold. `malloc` (`Unused`) is external.

### CDQueue, CDHashMap
One object each in a context of which only the level is kept: module `Context`
shows that an object's versions are saved and restored, so these start from that.
The queue's versions share one array: a version is three indices, and a dequeue
that empties the queue reuses the cells since the last save. The map saves
nothing itself; an element knows from its first saved version that it has to
leave the map.

### CadicalPropagator
Literals are integers. CaDiCaL is external and modelled as what IPASIR-UP lets it
do: decide any unassigned literal (assumptions, that is the activation
literals, first), propagate any unit clause, fix any entailed literal, backtrack
to any level, ask for the reason of a propagation or for external clauses, end
with a full model, with unsatisfiable clauses, or at a resource limit. We assume
of CaDiCaL what the propagator's code and comments rely on: an assignment is
notified once; units are learned after a backtrack, so never while a found
solution stands; a solve returns only after all buffered clauses and propagations
were imported, unless the clauses are inconsistent without assumptions, after
which nothing more is fixed; reasons are requested when a propagation is used.
Notifications are sent at once instead of in batches before the next callback;
since a backtrack may follow before any callback, no order of calls is lost.
`TheoryProxy` and the theories behind it are over-approximated: a check adds any
clause from a small set, any new atom, any propagation whose explanation uses
literals they have seen, or nothing.
Left out: `d_false`, phases, the forgettable flag of clauses, statistics; the call of
`theoryNeedCheck` in `done()` (without pending clauses the loop of
`cb_check_found_model` ends only when the same call has just said no); the test for
an empty clause in `add_clause`, which no caller gives.

That a solve returns with empty buffers is such an assumption about CaDiCaL, a guard
of `EndUnsat` and `EndUnknown`. So `SearchReset` checks that no found solution
outlives its search and that nothing is queued while the trail is undone; it does not
check what CaDiCaL has imported before it returns. `TrailMirrored` is one direction:
what the propagator reports is CaDiCaL's value. The other one does not hold,
see `MCPropagatorPartial.cfg` below.

`seen` and `checked` are what has been enqueued for and drained by the theories
at each level of the SAT context, `registered` the atoms they were told of.
`inputs` and `lemmas` are ghosts: the clauses that the open levels stand for (a
lemma is valid as long as its variables exist, with proofs only as long as its
proof does). Whether proofs are produced is part of the initial state. The loops that erase
from a vector (`user_pop`, `notify_backtrack`) are the function `Only` of module
`Filter`, recursive in the length of the sequence, which the proofs can reason about.

### SolverEngine
`st` is the state of the engine and the objects it drives; the helper operators
carry the names of the methods they model, and an action composes them in the
order of the calls. A check is one step with any result, or an interruption
(`CheckSatOut`), or an exception in the middle (`CheckSatThrows`), after which the
engine is only destroyed: an exception of that kind is not recoverable through the
API. Preprocessing and solving are external.

### NodeManager
A `dec()` may start a batch of deletions in the middle of whatever operation made
it. So an operation is split there: `decs` holds the calls that are still to be
made, `after` what is done then, and the steps of a batch (`reclaiming`, `batch`)
run in between. The destructor with its topological sort is modelled step by
step. `Node`s are counted handles, a `NodeBuilder` and a table of Node-valued
attributes hold references as well. The destructor drops its own `Node`s in any
order: which node each of its members holds is not modelled.

### EqualityEngine
`e` is a record of the engine's arrays; the operators on it have the names of
the methods. A call of the owner (`AddTerm`, `AssertEquality`, `AssertDisequality`,
`AssertPredicate`, `AddTriggerPredicate`, `AddTriggerTerm`) is split at its loops:
`calls` holds what is still to be done, and each round of the propagation queue and
each notification is a step. Every notification may be refused by the owner, which
sets `done` as in the code. `Push` saves the engine as a ghost; `Pop` is
`contextNotifyPop`, that is `backtrack()`, which undoes merges, trigger sets,
triggers, lookups, use lists and nodes in the code's order.
Left out: interpreted functions with the evaluation queue, proof objects, the
currying of applications with several arguments (the code turns them into unary
ones, which is what the model has), calls made by the owner from inside a
notification, the heads of the edge lists.

### JustificationStrategy
A node is a formula and a polarity. `s` is what depends on the SAT context (stack,
child indices, cache, last decision, indices of the lists, queue of literals,
active definitions) and `saved` its snapshots, as `ContextStack` promises; the
lists themselves are in the user context. `getNext` is a loop inside callbacks of
the SAT solver: one step per pass (`step`), and `caller` is who waits for it. The
SAT solver is external: it assigns any literal that makes no formula false,
decides what it is asked to, and backtracks or is interrupted at any time. A full
effort check accepts the model, or rejects it with a lemma, or for a reason that
is not the heuristic's (pending clauses, the reason of a propagation, a new variable).
Left out: `d_dlist` (both lists are made with `useDyn = false`, so nothing ever
fills it), the theories' own decision requests, a definition that becomes known
only after a literal with its skolem was handled.

### SymManager
A command is parsed (`Parse...`) and then executed (`Exec...`), and the next one is
parsed after that, as in the driver's loop. The parser pushes and pops the levels
of the symbol table and of the symbol manager; the execution changes the engine,
which is module `AssertionStack`. `scopes` is the reference: what each open level of
the engine owns. The driver stops at the first command that fails (`failed`).
`(set-option :global-declarations b)` is obeyed by the parser at any time, and refused
when it is executed if the engine is initialised (`inited`), which stops the driver.
Two history variables tell the known exceptions apart: `spared`, the last
`reset-assertions` left something bound at the level of the logic or named at the
outermost level of the symbol manager; `forgot`, one with global declarations removed
names and declarations of symbols that stay. `Shown` is what the levels should hold:
with global declarations one level with everything.
Left out: scopes of binders, overloading, sorts, names of inner terms, logics
forced by an option, the option `fresh-declarations`, solvers that are not
incremental (`Solver::push` and `pop` then refuse, `ava6.cpp` 6160 and 6194, and the
driver stops), going on after an error.

## 3. Runs

Every run ends within the bounds named in its `.cfg`; the bounds sit in the guards.

| run | checks | bounds and why they are enough |
|---|---|---|
| `context` | `ChainsExact`, `VersionsOrdered`, `CopiesLive`, and that lazy copies implement eager snapshots (`RestoresEverything`) | 2 objects, 2 values, 3 levels: a version in every scope or in some, in every combination, and two objects out of step. Proved for all bounds |
| `regions` | blocks in use never overlap and are in chunks that are not free; no chunk is owned twice | 5 chunks of 2 bytes, 1 free chunk kept, 3 regions: a region that spans several chunks, trimmed and not, and chunks used again. Proved for all bounds |
| `queue` | `VersionsNested`, and the queue implements `QueueStack` | array of 4, 3 levels, 2 elements: runs empty at and above the last save, at every depth. Proved for all bounds |
| `hashmap` | the map implements `MapStack`, order of iteration included | 2 keys, 2 data, 3 levels: inserted in one scope, changed in others, popped through all. Proved for all bounds |
| `propagator` | trail, buffers, registration and flags during a search and after it; clauses, fixed literals and theories across user levels | instance `Search`: 3 variables, 1 user level, 2 decisions besides the assumption, 2 clauses: fixed literals above and below the backtrack level, a lemma against an open trail, an early stop that is withdrawn. Instance `Levels`: 5 variables, 2 nested levels, 1 clause, with and without proofs: fixed at one level, popped, notified again in another and popped again. Proved for all instances |
| `engine` | levels, hand-over, destruction, and that the engine implements the assertion stack | 2 formulas, 1 global definition, 2 user levels besides those of the assumptions, 4 list entries. Proved for all bounds |
| `nodes` | no use after free, exact counts, zombies accounted for; destruction frees everything and ends | 3 nodes, counts up to 4, batches above 1 zombie: revived, reclaimed in the middle of every operation, maxed out. Instance `Chains`: arity 1, a constant, an attribute. Instance `Dags`: arity 2, shared children. Safety proved for all bounds |
| `equality` | `ClassesExact`, `Explained`, `TriggersTold`, `SharedTold`, `PopRestores` | 2 variables, 2 constants, 3 equalities, a unary predicate, two theories that share two terms, 3 literals, triggers and shared terms in force, 1 level pushed and popped over and over (416,000 states): a congruence found through a merge, a trigger on a merged class, a disequality between shared classes, each undone and done again another way |
| `equality_constant` | violated: the id of a term is asked for that was not added | see findings |
| `justification` | `CacheExact`, `StopsSatisfied`, `SolutionJustified`, `WalkInOrder`, `CallsEnd` | 3 atoms, every connective, shared subformulas, a skolem definition, a lemma, 2 decision levels, 1 user level (263,000 states): values cached at one level and used at another, a backtrack in the middle of a walk, a definition activated by the full effort check |
| `symbols` | `ScopesMatch`, `RefusedTogether` | 2 symbols, 2 names, 4 levels, `push`/`pop` of 1 or 2 levels, up to four `reset` or `reset-assertions`, global declarations switched on and off at any time (477,000 states): every combination of the flags that outlive a reset, and a reset after what it left. Proved for all bounds |
| `symbols_reset` | `NothingOutlives`, violated: with two resets, the option never used, a symbol outlives the level that owns it | see findings |

`nodes`, `engine` and the runs of `symbols` do not check deadlock: the manager and the
engine stop when they are destroyed, the driver at the first command that fails.

Fairness is assumed twice, for the same reason: the one thread runs an operation
it has started to its end. `NodeManager` has weak fairness for the internal steps of
an operation (`DestroyEnds`: the destructor terminates, with everything freed), and
`JustificationStrategy` for the passes of `getNext` and the end of the callback that
waits for it (`CallsEnd`: every call returns). Nothing else is assumed to
happen: a user need not issue a command, CaDiCaL need not end.

### Findings
* `equality_constant`: `assertEqualityInternal` adds both sides and then asks for both
  ids. Adding the first side can end in a conflict between constants, after which
  `addTermInternal` of the second returns at once; the id that is asked for next does
  not exist, which the code's own assertions exclude.
* `symbols_reset`: `reset` throws the outermost scope of the symbol table away, and
  `setLogic` does not open it again because the symbol manager still counts the logic
  as set. What is declared then is bound at level 0, and a following
  `reset-assertions` leaves it bound. The option is a second way, with one reset:
  `(set-option :global-declarations true)(set-logic ALL)`
  `(set-option :global-declarations false)(declare-const x Int)(reset-assertions)` is
  accepted, and `x` stays bound: while the option is on `pushScope` opens no level
  (`sym_manager.cpp` 456), and the logic counts as set afterwards. `ScopesMatch`
  excludes both by `spared`; with `OptionValues = {FALSE, TRUE}` the configuration
  `MCSymManagerReset.cfg` finds a variant of the second one, with the option switched
  off after the declaration.

Three more configurations are violated in the same way and are kept beside the runs
(`tlc -config MCPropagatorPartial.cfg MCCadicalPropagator` and so on):
* `MCPropagatorPartial.cfg` (`FullModelChecked`; `cdclt_propagator.cpp` 43, 146, and the
  comment in `cdclt_propagator.h` 77): while an early-stopped model counts as a
  solution, `notify_assignment` drops assignments; a backtrack that withdraws the
  solution keeps some of them in CaDiCaL, which does not repeat them. The next full
  model is accepted although the theories never saw those atoms.
* `MCPropagatorReject.cfg` (`RejectionExplained`; `cdclt_propagator.cpp` 258 and the
  comment at 231): `cb_check_found_model` has three reasons to reject a model for want
  of something new; two of them buffer a tautology because CaDiCaL wants a clause, the
  branch for a variable made by a theory decision does not.
* `MCSolverEngineModel.cfg` (`ModelCurrent`; `solver_engine.cpp` 844 and the text of the
  error at 629): after `check-sat` and then `assert` (or `reset-assertions` without
  user levels) the engine still says that a model is available, although the trail
  behind it was reset.

Observations without a run: `ContextManager::userPush` and `userPop` call
`notifyUserPop` and `notifyUserPush` the wrong way round, which only swaps the
texts of two errors, since both set the same mode; the branch of `user_pop` that keeps a fixed variable of a
lower level in `d_active_vars` is dead, since a popped variable is never of a
lower level; `getAssertions` does not process pending pops, so that after
`check-sat-assuming` it lists the assumptions too, which a regression test
expects. In the parser: `reset-assertions` before any `set-logic` puts the
symbols of the logic into a level that a second `reset-assertions` removes; names and
model declarations made between two `reset-assertions` outlive the second;
with global declarations `reset-assertions` forgets names and model declarations that
stay bound, also when the option is switched off again afterwards (`forgot`), and
`reset` keeps the option; `popScope` may pop to level 0, although
its comment stops at level one. In the heuristic a comment says that main
assertions are used first, the code uses local ones first. Another one
(`justification_strategy.cpp` 235-237) says that, `i == 0 || lastChildVal !=
SAT_VALUE_UNKNOWN`, "does not hold when backtracking has occurred". `WalkInOrder`
says that it does hold after any backtracking, and the run agrees: `getNextInternal`
starts the assertion anew when the last decision has lost its value (81-93), and the
assertions at 346, 390 and 402 need the value.

## 4. Proofs

Every theorem below holds for all values of the constants. Each rests on an
inductive invariant `IInv` of its module, with one lemma per action, and TLC has
checked that invariant on the run's instance.

### Context (`ContextProofs`)
* `ContextTypeCorrect`, `ContextSafe` (`ChainsExact`), `ContextVersionsOrdered`,
  `ContextCopiesLive`. `ChainsExact` is not inductive alone: that a pop gives every
  object in the top list its previous version needs copies strictly ordered below
  the object's scope (`VersionsOrdered`). `IInv` is the conjunction of the four.
* `ContextRefines`: `Spec => RestoresEverything`. The refinement maps an object to
  what each open level will show; the lemmas say how that changes when a version is
  appended (`SetShown`) or dropped (`PopShown`).

### Region allocator (`ContextMemoryManagerProofs`)
* `RegionsTypeCorrect`, `RegionsSafe` (`BlocksDisjoint`), `RegionsHoldBlocks`,
  `RegionsOwnChunksOnce`. Disjointness is not inductive: a new block is disjoint from
  the others because they all lie below `d_nextFree`, and a pop keeps that because
  the blocks of the remaining regions lie below the position saved when their region
  was left. So the invariant adds that saved positions are valid, ordered, and above
  the blocks of their regions (`Valid`, `Ordered`, `AllBelow`), and that chunks are
  distinct (`Owned`).

### Queue (`CDStructureProofs`)
* `QueueVersionsNested`, and `QueueRefines`: `Spec => RestoresQueue`. The versions share
  one array, so the refinement holds only because no dequeue disposes of a cell below
  `lastsave`, and every saved version's size is at most the `lastsave` of the later
  ones. That is `VersionsNested`, which with `TypeOK` is inductive.

### Map (`CDStructureProofs`)
* `MapRefines`: `Map!Spec => Map!RestoresMap`. The invariant says of every element that its
  versions go up strictly from scope 0 and that only the first may be outside the map.
  So a restore that uncovers a version outside the map is the one of the scope in
  which the element was made, and the element shows nothing at any level below. The
  order of iteration needs how erasing composes (`OnlyAppend`, `OnlyOnly`, `OnlySame`).

### Propagator (`CadicalPropagatorProofs`)
* `PropagatorTypeCorrect`, `PropagatorTrailMirrored`, `PropagatorAtomsRegistered`,
  `PropagatorTheoryInSync`, `PropagatorSatAnswerChecked`, `PropagatorSearchReset`,
  `PropagatorFixedJustified`, `PropagatorNotTooStrong`, `PropagatorNotTooWeak`: every
  invariant of the run `propagator`.
* `PropagatorUnsatRight` and `PropagatorSatRight`: `solve` answers unsat only if the
  clauses of the open user levels have no solution, and sat only with an assignment
  that satisfies them all. These are what the invariants are for.

One invariant carries all of them, since each part needs others:
  * `Typed`, `Modes`: what the flags of a search say of the buffers and of the SAT
    context (a found solution stands only with empty buffers).
  * `Levelled`: `d_active_vars` is ordered by user level, cut at
    `d_active_vars_control`; without it a pop could deactivate a variable of a level
    that stays.
  * `Trailed`: `d_assignments` cut at its control marks is ordered by decision level
    *except for fixed literals*, which the propagator moves out of order; this is what
    a backtrack relies on.
  * `Registered`, `Told`: what the theories know at *every* level of the SAT context,
    not only at the current one, since a backtrack brings any of them back.
  * `Guards`: a stored clause is one that is still given, with the activation
    literal of its level, or contains the activation literal of a popped level; and every
    clause that is given is stored or true by a fixed literal.
  * `Justified`: a fixed literal of the problem follows from the clauses without
    activation literal, which no pop takes back.

  `Assumes`, used for `PropagatorSatRight` only: decision level *j* holds the *j*-th
  activation literal false, also after backtracks, so that an accepted model
  satisfies the guarded clauses themselves and not only their guards.

### Engine (`SolverEngineProofs`)
* `EngineTypeCorrect`, `EngineLevelsAgree`, `EngineHandedOver`, `EngineShutdownUnwinds`,
  and `EngineRefines`: `Spec => AnswersRight`, the engine implements `AssertionStack`.
  The invariant tells three situations apart: an engine that lives, one that an
  exception broke in the middle of a check (which is only destroyed), and one that is
  destroyed. For the first it relates the four stacks with the pending pops counted
  in, and says for each level which formulas of the list were handed over there.

### Node pool (`NodeManagerProofs`)
* `NothingDangles` (`NoDangling`), `CountsExact` (`RefCountExact`), `ZombiesKnown`
  (`ZombiesAccounted`), `NodeTypeCorrect`, and `DestructorFreesAll`: when
  `~NodeManager` has ended, no node is left. The first three and the last are the
  safety of `DestroyEnds`; that the destructor ends stays with TLC.

`References` counts sets of places in the heap, so the proofs begin with counting
lemmas (occurrences in a sequence, places among children, entries of the attribute
table). None of the properties is inductive alone. The invariant `IInv` adds:
  * `Exact`: besides the counts, that nothing refers to what is freed.
  * `Older`: children have smaller ids than their parents, so there is a greatest
    node in any set that is left.
  * `Kept`: what an operation is going to wrap when its calls of `dec()` are over is
    kept by a `Node` object, or it keeps itself what is released, and then none of
    these calls can start a batch. This is why `constructNV` may release the children
    before it counts the zombie that it found.
  * `Accounted`: a batch holds unreferenced nodes and shares none with `d_zombies`.
  * `Searching`: the depth-first search. An open node (pushed again for its second
    visit) is greater than all that is above it on the stack, and its children are
    visited or above it; what is finished has finished children.
  * `Ordered`: for each element of the order there is a set, closed under children,
    that contains the element and none of the later ones. It does not depend on the
    counts, so it survives the batches of the final loop. With it the last element has no parent: the
    greatest node outside the sets of the others has no reference left, so it would be
    a zombie unless it is maxed out, and then it is that element (`TopMaxed`, `LastOnTop`).

### Front end (`SymManagerProofs`)
* `RefusalsAgree` (`RefusedTogether`): the symbol table never has fewer levels than
  the engine, so `popScope` throws only where the engine refuses as well.
* `ScopesAgree`: `Spec => []ScopesMatch`, for any number of resets and of switches of
  the option. `spared` in `ScopesMatch` is not more than it has to be: it is set only by a
  `reset-assertions` without global declarations that leaves something, and the next
  one that leaves nothing, or a `reset`, clears it.
* `FirstResetSpares`: if the script never switches the option off (it may switch it on,
  or have it from the command line), `Spec => [](resets <= 1 => ~spared)`. With
  `ScopesAgree`: the two sides agree without exception until the second reset. Both
  hypotheses are needed, as the two scripts under findings show.

Between parsing and execution the front end is ahead of the engine, so `ScopesMatch`
says nothing there and is not inductive. The invariant compares the front end with
`Ahead`, what the levels of the engine will own when the command at hand is done
(`Matches`: `Fits`, level by level, exact unless `forgot`). `Levels` (which of the
stacks is deeper, with or without a match), `Owned` (the engine's assertions are those
its levels own), `Quiet` (nothing is pushed or declared before the logic is set) and
`Fresh` (nothing is pushed or asserted before the engine is initialised, so that a
switch of the option that is not refused finds one level) hold whatever is spared and
carry `RefusalsAgree`. `Outermost` says that until a reset is executed the level that
`setLogic` opens is in place, or global declarations are on, which is why the first
`reset-assertions` finds nothing where it spares.

The assumptions are those named in the modules: bounds are natural numbers, a value
exists, chunks have a positive size, the instances are records of the right types
(`InstancesAssumption`), the symbols of the logic are none of those that are declared
(`BuiltinAssumption`), an option is TRUE or FALSE (`OptionAssumption`). TLC evaluates them in the runs. The invariants
and refinements of the parts that are external or over-approximated (CaDiCaL, the theories, preprocessing) are
assumed in the way their actions are written, see section 2.

The prover has no usable induction over data. Where an argument needs one (the erase
loop `Only`, the first element with a property), it is made with the least natural number that
violates the claim (`SequenceLemmas!LeastNat`).

Only model-checked: `EqualityEngine` and `JustificationStrategy`. `DestroyEnds` and `CallsEnd` are liveness and out of reach of the prover;
so is what the recursive functions `Closure` and `Explanation` compute for every input.
The `TypeOK` of the modules without a theorem describe their state and are what a
proof will start from; the runs spend their properties elsewhere.

## 5. Not modelled

Theory solvers, rewriter, preprocessing passes, proof construction, printing,
options and API wrappers: term algebra, tables and formatting (reasons per part in
`PROJECT.json`). The proof tracer only records what CaDiCaL reports. `NodeManager`
leaves out the lifetime of types and of the other attribute tables, which hold
references in the same way; `TNode`s are left out because they hold none.
`SolverEngine` leaves out options, models, cores, quantifier elimination and
other queries that only read.

## 6. Plan

Order of work, most important first:

1. done: `Context` and its refinement, checked and proved; the allocator, checked
   and proved; `CadicalPropagator`; `SolverEngine`; `NodeManager`; `CDQueue`,
   `CDHashMap`; `EqualityEngine`; the parser's scopes composed with the engine;
   `JustificationStrategy`.
2. Proofs. Done: `Context`, the allocator, `CDQueue`, `CDHashMap`,
   `CadicalPropagator`, `SolverEngine`, `NodeManager`, `SymManager`.
3. The queries of `SolverEngine` (values, cores, unsatisfiable assumptions): the
   lazily built and cached model of `ModelManager` (`d_modelBuilt`), and the fast
   path of `getValue` that reads the SAT trail instead.
4. The check loop of `TheoryEngine` with interruption, and the circuit propagator.
