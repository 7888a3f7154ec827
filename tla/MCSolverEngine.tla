--------------------------- MODULE MCSolverEngine ---------------------------
(***************************************************************************)
(* Two formulas and one global definition; formulas are interchangeable.    *)
(***************************************************************************)
EXTENDS SolverEngine, TLC

CONSTANTS f1, f2, d1

MCFormulas == {f1, f2}
MCDefinitions == {d1}
MCSymmetry == Permutations(MCFormulas)
=============================================================================
