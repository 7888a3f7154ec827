---------------------------- MODULE MCSymManager ----------------------------
(***************************************************************************)
(* TLC instances of SymManager.  Symbols and names are interchangeable.    *)
(***************************************************************************)
EXTENDS SymManager

Symmetry == Permutations(Symbols) \cup Permutations(Names)
=============================================================================
