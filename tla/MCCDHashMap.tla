---------------------------- MODULE MCCDHashMap -----------------------------
(***************************************************************************)
(* TLC instance of CDHashMap.  Keys and data are interchangeable: the map  *)
(* only compares keys, and never looks at data.                            *)
(***************************************************************************)
EXTENDS CDHashMap

Symmetry == Permutations(Keys) \cup Permutations(Data)
=============================================================================
