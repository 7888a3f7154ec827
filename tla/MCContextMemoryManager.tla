---------------------- MODULE MCContextMemoryManager ------------------------
(***************************************************************************)
(* TLC instance of ContextMemoryManager.  Chunk addresses are only         *)
(* compared for equality.                                                  *)
(***************************************************************************)
EXTENDS ContextMemoryManager, TLC

Symmetry == Permutations(Chunks)
=============================================================================
