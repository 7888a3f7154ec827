------------------------------ MODULE MCContext ------------------------------
(* Model-checking instance of Context. *)
EXTENDS Context, TLC

CONSTANTS o1, o2, v0, v1

MCObj == {o1, o2}
MCVal == {v0, v1}

Symmetry == Permutations({o1, o2})
=============================================================================
