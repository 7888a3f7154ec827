------------------------ MODULE MCCadicalPropagator ------------------------
(***************************************************************************)
(* Instances for the runs: one for searches, with decisions, and one for   *)
(* nested user levels, with and without proofs.  Whether a variable is an  *)
(* atom, an activation literal or belongs to an inner level depends on the *)
(* history; in Levels variable 4 may belong to a level that has variable 3 *)
(* as its activation literal, with variable 2 outside of it.               *)
(***************************************************************************)
EXTENDS CadicalPropagator

Search == [proofs |-> {FALSE}, pool |-> {{2}, {-2, 3}},
           vars |-> 3, levels |-> 1, decisions |-> 2, clauses |-> 2]
Levels == [proofs |-> BOOLEAN, pool |-> {{2}, {2, -4}},
           vars |-> 5, levels |-> 2, decisions |-> 0, clauses |-> 1]
Single == [proofs |-> {FALSE}, pool |-> {{2}, {-2, 3}},
           vars |-> 3, levels |-> 0, decisions |-> 2, clauses |-> 1]

SearchAndLevels == {Search, Levels}
SingleLevel == {Single}
=============================================================================
