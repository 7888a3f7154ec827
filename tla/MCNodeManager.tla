--------------------------- MODULE MCNodeManager ----------------------------
(***************************************************************************)
(* TLC instances of NodeManager: one with constants and attributes and     *)
(* unary operators, one where nodes share children.                        *)
(***************************************************************************)
EXTENDS NodeManager

CONSTANT c

Chains == [constants |-> {c}, arity |-> 1, attrs |-> 1]
Dags == [constants |-> {}, arity |-> 2, attrs |-> 0]

ChainsAndDags == {Chains, Dags}
=============================================================================
