----------------------- MODULE MCJustificationStrategy -----------------------
(***************************************************************************)
(* A TLC instance of JustificationStrategy: every connective, shared       *)
(* subformulas, an assertion that is split, and an atom p with a skolem    *)
(* whose definition is only of use when p is asserted.                     *)
(***************************************************************************)
EXTENDS JustificationStrategy

Pos(f) == <<f, TRUE>>
Neg(f) == <<f, FALSE>>
Op(kind, args) == [kind |-> kind, args |-> args]

MCFormula ==
    [ab   |-> Op("AND", <<Pos("a"), Neg("b")>>),
     top  |-> Op("OR", <<Pos("ab"), Pos("p")>>),
     x    |-> Op("XOR", <<Pos("ab"), Pos("b")>>),
     imp  |-> Op("IMPLIES", <<Pos("x"), Neg("a")>>),
     both |-> Op("AND", <<Pos("top"), Pos("imp")>>),
     def  |-> Op("ITE", <<Pos("p"), Pos("b"), Neg("a")>>),
     lem  |-> Op("EQUAL", <<Pos("b"), Neg("x")>>)]
MCInputs == <<Pos("both"), Pos("def")>>
MCDefinitions == {Pos("def")}
MCLemmas == {Pos("lem")}
MCNeeds == [a |-> {}, b |-> {}, p |-> {Pos("def")}]
=============================================================================
