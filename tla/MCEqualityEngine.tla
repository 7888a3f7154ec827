-------------------------- MODULE MCEqualityEngine --------------------------
(***************************************************************************)
(* TLC instances of EqualityEngine.  The first has variables a and b, the  *)
(* constants k1 and k2, a predicate p and equalities.  The second has a    *)
(* function whose application to a constant is a constant, as a store or a *)
(* constructor is.                                                         *)
(***************************************************************************)
EXTENDS EqualityEngine

Eq(a, b) == [type |-> "EQUALITY", a |-> a, b |-> b]
Fun(f, a) == [type |-> "UNINTERPRETED", a |-> f, b |-> a]

MCLeaves == {"true", "false", "a", "b", "k1", "k2"}
MCOperators == {"p"}
MCConst == {"true", "false", "k1", "k2"}
MCApp == [pa |-> Fun("p", "a"), pb |-> Fun("p", "b"),
          ab |-> Eq("a", "b"), ak |-> Eq("a", "k1"), bk |-> Eq("b", "k2")]

ConstantLeaves == {"true", "false", "a", "b", "k", "l"}
ConstantOperators == {"f"}
ConstantConst == {"true", "false", "k", "l", "fk"}
ConstantApp == [fa |-> Fun("f", "a"), fk |-> Fun("f", "k"),
                ak |-> Eq("a", "k"), fal |-> Eq("fa", "l"), fkb |-> Eq("fk", "b")]
=============================================================================
