------------------------------- MODULE Filter -------------------------------
(***************************************************************************)
(* Erasing from a sequence while walking over it: the loops of the code    *)
(* that keep some elements of a vector or list, in their order.  A         *)
(* function that is recursive in the length, which TLC evaluates and       *)
(* the proofs can reason about.                                            *)
(***************************************************************************)
EXTENDS Integers, Sequences

\* The elements of the sequence s that are in S, in their order.
Only(s, S) ==
    LET f[i \in 0..Len(s)] ==
          IF i = 0 THEN << >>
          ELSE IF s[i] \in S THEN Append(f[i - 1], s[i]) ELSE f[i - 1]
    IN f[Len(s)]
=============================================================================
