---------------------------- MODULE MCRepository ----------------------------
(***************************************************************************)
(* Model-checking instance of Repository: the store alone, called by       *)
(* anybody in any order.                                                   *)
(***************************************************************************)
EXTENDS Repository, TLC

\* Builds are interchangeable.
Symmetry == Permutations(Builds)

=============================================================================
