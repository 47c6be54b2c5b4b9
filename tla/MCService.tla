------------------------------ MODULE MCService ------------------------------
(***************************************************************************)
(* Model-checking instance of Service.                                     *)
(***************************************************************************)
EXTENDS Service, TLC

\* Workers run the same program, and builds are interchangeable.
Symmetry == Permutations(Workers) \union Permutations(Builds)

===============================================================================
