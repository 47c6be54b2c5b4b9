---------------------------- MODULE MCMaintenance ----------------------------
(***************************************************************************)
(* Model-checking instance of Maintenance.                                 *)
(***************************************************************************)
EXTENDS Maintenance, TLC

\* Objects of a build, builds, and processes of a kind are interchangeable.
Symmetry == Permutations(Builds) \union Permutations(Objects)
                \union Permutations(Deleters) \union Permutations(Scanners)

===============================================================================
