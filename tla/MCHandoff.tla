----------------------------- MODULE MCHandoff ------------------------------
(* Handoff for TLC. *)
EXTENDS Handoff, TLC

Symmetry == Permutations(Builds)
=============================================================================
