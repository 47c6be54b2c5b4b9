----------------------------- MODULE MCEvidence -----------------------------
(* Evidence for TLC: revisions are interchangeable. *)
EXTENDS Evidence, TLC

Symmetry == Permutations(Revisions)
=============================================================================
