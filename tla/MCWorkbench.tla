----------------------------- MODULE MCWorkbench -----------------------------
(* Workbench for TLC: each preview fits into the budget, both do not. *)
EXTENDS Workbench, TLC

CONSTANTS m1, m2
Prices == (m1 :> 1) @@ (m2 :> 2)
=============================================================================
