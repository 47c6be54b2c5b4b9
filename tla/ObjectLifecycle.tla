--------------------------- MODULE ObjectLifecycle ---------------------------
(***************************************************************************)
(* What the service promises about one stored object version: once it is   *)
(* published it stays until its build is deleted, and only a version that  *)
(* nobody can publish any more is removed, once and for all.               *)
(***************************************************************************)
VARIABLE phase

\* The build of the version is active; its upload comes first or not at all.
Init == phase = "none"

Store   == phase = "none" /\ phase' \in {"stored", "released"}
Publish == phase = "stored" /\ phase' = "published"

\* Its build ended without it, or was deleted.
Release == phase \in {"stored", "published"} /\ phase' = "released"

Remove  == phase = "released" /\ phase' = "gone"

Next == Store \/ Publish \/ Release \/ Remove

Spec == Init /\ [][Next]_phase

===============================================================================
