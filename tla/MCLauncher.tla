----------------------------- MODULE MCLauncher -----------------------------
(* Launcher for TLC. *)
EXTENDS Launcher

\* A Blender, a verifier or a helper that does not react to SIGTERM, a Blender
\* that dies without its own cleanup, a CLI that is killed from outside.
Faults == [resists : SUBSET Group, crash : BOOLEAN, killed : BOOLEAN]

\* The same, and nobody kills the CLI but the supervisor.
OwnFaults == [resists : SUBSET Group, crash : BOOLEAN, killed : {FALSE}]
=============================================================================
