--------------------------- MODULE LauncherProofs ---------------------------
(***************************************************************************)
(* Proofs about Launcher, for every set of fault models: what is left when *)
(* the CLI exits and execute returns, and what a published directory is.   *)
(*                                                                         *)
(* The supervisor knows the tree from /proc and may miss what lost its     *)
(* parent; the CLI knows the session and leaves its guard only when that   *)
(* is empty.  So the invariant follows the CLI: what it left is empty, and *)
(* a process can only be left by a CLI that was killed.                    *)
(***************************************************************************)
EXTENDS Launcher, TLAPS

States == {"none", "run", "frozen", "dead"}
Parents == {"none", "supervisor", "cli", "runner", "init"}
CliPlaces == {"begin", "spawn", "wait", "term", "after", "validate", "rename", "rmdir",
              "unwind", "exited"}
Codes == {"none", "ok", "failed", "signal", "timeout", "killed"}
Steps == {"generate", "verify", "waiting", "manifest", "publish", "exit"}
Over == {"joined", "returned", "cleaned"}
SupPlaces == {"idle", "polling", "scanning", "freezing", "signalling", "grace"} \cup Over
Reasons == {"none", "completed", "timed_out", "canceled", "lease_lost", "raised"}

Typed ==
  /\ sup \in [pc : SupPlaces, why : Reasons]
  /\ seen \subseteq Processes /\ fresh \subseteq Processes
  /\ proc \in [Processes -> States]
  /\ parent \in [Processes -> Parents]
  /\ cli \in [pc : CliPlaces, code : Codes, got : BOOLEAN]
  /\ runner \in [step : Steps, ok : BOOLEAN]
  /\ faults \in [resists : SUBSET Group, crash : BOOLEAN, killed : BOOLEAN]

\* The CLI runs from its start until it exits or is killed, and while the
\* supervisor still waits it has not seen the CLI complete.
CliLives ==
  /\ sup.pc = "idle" => cli.pc = "begin" /\ ~Live("cli")
  /\ sup.pc # "idle" => (Live("cli") <=> cli.pc # "exited")
  /\ sup.pc \in Over => cli.pc = "exited"
  /\ sup.why = "completed" => sup.pc \in Over

\* Who was started by whom.  A parent in the tree is alive.
Family ==
  /\ cli.pc \in {"begin", "spawn"} => proc["runner"] = "none"
  /\ runner.step \in {"generate", "verify"} => proc["child"] = "none"
  /\ proc["runner"] = "none" => runner.step = "generate"
  /\ Live("runner") => parent["runner"] = IF Live("cli") THEN "cli" ELSE "init"
  /\ Live("child") => parent["child"] = IF Live("runner") THEN "runner" ELSE "init"

\* Outside its guard the CLI has no group.
GroupStopped ==
  cli.pc \in {"after", "validate", "rename", "rmdir", "unwind"} => ~GroupLeft

\* Whoever kills the CLI may leave its group behind; itself it does not.
AfterExit == cli.pc = "exited" /\ GroupLeft => cli.code = "killed"

\* The published directory.
Outputs ==
  /\ cli.pc = "rename" => result = "whole"
  /\ cli.pc = "rmdir" => output = "whole"
  /\ cli.pc = "unwind" => cli.code # "ok"
  /\ cli.pc = "exited" /\ cli.code = "ok" /\ sup.pc # "cleaned" => output = "whole"
  /\ output # "none" => output = "whole" /\ ~GroupLeft
                        /\ cli.pc \in {"rmdir", "unwind", "exited"}

LaunchInv == Typed /\ CliLives /\ Family /\ GroupStopped /\ AfterExit /\ Outputs

LEMMA CleanFollows == LaunchInv => OwnExitIsClean
<1> SUFFICES ASSUME LaunchInv PROVE OwnExitIsClean
  OBVIOUS
<1>1. cli.pc = "exited" /\ cli.code # "killed" => ~GroupLeft
  BY DEF LaunchInv, AfterExit
<1>2. sup.pc \in {"returned", "cleaned"} => cli.pc = "exited" /\ ~Live("cli")
  BY DEF LaunchInv, CliLives, Over
<1> QED
  BY <1>1, <1>2 DEF OwnExitIsClean, GroupLeft, Group, Processes

LEMMA PublishedFollows == LaunchInv => PublishedIsFinal
BY DEF LaunchInv, Outputs, PublishedIsFinal
-----------------------------------------------------------------------------
(* Deaths and starts *)

\* What the end of some processes means for all of them.
LEMMA DieIs ==
  ASSUME Typed, NEW S \in SUBSET Processes, Die(S)
  PROVE  /\ proc' \in [Processes -> States] /\ parent' \in [Processes -> Parents]
         /\ \A p \in Processes :
              /\ Live(p)' <=> Live(p) /\ p \notin S
              /\ proc'[p] = "none" <=> proc[p] = "none"
              /\ parent'[p] = IF parent[p] \in S THEN "init" ELSE parent[p]
<1>1. \A p \in Processes : proc[p] \in States /\ parent[p] \in Parents
  BY DEF Typed
<1>2. proc' \in [Processes -> States] /\ parent' \in [Processes -> Parents]
  BY <1>1 DEF Die, States, Parents
<1>3. ASSUME NEW p \in Processes
      PROVE  /\ Live(p)' <=> Live(p) /\ p \notin S
             /\ proc'[p] = "none" <=> proc[p] = "none"
  BY <1>1 DEF Die, Live, States
<1>4. "none" \notin S
  BY DEF Processes
<1>5. ASSUME NEW p \in Processes
      PROVE  parent'[p] = IF parent[p] \in S THEN "init" ELSE parent[p]
  BY <1>4 DEF Die
<1> QED
  BY <1>2, <1>3, <1>5

\* Deaths in the group leave a family.
LEMMA GroupDies ==
  ASSUME LaunchInv, NEW S \in SUBSET Group, Die(S)
  PROVE  /\ proc' \in [Processes -> States] /\ parent' \in [Processes -> Parents]
         /\ \A p \in Processes : proc'[p] = "none" <=> proc[p] = "none"
         /\ \A p \in Processes : Live(p)' => Live(p)
         /\ \A p \in S : ~Live(p)'
         /\ Live("cli")' <=> Live("cli")
         /\ GroupLeft' => GroupLeft
         /\ Live("runner")' => parent'["runner"] = IF Live("cli")' THEN "cli" ELSE "init"
         /\ Live("child")' => parent'["child"] = IF Live("runner")' THEN "runner" ELSE "init"
<1>1. S \subseteq Processes /\ "cli" \notin S /\ "init" \notin S
  BY DEF Group, Processes
<1>2. /\ proc' \in [Processes -> States] /\ parent' \in [Processes -> Parents]
      /\ \A p \in Processes :
           /\ Live(p)' <=> Live(p) /\ p \notin S
           /\ proc'[p] = "none" <=> proc[p] = "none"
           /\ parent'[p] = IF parent[p] \in S THEN "init" ELSE parent[p]
  BY <1>1, DieIs DEF LaunchInv
<1>3. "cli" \in Processes /\ "runner" \in Processes /\ "child" \in Processes /\ Group \subseteq Processes
  BY DEF Processes, Group
<1>4. Live("cli")' <=> Live("cli")
  BY <1>1, <1>2, <1>3
<1>5. GroupLeft' => GroupLeft
  BY <1>2, <1>3 DEF GroupLeft
<1>6. Live("runner")' => parent'["runner"] = IF Live("cli")' THEN "cli" ELSE "init"
  BY <1>1, <1>2, <1>3, <1>4 DEF LaunchInv, Family
<1>7. Live("child")' => parent'["child"] = IF Live("runner")' THEN "runner" ELSE "init"
  BY <1>1, <1>2, <1>3 DEF LaunchInv, Family
<1> QED
  BY <1>1, <1>2, <1>3, <1>4, <1>5, <1>6, <1>7

\* A process of the runner runs only in the group, before anything is
\* published: while the CLI waits for it, or after the CLI was killed.
LEMMA RunnerRuns ==
  ASSUME LaunchInv, proc["runner"] = "run"
  PROVE  /\ Live("runner") /\ GroupLeft /\ output = "none" /\ sup.pc # "idle"
         /\ cli.pc \in {"wait", "term"} \/ (cli.pc = "exited" /\ cli.code = "killed")
<1>1. Live("runner") /\ GroupLeft
  BY DEF Live, GroupLeft, Group
<1>2. cli.pc \in {"wait", "term"} \/ (cli.pc = "exited" /\ cli.code = "killed")
  BY <1>1 DEF LaunchInv, Typed, CliPlaces, Family, GroupStopped, AfterExit
<1> QED
  BY <1>1, <1>2 DEF LaunchInv, Outputs, CliLives
-----------------------------------------------------------------------------
(* The runner *)

\* The steps that only write files.
LEMMA WritesKeep ==
  ASSUME LaunchInv, Generate \/ QualityPassed \/ WriteManifest \/ PublishResult
  PROVE  LaunchInv'
<1>1. /\ proc["runner"] = "run" /\ UNCHANGED <<supervisor, proc, parent, cli, stage, output, faults>>
      /\ runner' \in [step : Steps, ok : BOOLEAN] /\ runner'.step # "generate"
      /\ runner.step # "generate" => runner'.step # "verify"
  BY DEF Generate, QualityPassed, WriteManifest, PublishResult, RunnerAt, LaunchInv, Typed, Steps
<1>2. /\ output = "none" /\ sup.pc # "idle" /\ GroupLeft /\ Live("runner")
      /\ cli.pc \in {"wait", "term"} \/ (cli.pc = "exited" /\ cli.code = "killed")
  BY <1>1, RunnerRuns
<1>3. Typed'
  BY <1>1 DEF LaunchInv, Typed, supervisor
<1>4. CliLives' /\ GroupStopped' /\ AfterExit'
  BY <1>1, <1>2 DEF LaunchInv, CliLives, GroupStopped, AfterExit, GroupLeft, Live, supervisor
<1>5. Family'
  BY <1>1, <1>2 DEF LaunchInv, Family, Live, supervisor
<1>6. Outputs'
  BY <1>1, <1>2 DEF Outputs, supervisor
<1> QED
  BY <1>3, <1>4, <1>5, <1>6 DEF LaunchInv

\* The steps that start a process beside it.
LEMMA StartsKeep ==
  ASSUME LaunchInv, StartVerifier \/ LeaveHelper
  PROVE  LaunchInv'
<1>1. /\ proc["runner"] = "run" /\ UNCHANGED <<sup, cli, files, faults>>
      /\ seen' \subseteq seen /\ fresh' \subseteq fresh
      /\ proc' = [proc EXCEPT !["child"] = "run"]
      /\ parent' = [parent EXCEPT !["child"] = "runner"]
      /\ runner' \in [step : Steps, ok : BOOLEAN]
      /\ runner'.step \in {"waiting", "exit"}
  BY DEF StartVerifier, LeaveHelper, RunnerAt, LaunchInv, Typed, Steps, supervisor
<1>2. /\ output = "none" /\ sup.pc # "idle" /\ GroupLeft /\ Live("runner")
      /\ cli.pc \in {"wait", "term"} \/ (cli.pc = "exited" /\ cli.code = "killed")
  BY <1>1, RunnerRuns
<1>3. /\ proc'["runner"] = proc["runner"] /\ proc'["cli"] = proc["cli"]
      /\ parent'["runner"] = parent["runner"] /\ parent'["child"] = "runner"
      /\ proc'["child"] = "run"
      /\ Typed'
  BY <1>1 DEF LaunchInv, Typed, supervisor, Processes, States, Parents
<1>4. CliLives' /\ GroupStopped' /\ AfterExit'
  BY <1>1, <1>2, <1>3 DEF LaunchInv, CliLives, GroupStopped, AfterExit, Live, supervisor
<1>5. Family'
  BY <1>1, <1>2, <1>3 DEF LaunchInv, Family, Live
<1>6. Outputs'
  BY <1>1, <1>2 DEF Outputs, supervisor, files
<1> QED
  BY <1>3, <1>4, <1>5, <1>6 DEF LaunchInv

\* The steps with which it, or a process beside it, ends.
LEMMA EndsKeep ==
  ASSUME LaunchInv, NEW S \in SUBSET Group, Die(S),
         UNCHANGED <<supervisor, cli, stage, result, output, faults>>,
         runner' \in [step : Steps, ok : BOOLEAN], runner'.step = runner.step
  PROVE  LaunchInv'
<1>1. /\ proc' \in [Processes -> States] /\ parent' \in [Processes -> Parents]
      /\ \A p \in Processes : proc'[p] = "none" <=> proc[p] = "none"
      /\ \A p \in Processes : Live(p)' => Live(p)
      /\ Live("cli")' <=> Live("cli")
      /\ GroupLeft' => GroupLeft
      /\ Live("runner")' => parent'["runner"] = IF Live("cli")' THEN "cli" ELSE "init"
      /\ Live("child")' => parent'["child"] = IF Live("runner")' THEN "runner" ELSE "init"
  BY GroupDies
<1>2. Typed'
  BY <1>1 DEF LaunchInv, Typed, supervisor
<1>3. CliLives' /\ GroupStopped'
  BY <1>1 DEF LaunchInv, CliLives, GroupStopped, supervisor
<1>4. AfterExit'
  BY <1>1 DEF LaunchInv, AfterExit, supervisor, Processes
<1>5. Family'
  BY <1>1 DEF LaunchInv, Family, Processes
<1>6. Outputs'
  BY <1>1 DEF LaunchInv, Outputs, supervisor
<1> QED
  BY <1>2, <1>3, <1>4, <1>5, <1>6 DEF LaunchInv

LEMMA RunnerKeeps == ASSUME LaunchInv, Runner PROVE LaunchInv'
<1>1. runner \in [step : Steps, ok : BOOLEAN]
  BY DEF LaunchInv, Typed
<1>2. CASE Generate \/ QualityPassed \/ WriteManifest \/ PublishResult
  BY <1>2, WritesKeep
<1>3. CASE StartVerifier \/ LeaveHelper
  BY <1>3, StartsKeep
<1>4. CASE ChildEnds
  BY <1>1, <1>4, EndsKeep DEF ChildEnds, Group
<1>5. CASE RunnerExits
  <2>1. runner' \in [step : Steps, ok : BOOLEAN] /\ runner'.step = runner.step
    BY <1>1, <1>5 DEF RunnerExits
  <2> QED
    BY <1>5, <2>1, EndsKeep DEF RunnerExits, Group, files
<1>6. CASE RunnerFails
  BY <1>1, <1>6, EndsKeep DEF RunnerFails, Group
<1>7. CASE RunnerCrashes
  BY <1>1, <1>7, EndsKeep DEF RunnerCrashes, Group, files
<1> QED
  BY <1>2, <1>3, <1>4, <1>5, <1>6, <1>7 DEF Runner
-----------------------------------------------------------------------------
(* The CLI *)

LEMMA CliRuns ==
  ASSUME LaunchInv, proc["cli"] = "run"
  PROVE  /\ Live("cli") /\ cli.pc # "exited" /\ sup.pc # "idle" /\ sup.pc \notin Over
BY DEF LaunchInv, CliLives, Live

\* It goes on to another step, and leaves processes and output alone.
LEMMA CliMoves ==
  ASSUME LaunchInv, proc["cli"] = "run", NEW pc \in CliPlaces \ {"exited"}, NEW code \in Codes,
         NEW got \in BOOLEAN, cli' = [pc |-> pc, code |-> code, got |-> got],
         UNCHANGED <<supervisor, proc, parent, runner, faults, result, output>>,
         pc \in {"begin", "spawn"} => proc["runner"] = "none",
         pc \in {"after", "validate", "rename", "rmdir", "unwind"} => ~GroupLeft,
         pc = "rename" => result = "whole",
         pc = "rmdir" => output = "whole",
         pc = "unwind" => code # "ok",
         output # "none" => pc \in {"rmdir", "unwind"}
  PROVE  LaunchInv'
<1>1. /\ Live("cli") /\ cli.pc # "exited" /\ sup.pc # "idle" /\ sup.pc \notin Over
  BY CliRuns
<1>2. cli'.pc = pc /\ cli'.code = code
  OBVIOUS
<1>3. Typed'
  BY DEF LaunchInv, Typed, supervisor
<1>4. CliLives'
  BY <1>1, <1>2 DEF LaunchInv, CliLives, Live, supervisor
<1>5. Family'
  BY <1>2 DEF LaunchInv, Family, Live
<1>6. GroupStopped' /\ AfterExit'
  BY <1>2 DEF GroupStopped, AfterExit, GroupLeft, Live
<1>7. Outputs'
  BY <1>2 DEF LaunchInv, Outputs, GroupLeft, Live
<1> QED
  BY <1>3, <1>4, <1>5, <1>6, <1>7 DEF LaunchInv

\* It exits when its group is gone.
LEMMA CliExits ==
  ASSUME LaunchInv, proc["cli"] = "run", ~GroupLeft, NEW code \in Codes, Exit(code),
         UNCHANGED <<supervisor, runner, faults, output>>,
         code = "ok" => output = "whole"
  PROVE  LaunchInv'
<1>1. /\ Live("cli") /\ sup.pc # "idle" /\ sup.pc \notin Over
  BY CliRuns
<1>2. /\ cli'.pc = "exited" /\ cli'.code = code
      /\ cli' \in [pc : CliPlaces, code : Codes, got : BOOLEAN]
  BY DEF Exit, LaunchInv, Typed, CliPlaces
<1>3. {"cli"} \subseteq Processes /\ Die({"cli"})
  BY DEF Exit, Processes
<1>4. /\ proc' \in [Processes -> States] /\ parent' \in [Processes -> Parents]
      /\ \A p \in Processes :
           /\ Live(p)' <=> Live(p) /\ p \notin {"cli"}
           /\ proc'[p] = "none" <=> proc[p] = "none"
  BY <1>3, DieIs DEF LaunchInv
<1>5. ~GroupLeft' /\ ~Live("cli")' /\ ~Live("runner")' /\ ~Live("child")'
  BY <1>4 DEF GroupLeft, Group, Processes
<1>6. Typed'
  BY <1>2, <1>4 DEF LaunchInv, Typed, supervisor
<1>7. CliLives' /\ GroupStopped' /\ AfterExit'
  BY <1>1, <1>2, <1>5 DEF LaunchInv, CliLives, GroupStopped, AfterExit, supervisor
<1>8. Family'
  BY <1>2, <1>4, <1>5 DEF LaunchInv, Family, Processes
<1>9. Outputs'
  BY <1>2, <1>5 DEF LaunchInv, Outputs, supervisor
<1> QED
  BY <1>6, <1>7, <1>8, <1>9 DEF LaunchInv

\* It is killed, with whoever else.
LEMMA KilledKeeps ==
  ASSUME LaunchInv, sup.pc # "idle", NEW S \in SUBSET Processes, "cli" \in S, Die(S),
         cli' = [cli EXCEPT !.pc = "exited", !.code = IF Live("cli") THEN "killed" ELSE @],
         sup' \in [pc : SupPlaces, why : Reasons], sup'.pc # "idle",
         sup'.why = "completed" => sup'.pc \in Over,
         sup'.pc = "cleaned" => sup.pc = "cleaned", sup.pc = "cleaned" => sup'.pc = "cleaned",
         UNCHANGED <<seen, fresh, runner, files, faults>>
  PROVE  LaunchInv'
<1>1. Live("cli") <=> cli.pc # "exited"
  BY DEF LaunchInv, CliLives
<1>2. /\ proc' \in [Processes -> States] /\ parent' \in [Processes -> Parents]
      /\ \A p \in Processes :
           /\ Live(p)' <=> Live(p) /\ p \notin S
           /\ proc'[p] = "none" <=> proc[p] = "none"
           /\ parent'[p] = IF parent[p] \in S THEN "init" ELSE parent[p]
  BY DieIs DEF LaunchInv
<1>3. "cli" \in Processes /\ "runner" \in Processes /\ "child" \in Processes /\ "init" \notin S
  BY DEF Processes
<1>4. ~Live("cli")' /\ (GroupLeft' => GroupLeft)
  BY <1>2, <1>3 DEF GroupLeft, Group
<1>5. /\ cli' \in [pc : CliPlaces, code : Codes, got : BOOLEAN] /\ cli'.pc = "exited"
      /\ cli'.code = IF Live("cli") THEN "killed" ELSE cli.code
  BY DEF LaunchInv, Typed, CliPlaces, Codes
<1>6. Typed'
  BY <1>2, <1>5 DEF LaunchInv, Typed
<1>7. CliLives' /\ GroupStopped'
  BY <1>4, <1>5 DEF CliLives, GroupStopped
<1>8. AfterExit'
  BY <1>1, <1>4, <1>5 DEF LaunchInv, AfterExit
<1>9. Live("runner")' => parent'["runner"] = IF Live("cli")' THEN "cli" ELSE "init"
  BY <1>2, <1>3, <1>4 DEF LaunchInv, Family
<1>10. Live("child")' => parent'["child"] = IF Live("runner")' THEN "runner" ELSE "init"
  BY <1>2, <1>3 DEF LaunchInv, Family
<1>11. Family'
  BY <1>2, <1>3, <1>5, <1>9, <1>10 DEF LaunchInv, Family
<1>12. Outputs'
  BY <1>1, <1>4, <1>5 DEF LaunchInv, Outputs, files
<1> QED
  BY <1>6, <1>7, <1>8, <1>11, <1>12 DEF LaunchInv

\* SIGTERM or SIGKILL for its group.
LEMMA GroupStops ==
  ASSUME LaunchInv, proc["cli"] = "run", cli.pc \in {"wait", "term"},
         NEW S \in SUBSET Group, Die(S), NEW code \in Codes,
         cli' = [cli EXCEPT !.pc = "term", !.code = code],
         UNCHANGED <<supervisor, runner, files, faults>>
  PROVE  LaunchInv'
<1>1. /\ Live("cli") /\ sup.pc # "idle" /\ sup.pc \notin Over
  BY CliRuns
<1>2. /\ cli'.pc = "term"
      /\ cli' \in [pc : CliPlaces, code : Codes, got : BOOLEAN]
  BY DEF LaunchInv, Typed, CliPlaces
<1>3. /\ proc' \in [Processes -> States] /\ parent' \in [Processes -> Parents]
      /\ \A p \in Processes : proc'[p] = "none" <=> proc[p] = "none"
      /\ Live("cli")' <=> Live("cli")
      /\ GroupLeft' => GroupLeft
      /\ Live("runner")' => parent'["runner"] = IF Live("cli")' THEN "cli" ELSE "init"
      /\ Live("child")' => parent'["child"] = IF Live("runner")' THEN "runner" ELSE "init"
  BY GroupDies
<1>4. Typed'
  BY <1>2, <1>3 DEF LaunchInv, Typed, supervisor
<1>5. CliLives' /\ GroupStopped' /\ AfterExit'
  BY <1>1, <1>2, <1>3 DEF LaunchInv, CliLives, GroupStopped, AfterExit, supervisor
<1>6. Family'
  BY <1>2, <1>3 DEF LaunchInv, Family, Processes
<1>7. Outputs'
  BY <1>2 DEF LaunchInv, Outputs, files, supervisor
<1> QED
  BY <1>4, <1>5, <1>6, <1>7 DEF LaunchInv

LEMMA CliKeeps == ASSUME LaunchInv, Cli PROVE LaunchInv'
<1>0. ASSUME CliKilled PROVE LaunchInv'
  <2>1. /\ Live("cli") /\ Die({"cli"}) /\ UNCHANGED <<sup, seen, fresh, runner, files, faults>>
        /\ cli' = [cli EXCEPT !.pc = "exited", !.code = IF Live("cli") THEN "killed" ELSE @]
    BY <1>0 DEF CliKilled, Exit, supervisor
  <2>2. /\ sup.pc # "idle" /\ sup \in [pc : SupPlaces, why : Reasons]
        /\ sup.why = "completed" => sup.pc \in Over
        /\ {"cli"} \in SUBSET Processes
    BY <2>1 DEF LaunchInv, Typed, CliLives, Processes
  <2> QED
    BY <2>1, <2>2, KilledKeeps
<1> SUFFICES ASSUME ~CliKilled PROVE LaunchInv'
  BY <1>0
<1>1. cli \in [pc : CliPlaces, code : Codes, got : BOOLEAN]
  BY DEF LaunchInv, Typed
<1> DEFINE Moves(pc, code, got) == cli' = [pc |-> pc, code |-> code, got |-> got]
<1>2. ASSUME NEW pc, cli' = [cli EXCEPT !.pc = pc]
      PROVE  Moves(pc, cli.code, cli.got)
  BY <1>1, <1>2
<1>3. ASSUME NEW pc, NEW code, cli' = [cli EXCEPT !.pc = pc, !.code = code]
      PROVE  Moves(pc, code, cli.got)
  BY <1>1, <1>3
<1>4. proc["cli"] = "run"
  BY DEF Cli, CliAt, StageOutput, SpawnRunner, EndWait, GroupGone, KillGroup, LeaveGuard,
         Validate, PublishOutput, RemoveEmptyStage, Unwind, Interrupt
<1>5. cli.pc # "exited" /\ cli.pc \in CliPlaces /\ cli.code \in Codes /\ cli.got \in BOOLEAN
  BY <1>1, <1>4, CliRuns
<1>6. cli.pc \in {"begin", "spawn"} => ~GroupLeft
  BY DEF LaunchInv, Family, GroupLeft, Group, Live
<1>7. output # "none" => output = "whole" /\ ~GroupLeft /\ cli.pc \in {"rmdir", "unwind"}
  BY <1>4, CliRuns DEF LaunchInv, Outputs
<1>8. CASE StageOutput
  <2>1. CASE Exit("failed")
    <3>1. "failed" \in Codes
      BY DEF Codes
    <3> QED
      BY <1>4, <1>6, <1>8, <2>1, <3>1, CliExits DEF StageOutput, CliAt
  <2>2. CASE cli' = [cli EXCEPT !.pc = "spawn"] /\ UNCHANGED <<proc, parent>>
    <3>1. Moves("spawn", cli.code, cli.got) /\ "spawn" \in CliPlaces
      BY <1>2, <2>2 DEF CliPlaces
    <3>2. proc["runner"] = "none" /\ output = "none"
      BY <1>7, <1>8 DEF StageOutput, CliAt, LaunchInv, Family
    <3> QED
      BY <1>4, <1>5, <1>8, <2>2, <3>1, <3>2, CliMoves DEF StageOutput
  <2> QED
    BY <1>8, <2>1, <2>2 DEF StageOutput
<1>9. CASE SpawnRunner
  <2>1. ASSUME NEW code \in Codes, cli' = [cli EXCEPT !.pc = "after", !.code = code],
               UNCHANGED <<proc, parent>>
        PROVE  LaunchInv'
    <3>1. Moves("after", code, cli.got) /\ "after" \in CliPlaces
      BY <1>3, <2>1 DEF CliPlaces
    <3>2. ~GroupLeft /\ output = "none"
      BY <1>6, <1>7, <1>9 DEF SpawnRunner, CliAt
    <3>3. UNCHANGED <<supervisor, proc, parent, runner, faults, result, output>>
      BY <1>9, <2>1 DEF SpawnRunner, files
    <3> QED
      BY <1>4, <1>5, <3>1, <3>2, <3>3, CliMoves
  <2>2. CASE /\ proc' = [proc EXCEPT !["runner"] = "run"]
             /\ parent' = [parent EXCEPT !["runner"] = "cli"]
             /\ cli' = [cli EXCEPT !.pc = "wait"]
    <3>1. /\ cli' \in [pc : CliPlaces, code : Codes, got : BOOLEAN] /\ cli'.pc = "wait"
      BY <1>1, <2>2 DEF CliPlaces
    <3>2. /\ proc'["cli"] = "run" /\ proc'["runner"] = "run" /\ proc'["child"] = proc["child"]
          /\ parent'["runner"] = "cli" /\ parent'["child"] = parent["child"]
          /\ proc' \in [Processes -> States] /\ parent' \in [Processes -> Parents]
      BY <1>4, <2>2 DEF LaunchInv, Typed, Processes, States, Parents
    <3>3. proc["runner"] = "none" /\ proc["child"] = "none" /\ runner.step = "generate"
      BY <1>9 DEF SpawnRunner, CliAt, LaunchInv, Family
    <3>4. Typed'
      BY <1>9, <3>1, <3>2 DEF SpawnRunner, LaunchInv, Typed, supervisor
    <3>5. CliLives' /\ GroupStopped' /\ AfterExit'
      BY <1>4, <1>9, <3>1, <3>2, CliRuns
      DEF SpawnRunner, LaunchInv, CliLives, GroupStopped, AfterExit, Live, supervisor
    <3>6. Family'
      BY <1>9, <3>1, <3>2, <3>3 DEF SpawnRunner, Family, Live
    <3>7. Outputs'
      BY <1>7, <1>9, <3>1 DEF SpawnRunner, CliAt, Outputs, files
    <3> QED
      BY <3>4, <3>5, <3>6, <3>7 DEF LaunchInv
  <2> QED
    BY <1>9, <2>1, <2>2 DEF SpawnRunner, Codes
<1>10. ASSUME EndWait PROVE LaunchInv'
  <2>1. ASSUME NEW code \in Codes, StopGroup(code) PROVE LaunchInv'
    <3>1. (Group \ faults.resists) \in SUBSET Group
      OBVIOUS
    <3> QED
      BY <1>4, <1>10, <2>1, <3>1, GroupStops DEF EndWait, CliAt, StopGroup
  <2>2. ASSUME NEW code \in Codes, ~GroupLeft,
               cli' = [cli EXCEPT !.pc = "after", !.code = code], UNCHANGED <<proc, parent>>
        PROVE  LaunchInv'
    <3>1. Moves("after", code, cli.got) /\ "after" \in CliPlaces
      BY <1>3, <2>2 DEF CliPlaces
    <3>2. ~GroupLeft /\ output = "none"
      BY <1>7, <1>10, <2>2 DEF EndWait, CliAt
    <3>3. UNCHANGED <<supervisor, proc, parent, runner, faults, result, output>>
      BY <1>10, <2>2 DEF EndWait, files
    <3> QED
      BY <1>4, <1>5, <3>1, <3>2, <3>3, CliMoves
  <2> QED
    BY <1>10, <2>1, <2>2 DEF EndWait, Codes
<1>11. CASE GroupGone
  <2>1. Moves("after", cli.code, cli.got) /\ "after" \in CliPlaces
    BY <1>2, <1>11 DEF GroupGone, CliPlaces
  <2>2. output = "none"
    BY <1>7, <1>11 DEF GroupGone, CliAt
  <2> QED
    BY <1>4, <1>5, <1>11, <2>1, <2>2, CliMoves DEF GroupGone, files
<1>12. CASE KillGroup
  <2>1. cli' = [cli EXCEPT !.pc = "term", !.code = cli.code]
    BY <1>1, <1>12 DEF KillGroup, CliAt
  <2> QED
    BY <1>4, <1>5, <1>12, <2>1, GroupStops DEF KillGroup, CliAt
<1>13. CASE LeaveGuard
  <2>1. PICK pc \in {"validate", "unwind"}, code \in Codes :
          Moves(pc, code, cli.got) /\ (pc = "unwind" => code # "ok")
    BY <1>1, <1>13 DEF LeaveGuard, Codes
  <2>2. ~GroupLeft /\ output = "none" /\ pc \in CliPlaces
    BY <1>7, <1>13 DEF LeaveGuard, CliAt, LaunchInv, GroupStopped, CliPlaces
  <2> QED
    BY <1>4, <1>5, <1>13, <2>1, <2>2, CliMoves DEF LeaveGuard, files
<1>14. CASE Validate
  <2>1. ~GroupLeft /\ output = "none"
    BY <1>7, <1>14 DEF Validate, CliAt, LaunchInv, GroupStopped
  <2>2. PICK pc \in {"rename", "unwind"}, code \in Codes :
          /\ Moves(pc, code, cli.got) /\ (pc = "unwind" => code # "ok")
          /\ pc = "rename" => result = "whole"
    BY <1>1, <1>14 DEF Validate, Codes
  <2>3. pc \in CliPlaces
    BY DEF CliPlaces
  <2> QED
    BY <1>4, <1>5, <1>14, <2>1, <2>2, <2>3, CliMoves DEF Validate, files
<1>15. CASE PublishOutput
  <2>1. ~GroupLeft /\ output = "none" /\ result = "whole"
    BY <1>7, <1>15 DEF PublishOutput, CliAt, LaunchInv, GroupStopped, Outputs
  <2>2. CASE /\ cli' = [cli EXCEPT !.pc = "unwind", !.code = "failed"]
             /\ UNCHANGED <<output, result>>
    <3>1. /\ Moves("unwind", "failed", cli.got)
          /\ "unwind" \in CliPlaces /\ "failed" \in Codes
      BY <1>3, <2>2 DEF CliPlaces, Codes
    <3>2. UNCHANGED <<supervisor, proc, parent, runner, faults, result, output>>
      BY <1>15, <2>2 DEF PublishOutput
    <3> QED
      BY <1>4, <1>5, <2>1, <3>1, <3>2, CliMoves
  <2>3. CASE output' = result /\ cli' = [cli EXCEPT !.pc = "rmdir"]
    <3>1. cli' \in [pc : CliPlaces, code : Codes, got : BOOLEAN] /\ cli'.pc = "rmdir"
      BY <1>1, <2>3 DEF CliPlaces
    <3>2. Typed'
      BY <1>15, <3>1 DEF PublishOutput, LaunchInv, Typed, supervisor
    <3>3. CliLives' /\ GroupStopped' /\ AfterExit'
      BY <1>4, <1>15, <2>1, <3>1, CliRuns
      DEF PublishOutput, LaunchInv, CliLives, GroupStopped, AfterExit, GroupLeft, Live, supervisor
    <3>4. Family'
      BY <1>15, <3>1 DEF PublishOutput, LaunchInv, Family, Live
    <3>5. Outputs'
      BY <1>15, <2>1, <2>3, <3>1 DEF PublishOutput, Outputs, GroupLeft, Live
    <3> QED
      BY <3>2, <3>3, <3>4, <3>5 DEF LaunchInv
  <2> QED
    BY <1>15, <2>2, <2>3 DEF PublishOutput
<1>16. CASE RemoveEmptyStage
  <2>1. ~GroupLeft /\ output = "whole" /\ "ok" \in Codes
    BY <1>16 DEF RemoveEmptyStage, CliAt, LaunchInv, GroupStopped, Outputs, Codes
  <2> QED
    BY <1>4, <1>16, <2>1, CliExits DEF RemoveEmptyStage
<1>17. CASE Unwind
  <2>1. ~GroupLeft /\ cli.code # "ok"
    BY <1>17 DEF Unwind, CliAt, LaunchInv, GroupStopped, Outputs
  <2> QED
    BY <1>4, <1>5, <1>17, <2>1, CliExits DEF Unwind
<1>18. CASE Interrupt
  <2>1. ~Guarded => ~GroupLeft
    BY <1>5, <1>6 DEF Guarded, CliPlaces, LaunchInv, GroupStopped
  <2>2. "signal" \in Codes /\ "unwind" \in CliPlaces
    BY DEF Codes, CliPlaces
  <2>3. CASE ~Guarded /\ Exit("signal")
    BY <1>4, <1>18, <2>1, <2>2, <2>3, CliExits DEF Interrupt, files
  <2>4. CASE /\ ~Guarded /\ cli' = [cli EXCEPT !.pc = "unwind", !.code = "signal"]
             /\ UNCHANGED <<proc, parent>>
    <3>1. Moves("unwind", "signal", cli.got)
      BY <1>3, <2>4
    <3> QED
      BY <1>4, <1>5, <1>7, <1>18, <2>1, <2>2, <2>4, <3>1, CliMoves DEF Interrupt, files
  <2>5. CASE /\ Guarded /\ cli' = [cli EXCEPT !.got = TRUE] /\ UNCHANGED <<proc, parent>>
    <3>1. Moves(cli.pc, cli.code, TRUE)
      BY <1>1, <2>5
    <3>2. /\ cli.pc \in {"spawn", "wait", "term", "after"} /\ output = "none"
          /\ cli.pc = "spawn" => proc["runner"] = "none"
          /\ cli.pc = "after" => ~GroupLeft
      BY <1>7, <2>5 DEF Guarded, LaunchInv, Family, GroupStopped
    <3> QED
      BY <1>4, <1>5, <1>18, <2>5, <3>1, <3>2, CliMoves DEF Interrupt, files
  <2> QED
    BY <1>18, <2>3, <2>4, <2>5 DEF Interrupt
<1> QED
  BY <1>8, <1>9, <1>10, <1>11, <1>12, <1>13, <1>14, <1>15, <1>16, <1>17, <1>18 DEF Cli
-----------------------------------------------------------------------------
(* The supervisor *)

\* It only looks on, or stops processes without ending them.
LEMMA WatchKeeps ==
  ASSUME LaunchInv, sup.pc \notin Over \cup {"idle"}, Typed', UNCHANGED <<cli, runner, parent, files, faults>>,
         sup'.pc \notin Over \cup {"idle"}, sup'.why # "completed",
         \A p \in Processes : (Live(p)' <=> Live(p)) /\ (proc'[p] = "none" <=> proc[p] = "none")
  PROVE  LaunchInv'
<1>1. GroupLeft' <=> GroupLeft
  BY DEF GroupLeft, Group, Processes
<1>2. /\ Live("cli")' <=> Live("cli")
      /\ Live("runner")' <=> Live("runner")
      /\ Live("child")' <=> Live("child")
      /\ proc'["runner"] = "none" <=> proc["runner"] = "none"
      /\ proc'["child"] = "none" <=> proc["child"] = "none"
  BY DEF Processes
<1>3. CliLives'
  BY <1>2 DEF LaunchInv, CliLives
<1>4. Family' /\ GroupStopped'
  BY <1>1, <1>2 DEF LaunchInv, Family, GroupStopped
<1>5. AfterExit'
  BY <1>1 DEF LaunchInv, AfterExit
<1>6. Outputs'
  BY <1>1 DEF LaunchInv, Outputs, Over, files
<1> QED
  BY <1>3, <1>4, <1>5, <1>6 DEF LaunchInv

\* It goes on after the end, and may clean up.
LEMMA OverKeeps ==
  ASSUME LaunchInv, sup.pc # "idle", cli.pc = "exited",
         Typed', sup'.pc \in Over, UNCHANGED <<seen, proc, parent, cli, runner, faults>>,
         output' = output \/ (output' = "none" /\ sup'.pc = "cleaned"),
         sup.pc = "cleaned" => sup'.pc = "cleaned"
  PROVE  LaunchInv'
<1>1. CliLives'
  BY DEF LaunchInv, CliLives, Live, Over
<1>2. Family' /\ GroupStopped'
  BY DEF LaunchInv, Family, GroupStopped, GroupLeft, Live
<1>3. AfterExit'
  BY DEF LaunchInv, AfterExit, GroupLeft, Live
<1>4. Outputs'
  BY DEF LaunchInv, Outputs, GroupLeft, Live
<1> QED
  BY <1>1, <1>2, <1>3, <1>4 DEF LaunchInv

LEMMA ExitedAlone ==
  ASSUME LaunchInv, sup.pc \notin Over \cup {"idle"}
  PROVE  Live("cli") <=> cli.pc # "exited"
BY DEF LaunchInv, CliLives

\* SIGTERM ends what neither resists nor is guarded.
LEMMA TermKeeps == ASSUME LaunchInv, TermAndContinue PROVE LaunchInv'
<1> DEFINE fatal == {p \in Targets : Live(p) /\ p \notin faults.resists
                                     /\ (p = "cli" => ~Guarded)}
<1>1. /\ proc' = [p \in Processes |->
           IF p \in fatal THEN "dead"
           ELSE IF proc[p] = "frozen" THEN "run" ELSE proc[p]]
      /\ parent' = [p \in Processes |-> IF parent[p] \in fatal THEN "init" ELSE parent[p]]
      /\ cli' = IF "cli" \in fatal THEN [cli EXCEPT !.pc = "exited", !.code = "signal"]
                ELSE [cli EXCEPT !.got = Live("cli") \/ @]
      /\ sup' = [sup EXCEPT !.pc = "grace"]
      /\ UNCHANGED <<seen, fresh, stable, runner, files, faults>>
      /\ sup.pc = "signalling"
  BY DEF TermAndContinue
<1>2. /\ fatal \subseteq Processes /\ \A p \in fatal : Live(p)
      /\ "cli" \in fatal => ~Guarded
      /\ "init" \notin fatal /\ "none" \notin fatal /\ "supervisor" \notin fatal
  BY DEF LaunchInv, Typed, Targets, Processes
<1>3. Live("cli") <=> cli.pc # "exited"
  BY <1>1, ExitedAlone DEF Over
<1>4. "cli" \in fatal => ~GroupLeft /\ cli.pc # "exited"
  <2>1. cli.pc \in {"begin", "spawn"} => ~GroupLeft
    BY DEF LaunchInv, Family, GroupLeft, Group, Live
  <2> QED
    BY <1>2, <1>3, <2>1 DEF Guarded, LaunchInv, Typed, CliPlaces, GroupStopped
<1> HIDE DEF fatal
<1>5. ASSUME NEW p \in Processes
      PROVE  /\ Live(p)' <=> Live(p) /\ p \notin fatal
             /\ proc'[p] = "none" <=> proc[p] = "none"
             /\ parent'[p] = IF parent[p] \in fatal THEN "init" ELSE parent[p]
             /\ proc'[p] \in States /\ parent'[p] \in Parents
  <2>1. proc[p] \in States /\ parent[p] \in Parents
    BY DEF LaunchInv, Typed
  <2>2. p \in fatal => Live(p)
    BY <1>2
  <2>3. proc'[p] = IF p \in fatal THEN "dead" ELSE IF proc[p] = "frozen" THEN "run" ELSE proc[p]
    BY <1>1
  <2>4. parent'[p] = IF parent[p] \in fatal THEN "init" ELSE parent[p]
    BY <1>1
  <2> QED
    BY <2>1, <2>2, <2>3, <2>4 DEF Live, States, Parents
<1>6. proc' \in [Processes -> States] /\ parent' \in [Processes -> Parents]
  <2>1. DOMAIN proc' = Processes /\ proc' = [p \in Processes |-> proc'[p]]
    BY <1>1
  <2>2. DOMAIN parent' = Processes /\ parent' = [p \in Processes |-> parent'[p]]
    BY <1>1
  <2> QED
    BY <1>5, <2>1, <2>2
<1>7. /\ cli' \in [pc : CliPlaces, code : Codes, got : BOOLEAN]
      /\ "cli" \in fatal => cli'.pc = "exited" /\ cli'.code = "signal"
      /\ "cli" \notin fatal => cli'.pc = cli.pc /\ cli'.code = cli.code
  BY <1>1 DEF LaunchInv, Typed, CliPlaces, Codes
<1>8. sup' \in [pc : SupPlaces, why : Reasons] /\ sup'.pc = "grace" /\ sup'.why = sup.why
  BY <1>1 DEF LaunchInv, Typed, SupPlaces
<1>9. Typed'
  BY <1>1, <1>6, <1>7, <1>8 DEF LaunchInv, Typed
<1>10. "cli" \in Processes /\ "runner" \in Processes /\ "child" \in Processes
  BY DEF Processes
<1>11. GroupLeft' => GroupLeft
  BY <1>5, <1>10 DEF GroupLeft, Group
<1>12. CliLives'
  <2>1. sup.why # "completed"
    BY <1>1 DEF LaunchInv, CliLives, Over
  <2> QED
    BY <1>3, <1>4, <1>5, <1>7, <1>8, <1>10, <2>1 DEF CliLives, Over
<1>13. GroupStopped' /\ AfterExit'
  BY <1>3, <1>4, <1>7, <1>11 DEF LaunchInv, GroupStopped, AfterExit
<1>14. Live("runner")' => parent'["runner"] = IF Live("cli")' THEN "cli" ELSE "init"
  <2> SUFFICES ASSUME Live("runner")' PROVE parent'["runner"] = IF Live("cli")' THEN "cli" ELSE "init"
    OBVIOUS
  <2>1. Live("runner") /\ GroupLeft
    BY <1>5, <1>10 DEF GroupLeft, Group
  <2>2. "cli" \notin fatal
    BY <1>4, <2>1
  <2> QED
    BY <1>2, <1>5, <1>10, <2>1, <2>2 DEF LaunchInv, Family
<1>15. Live("child")' => parent'["child"] = IF Live("runner")' THEN "runner" ELSE "init"
  BY <1>2, <1>5, <1>10 DEF LaunchInv, Family
<1>16. Family'
  <2>1. /\ cli'.pc \in {"begin", "spawn"} => cli.pc \in {"begin", "spawn"}
        /\ proc'["runner"] = "none" <=> proc["runner"] = "none"
        /\ proc'["child"] = "none" <=> proc["child"] = "none"
        /\ runner' = runner
    BY <1>1, <1>5, <1>7, <1>10
  <2> QED
    BY <1>14, <1>15, <2>1 DEF LaunchInv, Family
<1>17. Outputs'
  BY <1>1, <1>4, <1>7, <1>8, <1>11 DEF LaunchInv, Outputs, files, Over
<1> QED
  BY <1>9, <1>12, <1>13, <1>16, <1>17 DEF LaunchInv

\* SIGKILL for what the scan saw, for the CLI and for what it still has.
LEMMA KillKeeps == ASSUME LaunchInv, KillSurvivors PROVE LaunchInv'
<1> DEFINE S == Targets \cup Descendants("cli")
<1>1. /\ sup.pc = "grace" /\ Die(S)
      /\ cli' = [cli EXCEPT !.pc = "exited", !.code = IF Live("cli") THEN "killed" ELSE @]
      /\ sup' = [sup EXCEPT !.pc = "joined"]
      /\ UNCHANGED <<seen, fresh, runner, files, faults>>
  BY DEF KillSurvivors
<1>2. S \in SUBSET Processes /\ "cli" \in S
  BY DEF LaunchInv, Typed, Targets, Descendants, Children, Processes
<1>3. /\ sup' \in [pc : SupPlaces, why : Reasons] /\ sup'.pc = "joined"
      /\ sup'.pc \in Over
  BY <1>1 DEF LaunchInv, Typed, SupPlaces, Over
<1> HIDE DEF S
<1> QED
  BY <1>1, <1>2, <1>3, KilledKeeps

LEMMA SupervisorKeeps == ASSUME LaunchInv, Supervisor PROVE LaunchInv'
<1>1. sup \in [pc : SupPlaces, why : Reasons]
  BY DEF LaunchInv, Typed
<1>2. CASE Launch
  <2>1. /\ cli.pc = "begin" /\ proc["runner"] = "none" /\ proc["child"] = "none"
    BY <1>2 DEF Launch, LaunchInv, CliLives, Family
  <2>2. /\ proc'["cli"] = "run" /\ proc'["runner"] = proc["runner"] /\ proc'["child"] = proc["child"]
        /\ proc' \in [Processes -> States] /\ parent' \in [Processes -> Parents]
        /\ UNCHANGED <<seen, fresh, cli, runner, files, faults>>
    BY <1>2 DEF Launch, LaunchInv, Typed, Processes, States, Parents
  <2>3. sup' \in [pc : SupPlaces, why : Reasons] /\ sup'.pc = "polling"
        /\ sup'.why # "completed"
    BY <1>1, <1>2 DEF Launch, SupPlaces, LaunchInv, CliLives, Over
  <2>4. Typed'
    BY <2>2, <2>3 DEF LaunchInv, Typed
  <2>5. CliLives' /\ GroupStopped' /\ AfterExit'
    BY <2>1, <2>2, <2>3 DEF CliLives, GroupStopped, AfterExit, Live, Over
  <2>6. Family'
    BY <2>1, <2>2 DEF LaunchInv, Family, Live
  <2>7. Outputs'
    BY <2>1, <2>2, <2>3 DEF LaunchInv, Outputs, files
  <2> QED
    BY <2>4, <2>5, <2>6, <2>7 DEF LaunchInv

<1>3. CASE Completed
  <2>1. cli.pc = "exited"
    BY <1>3, ExitedAlone DEF Completed, Over
  <2>2. sup' \in [pc : SupPlaces, why : Reasons] /\ sup'.pc = "joined"
    BY <1>3 DEF Completed, SupPlaces, Reasons, Over
  <2>3. Typed'
    BY <1>3, <2>2 DEF Completed, LaunchInv, Typed
  <2> QED
    BY <1>3, <2>1, <2>2, <2>3, OverKeeps DEF Completed, files, Over
<1>4. CASE GiveUp
  <2>1. /\ sup' \in [pc : SupPlaces, why : Reasons] /\ sup'.pc = "scanning"
        /\ sup'.why # "completed"
    BY <1>4 DEF GiveUp, SupPlaces, Reasons
  <2>2. /\ proc' \in [Processes -> States]
        /\ \A p \in Processes : (Live(p)' <=> Live(p)) /\ (proc'[p] = "none" <=> proc[p] = "none")
    BY <1>4 DEF GiveUp, LaunchInv, Typed, States, Live
  <2>3. Typed'
    BY <1>4, <2>1, <2>2 DEF GiveUp, LaunchInv, Typed
  <2> QED
    BY <1>4, <2>1, <2>2, <2>3, WatchKeeps DEF GiveUp, Over
<1>5. CASE Scan
  <2>1. /\ sup' \in [pc : SupPlaces, why : Reasons] /\ sup'.pc = "freezing"
        /\ sup'.why # "completed"
    BY <1>1, <1>5 DEF Scan, SupPlaces, LaunchInv, CliLives, Over
  <2>2. seen' \subseteq Processes /\ fresh' \subseteq Processes
    BY <1>5 DEF Scan, LaunchInv, Typed, Descendants, Children
  <2>3. Typed'
    BY <1>5, <2>1, <2>2 DEF Scan, LaunchInv, Typed
  <2>4. \A p \in Processes : (Live(p)' <=> Live(p)) /\ (proc'[p] = "none" <=> proc[p] = "none")
    BY <1>5 DEF Scan, Live
  <2> QED
    BY <1>5, <2>1, <2>3, <2>4, WatchKeeps DEF Scan, Over
<1>6. CASE Freeze
  <2>1. /\ sup' \in [pc : SupPlaces, why : Reasons] /\ sup'.pc \in {"signalling", "scanning"}
        /\ sup'.why # "completed"
    BY <1>1, <1>6 DEF Freeze, SupPlaces, LaunchInv, CliLives, Over
  <2>2. /\ proc' \in [Processes -> States]
        /\ \A p \in Processes : (Live(p)' <=> Live(p)) /\ (proc'[p] = "none" <=> proc[p] = "none")
    BY <1>6 DEF Freeze, LaunchInv, Typed, States, Live
  <2>3. Typed'
    BY <1>6, <2>1, <2>2 DEF Freeze, LaunchInv, Typed
  <2> QED
    BY <1>6, <2>1, <2>2, <2>3, WatchKeeps DEF Freeze, Over
<1>7. CASE TermAndContinue
  BY <1>7, TermKeeps
<1>8. CASE TargetsGone
  <2>1. cli.pc = "exited"
    BY <1>8, ExitedAlone DEF TargetsGone, Targets, Over
  <2>2. sup' \in [pc : SupPlaces, why : Reasons] /\ sup'.pc = "joined"
    BY <1>1, <1>8 DEF TargetsGone, SupPlaces, Over
  <2>3. Typed'
    BY <1>8, <2>2 DEF TargetsGone, LaunchInv, Typed
  <2> QED
    BY <1>8, <2>1, <2>2, <2>3, OverKeeps DEF TargetsGone, files, Over
<1>9. CASE KillSurvivors
  BY <1>9, KillKeeps
<1>10. CASE Return \/ Cleanup
  <2>1. /\ sup.pc \in {"joined", "returned"} /\ sup' \in [pc : SupPlaces, why : Reasons]
        /\ sup'.pc \in {"returned", "cleaned"} /\ sup'.why = sup.why
        /\ UNCHANGED <<seen, fresh, proc, parent, cli, runner, faults>>
        /\ output' = output \/ (output' = "none" /\ sup'.pc = "cleaned")
    BY <1>1, <1>10 DEF Return, Cleanup, SupPlaces, Over, files
  <2>2. Typed'
    BY <2>1 DEF LaunchInv, Typed
  <2>3. cli.pc = "exited"
    BY <2>1 DEF LaunchInv, CliLives, Over
  <2> QED
    BY <2>1, <2>2, <2>3, OverKeeps DEF Over
<1> QED
  BY <1>2, <1>3, <1>4, <1>5, <1>6, <1>7, <1>8, <1>9, <1>10 DEF Supervisor
-----------------------------------------------------------------------------
(* Theorems *)

LEMMA LaunchInitially == Init => LaunchInv
<1> SUFFICES ASSUME Init PROVE LaunchInv
  OBVIOUS
<1>1. \A p \in Processes : ~Live(p) /\ proc[p] = "none"
  BY DEF Init, Live
<1>2. ~GroupLeft /\ ~Live("cli") /\ ~Live("runner") /\ ~Live("child")
      /\ proc["runner"] = "none" /\ proc["child"] = "none"
  BY <1>1 DEF GroupLeft, Group, Processes
<1>3. Typed
  BY LauncherAssumption
  DEF Init, Typed, SupPlaces, Reasons, States, Parents, CliPlaces, Codes, Steps
<1> QED
  BY <1>2, <1>3 DEF Init, LaunchInv, CliLives, Family, GroupStopped, AfterExit, Outputs, Over

LEMMA LaunchKeeps == LaunchInv /\ [Next]_vars => LaunchInv'
<1> SUFFICES ASSUME LaunchInv, [Next]_vars PROVE LaunchInv'
  OBVIOUS
<1>1. CASE Runner
  BY <1>1, RunnerKeeps
<1>2. CASE Cli
  BY <1>2, CliKeeps
<1>3. CASE Supervisor
  BY <1>3, SupervisorKeeps
<1>4. CASE UNCHANGED vars
  BY <1>4 DEF vars, supervisor, files, LaunchInv, Typed, CliLives, Family, GroupStopped,
       AfterExit, Outputs, GroupLeft, Live
<1> QED
  BY <1>1, <1>2, <1>3, <1>4 DEF Next

\* The CLI (build_artifacts under its guard) never exits by itself above a
\* process of its group, and when execute of launcher.py returns and nobody
\* killed the CLI, no process of the attempt is left.
THEOREM OwnExitIsAlwaysClean == Spec => []OwnExitIsClean
<1>1. LaunchInv /\ [Next]_vars => LaunchInv'
  BY LaunchKeeps
<1>2. LaunchInv => OwnExitIsClean
  BY CleanFollows
<1> QED
  BY <1>1, <1>2, LaunchInitially, PTL DEF Spec

\* A published directory (the rename of build_artifacts) is complete and
\* nobody is left who could write into it, whatever was signalled or crashed;
\* a CLI that exits with 0 has published one.
THEOREM PublishedIsAlwaysFinal == Spec => []PublishedIsFinal
<1>1. LaunchInv /\ [Next]_vars => LaunchInv'
  BY LaunchKeeps
<1>2. LaunchInv => PublishedIsFinal
  BY PublishedFollows
<1> QED
  BY <1>1, <1>2, LaunchInitially, PTL DEF Spec
=============================================================================
