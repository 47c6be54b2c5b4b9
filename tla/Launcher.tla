------------------------------ MODULE Launcher ------------------------------
(***************************************************************************)
(* One attempt of a build as a tree of processes and a scratch directory:  *)
(* the launcher of the worker (launcher.py) starts the builder CLI         *)
(* (builder_cli), which starts Blender with the runner (blender/runner.py) *)
(* in a session of its own, which starts a second Blender to verify what   *)
(* it saved.  Every process may be signalled, fail or be scheduled between *)
(* any two of its steps.                                                   *)
(*                                                                         *)
(* Time is abstracted: a grace period can only end while a process that    *)
(* does not react to SIGTERM is waited for.  Signals take effect at once.  *)
(***************************************************************************)
EXTENDS Naturals

CONSTANT FaultModels  \* [resists, crash, killed]: who ignores SIGTERM, whether
                      \* the runner may die without its own cleanup, and
                      \* whether the CLI may be killed from outside

Processes == {"cli", "runner", "child"}
Group == {"runner", "child"}    \* the session that the CLI starts

ASSUME LauncherAssumption ==
  FaultModels \subseteq [resists : SUBSET Group, crash : BOOLEAN, killed : BOOLEAN]

VARIABLES sup,     \* [pc, why]: execute() of the supervisor
          seen,    \* descendants that _terminate has discovered
          fresh,   \* those of the present pass
          stable,  \* passes without a discovery
          proc,    \* "none", "run", "frozen", "dead"
          parent,  \* who /proc names as the parent
          cli,     \* [pc, code, got]: build_artifacts and its signal guard
          runner,  \* [step, ok]
          stage,   \* the private stage of the CLI exists
          draft,   \* the private stage of the runner
          result,  \* <stage>/result
          output,  \* the published directory
          faults   \* the fault model of this run

supervisor == <<sup, seen, fresh, stable>>
files == <<stage, draft, result, output>>
vars == <<supervisor, proc, parent, cli, runner, files, faults>>

Init ==
  /\ sup = [pc |-> "idle", why |-> "none"]
  /\ seen = {} /\ fresh = {} /\ stable = 0
  /\ proc = [p \in Processes |-> "none"]
  /\ parent = [p \in Processes |-> "none"]
  /\ cli = [pc |-> "begin", code |-> "none", got |-> FALSE]
  /\ runner = [step |-> "generate", ok |-> FALSE]
  /\ stage = FALSE
  /\ draft = "none" /\ result = "none" /\ output = "none"
  /\ faults \in FaultModels

Live(p) == proc[p] \in {"run", "frozen"}
Resisting(S) == \E p \in S : Live(p) /\ p \in faults.resists

\* The processes of S end; what they leave behind is adopted by init.
Die(S) ==
  /\ proc' = [p \in Processes |-> IF p \in S /\ Live(p) THEN "dead" ELSE proc[p]]
  /\ parent' = [p \in Processes |->
       IF parent[p] \in S /\ parent[p] # "none" THEN "init" ELSE parent[p]]

Guarded_WaitOnly == cli.pc \in {"spawn", "wait", "after"}

\* _TerminationGuard is installed: signals are only recorded.
Guarded == cli.pc \in {"spawn", "wait", "term", "after"}

-----------------------------------------------------------------------------
(* The runner inside Blender *)

RunnerAt(step) == proc["runner"] = "run" /\ runner.step = step

Generate ==
  /\ RunnerAt("generate") /\ stage
  /\ draft' = "partial"
  /\ runner' = [runner EXCEPT !.step = "verify"]
  /\ UNCHANGED <<supervisor, proc, parent, cli, stage, result, output, faults>>

\* _run_verifier starts a fresh Blender and waits for it.
StartVerifier ==
  /\ RunnerAt("verify")
  /\ proc' = [proc EXCEPT !["child"] = "run"]
  /\ parent' = [parent EXCEPT !["child"] = "runner"]
  /\ runner' = [runner EXCEPT !.step = "waiting"]
  /\ UNCHANGED <<supervisor, cli, files, faults>>

\* The verifier ends, with its evidence next to the draft or without.
ChildEnds ==
  /\ proc["child"] = "run"
  /\ Die({"child"})
  /\ draft' \in {draft, IF draft = "partial" THEN "evidence" ELSE draft}
  /\ UNCHANGED <<supervisor, cli, runner, stage, result, output, faults>>

\* The evidence of the verifier and the quality report pass.
QualityPassed ==
  /\ RunnerAt("waiting") /\ ~Live("child") /\ draft = "evidence"
  /\ draft' = "verified"
  /\ runner' = [runner EXCEPT !.step = "manifest"]
  /\ UNCHANGED <<supervisor, proc, parent, cli, stage, result, output, faults>>

\* The manifest is the last file that is written.
WriteManifest ==
  /\ RunnerAt("manifest") /\ draft = "verified"
  /\ draft' = "whole"
  /\ runner' = [runner EXCEPT !.step = "publish"]
  /\ UNCHANGED <<supervisor, proc, parent, cli, stage, result, output, faults>>

PublishResult ==
  /\ RunnerAt("publish") /\ draft = "whole"
  /\ result = "none"
  /\ result' = draft
  /\ draft' = "none"
  /\ runner' = [runner EXCEPT !.step = "exit"]
  /\ UNCHANGED <<supervisor, proc, parent, cli, stage, output, faults>>

\* Blender or one of its libraries leaves a helper process behind, one that no
\* scan has seen.
LeaveHelper ==
  /\ RunnerAt("exit")
  /\ proc["child"] = "dead"
  /\ proc' = [proc EXCEPT !["child"] = "run"]
  /\ parent' = [parent EXCEPT !["child"] = "runner"]
  /\ seen' = seen \ {"child"} /\ fresh' = fresh \ {"child"}
  /\ UNCHANGED <<sup, stable, cli, runner, files, faults>>

RunnerExits ==
  /\ RunnerAt("exit")
  /\ Die({"runner"})
  /\ runner' = [runner EXCEPT !.ok = TRUE]
  /\ UNCHANGED <<supervisor, cli, files, faults>>

\* Every failure removes the private stage; a verifier that takes too long is
\* killed first.
RunnerFails ==
  /\ proc["runner"] = "run" /\ runner.step # "exit"
  /\ draft' = "none"
  /\ Die(IF runner.step = "waiting" THEN Group ELSE {"runner"})
  /\ UNCHANGED <<supervisor, cli, runner, stage, result, output, faults>>

RunnerCrashes ==
  /\ faults.crash /\ proc["runner"] = "run"
  /\ Die({"runner"})
  /\ UNCHANGED <<supervisor, cli, runner, files, faults>>

-----------------------------------------------------------------------------
(* The builder CLI *)

CliAt(pc) == proc["cli"] = "run" /\ cli.pc = pc

Exit(code) ==
  /\ cli' = [cli EXCEPT !.pc = "exited", !.code = code]
  /\ Die({"cli"})

\* _request, _new_output, _blender_binary and _private_stage.
StageOutput ==
  /\ CliAt("begin")
  /\ \/ /\ output = "none"
        /\ stage' = TRUE
        /\ cli' = [cli EXCEPT !.pc = "spawn"]
        /\ UNCHANGED <<proc, parent>>
     \/ Exit("failed") /\ UNCHANGED stage
  /\ UNCHANGED <<supervisor, runner, draft, result, output, faults>>

\* A signal during Popen is recorded and acted upon afterwards.
SpawnRunner ==
  /\ CliAt("spawn")
  /\ IF cli.got
     THEN /\ cli' = [cli EXCEPT !.pc = "after", !.code = "signal"]
          /\ UNCHANGED <<proc, parent>>
     ELSE \/ /\ proc' = [proc EXCEPT !["runner"] = "run"]
             /\ parent' = [parent EXCEPT !["runner"] = "cli"]
             /\ cli' = [cli EXCEPT !.pc = "wait"]
          \/ /\ cli' = [cli EXCEPT !.pc = "after", !.code = "failed"]
             /\ UNCHANGED <<proc, parent>>
  /\ UNCHANGED <<supervisor, runner, files, faults>>

\* _terminate: SIGTERM for the whole group.
StopGroup(code) ==
  /\ cli' = [cli EXCEPT !.pc = "term", !.code = code]
  /\ Die(Group \ faults.resists)

GroupLeft == \E p \in Group : Live(p)

EndWait_ExitStatus ==
  /\ CliAt("wait")
  /\ \/ cli.got /\ StopGroup("signal")
     \/ ~cli.got /\ StopGroup("timeout")
     \/ /\ ~Live("runner")
        /\ cli' = [cli EXCEPT !.pc = "after",
                              !.code = IF runner.ok THEN "ok" ELSE "failed"]
        /\ UNCHANGED <<proc, parent>>
  /\ UNCHANGED <<supervisor, runner, files, faults>>

\* The wait ends with a signal, the timeout or the end of the runner; what
\* the runner left in its group is stopped as well.
EndWait ==
  /\ CliAt("wait")
  /\ \/ cli.got /\ StopGroup("signal")
     \/ ~cli.got /\ StopGroup("timeout")
     \/ /\ ~Live("runner")
        /\ LET code == IF runner.ok THEN "ok" ELSE "failed" IN
             IF GroupLeft THEN StopGroup(code)
             ELSE /\ cli' = [cli EXCEPT !.pc = "after", !.code = code]
                  /\ UNCHANGED <<proc, parent>>
  /\ UNCHANGED <<supervisor, runner, files, faults>>

\* _wait_for_process_group_exit, then SIGKILL after the grace period.
GroupGone ==
  /\ CliAt("term") /\ ~GroupLeft
  /\ cli' = [cli EXCEPT !.pc = "after"]
  /\ UNCHANGED <<supervisor, proc, parent, runner, files, faults>>

KillGroup ==
  /\ CliAt("term") /\ Resisting(Group)
  /\ Die(Group)
  /\ UNCHANGED <<supervisor, cli, runner, files, faults>>

\* The guard ends: a recorded signal wins over everything else.
LeaveGuard ==
  /\ CliAt("after")
  /\ cli' = [cli EXCEPT !.code = IF cli.got THEN "signal" ELSE cli.code,
       !.pc = IF cli.code = "ok" /\ ~cli.got THEN "validate" ELSE "unwind"]
  /\ UNCHANGED <<supervisor, proc, parent, runner, files, faults>>

\* _validate_tree
Validate ==
  /\ CliAt("validate")
  /\ cli' = IF result = "whole" THEN [cli EXCEPT !.pc = "rename"]
            ELSE [cli EXCEPT !.pc = "unwind", !.code = "failed"]
  /\ UNCHANGED <<supervisor, proc, parent, runner, files, faults>>

\* The output appears by one rename, unless somebody else created it.
PublishOutput ==
  /\ CliAt("rename")
  /\ \/ /\ output' = result
        /\ result' = "none"
        /\ cli' = [cli EXCEPT !.pc = "rmdir"]
     \/ /\ cli' = [cli EXCEPT !.pc = "unwind", !.code = "failed"]
        /\ UNCHANGED <<output, result>>
  /\ UNCHANGED <<supervisor, proc, parent, runner, stage, draft, faults>>

RemoveEmptyStage ==
  /\ CliAt("rmdir")
  /\ stage' = FALSE
  /\ Exit("ok")
  /\ UNCHANGED <<supervisor, runner, draft, result, output, faults>>

\* The finally block removes the stage with everything in it.
Unwind ==
  /\ CliAt("unwind")
  /\ stage' = FALSE /\ draft' = "none" /\ result' = "none"
  /\ Exit(cli.code)
  /\ UNCHANGED <<supervisor, runner, output, faults>>

\* A signal of an operator: recorded under the guard; outside it SIGTERM is
\* fatal and SIGINT unwinds the stack.
Interrupt ==
  /\ proc["cli"] = "run" /\ ~cli.got
  /\ \/ /\ Guarded
        /\ cli' = [cli EXCEPT !.got = TRUE]
        /\ UNCHANGED <<proc, parent>>
     \/ ~Guarded /\ Exit("signal")
     \/ /\ ~Guarded
        /\ cli' = [cli EXCEPT !.pc = "unwind", !.code = "signal"]
        /\ UNCHANGED <<proc, parent>>
  /\ UNCHANGED <<supervisor, runner, files, faults>>

\* SIGKILL from outside, by the kernel that ran out of memory or by an
\* operator: neither the guard nor the finally block runs, and the session that
\* the CLI started goes on without it.
CliKilled ==
  /\ faults.killed /\ Live("cli")
  /\ Exit("killed")
  /\ UNCHANGED <<supervisor, runner, files, faults>>

-----------------------------------------------------------------------------
(* The launcher of the worker *)

\* execute: scratch directory, request file, process.
Launch ==
  /\ sup.pc = "idle"
  /\ sup' = [sup EXCEPT !.pc = "polling"]
  /\ proc' = [proc EXCEPT !["cli"] = "run"]
  /\ parent' = [parent EXCEPT !["cli"] = "supervisor"]
  /\ UNCHANGED <<seen, fresh, stable, cli, runner, files, faults>>

\* poll() names an exit code: however the CLI ended.
Completed ==
  /\ sup.pc = "polling" /\ ~Live("cli")
  /\ sup' = [pc |-> "joined", why |-> "completed"]
  /\ UNCHANGED <<seen, fresh, stable, proc, parent, cli, runner, files, faults>>

\* The heartbeat reports a cancellation or a lost lease, the timeout passed,
\* or the supervisor itself is interrupted: _terminate freezes the CLI first.
GiveUp ==
  /\ sup.pc = "polling" /\ Live("cli")
  /\ \E why \in {"timed_out", "canceled", "lease_lost", "raised"} :
       sup' = [pc |-> "scanning", why |-> why]
  /\ proc' = [proc EXCEPT !["cli"] = "frozen"]
  /\ UNCHANGED <<seen, fresh, stable, parent, cli, runner, files, faults>>

Children(S) == {p \in Processes : Live(p) /\ parent[p] \in S}
Descendants(p) == Children({p}) \cup Children(Children({p}))

\* One pass: read /proc, then freeze what was found.
Scan ==
  /\ sup.pc = "scanning"
  /\ fresh' = Descendants("cli") \ seen
  /\ seen' = seen \cup Descendants("cli")
  /\ sup' = [sup EXCEPT !.pc = "freezing"]
  /\ UNCHANGED <<stable, proc, parent, cli, runner, files, faults>>

\* Two passes without a discovery end the scan; eight passes, its limit in
\* the code, are not reached by three processes.
Freeze ==
  /\ sup.pc = "freezing"
  /\ proc' = [p \in Processes |->
       IF p \in fresh /\ Live(p) THEN "frozen" ELSE proc[p]]
  /\ stable' = IF fresh = {} THEN stable + 1 ELSE 0
  /\ sup' = [sup EXCEPT !.pc = IF stable' = 2 THEN "signalling" ELSE "scanning"]
  /\ UNCHANGED <<seen, fresh, parent, cli, runner, files, faults>>

Targets == seen \cup {"cli"}

\* SIGTERM, then SIGCONT for everything that was frozen.
TermAndContinue ==
  LET fatal == {p \in Targets : Live(p) /\ p \notin faults.resists
                                /\ (p = "cli" => ~Guarded)}
  IN  /\ sup.pc = "signalling"
      /\ proc' = [p \in Processes |->
           IF p \in fatal THEN "dead"
           ELSE IF proc[p] = "frozen" THEN "run" ELSE proc[p]]
      /\ parent' = [p \in Processes |->
           IF parent[p] \in fatal THEN "init" ELSE parent[p]]
      /\ cli' = IF "cli" \in fatal
                THEN [cli EXCEPT !.pc = "exited", !.code = "signal"]
                ELSE [cli EXCEPT !.got = Live("cli") \/ @]
      /\ sup' = [sup EXCEPT !.pc = "grace"]
      /\ UNCHANGED <<seen, fresh, stable, runner, files, faults>>

TargetsGone ==
  /\ sup.pc = "grace"
  /\ \A p \in Targets : ~Live(p)
  /\ sup' = [sup EXCEPT !.pc = "joined"]
  /\ UNCHANGED <<seen, fresh, stable, proc, parent, cli, runner, files, faults>>

\* The grace period ends first: the survivors, the CLI and what descends from
\* it by now are killed.
KillSurvivors ==
  /\ sup.pc = "grace"
  /\ \E p \in Targets : Live(p)
  /\ Resisting(Processes)
  /\ Die(Targets \cup Descendants("cli"))
  /\ cli' = [cli EXCEPT !.pc = "exited",
       !.code = IF Live("cli") THEN "killed" ELSE @]
  /\ sup' = [sup EXCEPT !.pc = "joined"]
  /\ UNCHANGED <<seen, fresh, stable, runner, files, faults>>

Return ==
  /\ sup.pc = "joined"
  /\ sup' = [sup EXCEPT !.pc = "returned"]
  /\ UNCHANGED <<seen, fresh, stable, proc, parent, cli, runner, files, faults>>

\* The worker is done with the result, or execute raised.  The removal may
\* fail, and nobody tries again.
Cleanup ==
  /\ sup.pc = "returned"
  /\ sup' = [sup EXCEPT !.pc = "cleaned"]
  /\ \/ stage' = FALSE /\ draft' = "none" /\ result' = "none" /\ output' = "none"
     \/ UNCHANGED files
  /\ UNCHANGED <<seen, fresh, stable, proc, parent, cli, runner, faults>>

-----------------------------------------------------------------------------
Runner ==
  \/ Generate \/ StartVerifier \/ ChildEnds \/ QualityPassed \/ WriteManifest
  \/ PublishResult \/ LeaveHelper \/ RunnerExits \/ RunnerFails \/ RunnerCrashes

Cli ==
  \/ StageOutput \/ SpawnRunner \/ EndWait \/ GroupGone \/ KillGroup
  \/ LeaveGuard \/ Validate \/ PublishOutput \/ RemoveEmptyStage \/ Unwind
  \/ Interrupt \/ CliKilled

Supervisor ==
  \/ Launch \/ Completed \/ GiveUp \/ Scan \/ Freeze \/ TermAndContinue
  \/ TargetsGone \/ KillSurvivors \/ Return \/ Cleanup

Next == Runner \/ Cli \/ Supervisor

Spec == Init /\ [][Next]_vars

-----------------------------------------------------------------------------
(* Properties *)

\* The CLI never exits by itself before its group is gone, whatever signals,
\* crashes and helpers left behind it meets: execute can only return above a
\* process of the attempt that could still write into the scratch directory if
\* the CLI was killed with SIGKILL, by the supervisor in the middle of the
\* CLI's own termination or from outside.
OwnExitIsClean ==
  /\ cli.pc = "exited" /\ cli.code # "killed" => ~GroupLeft
  /\ sup.pc \in {"returned", "cleaned"} /\ cli.code # "killed" =>
       \A p \in Processes : ~Live(p)

\* docs/api.md on the cancellation: "The supervisor stops the complete
\* builder/Blender process tree."  The code lets one process escape that
\* ignores SIGTERM and lost its parent before a scan saw it: only the CLI knows
\* it, by its group, and the supervisor kills the CLI after 2 seconds while the
\* CLI sends SIGKILL after 5.
CanceledTreeIsStopped ==
  sup.pc \in {"returned", "cleaned"} /\ sup.why = "canceled" =>
    \A p \in Processes : ~Live(p)

\* An output directory is complete, was verified, and nobody is left who
\* could change it; a CLI that reports success has published one.
PublishedIsFinal ==
  /\ output # "none" => output = "whole" /\ ~GroupLeft
  /\ cli.pc = "exited" /\ cli.code = "ok" /\ sup.pc # "cleaned" =>
       output = "whole"
=============================================================================
