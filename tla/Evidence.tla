------------------------------ MODULE Evidence ------------------------------
(***************************************************************************)
(* The evidence store of a modelling project (src/experimental_modeling):  *)
(* the controller that builds one revision and promotes it, the launcher   *)
(* and the request bridge that run the controller, the sandbox whose       *)
(* containers a build owns, and the review server that records decisions   *)
(* of a person.                                                            *)
(*                                                                         *)
(* Processes share a directory tree.  `fs` is that tree as processes see   *)
(* it, `disk` what fsync has made durable.  A process may be interrupted   *)
(* or killed between any two steps; at a power loss every change that is   *)
(* not yet durable is kept or lost on its own.  Locks are kernel leases:   *)
(* they are taken without waiting and end with their holder.               *)
(***************************************************************************)
EXTENDS Naturals, FiniteSets

CONSTANTS Launched,     \* invocations through the launcher or request bridge
          Bare,         \* invocations of the developer CLI: no build lease
          Revisions,    \* revision identifiers
          Handoffs,     \* directories prepared for an external author
          Rules,        \* requirement documents
          MaxPowerLoss, \* bound on power losses
          None

ASSUME EvidenceAssumption ==
  /\ Launched \cap Bare = {}
  /\ None \notin Revisions \cup Rules \cup Launched \cup Bare
  /\ MaxPowerLoss \in Nat

Builders == Launched \cup Bare
Verdicts == {"accepted", "rejected", "needs_review"}

VARIABLES fs, disk,        \* [place, pointer, rules]
          synced,          \* revisions whose files were flushed
          result,          \* recorded status, "none" or "torn"
          parent,          \* parent recorded with a revision
          ruleset,         \* requirements_lock_hash recorded with a revision
          marker,          \* .launcher-build.json: "clear" when absent or finished,
                           \* "unfinished" when running or recovery_required
          buildLock, storeLock,
          job,             \* the program counter and locals of a builder
          leftovers,       \* launched builders with containers no process will remove
          handoff,         \* prepared handoffs
          acceptance,      \* revisions a person accepted
          reported,        \* revisions a build returned as accepted
          losses           \* number of power losses

tree == <<fs, disk, synced, result, parent, ruleset>>
review == <<handoff, acceptance>>
history == <<reported, losses>>
vars == <<tree, marker, buildLock, storeLock, job, leftovers, review, history>>

Idle == [pc |-> "idle", rev |-> None, parent |-> None, handoff |-> None,
         error |-> FALSE, stop |-> FALSE, verdict |-> "none"]

Init ==
  /\ fs = [place |-> [r \in Revisions |-> "none"], pointer |-> None,
           rules |-> None]
  /\ disk = fs
  /\ synced = {}
  /\ result = [r \in Revisions |-> "none"]
  /\ parent = [r \in Revisions |-> None]
  /\ ruleset = [r \in Revisions |-> None]
  /\ marker = "clear"
  /\ buildLock = None /\ storeLock = None
  /\ job = [p \in Builders |-> Idle]
  /\ leftovers = {}
  /\ handoff = [h \in Handoffs |-> None]
  /\ acceptance = {}
  /\ reported = {} /\ losses = 0

-----------------------------------------------------------------------------
(* Reading the store *)

\* verified_revision: one directory holds the revision and its manifest
\* describes every file in it.
Verified(r) == fs.place[r] # "none" /\ result[r] \in Verdicts

\* accepted_bindings: the revision `pointer` names and those that parents,
\* as `up` records them, lead to.
ChainFrom(pointer, up) ==
  LET Closed(S) == /\ pointer \in S \cup {None}
                   /\ \A s \in S : up[s] \in S \cup {None}
  IN  {r \in Revisions : \A S \in SUBSET Revisions : Closed(S) => r \in S}

\* The chain from last_good.json.
Chain == ChainFrom(fs.pointer, parent)

MachineVerified_Unanchored(r) ==
  Verified(r) /\ result[r] = "accepted" /\ ruleset[r] = fs.rules

\* revision(): a report counts as verified only for a revision that the
\* accepted history anchors, under the rules that are locked now.
MachineVerified(r) ==
  /\ Verified(r) /\ result[r] = "accepted"
  /\ r \in Chain
  /\ ruleset[r] = fs.rules

\* verify_accepted
AcceptedWhole(r) == fs.place[r] = "accepted" /\ result[r] = "accepted"

\* ReviewProject.request.  A queued request stays valid while its revision
\* stands, so the queue itself is left out.
Requestable(r) == Verified(r) /\ ruleset[r] \in {None, fs.rules}

\* Without an accepted parent there is nothing to edit or repair; a repair
\* refers to a rejected direct child of the accepted parent.
Preparable(r) ==
  /\ r = None <=> fs.pointer = None
  /\ r # None => Requestable(r)
  /\ r \notin {None, fs.pointer} =>
       result[r] = "rejected" /\ parent[r] = fs.pointer

\* check_current: neither the accepted parent nor the locked rules moved.
Current(h) ==
  /\ handoff[h] # None
  /\ handoff[h].parent = fs.pointer
  /\ handoff[h].rules = fs.rules
  /\ fs.pointer # None => AcceptedWhole(fs.pointer)

-----------------------------------------------------------------------------
(* The review server and the author's handoff.  Each operation holds the   *)
(* store lease and ends with one exclusive file.                           *)

\* ReviewProject.accept
Accept(r) ==
  /\ storeLock = None
  /\ MachineVerified(r)
  /\ r \notin acceptance
  /\ acceptance' = acceptance \cup {r}
  /\ UNCHANGED <<tree, marker, buildLock, storeLock, job, leftovers, handoff,
                 history>>

\* requests.prepare: request.json is linked last, so that a handoff exists
\* whole or not at all.
Prepare(h, r) ==
  /\ storeLock = None
  /\ handoff[h] = None
  /\ Preparable(r)
  /\ handoff' = [handoff EXCEPT ![h] =
       [parent |-> fs.pointer, rules |-> fs.rules]]
  /\ UNCHANGED <<tree, marker, buildLock, storeLock, job, leftovers,
                 acceptance, history>>

-----------------------------------------------------------------------------
(* Starting a build *)

At(p, step) == job[p].pc = step
OwnsContainers(p) == p \in Launched /\ job[p].pc \in {"job", "cleaning"}
Goto(p, step) == job' = [job EXCEPT ![p].pc = step]

\* Every exception outside the controller's own try block, every interrupt
\* outside a job and every kill end the process: its leases end with it, the
\* marker and the directories stay as they are.
Exit(p) ==
  /\ job' = [job EXCEPT ![p] = Idle]
  /\ buildLock' = IF buildLock = p THEN None ELSE buildLock
  /\ storeLock' = IF storeLock = p THEN None ELSE storeLock

\* execute_project_build: an unfinished marker must be acknowledged, which
\* an operator does after removing what dead builds left behind.
Launching(p, r, h) ==
  /\ At(p, "idle") /\ p \in Launched
  /\ buildLock = None
  /\ fs.place[r] = "none"
  /\ marker = "unfinished" => leftovers = {}
  /\ buildLock' = p
  /\ marker' = "unfinished"
  /\ job' = [job EXCEPT ![p] = [Idle EXCEPT
       !.pc = "marked", !.rev = r, !.parent = fs.pointer, !.handoff = h]]
  /\ UNCHANGED <<tree, storeLock, leftovers, review, history>>

\* run_proposal.  A revision that exists is replayed: the recorded outcome is
\* returned and nothing changes.
LaunchRequest(p, r, h) == storeLock = None /\ Current(h) /\ Launching(p, r, h)

\* build_project.  The parent named was last_good.json when the operator
\* looked.
LaunchBuild(p, r) == Launching(p, r, None)

-----------------------------------------------------------------------------
(* The controller's checks under the store lease *)

\* Rules recorded by any earlier build.
RecordedRules == {ruleset[r] : r \in {s \in Revisions : Verified(s)}} \ {None}

\* q is the document given, if any; a handoff fixes the rules and the parent,
\* and only an initial one may bring a document.
RulesFit(p, q) ==
  LET h == job[p].handoff IN
  /\ RecordedRules \subseteq {fs.rules}
  /\ fs.rules # None => q \in {None, fs.rules}
  /\ h # None => /\ handoff[h].parent = fs.pointer
                 /\ handoff[h].rules = fs.rules
                 /\ q # None => fs.rules = q \/ fs.pointer = None

\* The first build with explicit rules locks them, whatever the checks that
\* follow say of it.
LockRules(p, q) ==
  /\ storeLock = None
  /\ RulesFit(p, q)
  /\ IF fs.rules = None /\ q # None
     THEN /\ fs' = [fs EXCEPT !.rules = q]
          /\ disk' = [disk EXCEPT !.rules = q, !.pointer = fs.pointer]
     ELSE UNCHANGED <<fs, disk>>
  /\ storeLock' = p
  /\ UNCHANGED <<synced, result, parent, ruleset, marker, buildLock, leftovers,
                 review, history>>

Enter(p, q) ==
  /\ At(p, "marked")
  /\ LockRules(p, q)
  /\ job' = [job EXCEPT ![p].pc = "entered", ![p].handoff = None]

\* The developer CLI calls the controller without the build lease and without
\* the marker, with a parent that may be out of date.
EnterBare(p, q, r, from) ==
  /\ At(p, "idle") /\ p \in Bare
  /\ LockRules(p, q)
  /\ job' = [job EXCEPT ![p] = [Idle EXCEPT
       !.pc = "entered", !.rev = r, !.parent = from]]

\* Revisions are immutable and the parent is the last good revision.
ParentFits(p) ==
  /\ fs.place[job[p].rev] = "none"
  /\ job[p].parent = fs.pointer
  /\ fs.pointer # None =>
       /\ AcceptedWhole(fs.pointer)
       /\ ruleset[fs.pointer] \in {None, fs.rules}

OpenAttempt(p) ==
  /\ At(p, "entered")
  /\ ParentFits(p)
  /\ LET r == job[p].rev IN
       /\ fs' = [fs EXCEPT !.place[r] = "attempts"]
       /\ parent' = [parent EXCEPT ![r] = job[p].parent]
       /\ ruleset' = [ruleset EXCEPT ![r] = fs.rules]
  /\ Goto(p, "job")
  /\ UNCHANGED <<disk, synced, result, marker, buildLock, storeLock, leftovers,
                 review, history>>

Refused(p) ==
  /\ \/ At(p, "marked") /\ storeLock # None
     \/ At(p, "marked") /\ \E q \in Rules \cup {None} : ~RulesFit(p, q)
     \/ At(p, "entered") /\ ~ParentFits(p)
  /\ Exit(p)
  /\ UNCHANGED <<tree, marker, leftovers, review, history>>

-----------------------------------------------------------------------------
(* The sandboxed jobs *)

\* DockerSandbox.run: the job ends, fails or is stopped by the first signal;
\* the finally block then removes the containers and volumes it created.
EndJob(p) ==
  /\ At(p, "job")
  /\ \/ Goto(p, "cleaning")
     \/ job' = [job EXCEPT ![p].pc = "cleaning", ![p].error = TRUE]
     \/ job' = [job EXCEPT ![p].pc = "cleaning", ![p].stop = TRUE]
  /\ UNCHANGED <<tree, marker, buildLock, storeLock, leftovers, review, history>>

\* Everything was removed: an interrupted build ends, a failed one records
\* what it has, any other runs its next job (author, inspection, renderings,
\* printing) or goes on to the verdict.
CleanJob(p) ==
  /\ At(p, "cleaning")
  /\ IF job[p].stop THEN Exit(p)
     ELSE /\ job' = IF job[p].error
                    THEN [job EXCEPT ![p].pc = "record",
                                     ![p].verdict = "needs_review"]
                    ELSE [job EXCEPT ![p].pc = "verify"]
          /\ UNCHANGED <<buildLock, storeLock>>
  /\ UNCHANGED <<tree, marker, leftovers, review, history>>

NextJob(p) ==
  /\ At(p, "cleaning") /\ ~job[p].stop /\ ~job[p].error
  /\ Goto(p, "job")
  /\ UNCHANGED <<tree, marker, buildLock, storeLock, leftovers, review, history>>

\* A failed removal is a hard failure, after a successful job and after an
\* interrupt too.
CleanFails(p) ==
  /\ At(p, "cleaning")
  /\ leftovers' = leftovers \cup ({p} \cap Launched)
  /\ job' = [job EXCEPT ![p].pc = "record", ![p].error = TRUE,
                        ![p].stop = FALSE, ![p].verdict = "needs_review"]
  /\ UNCHANGED <<tree, marker, buildLock, storeLock, review, history>>

-----------------------------------------------------------------------------
(* Verdict and promotion *)

\* The checks of policy and requirements, then the second look at the frozen
\* inputs, the locked rules and the parent.
Verify(p) ==
  /\ At(p, "verify")
  /\ LET same == /\ ruleset[job[p].rev] \in {None, fs.rules}
                 /\ job[p].parent # None => AcceptedWhole(job[p].parent)
     IN  \E v \in Verdicts, frozen \in BOOLEAN :
           job' = [job EXCEPT ![p].pc = "record",
                     ![p].error = ~(same /\ frozen),
                     ![p].verdict = IF same /\ frozen THEN v
                                    ELSE "needs_review"]
  /\ UNCHANGED <<tree, marker, buildLock, storeLock, leftovers, review, history>>

\* result.json is the last file of an attempt.
Record(p) ==
  /\ At(p, "record")
  /\ result' = [result EXCEPT ![job[p].rev] = job[p].verdict]
  /\ job' = [job EXCEPT ![p].verdict = "none", ![p].parent = None,
       ![p].pc = IF job[p].verdict = "accepted" THEN "sync" ELSE "return"]
  /\ UNCHANGED <<fs, disk, synced, parent, ruleset, marker, buildLock,
                 storeLock, leftovers, review, history>>

\* sync_tree
SyncTree(p) ==
  /\ At(p, "sync")
  /\ synced' = synced \cup {job[p].rev}
  /\ Goto(p, "rename")
  /\ UNCHANGED <<fs, disk, result, parent, ruleset, marker, buildLock,
                 storeLock, leftovers, review, history>>

Rename(p) ==
  /\ At(p, "rename")
  /\ fs' = [fs EXCEPT !.place[job[p].rev] = "accepted"]
  /\ Goto(p, "syncdirs")
  /\ UNCHANGED <<disk, synced, result, parent, ruleset, marker, buildLock,
                 storeLock, leftovers, review, history>>

SyncDirectories_Skipped(p) ==
  /\ At(p, "syncdirs")
  /\ Goto(p, "pointer")
  /\ UNCHANGED <<fs, disk, synced, result, parent, ruleset, marker, buildLock,
                 storeLock, leftovers, review, history>>

SyncDirectories(p) ==
  /\ At(p, "syncdirs")
  /\ disk' = [disk EXCEPT !.place = fs.place]
  /\ Goto(p, "pointer")
  /\ UNCHANGED <<fs, synced, result, parent, ruleset, marker, buildLock,
                 storeLock, leftovers, review, history>>

\* The flushed temporary file replaces last_good.json.
ReplacePointer(p) ==
  /\ At(p, "pointer")
  /\ fs' = [fs EXCEPT !.pointer = job[p].rev]
  /\ Goto(p, "syncstore")
  /\ UNCHANGED <<disk, synced, result, parent, ruleset, marker, buildLock,
                 storeLock, leftovers, review, history>>

SyncStore(p) ==
  /\ At(p, "syncstore")
  /\ disk' = [disk EXCEPT !.pointer = job[p].rev]
  /\ reported' = reported \cup {job[p].rev}
  /\ Goto(p, "return")
  /\ UNCHANGED <<fs, synced, result, parent, ruleset, marker, buildLock,
                 storeLock, leftovers, review, losses>>

Return_ClearsMarker(p) ==
  /\ At(p, "return")
  /\ marker' = IF p \in Launched THEN "clear" ELSE marker
  /\ Exit(p)
  /\ UNCHANGED <<tree, leftovers, review, history>>

\* build returns and its store lease ends.  The launcher then clears its
\* marker, but only for a build that reports no error.
Return(p) ==
  /\ At(p, "return")
  /\ marker' = IF p \in Launched /\ ~job[p].error THEN "clear" ELSE marker
  /\ Exit(p)
  /\ UNCHANGED <<tree, leftovers, review, history>>

-----------------------------------------------------------------------------
(* Faults and the operator *)

\* An interrupt outside a job, a second one during its cleanup, or a kill.
Stop(p) ==
  /\ ~At(p, "idle")
  /\ Exit(p)
  /\ leftovers' = leftovers \cup {b \in {p} : OwnsContainers(b)}
  /\ UNCHANGED <<tree, marker, review, history>>

\* What was not flushed is kept or lost, item by item.
PowerLoss ==
  /\ losses < MaxPowerLoss
  /\ losses' = losses + 1
  /\ \E place \in [Revisions -> {"none", "attempts", "accepted"}],
        pointer \in {fs.pointer, disk.pointer},
        torn \in SUBSET {r \in Revisions : result[r] # "none"
                                           /\ r \notin synced} :
       /\ \A r \in Revisions : place[r] \in {fs.place[r], disk.place[r]}
       /\ fs' = [fs EXCEPT !.place = place, !.pointer = pointer]
       /\ disk' = fs'
       /\ result' = [r \in Revisions |->
            IF place[r] = "none" THEN "none"
            ELSE IF r \in torn THEN "torn" ELSE result[r]]
       /\ parent' = [r \in Revisions |->
            IF place[r] = "none" THEN None ELSE parent[r]]
       /\ ruleset' = [r \in Revisions |->
            IF place[r] = "none" THEN None ELSE ruleset[r]]
       /\ synced' = {r \in synced : place[r] # "none"}
  /\ job' = [p \in Builders |-> Idle]
  /\ buildLock' = None /\ storeLock' = None
  /\ leftovers' = leftovers \cup {p \in Builders : OwnsContainers(p)}
  /\ UNCHANGED <<marker, review, reported>>

\* The operator removes what dead builds left behind.
RemoveLeftovers ==
  /\ leftovers # {}
  /\ leftovers' = {}
  /\ UNCHANGED <<tree, marker, buildLock, storeLock, job, review, history>>

-----------------------------------------------------------------------------
Step(p) ==
  \/ \E q \in Rules \cup {None} : Enter(p, q)
  \/ OpenAttempt(p) \/ Refused(p)
  \/ EndJob(p) \/ CleanJob(p) \/ NextJob(p) \/ CleanFails(p)
  \/ Verify(p) \/ Record(p)
  \/ SyncTree(p) \/ Rename(p) \/ SyncDirectories(p) \/ ReplacePointer(p)
  \/ SyncStore(p) \/ Return(p) \/ Stop(p)

Launch(p, r) ==
  \/ LaunchBuild(p, r)
  \/ \E h \in Handoffs : LaunchRequest(p, r, h)
  \/ \E q \in Rules \cup {None}, from \in {None, fs.pointer} : EnterBare(p, q, r, from)

Next ==
  \/ \E p \in Builders : Step(p) \/ \E r \in Revisions : Launch(p, r)
  \/ \E r \in Revisions : Accept(r)
  \/ \E h \in Handoffs, r \in Revisions \cup {None} : Prepare(h, r)
  \/ PowerLoss
  \/ RemoveLeftovers

Spec == Init /\ [][Next]_vars

-----------------------------------------------------------------------------
(* Properties *)

\* What a build has returned as accepted stays in the history that
\* last_good.json anchors, and every revision of that history is complete,
\* whichever process is killed and whatever a power loss drops: the order of
\* the flushes, the rename and the pointer in promote.
HistoryStands ==
  /\ reported \subseteq Chain
  /\ \A r \in Chain : AcceptedWhole(r)

\* A human decision concerns a revision of the accepted history, although a
\* killed promotion leaves unreferenced revisions that look accepted; only a
\* power loss that takes a promotion back separates the two.
AcceptancesAnchored == losses = 0 => acceptance \subseteq Chain

\* Containers and volumes of a launched build that is gone stay announced by
\* the recovery marker until the operator has removed them.
LeaksAreMarked ==
  leftovers # {} => marker = "unfinished"
=============================================================================
