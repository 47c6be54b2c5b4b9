----------------------------- MODULE Maintenance -----------------------------
(***************************************************************************)
(* The life of stored object versions: workers upload and publish them,    *)
(* clients hold signed URLs of published ones, retention deletes builds    *)
(* and queues their versions, orphan discovery queues the versions nobody  *)
(* refers to, and deletion runs remove what was queued.  Retention,        *)
(* discovery and deletion are separate processes, each started at any time *)
(* (MaintenanceService); between two calls of one the others may act.      *)
(*                                                                         *)
(* Timestamps are ages in ticks, kept as far as the code compares them.    *)
(* Every process reads the clock once, when it starts, so its cutoffs are  *)
(* earlier than the transaction that uses them.  This matters where the    *)
(* time is written: queued_at.  Everywhere else an earlier clock reads like *)
(* a process that started later and ran without delay.                     *)
(*                                                                         *)
(* An operator named X_Something is X with a plausible mistake in it; it   *)
(* is used only to see that the properties notice the mistake.             *)
(***************************************************************************)
EXTENDS Naturals, Sequences, FiniteSets

CONSTANTS
    Builds, Objects,
    Deleters,      \* processes that run run_artifact_deletion
    Scanners,      \* processes that run discover_orphan_versions
    KeepTicks,     \* retention period of a build that ended
    GraceTicks,    \* orphan_grace_days
    UrlTicks,      \* a signed URL has expired this long after its row was read
    StallTicks,    \* bound: how long a retention run takes to commit
    LeaseTicks,    \* DELETION_LEASE_SECONDS
    BatchLimit,    \* limit: versions per run
    MaxFaults,     \* bound: faults in one behaviour
    NoDeleter

\* The grace period is at least a day; a URL lives for at most 900 seconds,
\* and the statements of a retention run have timeouts of seconds.
ASSUME MaintenanceAssumption ==
    /\ {KeepTicks, GraceTicks, UrlTicks, StallTicks, MaxFaults} \subseteq Nat
    /\ {LeaseTicks, BatchLimit} \subseteq Nat \ {0}
    /\ UrlTicks + StallTicks <= GraceTicks
    /\ NoDeleter \notin Deleters

VARIABLES
    status,      \* of each build: "active", "ended" or "deleted"
    ended,       \* age of finished_at
    referenced,  \* versions with a row in hbcb.artifacts
    object,      \* of each version: "none", "stored" or "gone"
    age,         \* age of its last_modified
    url,         \* time until its last signed URL expires
    row,         \* its row in hbcb.artifact_deletion_queue
    attempts,    \* outcomes of its rows in hbcb.artifact_deletion_attempts
    run,         \* the local state of each deletion run
    scan,        \* the local state of each discovery run
    faults       \* faults that may still happen

vars == <<status, ended, referenced, object, age, url, row, attempts, run, scan, faults>>

\* An object version belongs to the build that its key names.
Versions   == Builds \X Objects
Owner(v)   == v[1]
Active(v)  == status[Owner(v)] = "active"

RowStatuses == {"none", "pending", "deleting", "deleted", "failed"}
Row == [status : RowStatuses, waited : 0 .. GraceTicks,
        token : Deleters \union {NoDeleter}, lease : 0 .. LeaseTicks]

NoRow == [status |-> "none", waited |-> 0, token |-> NoDeleter, lease |-> 0]

\* A row with queued_at = the time `since' ago.
Pending(since) == [NoRow EXCEPT !.status = "pending", !.waited = since]

IdleRun  == [pc |-> "idle", batch |-> {}, item |-> {}, outcome |-> "failed"]
IdleScan == [pc |-> "idle", seen |-> {}, since |-> 0]

Fault == faults > 0 /\ faults' = faults - 1

tables == <<status, ended, referenced>>
store  == <<object, age, url>>
rows   == <<row, attempts>>

Init ==
    /\ status = [b \in Builds |-> "active"]
    /\ ended = [b \in Builds |-> 0]
    /\ referenced = {}
    /\ object = [v \in Versions |-> "none"]
    /\ age = [v \in Versions |-> 0]
    /\ url = [v \in Versions |-> 0]
    /\ row = [v \in Versions |-> NoRow]
    /\ attempts = [v \in Versions |-> <<>>]
    /\ run = [d \in Deleters |-> IdleRun]
    /\ scan = [s \in Scanners |-> IdleScan]
    /\ faults = MaxFaults

-------------------------------------------------------------------------------
(* Workers and clients. *)

\* store_file: at any time, also late, by a worker that lost its lease.
Upload(v) ==
    /\ object[v] = "none"
    /\ object' = [object EXCEPT ![v] = "stored"]
    /\ age' = [age EXCEPT ![v] = 0]
    /\ UNCHANGED <<tables, url, rows, run, scan, faults>>

Publishable_Late(b) == status[b] # "deleted"

\* publish_attempt_success requires a leased attempt of a running build.
Publishable(b) == status[b] = "active"

\* The worker publishes versions it uploaded, whatever became of them since.
Publish(b, S) ==
    /\ Publishable(b)
    /\ S # {} /\ S \subseteq {v \in Versions : Owner(v) = b /\ object[v] # "none"}
    /\ referenced' = referenced \union S
    /\ status' = [status EXCEPT ![b] = "ended"]
    /\ ended' = [ended EXCEPT ![b] = 0]
    /\ UNCHANGED <<store, rows, run, scan, faults>>

\* A build fails, is canceled or needs review.
EndsUnpublished(b) ==
    /\ status[b] = "active"
    /\ status' = [status EXCEPT ![b] = "ended"]
    /\ ended' = [ended EXCEPT ![b] = 0]
    /\ UNCHANGED <<referenced, store, rows, run, scan, faults>>

\* get_artifacts signs a URL for an exact version.
SignUrl(v) ==
    /\ v \in referenced
    /\ url' = [url EXCEPT ![v] = UrlTicks]
    /\ UNCHANGED <<tables, object, age, rows, run, scan, faults>>

-------------------------------------------------------------------------------
(* run_retention. *)

\* queue_and_delete_builds of a run that read the clock `since' ticks ago: the
\* versions of the builds are queued, ON CONFLICT DO NOTHING, and their rows
\* cascade away.
Retain(S, since) ==
    LET released == {v \in referenced : Owner(v) \in S}
    IN  /\ S # {}
        /\ \A b \in S : status[b] = "ended" /\ ended[b] >= KeepTicks + since
        /\ status' = [b \in Builds |-> IF b \in S THEN "deleted" ELSE status[b]]
        /\ referenced' = referenced \ released
        /\ row' = [v \in Versions |-> IF v \in released /\ row[v] = NoRow
                                      THEN Pending(since) ELSE row[v]]
        /\ UNCHANGED <<ended, store, attempts, run, scan, faults>>

-------------------------------------------------------------------------------
(* discover_orphan_versions. *)

\* inventory_namespace_versions.  Younger versions than the grace period do
\* not pass the cutoff later.
Inventory(s) ==
    /\ scan[s].pc = "idle"
    /\ scan' = [scan EXCEPT ![s] =
          [pc |-> "reconcile", since |-> 0,
           seen |-> {v \in Versions : object[v] = "stored" /\ age[v] >= GraceTicks}]]
    /\ UNCHANGED <<tables, store, rows, run, faults>>

Orphan_OfAnyBuild(v) == v \notin referenced /\ row[v].status \in {"none", "deleted"}

Orphan_InnerJoin(v) ==
    /\ v \notin referenced
    /\ row[v].status \in {"none", "deleted"}
    /\ status[Owner(v)] = "ended"

\* Neither referenced, nor queued, nor owned by an active build.
Orphan(v) ==
    /\ v \notin referenced
    /\ row[v].status \in {"none", "deleted"}
    /\ ~Active(v)

\* S is a batch of T: at most `limit' of its members (which ones is left open).
Batch(S, T) == S \subseteq T /\ (S = T \/ Cardinality(S) = BatchLimit)

\* reconcile_orphan_versions, under the locks of the builds that exist.  A row
\* that is there already (the version was deleted since the inventory) fails
\* the insert and with it the transaction.
Reconcile(s) ==
    /\ scan[s].pc = "reconcile"
    /\ \E S \in SUBSET {v \in scan[s].seen : Orphan(v)} :
        /\ Batch(S, {v \in scan[s].seen : Orphan(v)})
        /\ row' = IF \E v \in S : row[v] # NoRow THEN row
                  ELSE [v \in Versions |-> IF v \in S THEN Pending(scan[s].since) ELSE row[v]]
    /\ scan' = [scan EXCEPT ![s] = IdleScan]
    /\ UNCHANGED <<tables, store, attempts, run, faults>>

-------------------------------------------------------------------------------
(* run_artifact_deletion. *)

Eligible_AtOnce(v) == row[v].status \in {"pending", "failed"}

Eligible_Unclaimed(v) ==
    /\ row[v].waited >= GraceTicks
    /\ row[v].status \in {"pending", "failed"}
    /\ v \notin referenced /\ ~Active(v)

\* Queued a grace period ago, not under a claim that still holds, and (again)
\* neither referenced nor owned by an active build.
Eligible(v) ==
    /\ row[v].waited >= GraceTicks
    /\ \/ row[v].status \in {"pending", "failed"}
       \/ row[v].status = "deleting" /\ row[v].lease = 0
    /\ v \notin referenced /\ ~Active(v)

\* claim_deletions.
Claim(d, S) ==
    /\ run[d].pc = "idle"
    /\ S # {} /\ Batch(S, {v \in Versions : Eligible(v)})
    /\ row' = [v \in Versions |->
          IF v \in S THEN [row[v] EXCEPT !.status = "deleting", !.token = d,
                                         !.lease = LeaseTicks]
          ELSE row[v]]
    /\ run' = [run EXCEPT ![d] = [IdleRun EXCEPT !.pc = "delete", !.batch = S]]
    /\ UNCHANGED <<tables, store, attempts, scan, faults>>

Recording_Deleted(l, v, outcome) ==
    [l EXCEPT !.pc = "record", !.item = {v}, !.outcome = "deleted"]

\* What record_deletion_attempt will be called with (`item' holds one version).
Recording(l, v, outcome) == [l EXCEPT !.pc = "record", !.item = {v}, !.outcome = outcome]

\* delete_version of the next item: removing a version that is gone succeeds
\* as well.  A call that raises may have removed it.
DeleteVersion(d, v) ==
    /\ run[d].pc = "delete"
    /\ v \in run[d].batch
    /\ \/ /\ object' = [object EXCEPT ![v] = "gone"]
          /\ \/ run' = [run EXCEPT ![d] = Recording(@, v, "deleted")] /\ UNCHANGED faults
             \/ run' = [run EXCEPT ![d] = Recording(@, v, "failed")] /\ Fault
       \/ /\ run' = [run EXCEPT ![d] = Recording(@, v, "failed")] /\ Fault
          /\ UNCHANGED object
    /\ UNCHANGED <<tables, age, url, rows, scan>>

ClaimHeld_Any(d, v) == TRUE

ClaimHeld(d, v) == row[v].status = "deleting" /\ row[v].token = d

Processed(l, v) ==
    IF l.batch = {v} THEN IdleRun
    ELSE [IdleRun EXCEPT !.pc = "delete", !.batch = l.batch \ {v}]

\* record_deletion_attempt.  deletion_claim_lost, like any other error, ends
\* the run: what is left of the batch waits for its claim to expire.
RecordAttempt(d, v) ==
    /\ run[d].pc = "record" /\ run[d].item = {v}
    /\ IF ClaimHeld(d, v)
       THEN /\ attempts' = [attempts EXCEPT ![v] = Append(@, run[d].outcome)]
            /\ row' = [row EXCEPT ![v].status = run[d].outcome, ![v].token = NoDeleter,
                                  ![v].lease = 0]
            /\ \/ run' = [run EXCEPT ![d] = Processed(@, v)] /\ UNCHANGED faults
               \/ run' = [run EXCEPT ![d] = IdleRun] /\ Fault
       ELSE /\ run' = [run EXCEPT ![d] = IdleRun]
            /\ UNCHANGED <<rows, faults>>
    /\ UNCHANGED <<tables, store, scan>>

-------------------------------------------------------------------------------
(* Faults and time. *)

\* A process dies, or a call of PostgreSQL that is not retried fails.
Dies ==
    /\ \/ \E d \in Deleters : /\ run[d].pc # "idle"
                              /\ run' = [run EXCEPT ![d] = IdleRun]
                              /\ UNCHANGED scan
       \/ \E s \in Scanners : /\ scan[s].pc # "idle"
                              /\ scan' = [scan EXCEPT ![s] = IdleScan]
                              /\ UNCHANGED run
    /\ Fault
    /\ UNCHANGED <<tables, store, rows>>

Older(n, limit) == IF n < limit THEN n + 1 ELSE n
Sooner(n)       == IF n > 0 THEN n - 1 ELSE n

Tick ==
    /\ ended' = [b \in Builds |-> IF status[b] = "ended"
                                  THEN Older(ended[b], KeepTicks + StallTicks) ELSE 0]
    /\ age' = [v \in Versions |-> IF object[v] = "stored"
                                  THEN Older(age[v], GraceTicks) ELSE 0]
    /\ url' = [v \in Versions |-> Sooner(url[v])]
    /\ row' = [v \in Versions |->
          IF row[v].status \in {"none", "deleted"} THEN row[v]
          ELSE [row[v] EXCEPT !.waited = Older(@, GraceTicks), !.lease = Sooner(@)]]
    /\ scan' = [s \in Scanners |->
          IF scan[s].pc = "idle" THEN scan[s]
          ELSE [scan[s] EXCEPT !.since = Older(@, GraceTicks)]]
    /\ UNCHANGED <<status, referenced, object, attempts, run, faults>>

Retention    == \E S \in SUBSET Builds, since \in 0 .. StallTicks : Retain(S, since)
Discovery(s) == Inventory(s) \/ Reconcile(s)
Deletion(d)  ==
    \/ \E S \in SUBSET Versions : Claim(d, S)
    \/ \E v \in Versions : DeleteVersion(d, v) \/ RecordAttempt(d, v)

Next ==
    \/ \E v \in Versions : Upload(v) \/ SignUrl(v)
    \/ \E b \in Builds : EndsUnpublished(b) \/ \E S \in SUBSET Versions : Publish(b, S)
    \/ Retention
    \/ \E s \in Scanners : Discovery(s)
    \/ \E d \in Deleters : Deletion(d)
    \/ Dies
    \/ Tick

Spec == Init /\ [][Next]_vars

\* The operator runs the three commands again and again.
Fairness ==
    /\ WF_vars(Tick) /\ WF_vars(Retention)
    /\ \A s \in Scanners : WF_vars(Discovery(s))
    /\ \A d \in Deleters : WF_vars(Deletion(d))

FairSpec == Spec /\ Fairness

-------------------------------------------------------------------------------
(* Safety. *)

TypeOK ==
    /\ status \in [Builds -> {"active", "ended", "deleted"}]
    /\ ended \in [Builds -> 0 .. (KeepTicks + StallTicks)]
    /\ referenced \subseteq Versions
    /\ object \in [Versions -> {"none", "stored", "gone"}]
    /\ age \in [Versions -> 0 .. GraceTicks]
    /\ url \in [Versions -> 0 .. UrlTicks]
    /\ row \in [Versions -> Row]
    /\ attempts \in [Versions -> Seq({"deleted", "failed"})]
    /\ run \in [Deleters -> [pc : {"idle", "delete", "record"},
                             batch : SUBSET Versions, item : SUBSET Versions,
                             outcome : {"deleted", "failed"}]]
    /\ scan \in [Scanners -> [pc : {"idle", "reconcile"}, seen : SUBSET Versions,
                              since : 0 .. GraceTicks]]
    /\ faults \in 0 .. MaxFaults

\* An artifact row points to an object that exists, however late the worker
\* published it and however old the inventories and claims of the maintenance
\* runs are.
ReferencedIsStored == \A v \in referenced : object[v] = "stored"

\* A version is queued for deletion only when nobody refers to it and nobody
\* can publish it any more; after that it is never referenced again.
QueuedIsReleased ==
    \A v \in Versions : row[v].status # "none" => v \notin referenced /\ ~Active(v)

\* A signed URL that has not expired still finds its object, although
\* retention may have deleted the build meanwhile.
UrlServes == \A v \in Versions : url[v] > 0 => object[v] = "stored"

\* The deletion queue tells the truth: a version recorded as deleted is gone,
\* and the recorded attempts end with the one that deleted it.
DeletedIsGone ==
    \A v \in Versions :
        /\ row[v].status = "deleted" => object[v] = "gone"
        /\ \A i \in 1 .. Len(attempts[v]) :
              attempts[v][i] = "deleted" <=>
                  (i = Len(attempts[v]) /\ row[v].status = "deleted")

\* A late run that lost its claim never reopens what another one completed.
DeletedIsFinal ==
    [][\A v \in Versions : row[v].status = "deleted" =>
           row'[v] = row[v] /\ attempts'[v] = attempts[v]]_vars

\* What becomes of v in the eyes of a client.
Phase(v) ==
    IF object[v] = "gone" THEN "gone"
    ELSE IF v \in referenced THEN "published"
    ELSE IF object[v] = "none" THEN "none"
    ELSE IF Active(v) THEN "stored" ELSE "released"

Life(v) == INSTANCE ObjectLifecycle WITH phase <- Phase(v)

\* Every object version lives as ObjectLifecycle promises.
ImplementsObjectLifecycle ==
    /\ \A v \in Versions : Life(v)!Init
    /\ [][\A v \in Versions : Life(v)!Next \/ UNCHANGED Phase(v)]_vars

-------------------------------------------------------------------------------
(* Liveness, under Fairness and finitely many faults. *)

\* What workers, failed builds and dead maintenance runs left behind is
\* removed: every version whose build has ended or is deleted, the published
\* ones after their retention.
NothingLingers ==
    \A v \in Versions : object[v] = "stored" /\ ~Active(v) ~> object[v] = "gone"

\* ... and the queue comes to know it.
QueueDrains ==
    \A v \in Versions : row[v].status # "none" ~> row[v].status = "deleted"

===============================================================================
