------------------------------- MODULE Service -------------------------------
(***************************************************************************)
(* Lane B as a whole: API clients submit and cancel builds in the          *)
(* Repository, and several worker processes (WorkerSupervisor.run_forever) *)
(* drive them through the Queue, the builder launcher and the object       *)
(* store.  A step is one call to PostgreSQL, Redis, the launcher or the    *)
(* object store; everything a worker keeps between two calls is in         *)
(* `worker', and another actor may step in between.                        *)
(*                                                                         *)
(* Faults are bounded by MaxFaults: a call that fails before it has any    *)
(* effect, a call whose effect is kept but whose reply is lost (a commit   *)
(* or a Redis command that succeeds and still raises), and a worker        *)
(* process that dies and is restarted.                                     *)
(*                                                                         *)
(* An operator named X_Something is X with a plausible mistake in it; it   *)
(* is used only to see that the properties notice the mistake.             *)
(***************************************************************************)
EXTENDS Naturals, Sequences

CONSTANTS
    Builds, Requests, Keys, Workers, Artifacts,
    Manifest,      \* manifest.json, the artifact that is stored last
    MaxAttempts, LeaseTicks, RetryTicks,
    MaxEntries, StaleTicks, DeadLimit,
    MaxFaults,     \* bound: faults in one behaviour
    NoBuild, NoKey, NoWorker, NoRequest

ASSUME ServiceAssumption ==
    /\ Manifest \in Artifacts
    /\ MaxAttempts \in Nat \ {0}
    /\ LeaseTicks \in Nat \ {0}
    /\ RetryTicks \in Nat
    /\ MaxFaults \in Nat
    /\ NoBuild \notin Builds
    /\ NoKey \notin Keys
    /\ NoWorker \notin Workers
    /\ NoRequest \notin Requests

VARIABLES
    build, attempt, outbox, artifact, event, keyed, deletion,  \* PostgreSQL
    stream, sent, dead,                              \* Redis
    stored,    \* object store: <<attempt_number, relative_path>> of each build
    worker,    \* the local state of each worker process
    faults     \* faults that may still happen

\* A worker's identity stands for the fresh token of the lease it holds: a
\* token is compared only together with the attempt it was issued for.
Repo == INSTANCE Repository WITH Tokens <- Workers, NoToken <- NoWorker
Redis == INSTANCE Queue WITH Consumers <- Workers, NoConsumer <- NoWorker
ASSUME RedisAssumption == Redis!QueueConstants

repoVars  == <<build, attempt, outbox, artifact, event, keyed, deletion>>
redisVars == <<stream, sent, dead>>
vars == <<repoVars, redisVars, stored, worker, faults>>

-------------------------------------------------------------------------------
(* The local state of a worker.                                            *)
(*                                                                         *)
(* `within' names the innermost handler around the current call: "none"    *)
(* before an attempt is leased, "publish" inside the try block of          *)
(* _handle_result, "handle" inside the one of process_once, "except" in    *)
(* its except block.                                                       *)

Idle == [pc |-> "recover", within |-> "none",
         msg |-> 0,             \* receipt of the claimed message, 0: none
         number |-> 0,          \* number of the leased attempt, 0: none
         outcome |-> "failed",  \* arguments of the pending complete_attempt
         retryable |-> FALSE,
         row |-> 0,             \* version of the outbox row being dispatched
         of |-> NoBuild,        \* ... and its build
         delivered |-> FALSE,   \* ... and whether enqueue returned
         tried |-> {},          \* processed_ids of this dispatch_outbox call
         cancelSeen |-> FALSE,  \* _LeaseMonitor._cancel
         lost |-> FALSE]        \* _LeaseMonitor._lost

\* The build and the attempt that w works on.
Mine(w)   == sent[worker[w].msg]
Number(w) == worker[w].number

Completing(l, outcome, retryable) ==
    [l EXCEPT !.pc = "complete", !.outcome = outcome, !.retryable = retryable]

Outer == [publish |-> "handle", handle |-> "except"]

\* An exception: each of the two try blocks completes the attempt as a failure
\* (in the handlers around it); anywhere else process_once ends and the loop
\* starts over.
Raised(l) ==
    IF l.within \in DOMAIN Outer
    THEN [Completing(l, "failed", TRUE) EXCEPT !.within = Outer[@]]
    ELSE Idle

\* The message is settled next; what the monitor saw no longer matters.
Settling(l, pc) ==
    [l EXCEPT !.pc = pc, !.outcome = "failed", !.retryable = FALSE,
              !.cancelSeen = FALSE, !.lost = FALSE]

At(w, pc) == worker[w].pc = pc

\* An open transaction of dispatch_outbox: it holds the lock of its row.
Dispatching(w) == worker[w].pc \in {"enqueue", "commit"}

Becomes(w, l) == worker' = [worker EXCEPT ![w] = l]

Fault == faults > 0 /\ faults' = faults - 1

\* The call of w took effect: its reply arrives, or is lost and raises.
Replies(w, l, raised) ==
    \/ Becomes(w, l) /\ UNCHANGED faults
    \/ Becomes(w, raised) /\ Fault

Init ==
    /\ Repo!Init
    /\ Redis!Init
    /\ stored = [b \in Builds |-> {}]
    /\ worker = [w \in Workers |-> Idle]
    /\ faults = MaxFaults

-------------------------------------------------------------------------------
(* API clients.  A request that the repository refuses changes nothing.  *)

ClientSubmits ==
    /\ \E b \in Builds, r \in Requests, key \in Keys \union {NoKey} : Repo!Submit(b, r, key)
    /\ UNCHANGED <<redisVars, stored, worker, faults>>

ClientCancels ==
    /\ \E b \in Builds : Repo!RequestCancel(b, build[b].version)
    /\ UNCHANGED <<redisVars, stored, worker, faults>>

\* The retention command deletes one terminal build; the cascade waits for a
\* transaction that holds one of its outbox rows.
RetentionDeletes ==
    /\ \E b \in Builds :
        /\ \A w \in Workers : Dispatching(w) => worker[w].of # b
        /\ Repo!DeleteBuilds({b})
    /\ UNCHANGED <<redisVars, stored, worker, faults>>

-------------------------------------------------------------------------------
(* process_once, before a message is claimed. *)

ExpiredAttempts == {p \in Builds \X (1 .. MaxAttempts) : Repo!Expired(p[1], p[2])}

\* recover_expired_attempts, for every expired attempt.
Recover(w) ==
    /\ At(w, "recover")
    /\ IF ExpiredAttempts = {} THEN UNCHANGED repoVars
       ELSE Repo!RecoverExpiredAttempts(ExpiredAttempts)
    /\ Replies(w, [Idle EXCEPT !.pc = "dispatch"], Idle)
    /\ UNCHANGED <<redisVars, stored>>

\* The rows this dispatch_outbox call may still select: due, not processed by
\* it, and not locked by the open transaction of another worker.
Selectable(w, b, row) ==
    /\ row \in outbox[b]
    /\ Repo!Due(row)
    /\ <<b, row.version>> \notin worker[w].tried
    /\ \A v \in Workers : Dispatching(v) =>
           <<worker[v].of, worker[v].row>> # <<b, row.version>>

Tried(l, b, version) == [l EXCEPT !.tried = @ \union {<<b, version>>}]

\* A row whose build is no longer queued needs no message.
DispatchSkips(w) ==
    /\ At(w, "dispatch")
    /\ \E b \in Builds : \E row \in outbox[b] :
        /\ Selectable(w, b, row)
        /\ build[b].status # "queued"
        /\ Repo!MarkDispatched(b, row)
        /\ Replies(w, Tried(worker[w], b, row.version), Idle)
    /\ UNCHANGED <<redisVars, stored>>

\* One of a queued build is enqueued while its transaction stays open.
DispatchSelects(w) ==
    /\ At(w, "dispatch")
    /\ \E b \in Builds : \E row \in outbox[b] :
        /\ Selectable(w, b, row)
        /\ build[b].status = "queued"
        /\ Becomes(w, [worker[w] EXCEPT !.pc = "enqueue", !.of = b, !.row = row.version])
    /\ UNCHANGED <<repoVars, redisVars, stored, faults>>

\* enqueue, which may fail with or without having added the message.
DispatchEnqueues(w) ==
    LET l == [worker[w] EXCEPT !.pc = "commit"]
    IN  /\ At(w, "enqueue")
        /\ \/ /\ Redis!Enqueue(l.of)
              /\ Replies(w, [l EXCEPT !.delivered = TRUE], l)
           \/ /\ Becomes(w, l) /\ Fault
              /\ UNCHANGED redisVars
        /\ UNCHANGED <<repoVars, stored>>

CommitsRow_Always(l, row) == Repo!MarkDispatched(l.of, row)

\* The transaction of the row commits what enqueue reported.
CommitsRow(l, row) ==
    IF l.delivered THEN Repo!MarkDispatched(l.of, row) ELSE Repo!DeferDispatch(l.of, row)

DispatchCommits(w) ==
    LET l == worker[w]
        next == [Tried(l, l.of, l.row) EXCEPT !.pc = "dispatch", !.of = NoBuild,
                                              !.row = 0, !.delivered = FALSE]
    IN  /\ At(w, "commit")
        /\ \E row \in outbox[l.of] :
            /\ row.version = l.row
            /\ CommitsRow(l, row)
        /\ Replies(w, next, Idle)
        /\ UNCHANGED <<redisVars, stored>>

DispatchEnds(w) ==
    /\ At(w, "dispatch")
    /\ \A b \in Builds : \A row \in outbox[b] : ~Selectable(w, b, row)
    /\ Becomes(w, [Idle EXCEPT !.pc = "claim"])
    /\ UNCHANGED <<repoVars, redisVars, stored, faults>>

\* claim; without a message process_once returns.
Claim(w) ==
    /\ At(w, "claim")
    /\ IF \E e \in stream : Redis!Claimable(e)
       THEN \E e \in stream :
              /\ Redis!Claim(w, e)
              /\ Replies(w, [Idle EXCEPT !.pc = "lease", !.msg = e.id], Idle)
       ELSE /\ UNCHANGED <<redisVars, faults>>
            /\ Becomes(w, Idle)
    /\ UNCHANGED <<repoVars, stored>>

-------------------------------------------------------------------------------
(* process_once, for a claimed message. *)

\* lease_build: a message of a build that is not queued is acknowledged, and
\* one of a build that no longer exists is dead-lettered.
Lease(w) ==
    /\ At(w, "lease")
    /\ \/ /\ build[Mine(w)].status = "queued"
          /\ Repo!LeaseBuild(Mine(w), w)
          /\ \E k \in 1 .. MaxAttempts :
              /\ attempt'[Mine(w)][k] # attempt[Mine(w)][k]
              /\ Replies(w, [worker[w] EXCEPT !.pc = "run", !.within = "handle",
                                              !.number = k], Idle)
       \/ /\ build[Mine(w)].status # "queued"
          /\ Becomes(w, Settling(worker[w],
                IF build[Mine(w)].status \in Repo!NoRow THEN "deadletter" ELSE "ack"))
          /\ UNCHANGED <<repoVars, faults>>
    /\ UNCHANGED <<redisVars, stored>>

\* _LeaseMonitor._run, concurrent with everything below: a refused or failed
\* heartbeat gives the lease up for good.  What it saw is read by probe() in
\* the launcher and between uploads, and not recorded after that.
Probed(w) == worker[w].pc \in {"run", "upload"}

Heartbeat(w) ==
    /\ worker[w].within # "none"
    /\ ~worker[w].lost
    /\ \/ /\ Repo!HeartbeatAttempt(Mine(w), Number(w), w)
          /\ Becomes(w, [worker[w] EXCEPT !.cancelSeen =
                            @ \/ (Probed(w) /\ build[Mine(w)].cancel)])
          /\ UNCHANGED faults
       \/ /\ Probed(w)
          /\ \/ ~Repo!LeaseHeld(Mine(w), Number(w), w) /\ UNCHANGED faults
             \/ Fault
          /\ Becomes(w, [worker[w] EXCEPT !.lost = TRUE])
          /\ UNCHANGED repoVars
    /\ UNCHANGED <<redisVars, stored>>

\* exit_policy, for the exit codes other than 0 of a builder that ended.  (An
\* output that records_from_output refuses is reported like <<"failed", TRUE>>.)
ExitPolicies == {<<"failed", TRUE>>, <<"failed", FALSE>>,
                 <<"needs_review", FALSE>>, <<"timed_out", TRUE>>}

\* How SubprocessBuilderLauncher.execute may end: the builder ends or exceeds
\* its deadline, a poll of the monitor finds the lease lost or a cancellation,
\* or execute itself raises.
Terminations(l) ==
    {"completed", "timed_out", "raised"}
        \union (IF l.lost THEN {"lease_lost"} ELSE {})
        \union (IF l.cancelSeen THEN {"canceled"} ELSE {})

\* _handle_result up to the uploads.  Exit code 0 leads to them.
LaunchEnds(w) ==
    LET l == worker[w]
    IN  /\ At(w, "run")
        /\ \E t \in Terminations(l) :
            \/ t = "lease_lost" /\ Becomes(w, Idle)
            \/ t = "canceled"   /\ Becomes(w, Completing(l, "canceled", FALSE))
            \/ t = "timed_out"  /\ Becomes(w, Completing(l, "timed_out", TRUE))
            \/ t = "raised"     /\ Becomes(w, Raised(l))
            \/ /\ t = "completed"
               /\ \/ \E p \in ExitPolicies : Becomes(w, Completing(l, p[1], p[2]))
                  \/ Becomes(w, [l EXCEPT !.pc = "upload", !.within = "publish"])
        /\ UNCHANGED <<repoVars, redisVars, stored, faults>>

Uploaded(w) == {p \in stored[Mine(w)] : p[1] = Number(w)}

NextArtifact_AnyOrder(w, a) == <<Number(w), a>> \notin Uploaded(w)

\* publication_order: the manifest is stored last.
NextArtifact(w, a) ==
    /\ <<Number(w), a>> \notin Uploaded(w)
    /\ a = Manifest => \A x \in Artifacts \ {Manifest} : <<Number(w), x>> \in Uploaded(w)

\* The upload loop: the monitor is probed before every artifact and once more
\* before publication; a failed upload may leave the object behind.
Upload(w) ==
    LET l == worker[w]
    IN  /\ At(w, "upload")
        /\ \/ /\ l.lost
              /\ Becomes(w, Raised(l))
              /\ UNCHANGED <<stored, faults>>
           \/ /\ ~l.lost /\ l.cancelSeen
              /\ Becomes(w, Completing(l, "canceled", FALSE))
              /\ UNCHANGED <<stored, faults>>
           \/ /\ ~l.lost /\ ~l.cancelSeen
              /\ \E a \in Artifacts :
                  /\ NextArtifact(w, a)
                  /\ stored' = [stored EXCEPT ![Mine(w)] = @ \union {<<Number(w), a>>}]
                  /\ Replies(w, l, Raised(l))
           \/ /\ ~l.lost /\ ~l.cancelSeen
              /\ Becomes(w, Raised(l)) /\ Fault
              /\ UNCHANGED stored
           \/ /\ ~l.lost /\ ~l.cancelSeen
              /\ Uploaded(w) = {Number(w)} \X Artifacts
              /\ Becomes(w, [l EXCEPT !.pc = "publish"])
              /\ UNCHANGED <<stored, faults>>
        /\ UNCHANGED <<repoVars, redisVars>>

\* A refused call raises, and in the try block of _handle_result a dead lease
\* ends the work without settling the message.
Refused(w) ==
    IF /\ worker[w].within = "publish"
       /\ attempt[Mine(w)][Number(w)].status # "none"
       /\ ~Repo!LeaseHeld(Mine(w), Number(w), w)
    THEN Idle ELSE Raised(worker[w])

\* publish_attempt_success: a cancellation that was accepted meanwhile is
\* honoured; any other error, even one after the commit, is reported as a
\* failed publication.
Publish(w) ==
    LET l == worker[w]
        b == Mine(w)
    IN  /\ At(w, "publish")
        /\ \/ /\ Repo!PublishAttemptSuccess(b, Number(w), w, Uploaded(w))
              /\ Replies(w, [Settling(l, "ack") EXCEPT !.within = "handle"], Raised(l))
           \/ /\ Repo!LeaseHeld(b, Number(w), w) /\ build[b].cancel
              /\ Becomes(w, [Completing(l, "canceled", FALSE) EXCEPT !.within = "handle"])
              /\ UNCHANGED <<repoVars, faults>>
           \/ /\ ~Repo!LeaseHeld(b, Number(w), w)
              /\ Becomes(w, Refused(w))
              /\ UNCHANGED <<repoVars, faults>>
        /\ UNCHANGED <<redisVars, stored>>

Settles_DeadLetters(l, status) == Settling(l, "deadletter")

\* _settle_message: what the completion of the build means for its message.
Settles(l, status) ==
    Settling(l, IF status \in {"failed", "needs_review"} THEN "deadletter" ELSE "ack")

\* complete_attempt with the outcome that was decided.
Complete(w) ==
    LET l == worker[w]
        b == Mine(w)
    IN  /\ At(w, "complete")
        /\ \/ /\ Repo!CompleteAttempt(b, l.number, w, l.outcome, l.retryable)
              /\ Replies(w, Settles(l, build'[b].status), Raised(l))
           \/ /\ ~Repo!CanComplete(b, l.number, w, l.outcome)
              /\ Becomes(w, Refused(w))
              /\ UNCHANGED <<repoVars, faults>>
        /\ UNCHANGED <<redisVars, stored>>

Settle(w) ==
    /\ \/ At(w, "ack") /\ Redis!Acknowledge(worker[w].msg)
       \/ At(w, "deadletter") /\ Redis!DeadLetter(worker[w].msg)
    /\ Replies(w, Idle, Raised(worker[w]))
    /\ UNCHANGED <<repoVars, stored>>

-------------------------------------------------------------------------------
(* Faults and time. *)

\* A call to PostgreSQL or Redis fails before it has any effect; an open
\* outbox transaction rolls back.
CallFails(w) ==
    /\ worker[w].pc \in {"recover", "dispatch", "commit", "claim", "lease",
                         "publish", "complete", "ack", "deadletter"}
    /\ worker[w] # Raised(worker[w])
    /\ Becomes(w, Raised(worker[w])) /\ Fault
    /\ UNCHANGED <<repoVars, redisVars, stored>>

\* The worker process dies at any point and is started again.
Crash(w) ==
    /\ worker[w] # Idle
    /\ Becomes(w, Idle) /\ Fault
    /\ UNCHANGED <<repoVars, redisVars, stored>>

Tick ==
    /\ Repo!TimerRuns \/ Redis!TimerRuns
    /\ Repo!Advance
    /\ Redis!Advance
    /\ UNCHANGED <<stored, worker, faults>>

WorkerStep(w) ==
    \/ Recover(w) \/ DispatchSkips(w) \/ DispatchSelects(w) \/ DispatchEnqueues(w)
    \/ DispatchCommits(w) \/ DispatchEnds(w) \/ Claim(w) \/ Lease(w) \/ LaunchEnds(w) \/ Upload(w)
    \/ Publish(w) \/ Complete(w) \/ Settle(w)

Next ==
    \/ ClientSubmits
    \/ ClientCancels
    \/ RetentionDeletes
    \/ \E w \in Workers : WorkerStep(w) \/ Heartbeat(w) \/ CallFails(w) \/ Crash(w)
    \/ Tick

Spec == Init /\ [][Next]_vars

-------------------------------------------------------------------------------
(* Safety. *)

\* Every queued build has a wake-up: its outbox row of the current version is
\* still to be dispatched, or the stream holds a message of the build that no
\* worker is about to settle.  Neither a late acknowledgement, a stale message,
\* a lost reply nor a dead worker can strand a queued build.
AboutToSettle(e) ==
    \E w \in Workers : worker[w].pc \in {"ack", "deadletter"} /\ worker[w].msg = e.id

NoLostWakeup ==
    \A b \in Builds : build[b].status = "queued" =>
        \/ \E row \in outbox[b] : row.version = build[b].version /\ ~row.dispatched
        \/ \E e \in stream : e.build = b /\ ~AboutToSettle(e)

\* Only the messages of builds that have ended unsuccessfully (or were deleted
\* since) reach the dead-letter stream: dead-lettering never strands a build
\* that could still run.
DeadLettersEnded ==
    \A i \in 1 .. Len(dead) :
        build[dead[i].build].status \in Repo!NoRow \union {"failed", "needs_review"}

\* Every artifact row points to an object that was stored, and a manifest is
\* in the object store only together with the files it lists.
PublishedIsStored ==
    \A b \in Builds :
        /\ artifact[b] \subseteq stored[b]
        /\ \A k \in 1 .. MaxAttempts :
              <<k, Manifest>> \in stored[b] => {k} \X Artifacts \subseteq stored[b]

\* Workers may work on one build at the same time, one of them with a lease
\* that it lost, but never on the same attempt; so a late upload never touches
\* an object of another worker, nor one that was already published.
OwnAttempt ==
    \A w \in Workers : worker[w].within # "none" =>
        /\ \A v \in Workers \ {w} :
              worker[v].within # "none" /\ Mine(v) = Mine(w) => Number(v) # Number(w)
        /\ At(w, "upload") =>
              artifact[Mine(w)] \intersect ({Number(w)} \X Artifacts) = {}

-------------------------------------------------------------------------------
(* Liveness, under the fairness of Recovery and finitely many faults. *)

\* A build that was accepted ends (or is deleted after it ended).
EveryBuildEnds ==
    \A b \in Builds :
        build[b].status = "queued" ~> build[b].status \in Repo!Terminal \union Repo!NoRow

\* The stream and the outbox drain: whatever was left behind by dead workers
\* and lost replies is taken over, settled and not delivered for ever.
EverythingDrains ==
    <>[](stream = {} /\ \A b \in Builds : \A row \in outbox[b] : row.dispatched)

===============================================================================
