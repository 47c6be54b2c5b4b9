------------------------------ MODULE Repository ------------------------------
(***************************************************************************)
(* The durable build store of Lane B: PostgresRepository.  Every operation *)
(* of the class is one database transaction that locks the rows it changes *)
(* (SELECT ... FOR UPDATE), so every operation is one action here.  An     *)
(* operation that the code refuses (StateConflict) changes nothing and is  *)
(* a stuttering step; its guard is the conjunction of the code's checks.   *)
(*                                                                         *)
(* Absolute timestamps are abstracted to the time that remains: a lease    *)
(* has `lease' ticks left (0: lease_expires_at has passed) and an outbox   *)
(* row has `wait' ticks until available_at.  Tick lets time pass for all.  *)
(*                                                                         *)
(* An operator named X_Something is X with a plausible mistake in it; it   *)
(* is used only to see that the properties notice the mistake.             *)
(***************************************************************************)
EXTENDS Naturals, Sequences

CONSTANTS
    Builds,       \* build identifiers (uuid4: never reused)
    Requests,     \* canonical request bodies
    Keys,         \* Idempotency-Key digests
    Tokens,       \* lease tokens
    Artifacts,    \* REQUIRED_PUBLISHED_ARTIFACTS (nine in the code)
    MaxAttempts,  \* builds.max_attempts
    LeaseTicks,   \* length of an attempt lease
    RetryTicks,   \* delay before an outbox row becomes available again
    NoBuild, NoKey, NoToken, NoRequest

ASSUME RepositoryAssumption ==
    /\ MaxAttempts \in Nat \ {0}
    /\ LeaseTicks \in Nat \ {0}
    /\ RetryTicks \in Nat
    /\ Artifacts # {}
    /\ NoBuild \notin Builds
    /\ NoKey \notin Keys
    /\ NoToken \notin Tokens
    /\ NoRequest \notin Requests

VARIABLES
    build,     \* hbcb.builds: one row per build
    attempt,   \* hbcb.build_attempts, by build and attempt_number
    outbox,    \* hbcb.queue_outbox: the rows of each build
    artifact,  \* hbcb.artifacts: <<attempt_number, relative_path>> of a build
    event,     \* hbcb.build_events: the event log of each build
    keyed,     \* hbcb.idempotency_keys
    deletion   \* hbcb.artifact_deletion_queue: object versions of each build

repoVars == <<build, attempt, outbox, artifact, event, keyed, deletion>>

Terminal == {"succeeded", "failed", "canceled", "needs_review"}
NoRow    == {"absent", "deleted"}   \* before submit, after retention
Statuses == NoRow \union {"validating", "queued", "running"} \union Terminal
Active   == {"leased", "running"}
AttemptStatuses ==
    {"none", "succeeded", "failed", "needs_review", "canceled", "timed_out", "lost"}
        \union Active

Numbers   == 1 .. MaxAttempts
BuildRow  == [status : Statuses, version : Nat, cancel : BOOLEAN,
              request : Requests \union {NoRequest}]
AttemptRow == [status : AttemptStatuses, token : Tokens \union {NoToken},
               lease : 0 .. LeaseTicks]
OutboxRow == [version : Nat, dispatched : BOOLEAN, wait : 0 .. RetryTicks]
Event     == [from : Statuses, to : Statuses]

NoAttempt == [status |-> "none", token |-> NoToken, lease |-> 0]

NoAttempts == [k \in Numbers |-> NoAttempt]
Missing(status) ==
    [status |-> status, version |-> 0, cancel |-> FALSE, request |-> NoRequest]

Init ==
    /\ build = [b \in Builds |-> Missing("absent")]
    /\ attempt = [b \in Builds |-> NoAttempts]
    /\ outbox = [b \in Builds |-> {}]
    /\ artifact = [b \in Builds |-> {}]
    /\ event = [b \in Builds |-> <<>>]
    /\ keyed = [key \in Keys |-> NoBuild]
    /\ deletion = [b \in Builds |-> {}]

-------------------------------------------------------------------------------
(* The updates that several transactions share. *)

Moved_KeepsVersion(b, target, cancel) ==
    [status |-> target, version |-> build[b].version,
     cancel |-> cancel, request |-> build[b].request]

\* The row of b after UPDATE ... SET status, state_version = state_version + 1,
\* cancel_requested_at.
Moved(b, target, cancel) ==
    [status |-> target, version |-> build[b].version + 1,
     cancel |-> cancel, request |-> build[b].request]

\* The log of b after _insert_event.
Logged(b, target) ==
    Append(event[b], [from |-> build[b].status, to |-> target])

NewRow_OldVersion(v, delay) == [version |-> v - 1, dispatched |-> FALSE, wait |-> delay]

\* The outbox row that is inserted when b is queued at version v.
NewRow(v, delay) == [version |-> v, dispatched |-> FALSE, wait |-> delay]

\* A finished attempt: its lease no longer runs.
Finished(a, status) == [status |-> status, token |-> a.token, lease |-> 0]

\* build_attempts after UPDATE ... WHERE id = the k-th attempt of b.
WithAttempt(b, k, a) == [attempt EXCEPT ![b] = [attempt[b] EXCEPT ![k] = a]]

\* The caller's token matches an active attempt whose lease has not expired.
LeaseHeld(b, k, t) ==
    /\ attempt[b][k].status \in Active
    /\ attempt[b][k].token = t
    /\ attempt[b][k].lease > 0

Expired(b, k) == attempt[b][k].status \in Active /\ attempt[b][k].lease = 0

-------------------------------------------------------------------------------
(* One action per operation. *)

\* submit: a new build, its two events, its key and its first outbox row.  A
\* key that is already reserved returns the earlier build or a conflict, and
\* changes nothing.
Submit(b, r, key) ==
    /\ build[b].status = "absent"
    /\ key \in Keys => keyed[key] = NoBuild
    /\ build' = [build EXCEPT ![b] = [status |-> "queued", version |-> 1,
                                      cancel |-> FALSE, request |-> r]]
    /\ event' = [event EXCEPT ![b] =
                    <<[from |-> "absent", to |-> "validating"],
                      [from |-> "validating", to |-> "queued"]>>]
    /\ outbox' = [outbox EXCEPT ![b] = @ \union {NewRow(1, 0)}]
    /\ keyed' = IF key \in Keys THEN [keyed EXCEPT ![key] = b] ELSE keyed
    /\ UNCHANGED <<attempt, artifact, deletion>>

\* request_cancel at the version the caller read: a queued build is canceled
\* at once, a running one only records the request.
RequestCancel(b, v) ==
    LET target == IF build[b].status \in {"validating", "queued"}
                  THEN "canceled" ELSE build[b].status
    IN  /\ build[b].status \notin NoRow
        /\ v = build[b].version
        /\ build[b].status \notin Terminal
        /\ ~build[b].cancel
        /\ build' = [build EXCEPT ![b] = Moved(b, target, TRUE)]
        /\ event' = [event EXCEPT ![b] = Logged(b, target)]
        /\ UNCHANGED <<attempt, outbox, artifact, keyed, deletion>>

NextNumber_ReusesLost(b, k) ==
    /\ attempt[b][k].status \in {"none", "lost"}
    /\ \A j \in Numbers : j < k => attempt[b][j].status \notin {"none", "lost"}

\* COALESCE(MAX(attempt_number), 0) + 1 = k
NextNumber(b, k) ==
    /\ \A j \in Numbers : j >= k => attempt[b][j].status = "none"
    /\ k > 1 => attempt[b][k - 1].status # "none"

\* lease_build: the next attempt starts under token t.
LeaseBuild(b, t) ==
    /\ build[b].status = "queued"
    /\ \E k \in Numbers :
        /\ NextNumber(b, k)
        /\ attempt' = WithAttempt(b, k, [status |-> "running", token |-> t,
                                         lease |-> LeaseTicks])
    /\ build' = [build EXCEPT ![b] = Moved(b, "running", build[b].cancel)]
    /\ event' = [event EXCEPT ![b] = Logged(b, "running")]
    /\ UNCHANGED <<outbox, artifact, keyed, deletion>>

\* heartbeat_attempt: renews a lease that has not expired.
HeartbeatAttempt(b, k, t) ==
    /\ LeaseHeld(b, k, t)
    /\ attempt' = WithAttempt(b, k, [status |-> attempt[b][k].status, token |-> t,
                                     lease |-> LeaseTicks])
    /\ UNCHANGED <<build, outbox, artifact, event, keyed, deletion>>

Outcomes == {"failed", "needs_review", "canceled", "timed_out"}

CanComplete_WithoutLease(b, k, t, outcome) ==
    /\ attempt[b][k].token = t
    /\ build[b].status = "running"
    /\ outcome = "canceled" => build[b].cancel

\* The checks of complete_attempt: only a requested cancellation ends canceled.
CanComplete(b, k, t, outcome) ==
    /\ LeaseHeld(b, k, t)
    /\ build[b].status = "running"
    /\ outcome = "canceled" => build[b].cancel

\* complete_attempt: an accepted cancellation overrides the outcome; otherwise
\* a retryable failure queues the build again while attempts remain.
CompleteAttempt(b, k, t, outcome, retryable) ==
    LET cancelWins == build[b].cancel
        final    == IF cancelWins THEN "canceled" ELSE outcome
        canRetry == /\ ~cancelWins
                    /\ outcome \in {"failed", "timed_out"}
                    /\ retryable
                    /\ k < MaxAttempts
        target   == IF canRetry THEN "queued"
                    ELSE IF final \in {"canceled", "needs_review"} THEN final
                    ELSE "failed"
    IN  /\ CanComplete(b, k, t, outcome)
        /\ attempt' = WithAttempt(b, k, Finished(attempt[b][k], final))
        /\ build' = [build EXCEPT ![b] = Moved(b, target, build[b].cancel)]
        /\ event' = [event EXCEPT ![b] = Logged(b, target)]
        /\ outbox' = IF canRetry
                     THEN [outbox EXCEPT ![b] =
                              @ \union {NewRow(build[b].version + 1, RetryTicks)}]
                     ELSE outbox
        /\ UNCHANGED <<artifact, keyed, deletion>>

CanPublish_AnySet(b, k, t, records) ==
    LeaseHeld(b, k, t) /\ build[b].status = "running" /\ ~build[b].cancel

CanPublish_IgnoresCancel(b, k, t, records) ==
    records = {k} \X Artifacts /\ LeaseHeld(b, k, t) /\ build[b].status = "running"

\* The checks of publish_attempt_success.
CanPublish(b, k, t, records) ==
    /\ records = {k} \X Artifacts
    /\ LeaseHeld(b, k, t)
    /\ build[b].status = "running"
    /\ ~build[b].cancel
    /\ artifact[b] = {}

\* publish_attempt_success: the exact artifact set of this attempt becomes
\* visible together with the success of the build.
PublishAttemptSuccess(b, k, t, records) ==
    /\ CanPublish(b, k, t, records)
    /\ artifact' = [artifact EXCEPT ![b] = records]
    /\ attempt' = WithAttempt(b, k, Finished(attempt[b][k], "succeeded"))
    /\ build' = [build EXCEPT ![b] = Moved(b, "succeeded", build[b].cancel)]
    /\ event' = [event EXCEPT ![b] = Logged(b, "succeeded")]
    /\ UNCHANGED <<outbox, keyed, deletion>>

RecoveryTarget_IgnoresCancel(b, k) == IF k < MaxAttempts THEN "queued" ELSE "failed"
RecoveryTarget_OneMore(b, k) == IF build[b].cancel THEN "canceled" ELSE "queued"

\* What recovery makes of a running build whose attempt k has expired.
RecoveryTarget(b, k) ==
    IF build[b].cancel THEN "canceled"
    ELSE IF k < MaxAttempts THEN "queued" ELSE "failed"

\* recover_expired_attempts: one transaction over the expired attempts in S.
\* LIMIT and SKIP LOCKED may leave some of the expired attempts out of S.
RecoverExpiredAttempts(S) ==
    LET recovers(b, k) == <<b, k>> \in S /\ build[b].status = "running"
        target(b) == RecoveryTarget(b, CHOOSE k \in Numbers : <<b, k>> \in S)
        moves(b)  == \E k \in Numbers : recovers(b, k)
    IN  /\ S # {}
        /\ \A p \in S : Expired(p[1], p[2])
        /\ attempt' = [b \in Builds |-> [k \in Numbers |->
              IF <<b, k>> \in S
              THEN Finished(attempt[b][k],
                            IF recovers(b, k) /\ build[b].cancel
                            THEN "canceled" ELSE "lost")
              ELSE attempt[b][k]]]
        /\ build' = [b \in Builds |->
              IF moves(b) THEN Moved(b, target(b), build[b].cancel) ELSE build[b]]
        /\ event' = [b \in Builds |->
              IF moves(b) THEN Logged(b, target(b)) ELSE event[b]]
        /\ outbox' = [b \in Builds |->
              IF moves(b) /\ target(b) = "queued"
              THEN outbox[b] \union {NewRow(build[b].version + 1, RetryTicks)}
              ELSE outbox[b]]
        /\ UNCHANGED <<artifact, keyed, deletion>>

\* A row that dispatch_outbox may select: not dispatched and available.
Due(row) == ~row.dispatched /\ row.wait = 0

\* dispatch_outbox, a row whose build was enqueued or is no longer queued.
MarkDispatched(b, row) ==
    /\ row \in outbox[b] /\ Due(row)
    /\ outbox' = [outbox EXCEPT ![b] =
                     (@ \ {row}) \union {[version |-> row.version, dispatched |-> TRUE,
                                              wait |-> row.wait]}]
    /\ UNCHANGED <<build, attempt, artifact, event, keyed, deletion>>

\* dispatch_outbox, a row whose enqueue callback raised.
DeferDispatch(b, row) ==
    /\ row \in outbox[b] /\ Due(row)
    /\ outbox' = [outbox EXCEPT ![b] =
                     (@ \ {row}) \union {[version |-> row.version, dispatched |-> FALSE,
                                              wait |-> RetryTicks]}]
    /\ UNCHANGED <<build, attempt, artifact, event, keyed, deletion>>

\* idempotency_keys after the cascade.
KeysWithout(B) == [key \in Keys |-> IF keyed[key] \in B THEN NoBuild ELSE keyed[key]]

\* queue_and_delete_builds: retention queues the exact object versions of
\* terminal builds and deletes their rows; everything else the builds own goes
\* with them (ON DELETE CASCADE).
DeleteBuilds(B) ==
    /\ B # {}
    /\ \A b \in B : build[b].status \in Terminal
    /\ deletion' = [b \in Builds |->
          IF b \in B THEN deletion[b] \union artifact[b] ELSE deletion[b]]
    /\ build' = [b \in Builds |-> IF b \in B THEN Missing("deleted") ELSE build[b]]
    /\ attempt' = [b \in Builds |-> IF b \in B THEN NoAttempts ELSE attempt[b]]
    /\ outbox' = [b \in Builds |-> IF b \in B THEN {} ELSE outbox[b]]
    /\ artifact' = [b \in Builds |-> IF b \in B THEN {} ELSE artifact[b]]
    /\ event' = [b \in Builds |-> IF b \in B THEN <<>> ELSE event[b]]
    /\ keyed' = KeysWithout(B)

-------------------------------------------------------------------------------
(* Time. *)

Less(n) == IF n = 0 THEN 0 ELSE n - 1

TimerRuns ==
    \E b \in Builds :
        \/ \E k \in Numbers : attempt[b][k].lease > 0
        \/ \E row \in outbox[b] : row.wait > 0

\* CURRENT_TIMESTAMP advances by one tick.
Advance ==
    /\ attempt' = [b \in Builds |-> [k \in Numbers |->
                      [status |-> attempt[b][k].status, token |-> attempt[b][k].token,
                       lease |-> Less(attempt[b][k].lease)]]]
    /\ outbox' = [b \in Builds |->
                      {[version |-> row.version, dispatched |-> row.dispatched,
                        wait |-> Less(row.wait)] : row \in outbox[b]}]
    /\ UNCHANGED <<build, artifact, event, keyed, deletion>>

Tick == TimerRuns /\ Advance

-------------------------------------------------------------------------------
(* Any caller may present any build, number and token at any time. *)

Dispatches == \E b \in Builds : \E row \in outbox[b] :
                  MarkDispatched(b, row) \/ DeferDispatch(b, row)

Holder(b, k, t) ==
    \/ HeartbeatAttempt(b, k, t)
    \/ \E outcome \in Outcomes, retryable \in BOOLEAN :
           CompleteAttempt(b, k, t, outcome, retryable)
    \/ \E records \in SUBSET (Numbers \X Artifacts) :
           PublishAttemptSuccess(b, k, t, records)

Next ==
    \/ \E b \in Builds, r \in Requests, key \in Keys \union {NoKey} : Submit(b, r, key)
    \/ \E b \in Builds, v \in {build[c].version : c \in Builds} : RequestCancel(b, v)
    \/ \E b \in Builds, t \in Tokens : LeaseBuild(b, t)
    \/ \E b \in Builds, k \in Numbers, t \in Tokens : Holder(b, k, t)
    \/ \E S \in SUBSET (Builds \X Numbers) : RecoverExpiredAttempts(S)
    \/ Dispatches
    \/ \E B \in SUBSET Builds : DeleteBuilds(B)
    \/ Tick

Spec == Init /\ [][Next]_repoVars

-------------------------------------------------------------------------------
(* What the store promises, whoever calls it and in whatever order. *)

TypeOK ==
    /\ build \in [Builds -> BuildRow]
    /\ attempt \in [Builds -> [Numbers -> AttemptRow]]
    /\ outbox \in [Builds -> SUBSET OutboxRow]
    /\ artifact \in [Builds -> SUBSET (Numbers \X Artifacts)]
    /\ event \in [Builds -> Seq(Event)]
    /\ keyed \in [Keys -> Builds \union {NoBuild}]
    /\ deletion \in [Builds -> SUBSET (Numbers \X Artifacts)]

OneLease(b) ==
    /\ build[b].status = "running" <=>
          \E k \in Numbers : attempt[b][k].status \in Active
    /\ \A j, k \in Numbers :
          j < k /\ attempt[b][k].status # "none" =>
              attempt[b][j].status \notin Active \union {"none"}

\* A build is running exactly while its latest attempt is active: a lost or
\* finished attempt never leaves the build running, and no second attempt
\* starts beside an active one (lease_build, complete, publish, recover; the
\* index attempts_one_active_idx must never be hit).
RunningUnderOneLease == \A b \in Builds : OneLease(b)

CancelBinds(b) ==
    /\ build[b].cancel => build[b].status \in {"running", "canceled"}
    /\ build[b].status = "canceled" => build[b].cancel

\* An accepted cancellation wins: it is never retried, published or turned
\* into another ending, and nothing is canceled without a request.
CancelWins == \A b \in Builds : CancelBinds(b)

AttemptLeft(b) == build[b].status = "queued" => attempt[b][MaxAttempts].status = "none"

\* A queued build always has an attempt left: lease_build can never answer
\* retry_policy_exhausted and leave a queued build that nobody may start.
QueuedHasAttemptLeft == \A b \in Builds : AttemptLeft(b)

WholeSet(b) ==
    IF build[b].status = "succeeded"
    THEN \E k \in Numbers :
            /\ artifact[b] = {k} \X Artifacts
            /\ \A j \in Numbers : attempt[b][j].status = "succeeded" <=> j = k
    ELSE /\ artifact[b] = {}
         /\ \A j \in Numbers : attempt[b][j].status # "succeeded"

\* Artifacts are visible exactly for a succeeded build, as the whole set of
\* the one attempt that succeeded (publish_attempt_success is all or nothing).
PublishedWhole == \A b \in Builds : WholeSet(b)

HasRow(b) ==
    /\ build[b].status = "queued" => \E row \in outbox[b] : row.version = build[b].version
    /\ \A row \in outbox[b] : row.version <= build[b].version
    /\ \A r1, r2 \in outbox[b] : r1.version = r2.version => r1 = r2

\* The outbox of a queued build holds exactly one row of its current version,
\* so that queueing is never committed without its wake-up, and two queueings
\* never collide on UNIQUE (build_id, build_version).
QueuedHasRow == \A b \in Builds : HasRow(b)

Replays(b) ==
    IF build[b].status \in NoRow
    THEN event[b] = <<>>
    ELSE /\ Len(event[b]) = build[b].version + 1
         /\ event[b][Len(event[b])].to = build[b].status
         /\ \A i \in 1 .. Len(event[b]) - 1 : event[b][i].to = event[b][i + 1].from

\* The event log replays to the state: every event starts where the previous
\* one ended, the last one ends in the current status, and each change of the
\* row left exactly one event (the first change leaves two).
LogReplays == \A b \in Builds : Replays(b)

\* The state version orders every change an API client can see: no step
\* changes the row of a build without raising its version by one, so a client
\* that holds the current version holds the current state; and a terminal row,
\* its artifacts, log and attempts are never touched again until retention
\* deletes all of them together, with the keys that lead to it.
RowStep(b) ==
    IF build'[b].status = "deleted"
    THEN /\ build[b].status \in Terminal \union {"deleted"}
         /\ artifact[b] \subseteq deletion'[b]
         /\ \A key \in Keys : keyed'[key] # b
    ELSE /\ build'[b] # build[b] => build'[b].version = build[b].version + 1
         /\ artifact'[b] # artifact[b] => build'[b] # build[b]
         /\ build[b].status \in Terminal =>
               UNCHANGED <<build[b], artifact[b], event[b], attempt[b]>>
VersionGuardsRow == [][\A b \in Builds : RowStep(b)]_repoVars

-------------------------------------------------------------------------------
(* The store implements the public life cycle of every build. *)

\* MAX(attempt_number) of b, 0 when it has no attempt.
Spent(b) ==
    CHOOSE n \in 0 .. MaxAttempts :
        \A k \in Numbers : attempt[b][k].status # "none" <=> k <= n

Lifecycle(b) == INSTANCE BuildLifecycle WITH
    status  <- build[b].status,
    cancel  <- build[b].cancel,
    spent   <- Spent(b),
    visible <- artifact[b] # {}

\* Seen by its client, every build behaves as BuildLifecycle promises, although
\* recovery moves many builds in one transaction.
ImplementsLifecycle ==
    /\ \A b \in Builds : Lifecycle(b)!Init
    /\ [][\A b \in Builds :
            Lifecycle(b)!Next \/ UNCHANGED Lifecycle(b)!lifecycleVars]_repoVars

-------------------------------------------------------------------------------
(* The store implements the reference adapter. *)

Undelayed(rows) == {[row EXCEPT !.wait = 0] : row \in rows}

Reference == INSTANCE StateStore WITH
    RetryTicks <- 0,
    MaxVersion <- 0,
    outbox <- [b \in Builds |-> Undelayed(outbox[b])]

Retention == \E b \in Builds : build[b].status # "deleted" /\ build'[b].status = "deleted"

\* "The in-memory adapter is [...] complete enough to define [...] the Postgres
\* contract" (state.py): every transaction of PostgresRepository is a call that
\* InMemoryStateStore answers in the same way, in every state that can be
\* reached.  Retention has no counterpart there, and the delays of outbox rows
\* are left out: dispatch_outbox reads builds.status without a lock and may
\* defer the row of a build that is no longer queued, the adapter may not.
ImplementsReference ==
    Reference!Init /\ [][Retention \/ Reference!Next
                          \/ UNCHANGED Reference!storeVars]_repoVars

===============================================================================
