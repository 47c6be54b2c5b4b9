----------------------------- MODULE StateStore -----------------------------
(***************************************************************************)
(* InMemoryStateStore: the reference adapter that "defines and unit-tests  *)
(* the Postgres contract" (state.py).  One lock serialises its methods, so *)
(* a method is one action; a refused call changes nothing.  Beside what    *)
(* PostgresRepository offers it has the generic transition between the     *)
(* states of a build, register_running_attempt and publish_success, which  *)
(* the tests drive without a lease.                                        *)
(*                                                                         *)
(* Time is what remains of a lease or of the delay of an outbox row.       *)
(* Counters and error codes of outbox rows are left out (so is             *)
(* mark_outbox_error, which changes nothing else).                         *)
(***************************************************************************)
EXTENDS Naturals, Sequences

CONSTANTS
    Builds, Requests, Keys, Tokens, Artifacts,
    MaxAttempts, LeaseTicks, RetryTicks,
    MaxVersion,     \* bound: generic transitions of a build start below it
    NoBuild, NoKey, NoToken, NoRequest

VARIABLES
    build,      \* _builds
    attempt,    \* _attempts, by build and attempt_number
    outbox,     \* _outbox, the records of each build
    artifact,   \* _artifacts: <<attempt_number, relative_path>>
    event,      \* _events
    keyed       \* _idempotency

storeVars == <<build, attempt, outbox, artifact, event, keyed>>

Numbers == 1 .. MaxAttempts
Active == {"leased", "running"}
Terminal == {"succeeded", "failed", "canceled", "needs_review"}
NoAttempt == [status |-> "none", token |-> NoToken, lease |-> 0]

Init ==
    /\ build = [b \in Builds |-> [status |-> "absent", version |-> 0,
                                  cancel |-> FALSE, request |-> NoRequest]]
    /\ attempt = [b \in Builds |-> [k \in Numbers |-> NoAttempt]]
    /\ outbox = [b \in Builds |-> {}]
    /\ artifact = [b \in Builds |-> {}]
    /\ event = [b \in Builds |-> <<>>]
    /\ keyed = [key \in Keys |-> NoBuild]

-----------------------------------------------------------------------------
Exists(b) == build[b].status # "absent"

\* replace(build, status=..., state_version=build.state_version + 1)
Replaced(b, target, cancel) ==
    [build[b] EXCEPT !.status = target, !.version = @ + 1, !.cancel = cancel]

LogFrom(b, from, target) == Append(event[b], [from |-> from, to |-> target])

\* _append_outbox: a second record of one version is refused.
Appended(b, v, delay) ==
    outbox[b] \union {[version |-> v, dispatched |-> FALSE, wait |-> delay]}

WithAttempt(b, k, a) == [attempt EXCEPT ![b][k] = a]
Ended(b, k, status) == [attempt[b][k] EXCEPT !.status = status, !.lease = 0]
HasActive(b) == \E k \in Numbers : attempt[b][k].status \in Active

\* An active lease, its token, and time left.
Fenced(b, k, t) ==
    attempt[b][k].status \in Active /\ attempt[b][k].token = t /\ attempt[b][k].lease > 0

\* The change of a build by one attempt or call, with its event and, when it
\* is queued again, its outbox record.
Move(b, target, cancel, from, delay) ==
    /\ build' = [build EXCEPT ![b] = Replaced(b, target, cancel)]
    /\ event' = [event EXCEPT ![b] = LogFrom(b, from, target)]
    /\ outbox' = IF target = "queued"
                 THEN [outbox EXCEPT ![b] = Appended(b, build[b].version + 1, delay)]
                 ELSE outbox

-----------------------------------------------------------------------------
(* Methods *)

Submit(b, r, key) ==
    /\ ~Exists(b)
    /\ key \in Keys => keyed[key] = NoBuild
    /\ build' = [build EXCEPT ![b] = [status |-> "queued", version |-> 1,
                                      cancel |-> FALSE, request |-> r]]
    /\ event' = [event EXCEPT ![b] = <<[from |-> "absent", to |-> "validating"],
                                       [from |-> "validating", to |-> "queued"]>>]
    /\ keyed' = IF key \in Keys THEN [keyed EXCEPT ![key] = b] ELSE keyed
    /\ outbox' = [outbox EXCEPT ![b] = Appended(b, 1, 0)]
    /\ UNCHANGED <<attempt, artifact>>

\* attempt_number must be new, and no other attempt active.
RegisterRunningAttempt(b, k, t) ==
    /\ build[b].status = "running"
    /\ attempt[b][k].status = "none"
    /\ ~HasActive(b)
    /\ attempt' = WithAttempt(b, k, [status |-> "running", token |-> t,
                                     lease |-> LeaseTicks])
    /\ UNCHANGED <<build, outbox, artifact, event, keyed>>

\* Queued, nothing active, and k is the next attempt_number.
CanLease(b, k) ==
    /\ build[b].status = "queued"
    /\ ~HasActive(b)
    /\ \A j \in Numbers : (attempt[b][j].status # "none" => j < k)
    /\ k > 1 => attempt[b][k - 1].status # "none"

LeaseBuild(b, k, t) ==
    /\ CanLease(b, k)
    /\ attempt' = WithAttempt(b, k, [status |-> "running", token |-> t,
                                     lease |-> LeaseTicks])
    /\ Move(b, "running", build[b].cancel, "queued", 0)
    /\ UNCHANGED <<artifact, keyed>>

HeartbeatAttempt(b, k, t) ==
    /\ Fenced(b, k, t)
    /\ attempt' = WithAttempt(b, k, [attempt[b][k] EXCEPT !.lease = LeaseTicks])
    /\ UNCHANGED <<build, outbox, artifact, event, keyed>>

\* A requested cancellation overrides the outcome; another attempt is allowed
\* after a retryable failure only.
CompleteAttempt(b, k, t, status, retryable) ==
    LET cancelWins == build[b].cancel
        final    == IF cancelWins THEN "canceled" ELSE status
        canRetry == /\ ~cancelWins /\ retryable /\ k < MaxAttempts
                    /\ status \in {"failed", "timed_out"}
        target   == IF canRetry THEN "queued"
                    ELSE IF final \in {"canceled", "needs_review"} THEN final
                    ELSE "failed"
    IN  /\ Fenced(b, k, t)
        /\ build[b].status = "running"
        /\ status = "canceled" => cancelWins
        /\ attempt' = WithAttempt(b, k, Ended(b, k, final))
        /\ Move(b, target, cancelWins, "running", RetryTicks)
        /\ UNCHANGED <<artifact, keyed>>

\* publish_success: the running attempt that the records name, and the whole
\* set of artifacts.
PublishSuccess(b, v, k, records) ==
    /\ v = build[b].version
    /\ build[b].status \in {"running", "rendering"}
    /\ ~build[b].cancel
    /\ records = {k} \X Artifacts
    /\ attempt[b][k].status = "running"
    /\ artifact[b] = {}
    /\ artifact' = [artifact EXCEPT ![b] = records]
    /\ attempt' = WithAttempt(b, k, Ended(b, k, "succeeded"))
    /\ Move(b, "succeeded", FALSE, build[b].status, 0)
    /\ UNCHANGED keyed

\* The attempt that is fenced and the one that the records name need not be
\* compared: there is one running attempt at most.
PublishAttemptSuccess(b, j, t, k, records) ==
    Fenced(b, j, t) /\ PublishSuccess(b, build[b].version, k, records)

RecoveryTarget(b, k) ==
    IF build[b].status # "running" THEN build[b].status
    ELSE IF build[b].cancel THEN "canceled"
    ELSE IF k < MaxAttempts THEN "queued" ELSE "failed"

\* recover_expired_attempts: any of the expired attempts (`limit'), one after
\* the other; no build has two.
RecoverExpiredAttempts(S) ==
    LET target(b) == RecoveryTarget(b, CHOOSE k \in Numbers : <<b, k>> \in S)
        moves(b)  == /\ \E k \in Numbers : <<b, k>> \in S
                     /\ target(b) # build[b].status
    IN  /\ S # {}
        /\ \A p \in S : attempt[p[1]][p[2]].status \in Active
                        /\ attempt[p[1]][p[2]].lease = 0
        /\ attempt' = [b \in Builds |-> [k \in Numbers |->
              IF <<b, k>> \in S
              THEN Ended(b, k, IF build[b].cancel THEN "canceled" ELSE "lost")
              ELSE attempt[b][k]]]
        /\ build' = [b \in Builds |->
              IF moves(b) THEN Replaced(b, target(b), build[b].cancel) ELSE build[b]]
        /\ event' = [b \in Builds |->
              IF moves(b) THEN LogFrom(b, "running", target(b)) ELSE event[b]]
        /\ outbox' = [b \in Builds |->
              IF moves(b) /\ target(b) = "queued"
              THEN Appended(b, build[b].version + 1, RetryTicks) ELSE outbox[b]]
        /\ UNCHANGED <<artifact, keyed>>

Pending(b) == {row \in outbox[b] : ~row.dispatched}
Dispatched(rows) == {[row EXCEPT !.dispatched = TRUE] : row \in rows}
Deferred(rows) == {[row EXCEPT !.wait = RetryTicks] : row \in rows}

MarkOutboxDispatched(b, row) ==
    /\ row \in Pending(b)
    /\ outbox' = [outbox EXCEPT ![b] = (@ \ {row}) \union Dispatched({row})]
    /\ UNCHANGED <<build, attempt, artifact, event, keyed>>

\* dispatch_outbox at a record that is due: enqueue is called for a queued
\* build, and may raise.
DispatchOutbox(b, row) ==
    /\ row \in Pending(b) /\ row.wait = 0
    /\ \/ outbox' = [outbox EXCEPT ![b] = (@ \ {row}) \union Dispatched({row})]
       \/ /\ build[b].status = "queued"
          /\ outbox' = [outbox EXCEPT ![b] = (@ \ {row}) \union Deferred({row})]
    /\ UNCHANGED <<build, attempt, artifact, event, keyed>>

\* ALLOWED_BUILD_TRANSITIONS, of the states that a build can be in.
Allowed(status) ==
    CASE status = "queued"      -> {"running", "canceled"}
      [] status = "running"     -> {"queued", "geometry_qa", "failed", "canceled",
                                    "needs_review"}
      [] status = "geometry_qa" -> {"rendering", "failed", "canceled", "needs_review"}
      [] status = "rendering"   -> {"failed", "canceled", "needs_review"}
      [] OTHER -> {}

Transition(b, v, target) ==
    /\ v = build[b].version /\ v < MaxVersion
    /\ target \in Allowed(build[b].status)
    /\ target = "canceled" => build[b].cancel
    /\ Move(b, target, build[b].cancel, build[b].status, 0)
    /\ UNCHANGED <<attempt, artifact, keyed>>

RequestCancel(b, v) ==
    LET target == IF build[b].status = "queued" THEN "canceled" ELSE build[b].status
    IN  /\ Exists(b)
        /\ v = build[b].version
        /\ build[b].status \notin Terminal
        /\ ~build[b].cancel
        /\ build' = [build EXCEPT ![b] = Replaced(b, target, TRUE)]
        /\ event' = [event EXCEPT ![b] = LogFrom(b, build[b].status, target)]
        /\ UNCHANGED <<attempt, outbox, artifact, keyed>>

-----------------------------------------------------------------------------
\* _now() advances.
Less(n) == IF n = 0 THEN 0 ELSE n - 1
Tick ==
    /\ attempt' = [b \in Builds |-> [k \in Numbers |->
                      [attempt[b][k] EXCEPT !.lease = Less(@)]]]
    /\ outbox' = [b \in Builds |-> {[row EXCEPT !.wait = Less(@)] : row \in outbox[b]}]
    /\ UNCHANGED <<build, artifact, event, keyed>>

Outcomes == {"failed", "needs_review", "canceled", "timed_out"}
Statuses == {"queued", "running", "geometry_qa", "rendering"} \union Terminal
Versions == {build[b].version : b \in Builds}

Worker(b, k, t) ==
    \/ LeaseBuild(b, k, t) \/ HeartbeatAttempt(b, k, t)
    \/ RegisterRunningAttempt(b, k, t)
    \/ \E status \in Outcomes, retryable \in BOOLEAN :
           CompleteAttempt(b, k, t, status, retryable)
    \/ \E j \in Numbers : PublishAttemptSuccess(b, k, t, j, {j} \X Artifacts)

Next ==
    \/ \E b \in Builds, r \in Requests, key \in Keys \union {NoKey} : Submit(b, r, key)
    \/ \E b \in Builds, k \in Numbers, t \in Tokens : Worker(b, k, t)
    \/ \E b \in Builds, v \in Versions, k \in Numbers :
           PublishSuccess(b, v, k, {k} \X Artifacts)
    \/ \E S \in SUBSET (Builds \X Numbers) : RecoverExpiredAttempts(S)
    \/ \E b \in Builds : \E row \in outbox[b] :
           MarkOutboxDispatched(b, row) \/ DispatchOutbox(b, row)
    \/ \E b \in Builds, v \in Versions :
           RequestCancel(b, v) \/ \E target \in Statuses : Transition(b, v, target)
    \/ Tick

Spec == Init /\ [][Next]_storeVars

-----------------------------------------------------------------------------
(* Properties: they hold for every caller, the tests' direct ones included *)

\* A build has one active attempt at most, also when transition queues it
\* again under a running one: the fence of that attempt is what keeps
\* publish_attempt_success from publishing the files of another.
OneActiveAttempt ==
    \A b \in Builds : \A j, k \in Numbers :
        attempt[b][j].status \in Active /\ attempt[b][k].status \in Active => j = k
=============================================================================
