--------------------------- MODULE RepositoryProofs ---------------------------
(***************************************************************************)
(* Proofs about Repository, for every set of builds, keys, tokens and      *)
(* artifacts and every number of attempts: its type, the safety            *)
(* invariants that make it correct, and what a version number guards.      *)
(* The last part shows that it implements the public life cycle of each    *)
(* build (BuildLifecycle) and the in-memory store (StateStore).            *)
(***************************************************************************)
EXTENDS Repository, TLAPS

-------------------------------------------------------------------------------
(* The helpers return values of the right type. *)

LEMMA MovedType ==
    ASSUME TypeOK, NEW b \in Builds, NEW target \in Statuses, NEW cancel \in BOOLEAN
    PROVE  Moved(b, target, cancel) \in BuildRow
BY DEF TypeOK, Moved, BuildRow

LEMMA LoggedType ==
    ASSUME TypeOK, NEW b \in Builds, NEW target \in Statuses
    PROVE  Logged(b, target) \in Seq(Event)
<1>1. build[b].status \in Statuses
    BY DEF TypeOK, BuildRow
<1>2. [from |-> build[b].status, to |-> target] \in Event
    BY <1>1 DEF Event
<1>3. event[b] \in Seq(Event)
    BY DEF TypeOK
<1> QED
    BY <1>2, <1>3 DEF Logged

LEMMA NewRowType ==
    ASSUME NEW v \in Nat, NEW delay \in 0 .. RetryTicks
    PROVE  NewRow(v, delay) \in OutboxRow
BY DEF NewRow, OutboxRow

LEMMA FinishedType ==
    ASSUME NEW a \in AttemptRow, NEW status \in AttemptStatuses
    PROVE  Finished(a, status) \in AttemptRow
BY RepositoryAssumption DEF AttemptRow, Finished

LEMMA WithAttemptType ==
    ASSUME TypeOK, NEW b \in Builds, NEW k \in Numbers, NEW a \in AttemptRow
    PROVE  /\ WithAttempt(b, k, a) \in [Builds -> [Numbers -> AttemptRow]]
           /\ \A c \in Builds, j \in Numbers : WithAttempt(b, k, a)[c][j] =
                  IF c = b /\ j = k THEN a ELSE attempt[c][j]
BY DEF TypeOK, WithAttempt

LEMMA WithAttemptStatus ==
    ASSUME TypeOK, NEW b \in Builds, NEW k \in Numbers, NEW a \in AttemptRow,
           attempt' = WithAttempt(b, k, a), NEW c \in Builds, NEW j \in Numbers
    PROVE  attempt'[c][j].status =
              IF c = b /\ j = k THEN a.status ELSE attempt[c][j].status
<1>1. attempt'[c][j] = IF c = b /\ j = k THEN a ELSE attempt[c][j]
    BY WithAttemptType
<1> QED
    BY <1>1

LEMMA LessType ==
    ASSUME NEW m \in Nat, NEW n \in 0 .. m
    PROVE  Less(n) \in 0 .. m
BY DEF Less

-------------------------------------------------------------------------------
(* Type correctness. *)

LEMMA TypeInit == Init => TypeOK
<1> SUFFICES ASSUME Init PROVE TypeOK
    OBVIOUS
<1>1. Missing("absent") \in BuildRow
    BY DEF Missing, BuildRow, Statuses, NoRow
<1>2. NoAttempts \in [Numbers -> AttemptRow]
    BY RepositoryAssumption DEF NoAttempts, NoAttempt, AttemptRow, AttemptStatuses
<1>3. <<>> \in Seq(Event)
    OBVIOUS
<1> QED
    BY <1>1, <1>2, <1>3 DEF Init, TypeOK, BuildRow, AttemptRow

LEMMA TypeSubmit ==
    ASSUME TypeOK, NEW b \in Builds, NEW r \in Requests, NEW key \in Keys \union {NoKey},
           Submit(b, r, key)
    PROVE  TypeOK'
<1>1. build' \in [Builds -> BuildRow]
    BY DEF Submit, TypeOK, BuildRow, Statuses
<1>2. NewRow(1, 0) \in OutboxRow
    BY NewRowType, RepositoryAssumption
<1>3. outbox' \in [Builds -> SUBSET OutboxRow]
    BY <1>2 DEF Submit, TypeOK
<1>4. /\ [from |-> "absent", to |-> "validating"] \in Event
      /\ [from |-> "validating", to |-> "queued"] \in Event
    BY DEF Event, Statuses, NoRow
<1>5. <<[from |-> "absent", to |-> "validating"],
        [from |-> "validating", to |-> "queued"]>> \in Seq(Event)
    BY <1>4
<1>6. event' \in [Builds -> Seq(Event)]
    BY <1>5 DEF Submit, TypeOK
<1>7. keyed' \in [Keys -> Builds \union {NoBuild}]
    BY DEF Submit, TypeOK
<1> QED
    BY <1>1, <1>3, <1>6, <1>7 DEF Submit, TypeOK, BuildRow

LEMMA TypeRequestCancel ==
    ASSUME TypeOK, NEW b \in Builds, NEW v, RequestCancel(b, v)
    PROVE  TypeOK'
<1> DEFINE target == IF build[b].status \in {"validating", "queued"}
                     THEN "canceled" ELSE build[b].status
<1>1. target \in Statuses
    BY DEF TypeOK, BuildRow, Statuses, Terminal
<1>2. /\ build' = [build EXCEPT ![b] = Moved(b, target, TRUE)]
      /\ event' = [event EXCEPT ![b] = Logged(b, target)]
    BY DEF RequestCancel
<1> HIDE DEF target
<1>3. build' \in [Builds -> BuildRow]
    BY <1>1, <1>2, MovedType DEF TypeOK
<1>4. event' \in [Builds -> Seq(Event)]
    BY <1>1, <1>2, LoggedType DEF TypeOK
<1> QED
    BY <1>3, <1>4 DEF RequestCancel, TypeOK

LEMMA TypeLeaseBuild ==
    ASSUME TypeOK, NEW b \in Builds, NEW t \in Tokens, LeaseBuild(b, t)
    PROVE  TypeOK'
<1>1. PICK k \in Numbers : attempt' =
          WithAttempt(b, k, [status |-> "running", token |-> t, lease |-> LeaseTicks])
    BY DEF LeaseBuild
<1>2. [status |-> "running", token |-> t, lease |-> LeaseTicks] \in AttemptRow
    BY RepositoryAssumption DEF AttemptRow, AttemptStatuses, Active
<1>3. attempt' \in [Builds -> [Numbers -> AttemptRow]]
    BY <1>1, <1>2, WithAttemptType
<1>4. "running" \in Statuses /\ build[b].cancel \in BOOLEAN
    BY DEF Statuses, TypeOK, BuildRow
<1>5. build' \in [Builds -> BuildRow]
    BY <1>4, MovedType DEF TypeOK, LeaseBuild
<1>6. event' \in [Builds -> Seq(Event)]
    BY <1>4, LoggedType DEF TypeOK, LeaseBuild
<1> QED
    BY <1>3, <1>5, <1>6 DEF LeaseBuild, TypeOK

LEMMA TypeHeartbeat ==
    ASSUME TypeOK, NEW b \in Builds, NEW k \in Numbers, NEW t \in Tokens,
           HeartbeatAttempt(b, k, t)
    PROVE  TypeOK'
<1>1. attempt[b][k].status \in AttemptStatuses
    BY DEF TypeOK, AttemptRow
<1>2. [status |-> attempt[b][k].status, token |-> t, lease |-> LeaseTicks] \in AttemptRow
    BY <1>1, RepositoryAssumption DEF AttemptRow
<1>3. attempt' \in [Builds -> [Numbers -> AttemptRow]]
    <2>1. attempt' = WithAttempt(b, k, [status |-> attempt[b][k].status, token |-> t,
                                        lease |-> LeaseTicks])
        BY DEF HeartbeatAttempt
    <2> QED
        BY <1>2, <2>1, WithAttemptType
<1> QED
    BY <1>3 DEF HeartbeatAttempt, TypeOK

LEMMA TypeComplete ==
    ASSUME TypeOK, NEW b \in Builds, NEW k \in Numbers, NEW t \in Tokens,
           NEW outcome \in Outcomes, NEW retryable \in BOOLEAN,
           CompleteAttempt(b, k, t, outcome, retryable)
    PROVE  TypeOK'
<1>1. PICK final \in AttemptStatuses, target \in Statuses :
          /\ attempt' = WithAttempt(b, k, Finished(attempt[b][k], final))
          /\ build' = [build EXCEPT ![b] = Moved(b, target, build[b].cancel)]
          /\ event' = [event EXCEPT ![b] = Logged(b, target)]
    BY DEF CompleteAttempt, Outcomes, AttemptStatuses, Statuses, Terminal
<1>2. attempt[b][k] \in AttemptRow /\ build[b].cancel \in BOOLEAN /\ build[b].version \in Nat
    BY DEF TypeOK, BuildRow
<1>3. attempt' \in [Builds -> [Numbers -> AttemptRow]]
    BY <1>1, <1>2, FinishedType, WithAttemptType
<1>4. build' \in [Builds -> BuildRow]
    BY <1>1, <1>2, MovedType DEF TypeOK
<1>5. event' \in [Builds -> Seq(Event)]
    BY <1>1, LoggedType DEF TypeOK
<1>6. NewRow(build[b].version + 1, RetryTicks) \in OutboxRow
    BY <1>2, NewRowType, RepositoryAssumption
<1>7. outbox' \in [Builds -> SUBSET OutboxRow]
    BY <1>6 DEF CompleteAttempt, TypeOK
<1> QED
    BY <1>3, <1>4, <1>5, <1>7 DEF CompleteAttempt, TypeOK

LEMMA TypePublish ==
    ASSUME TypeOK, NEW b \in Builds, NEW k \in Numbers, NEW t \in Tokens, NEW records,
           PublishAttemptSuccess(b, k, t, records)
    PROVE  TypeOK'
<1>1. attempt[b][k] \in AttemptRow /\ build[b].cancel \in BOOLEAN
    BY DEF TypeOK, BuildRow
<1>2. "succeeded" \in AttemptStatuses /\ "succeeded" \in Statuses
    BY DEF AttemptStatuses, Statuses, Terminal
<1>3. attempt' \in [Builds -> [Numbers -> AttemptRow]]
    BY <1>1, <1>2, FinishedType, WithAttemptType DEF PublishAttemptSuccess
<1>4. build' \in [Builds -> BuildRow]
    BY <1>1, <1>2, MovedType DEF PublishAttemptSuccess, TypeOK
<1>5. event' \in [Builds -> Seq(Event)]
    BY <1>2, LoggedType DEF PublishAttemptSuccess, TypeOK
<1>6. artifact' \in [Builds -> SUBSET (Numbers \X Artifacts)]
    BY DEF PublishAttemptSuccess, CanPublish, TypeOK
<1> QED
    BY <1>3, <1>4, <1>5, <1>6 DEF PublishAttemptSuccess, TypeOK

LEMMA TypeRecover ==
    ASSUME TypeOK, NEW S \in SUBSET (Builds \X Numbers), RecoverExpiredAttempts(S)
    PROVE  TypeOK'
<1>1. "canceled" \in AttemptStatuses /\ "lost" \in AttemptStatuses
    BY DEF AttemptStatuses
<1>2. \A b \in Builds, k \in Numbers : attempt[b][k] \in AttemptRow
    BY DEF TypeOK
<1>3. attempt' \in [Builds -> [Numbers -> AttemptRow]]
    BY <1>1, <1>2, FinishedType DEF RecoverExpiredAttempts
<1>4. \A b, k : RecoveryTarget(b, k) \in Statuses
    BY DEF RecoveryTarget, Statuses, Terminal
<1>5. \A b \in Builds : build[b] \in BuildRow /\ build[b].cancel \in BOOLEAN
    BY DEF TypeOK, BuildRow
<1>6. build' \in [Builds -> BuildRow]
    BY <1>4, <1>5, MovedType DEF RecoverExpiredAttempts
<1>7. event' \in [Builds -> Seq(Event)]
    BY <1>4, LoggedType DEF RecoverExpiredAttempts, TypeOK
<1>8. \A b \in Builds : NewRow(build[b].version + 1, RetryTicks) \in OutboxRow
    <2>1. RetryTicks \in 0 .. RetryTicks
        BY RepositoryAssumption
    <2>2. \A b \in Builds : build[b].version + 1 \in Nat
        BY DEF TypeOK, BuildRow
    <2> QED
        BY <2>1, <2>2, NewRowType
<1>9. outbox' \in [Builds -> SUBSET OutboxRow]
    <2>1. \A b \in Builds : outbox[b] \in SUBSET OutboxRow
        BY DEF TypeOK
    <2>2. \A b \in Builds :
              outbox[b] \union {NewRow(build[b].version + 1, RetryTicks)} \in SUBSET OutboxRow
        BY <1>8, <2>1
    <2> QED
        BY <2>1, <2>2 DEF RecoverExpiredAttempts
<1> QED
    BY <1>3, <1>6, <1>7, <1>9 DEF RecoverExpiredAttempts, TypeOK

LEMMA TypeDispatches ==
    ASSUME TypeOK, Dispatches
    PROVE  TypeOK'
<1>1. PICK b \in Builds : \E row \in outbox[b] : MarkDispatched(b, row) \/ DeferDispatch(b, row)
    BY DEF Dispatches
<1>2. PICK row \in outbox[b] : MarkDispatched(b, row) \/ DeferDispatch(b, row)
    BY <1>1
<1>3. row \in OutboxRow
    BY DEF TypeOK
<1>4. /\ [version |-> row.version, dispatched |-> TRUE, wait |-> row.wait] \in OutboxRow
      /\ [version |-> row.version, dispatched |-> FALSE, wait |-> RetryTicks] \in OutboxRow
    BY <1>3, RepositoryAssumption DEF OutboxRow
<1>5. outbox[b] \in SUBSET OutboxRow
    BY DEF TypeOK
<1>6. \E new \in SUBSET OutboxRow : outbox' = [outbox EXCEPT ![b] = new]
    <2>1. CASE MarkDispatched(b, row)
        BY <1>4, <1>5, <2>1 DEF MarkDispatched
    <2>2. CASE DeferDispatch(b, row)
        BY <1>4, <1>5, <2>2 DEF DeferDispatch
    <2> QED
        BY <1>2, <2>1, <2>2
<1>7. outbox' \in [Builds -> SUBSET OutboxRow]
    BY <1>6 DEF TypeOK
<1>8. UNCHANGED <<build, attempt, artifact, event, keyed, deletion>>
    BY <1>2 DEF MarkDispatched, DeferDispatch
<1> QED
    BY <1>7, <1>8 DEF TypeOK

LEMMA TypeDelete ==
    ASSUME TypeOK, NEW B \in SUBSET Builds, DeleteBuilds(B)
    PROVE  TypeOK'
<1>1. Missing("deleted") \in BuildRow
    BY DEF Missing, BuildRow, Statuses, NoRow
<1>2. NoAttempts \in [Numbers -> AttemptRow]
    BY RepositoryAssumption DEF NoAttempts, NoAttempt, AttemptRow, AttemptStatuses
<1>3. \A b \in Builds : event[b] \in Seq(Event) /\ build[b] \in BuildRow
                       /\ attempt[b] \in [Numbers -> AttemptRow]
    BY DEF TypeOK
<1>4. /\ build' \in [Builds -> BuildRow]
      /\ attempt' \in [Builds -> [Numbers -> AttemptRow]]
      /\ event' \in [Builds -> Seq(Event)]
    BY <1>1, <1>2, <1>3 DEF DeleteBuilds
<1>5. /\ outbox' \in [Builds -> SUBSET OutboxRow]
      /\ artifact' \in [Builds -> SUBSET (Numbers \X Artifacts)]
      /\ deletion' \in [Builds -> SUBSET (Numbers \X Artifacts)]
    BY DEF DeleteBuilds, TypeOK
<1>6. keyed' \in [Keys -> Builds \union {NoBuild}]
    BY DEF DeleteBuilds, KeysWithout, TypeOK
<1> QED
    BY <1>4, <1>5, <1>6 DEF TypeOK

LEMMA TypeTick ==
    ASSUME TypeOK, Tick
    PROVE  TypeOK'
<1>1. \A b \in Builds, k \in Numbers :
          [status |-> attempt[b][k].status, token |-> attempt[b][k].token,
           lease |-> Less(attempt[b][k].lease)] \in AttemptRow
    BY LessType, RepositoryAssumption DEF TypeOK, AttemptRow
<1>2. \A b \in Builds : \A row \in outbox[b] :
          [version |-> row.version, dispatched |-> row.dispatched,
           wait |-> Less(row.wait)] \in OutboxRow
    <2>1. \A b \in Builds : \A row \in outbox[b] : row \in OutboxRow
        BY DEF TypeOK
    <2>2. \A row \in OutboxRow : Less(row.wait) \in 0 .. RetryTicks
        BY LessType, RepositoryAssumption DEF OutboxRow
    <2> QED
        BY <2>1, <2>2 DEF OutboxRow
<1>3. attempt' \in [Builds -> [Numbers -> AttemptRow]]
    BY <1>1 DEF Tick, Advance
<1>4. outbox' \in [Builds -> SUBSET OutboxRow]
    BY <1>2 DEF Tick, Advance
<1> QED
    BY <1>3, <1>4 DEF Tick, Advance, TypeOK

LEMMA TypeNext == TypeOK /\ [Next]_repoVars => TypeOK'
<1> SUFFICES ASSUME TypeOK, [Next]_repoVars PROVE TypeOK'
    OBVIOUS
<1>1. CASE \E b \in Builds, r \in Requests, key \in Keys \union {NoKey} : Submit(b, r, key)
    BY <1>1, TypeSubmit
<1>2. CASE \E b \in Builds, v \in {build[c].version : c \in Builds} : RequestCancel(b, v)
    BY <1>2, TypeRequestCancel
<1>3. CASE \E b \in Builds, t \in Tokens : LeaseBuild(b, t)
    BY <1>3, TypeLeaseBuild
<1>4. CASE \E b \in Builds, k \in Numbers, t \in Tokens : Holder(b, k, t)
    BY <1>4, TypeHeartbeat, TypeComplete, TypePublish DEF Holder
<1>5. CASE \E S \in SUBSET (Builds \X Numbers) : RecoverExpiredAttempts(S)
    BY <1>5, TypeRecover
<1>6. CASE Dispatches
    BY <1>6, TypeDispatches
<1>7. CASE \E B \in SUBSET Builds : DeleteBuilds(B)
    BY <1>7, TypeDelete
<1>8. CASE Tick
    BY <1>8, TypeTick
<1>9. CASE UNCHANGED repoVars
    BY <1>9 DEF repoVars, TypeOK
<1> QED
    BY <1>1, <1>2, <1>3, <1>4, <1>5, <1>6, <1>7, <1>8, <1>9 DEF Next

\* Every row, token, timer, version and log entry of the store has its type in
\* every reachable state, whatever calls were made (all of PostgresRepository).
THEOREM TypeCorrect == Spec => []TypeOK
    BY TypeInit, TypeNext, PTL DEF Spec

-------------------------------------------------------------------------------
(* The inductive invariant: the safety properties of one build together,    *)
(* and the fact that nothing is left of a build that has no row.            *)

NothingLeft(b) ==
    build[b].status \in NoRow =>
        outbox[b] = {} /\ \A k \in Numbers : attempt[b][k].status = "none"

BuildInv(b) ==
    /\ NothingLeft(b) /\ OneLease(b) /\ CancelBinds(b) /\ AttemptLeft(b)
    /\ WholeSet(b) /\ HasRow(b) /\ Replays(b)

StoreInv == TypeOK /\ \A b \in Builds : BuildInv(b)

-------------------------------------------------------------------------------
(* What one operation does, seen by one build.                             *)

Same(b) == UNCHANGED <<build[b], attempt[b], outbox[b], artifact[b], event[b]>>

\* Time, heartbeats and the dispatcher change timers and flags only.
TimersOnly(b) ==
    /\ UNCHANGED <<build[b], artifact[b], event[b]>>
    /\ \A k \in Numbers : attempt'[b][k].status = attempt[b][k].status
    /\ \E f \in [outbox[b] -> outbox'[b]] :
          /\ \A row \in outbox[b] : f[row].version = row.version
          /\ outbox'[b] = {f[row] : row \in outbox[b]}

Submitted(b) ==
    /\ build[b].status = "absent"
    /\ build'[b].status = "queued" /\ build'[b].version = 1 /\ ~build'[b].cancel
    /\ outbox'[b] = outbox[b] \union {NewRow(1, 0)}
    /\ event'[b] = <<[from |-> "absent", to |-> "validating"],
                     [from |-> "validating", to |-> "queued"]>>
    /\ UNCHANGED <<attempt[b], artifact[b]>>

CancelAsked(b) ==
    /\ build[b].status \notin NoRow \union Terminal
    /\ \E target \in Statuses :
          /\ target = IF build[b].status \in {"validating", "queued"}
                      THEN "canceled" ELSE build[b].status
          /\ build'[b] = Moved(b, target, TRUE)
          /\ event'[b] = Logged(b, target)
    /\ UNCHANGED <<attempt[b], outbox[b], artifact[b]>>

Started(b) ==
    /\ build[b].status = "queued"
    /\ \E k \in Numbers :
          /\ NextNumber(b, k)
          /\ \A j \in Numbers : attempt'[b][j].status =
                IF j = k THEN "running" ELSE attempt[b][j].status
    /\ build'[b] = Moved(b, "running", build[b].cancel)
    /\ event'[b] = Logged(b, "running")
    /\ UNCHANGED <<outbox[b], artifact[b]>>

\* An attempt ends as `final', and its build moves to `target'.
Closed(b, k, final, target) ==
    /\ build[b].status = "running"
    /\ attempt[b][k].status \in Active
    /\ final \notin Active \union {"none"}
    /\ target \in {"queued"} \union Terminal
    /\ build[b].cancel <=> target = "canceled"
    /\ final = "succeeded" <=> target = "succeeded"
    /\ target = "queued" => k < MaxAttempts
    /\ \A j \in Numbers : attempt'[b][j].status =
          IF j = k THEN final ELSE attempt[b][j].status
    /\ build'[b] = Moved(b, target, build[b].cancel)
    /\ event'[b] = Logged(b, target)
    /\ outbox'[b] = IF target = "queued"
                    THEN outbox[b] \union {NewRow(build[b].version + 1, RetryTicks)}
                    ELSE outbox[b]
    /\ artifact'[b] = IF target = "succeeded" THEN {k} \X Artifacts ELSE artifact[b]

Ended(b) == \E k \in Numbers, final \in AttemptStatuses, target \in Statuses :
                Closed(b, k, final, target)

Deleted(b) ==
    /\ build[b].status \in Terminal
    /\ build'[b] = Missing("deleted")
    /\ attempt'[b] = NoAttempts
    /\ outbox'[b] = {} /\ artifact'[b] = {} /\ event'[b] = <<>>

BuildStep(b) == \/ Same(b) \/ TimersOnly(b) \/ Submitted(b) \/ CancelAsked(b)
                \/ Started(b) \/ Ended(b) \/ Deleted(b)

-------------------------------------------------------------------------------
(* Every operation is, for each build, one of these steps.                 *)

LEMMA StepsSubmit ==
    ASSUME TypeOK, NEW b \in Builds, NEW r \in Requests, NEW key \in Keys \union {NoKey},
           Submit(b, r, key), NEW c \in Builds
    PROVE  BuildStep(c)
<1>1. CASE c = b
    <2>1. Submitted(c)
        BY <1>1 DEF Submit, TypeOK, Submitted
    <2> QED
        BY <2>1 DEF BuildStep
<1>2. CASE c # b
    <2>1. Same(c)
        BY <1>2 DEF Submit, TypeOK, Same
    <2> QED
        BY <2>1 DEF BuildStep
<1> QED
    BY <1>1, <1>2

LEMMA StepsRequestCancel ==
    ASSUME TypeOK, NEW b \in Builds, NEW v, RequestCancel(b, v), NEW c \in Builds
    PROVE  BuildStep(c)
<1>1. CASE c = b
    <2>1. PICK target \in Statuses :
              /\ target = IF build[b].status \in {"validating", "queued"}
                          THEN "canceled" ELSE build[b].status
              /\ build' = [build EXCEPT ![b] = Moved(b, target, TRUE)]
              /\ event' = [event EXCEPT ![b] = Logged(b, target)]
        BY DEF RequestCancel, TypeOK, BuildRow, Statuses, Terminal
    <2>2. build[b].status \notin NoRow \union Terminal
        BY DEF RequestCancel
    <2>3. UNCHANGED <<attempt[c], outbox[c], artifact[c]>>
        BY DEF RequestCancel
    <2>4. CancelAsked(c)
        BY <1>1, <2>1, <2>2, <2>3 DEF TypeOK, CancelAsked
    <2> QED
        BY <2>4 DEF BuildStep
<1>2. CASE c # b
    <2>1. Same(c)
        BY <1>2 DEF RequestCancel, TypeOK, Same
    <2> QED
        BY <2>1 DEF BuildStep
<1> QED
    BY <1>1, <1>2

LEMMA StepsLeaseBuild ==
    ASSUME TypeOK, NEW b \in Builds, NEW t \in Tokens, LeaseBuild(b, t), NEW c \in Builds
    PROVE  BuildStep(c)
<1>1. PICK k \in Numbers :
          /\ NextNumber(b, k)
          /\ attempt' = WithAttempt(b, k, [status |-> "running", token |-> t,
                                          lease |-> LeaseTicks])
    BY DEF LeaseBuild
<1>2. [status |-> "running", token |-> t, lease |-> LeaseTicks] \in AttemptRow
    BY RepositoryAssumption DEF AttemptRow, AttemptStatuses, Active
<1>3. CASE c = b
    <2>1. \A j \in Numbers : attempt'[b][j].status =
              IF j = k THEN "running" ELSE attempt[b][j].status
        BY <1>1, <1>2, WithAttemptStatus
    <2>2. Started(c)
        BY <1>1, <1>3, <2>1 DEF LeaseBuild, TypeOK, Started
    <2> QED
        BY <2>2 DEF BuildStep
<1>4. CASE c # b
    <2>1. Same(c)
        BY <1>1, <1>4 DEF LeaseBuild, WithAttempt, TypeOK, Same
    <2> QED
        BY <2>1 DEF BuildStep
<1> QED
    BY <1>3, <1>4

\* A step that keeps the outbox of a build keeps its rows one by one.
LEMMA SameOutbox ==
    ASSUME NEW b \in Builds, outbox'[b] = outbox[b]
    PROVE  \E f \in [outbox[b] -> outbox'[b]] :
              /\ \A row \in outbox[b] : f[row].version = row.version
              /\ outbox'[b] = {f[row] : row \in outbox[b]}
<1> DEFINE f == [row \in outbox[b] |-> row]
<1>1. f \in [outbox[b] -> outbox'[b]]
    OBVIOUS
<1>2. /\ \A row \in outbox[b] : f[row].version = row.version
      /\ outbox'[b] = {f[row] : row \in outbox[b]}
    OBVIOUS
<1> QED
    BY <1>1, <1>2

LEMMA StepsHeartbeat ==
    ASSUME TypeOK, NEW b \in Builds, NEW k \in Numbers, NEW t \in Tokens,
           HeartbeatAttempt(b, k, t), NEW c \in Builds
    PROVE  BuildStep(c)
<1>1. [status |-> attempt[b][k].status, token |-> t, lease |-> LeaseTicks] \in AttemptRow
    BY RepositoryAssumption DEF TypeOK, AttemptRow
<1>2. \A j \in Numbers : attempt'[c][j].status = attempt[c][j].status
    BY <1>1, WithAttemptStatus DEF HeartbeatAttempt
<1>3. outbox'[c] = outbox[c] /\ UNCHANGED <<build[c], artifact[c], event[c]>>
    BY DEF HeartbeatAttempt
<1>4. TimersOnly(c)
    BY <1>2, <1>3, SameOutbox DEF TimersOnly
<1> QED
    BY <1>4 DEF BuildStep

LEMMA StepsComplete ==
    ASSUME TypeOK, NEW b \in Builds, NEW k \in Numbers, NEW t \in Tokens,
           NEW outcome \in Outcomes, NEW retryable \in BOOLEAN,
           CompleteAttempt(b, k, t, outcome, retryable), NEW c \in Builds
    PROVE  BuildStep(c)
<1>1. PICK final \in AttemptStatuses, target \in Statuses :
          /\ final \notin Active \union {"none", "succeeded"}
          /\ target \in {"queued", "canceled", "needs_review", "failed"}
          /\ build[b].cancel <=> target = "canceled"
          /\ target = "queued" => k < MaxAttempts
          /\ attempt' = WithAttempt(b, k, Finished(attempt[b][k], final))
          /\ build' = [build EXCEPT ![b] = Moved(b, target, build[b].cancel)]
          /\ event' = [event EXCEPT ![b] = Logged(b, target)]
          /\ outbox' = IF target = "queued"
                       THEN [outbox EXCEPT ![b] =
                                @ \union {NewRow(build[b].version + 1, RetryTicks)}]
                       ELSE outbox
    <2>1. CanComplete(b, k, t, outcome)
        BY DEF CompleteAttempt
    <2>2. CASE build[b].cancel
        <3>1. /\ attempt' = WithAttempt(b, k, Finished(attempt[b][k], "canceled"))
              /\ build' = [build EXCEPT ![b] = Moved(b, "canceled", build[b].cancel)]
              /\ event' = [event EXCEPT ![b] = Logged(b, "canceled")]
              /\ outbox' = outbox
            BY <2>2 DEF CompleteAttempt
        <3>2. /\ "canceled" \in AttemptStatuses /\ "canceled" \in Statuses
              /\ "canceled" \notin Active \union {"none", "succeeded"}
            BY DEF AttemptStatuses, Statuses, Terminal, Active
        <3>3. outbox' = IF "canceled" = "queued"
                        THEN [outbox EXCEPT ![b] =
                                 @ \union {NewRow(build[b].version + 1, RetryTicks)}]
                        ELSE outbox
            BY <3>1
        <3> QED
            BY <2>2, <3>1, <3>2, <3>3
    <2>3. CASE ~build[b].cancel
        <3> DEFINE retried == /\ outcome \in {"failed", "timed_out"}
                              /\ retryable /\ k < MaxAttempts
                   target == IF retried THEN "queued"
                             ELSE IF outcome = "needs_review" THEN outcome ELSE "failed"
        <3>1. outcome \in {"failed", "needs_review", "timed_out"}
            BY <2>1, <2>3 DEF CanComplete, Outcomes
        <3>2. /\ attempt' = WithAttempt(b, k, Finished(attempt[b][k], outcome))
              /\ build' = [build EXCEPT ![b] = Moved(b, target, build[b].cancel)]
              /\ event' = [event EXCEPT ![b] = Logged(b, target)]
              /\ outbox' = IF retried
                           THEN [outbox EXCEPT ![b] =
                                    @ \union {NewRow(build[b].version + 1, RetryTicks)}]
                           ELSE outbox
            BY <2>3, <3>1 DEF CompleteAttempt
        <3>3. /\ target \in {"queued", "needs_review", "failed"}
              /\ target = "queued" <=> retried
              /\ target \in Statuses
            BY DEF Statuses, Terminal
        <3>4. outcome \in AttemptStatuses /\ outcome \notin Active \union {"none", "succeeded"}
            BY <3>1 DEF AttemptStatuses, Active
        <3> HIDE DEF target
        <3> QED
            BY <2>3, <3>2, <3>3, <3>4
    <2> QED
        BY <2>2, <2>3
<1>2. /\ attempt[b][k] \in AttemptRow
      /\ Finished(attempt[b][k], final) \in AttemptRow
      /\ Finished(attempt[b][k], final).status = final
    BY FinishedType DEF TypeOK, Finished
<1>3. CASE c = b
    <2>1. \A j \in Numbers : attempt'[b][j].status =
              IF j = k THEN final ELSE attempt[b][j].status
        BY <1>1, <1>2, WithAttemptStatus
    <2>2. build[b].status = "running" /\ attempt[b][k].status \in Active
        BY DEF CompleteAttempt, CanComplete, LeaseHeld
    <2>3. artifact'[b] = artifact[b]
        BY DEF CompleteAttempt
    <2>4. Closed(b, k, final, target)
        BY <1>1, <2>1, <2>2, <2>3 DEF Closed, TypeOK, Terminal
    <2> QED
        BY <1>3, <2>4 DEF BuildStep, Ended
<1>4. CASE c # b
    <2>1. Same(c)
        BY <1>1, <1>4 DEF CompleteAttempt, WithAttempt, TypeOK, Same
    <2> QED
        BY <2>1 DEF BuildStep
<1> QED
    BY <1>3, <1>4

LEMMA StepsPublish ==
    ASSUME TypeOK, NEW b \in Builds, NEW k \in Numbers, NEW t \in Tokens, NEW records,
           PublishAttemptSuccess(b, k, t, records), NEW c \in Builds
    PROVE  BuildStep(c)
<1>1. /\ attempt[b][k] \in AttemptRow
      /\ Finished(attempt[b][k], "succeeded") \in AttemptRow
      /\ Finished(attempt[b][k], "succeeded").status = "succeeded"
      /\ "succeeded" \in AttemptStatuses
    BY FinishedType DEF TypeOK, Finished, AttemptStatuses
<1>2. CASE c = b
    <2>1. \A j \in Numbers : attempt'[b][j].status =
              IF j = k THEN "succeeded" ELSE attempt[b][j].status
        BY <1>1, WithAttemptStatus DEF PublishAttemptSuccess
    <2>2. build[b].status = "running" /\ attempt[b][k].status \in Active
        BY DEF PublishAttemptSuccess, CanPublish, LeaseHeld
    <2>3. ~build[b].cancel
        BY DEF PublishAttemptSuccess, CanPublish
    <2>4. /\ build'[b] = Moved(b, "succeeded", build[b].cancel)
          /\ event'[b] = Logged(b, "succeeded")
          /\ artifact'[b] = {k} \X Artifacts
          /\ outbox'[b] = outbox[b]
        BY DEF PublishAttemptSuccess, CanPublish, TypeOK
    <2>5. Closed(b, k, "succeeded", "succeeded")
        BY <2>1, <2>2, <2>3, <2>4 DEF Closed, Terminal, Active
    <2> QED
        BY <1>1, <1>2, <2>5 DEF BuildStep, Ended, Statuses, Terminal
<1>3. CASE c # b
    <2>1. Same(c)
        BY <1>3 DEF PublishAttemptSuccess, WithAttempt, TypeOK, Same
    <2> QED
        BY <2>1 DEF BuildStep
<1> QED
    BY <1>2, <1>3

\* Recovery: an expired attempt is the only active one of a running build, so
\* the transaction moves the build once, by that attempt.
LEMMA StepsRecover ==
    ASSUME StoreInv, NEW S \in SUBSET (Builds \X Numbers), RecoverExpiredAttempts(S),
           NEW b \in Builds
    PROVE  BuildStep(b)
<1>1. TypeOK /\ OneLease(b)
    BY DEF StoreInv, BuildInv
<1>2. \A k \in Numbers : <<b, k>> \in S => attempt[b][k].status \in Active
    BY DEF RecoverExpiredAttempts, Expired
<1>3. CASE \E k \in Numbers : <<b, k>> \in S
    <2>1. PICK k \in Numbers : <<b, k>> \in S
        BY <1>3
    <2>2. build[b].status = "running" /\ attempt[b][k].status \in Active
        BY <1>1, <1>2, <2>1 DEF OneLease
    <2>3. \A j \in Numbers : attempt[b][j].status \in Active => j = k
        <3> SUFFICES ASSUME NEW j \in Numbers, attempt[b][j].status \in Active, j # k
                     PROVE  FALSE
            OBVIOUS
        <3>1. j < k \/ k < j
            BY DEF Numbers
        <3>2. attempt[b][j].status # "none" /\ attempt[b][k].status # "none"
            BY <2>2 DEF Active
        <3> QED
            BY <1>1, <2>2, <3>1, <3>2 DEF OneLease
    <2>4. \A j \in Numbers : <<b, j>> \in S <=> j = k
        BY <1>2, <2>1, <2>3
    <2>5. (CHOOSE j \in Numbers : <<b, j>> \in S) = k
        BY <2>1, <2>4
    <2> DEFINE final  == IF build[b].cancel THEN "canceled" ELSE "lost"
               target == RecoveryTarget(b, k)
    <2>6. /\ attempt'[b] = [j \in Numbers |-> IF <<b, j>> \in S
                                              THEN Finished(attempt[b][j], final)
                                              ELSE attempt[b][j]]
          /\ build'[b] = Moved(b, target, build[b].cancel)
          /\ event'[b] = Logged(b, target)
          /\ outbox'[b] = IF target = "queued"
                          THEN outbox[b] \union {NewRow(build[b].version + 1, RetryTicks)}
                          ELSE outbox[b]
          /\ artifact'[b] = artifact[b]
        BY <2>1, <2>2, <2>5 DEF RecoverExpiredAttempts
    <2>7. \A j \in Numbers : attempt'[b][j].status =
              IF j = k THEN final ELSE attempt[b][j].status
        BY <2>4, <2>6 DEF Finished
    <2>8. /\ final \in AttemptStatuses /\ final \notin Active \union {"none", "succeeded"}
          /\ target \in Statuses /\ target \in {"queued", "canceled", "failed"}
        BY DEF RecoveryTarget, AttemptStatuses, Active, Statuses, Terminal
    <2>9. /\ build[b].cancel <=> target = "canceled"
          /\ target = "queued" => k < MaxAttempts
        BY DEF RecoveryTarget
    <2> HIDE DEF final, target
    <2>10. Closed(b, k, final, target)
        BY <2>2, <2>6, <2>7, <2>8, <2>9 DEF Closed, Terminal
    <2> QED
        BY <2>8, <2>10 DEF Ended, BuildStep
<1>4. CASE \A k \in Numbers : <<b, k>> \notin S
    <2>1. attempt'[b] = [k \in Numbers |-> attempt[b][k]]
        BY <1>4 DEF RecoverExpiredAttempts
    <2>2. Same(b)
        BY <1>1, <1>4, <2>1 DEF RecoverExpiredAttempts, TypeOK, Same
    <2> QED
        BY <2>2 DEF BuildStep
<1> QED
    BY <1>3, <1>4

LEMMA StepsDispatches ==
    ASSUME TypeOK, Dispatches, NEW c \in Builds
    PROVE  BuildStep(c)
<1>1. PICK b \in Builds : \E row \in outbox[b] : MarkDispatched(b, row) \/ DeferDispatch(b, row)
    BY DEF Dispatches
<1>2. PICK row \in outbox[b] : MarkDispatched(b, row) \/ DeferDispatch(b, row)
    BY <1>1
<1>3. PICK new : new.version = row.version /\ outbox' = [outbox EXCEPT ![b] = (@ \ {row}) \union {new}]
    BY <1>2 DEF MarkDispatched, DeferDispatch
<1>4. UNCHANGED <<build, attempt, artifact, event>>
    BY <1>2 DEF MarkDispatched, DeferDispatch
<1>5. CASE c = b
    <2> DEFINE f == [r \in outbox[c] |-> IF r = row THEN new ELSE r]
    <2>1. outbox'[c] = (outbox[c] \ {row}) \union {new}
        BY <1>3, <1>5 DEF TypeOK
    <2>2. f \in [outbox[c] -> outbox'[c]]
        BY <2>1
    <2>3. \A r \in outbox[c] : f[r].version = r.version
        BY <1>3
    <2>4. outbox'[c] = {f[r] : r \in outbox[c]}
        <3>1. row \in outbox[c] /\ f[row] = new
            BY <1>5
        <3>2. \A r \in outbox[c] \ {row} : f[r] = r
            OBVIOUS
        <3> QED
            BY <2>1, <3>1, <3>2
    <2>5. TimersOnly(c)
        BY <1>4, <2>2, <2>3, <2>4 DEF TimersOnly
    <2> QED
        BY <2>5 DEF BuildStep
<1>6. CASE c # b
    <2>1. Same(c)
        BY <1>3, <1>4, <1>6 DEF Same, TypeOK
    <2> QED
        BY <2>1 DEF BuildStep
<1> QED
    BY <1>5, <1>6

LEMMA StepsDelete ==
    ASSUME TypeOK, NEW B \in SUBSET Builds, DeleteBuilds(B), NEW b \in Builds
    PROVE  BuildStep(b)
<1>1. CASE b \in B
    <2>1. Deleted(b)
        BY <1>1 DEF DeleteBuilds, Deleted
    <2> QED
        BY <2>1 DEF BuildStep
<1>2. CASE b \notin B
    <2>1. Same(b)
        BY <1>2 DEF DeleteBuilds, Same
    <2> QED
        BY <2>1 DEF BuildStep
<1> QED
    BY <1>1, <1>2

LEMMA StepsTick ==
    ASSUME TypeOK, Tick, NEW b \in Builds
    PROVE  BuildStep(b)
<1> DEFINE f == [row \in outbox[b] |-> [version |-> row.version, dispatched |-> row.dispatched,
                                       wait |-> Less(row.wait)]]
<1>1. outbox'[b] = {f[row] : row \in outbox[b]}
    BY DEF Tick, Advance
<1>2. f \in [outbox[b] -> outbox'[b]]
    BY <1>1
<1>3. \A row \in outbox[b] : f[row].version = row.version
    OBVIOUS
<1>4. \A k \in Numbers : attempt'[b][k].status = attempt[b][k].status
    BY DEF Tick, Advance
<1>5. UNCHANGED <<build[b], artifact[b], event[b]>>
    BY DEF Tick, Advance
<1>6. TimersOnly(b)
    BY <1>1, <1>2, <1>3, <1>4, <1>5 DEF TimersOnly
<1> QED
    BY <1>6 DEF BuildStep

LEMMA Steps ==
    ASSUME StoreInv, [Next]_repoVars, NEW c \in Builds
    PROVE  BuildStep(c)
<1>0. TypeOK
    BY DEF StoreInv
<1>1. CASE \E b \in Builds, r \in Requests, key \in Keys \union {NoKey} : Submit(b, r, key)
    BY <1>0, <1>1, StepsSubmit
<1>2. CASE \E b \in Builds, v \in {build[d].version : d \in Builds} : RequestCancel(b, v)
    BY <1>0, <1>2, StepsRequestCancel
<1>3. CASE \E b \in Builds, t \in Tokens : LeaseBuild(b, t)
    BY <1>0, <1>3, StepsLeaseBuild
<1>4. CASE \E b \in Builds, k \in Numbers, t \in Tokens : Holder(b, k, t)
    BY <1>0, <1>4, StepsHeartbeat, StepsComplete, StepsPublish DEF Holder
<1>5. CASE \E S \in SUBSET (Builds \X Numbers) : RecoverExpiredAttempts(S)
    BY <1>5, StepsRecover
<1>6. CASE Dispatches
    BY <1>0, <1>6, StepsDispatches
<1>7. CASE \E B \in SUBSET Builds : DeleteBuilds(B)
    BY <1>0, <1>7, StepsDelete
<1>8. CASE Tick
    BY <1>0, <1>8, StepsTick
<1>9. CASE UNCHANGED repoVars
    <2>1. Same(c)
        BY <1>9 DEF repoVars, Same
    <2> QED
        BY <2>1 DEF BuildStep
<1> QED
    BY <1>1, <1>2, <1>3, <1>4, <1>5, <1>6, <1>7, <1>8, <1>9 DEF Next

-------------------------------------------------------------------------------
(* Every step keeps the invariant of its build.                            *)

LEMMA KeepsSame ==
    ASSUME NEW b \in Builds, BuildInv(b), Same(b)
    PROVE  BuildInv(b)'
<1>1. /\ build'[b] = build[b] /\ attempt'[b] = attempt[b] /\ outbox'[b] = outbox[b]
      /\ artifact'[b] = artifact[b] /\ event'[b] = event[b]
    BY DEF Same
<1>2. /\ NothingLeft(b) /\ OneLease(b) /\ CancelBinds(b) /\ AttemptLeft(b)
      /\ WholeSet(b) /\ HasRow(b) /\ Replays(b)
    BY DEF BuildInv
<1>3. NothingLeft(b)' /\ OneLease(b)' /\ CancelBinds(b)'
    BY <1>1, <1>2 DEF NothingLeft, OneLease, CancelBinds
<1>4. AttemptLeft(b)' /\ WholeSet(b)'
    BY <1>1, <1>2 DEF AttemptLeft, WholeSet
<1>5. HasRow(b)' /\ Replays(b)'
    BY <1>1, <1>2 DEF HasRow, Replays
<1> QED
    BY <1>3, <1>4, <1>5 DEF BuildInv

LEMMA KeepsTimersOnly ==
    ASSUME NEW b \in Builds, BuildInv(b), TimersOnly(b)
    PROVE  BuildInv(b)'
<1>1. PICK f \in [outbox[b] -> outbox'[b]] :
          /\ \A row \in outbox[b] : f[row].version = row.version
          /\ outbox'[b] = {f[row] : row \in outbox[b]}
    BY DEF TimersOnly
<1>2. /\ UNCHANGED <<build[b], artifact[b], event[b]>>
      /\ \A k \in Numbers : attempt'[b][k].status = attempt[b][k].status
    BY DEF TimersOnly
<1>3. NothingLeft(b)'
    BY <1>1, <1>2 DEF BuildInv, NothingLeft
<1>4. OneLease(b)'
    BY <1>2 DEF BuildInv, OneLease
<1>5. CancelBinds(b)'
    BY <1>2 DEF BuildInv, CancelBinds
<1>6. AttemptLeft(b)'
    BY <1>2, RepositoryAssumption DEF BuildInv, AttemptLeft, Numbers
<1>7. WholeSet(b)'
    BY <1>2 DEF BuildInv, WholeSet
<1>8. HasRow(b)'
    BY <1>1, <1>2 DEF BuildInv, HasRow
<1>9. Replays(b)'
    BY <1>2 DEF BuildInv, Replays
<1> QED
    BY <1>3, <1>4, <1>5, <1>6, <1>7, <1>8, <1>9 DEF BuildInv

LEMMA KeepsSubmitted ==
    ASSUME TypeOK, NEW b \in Builds, BuildInv(b), Submitted(b)
    PROVE  BuildInv(b)'
<1>1. outbox[b] = {} /\ \A k \in Numbers : attempt[b][k].status = "none"
    BY DEF BuildInv, NothingLeft, Submitted, NoRow
<1>2. build'[b].status = "queued" /\ build'[b].version = 1 /\ ~build'[b].cancel
    BY DEF Submitted
<1>3. \A k \in Numbers : attempt'[b][k].status = "none"
    BY <1>1 DEF Submitted
<1>4. outbox'[b] = {NewRow(1, 0)} /\ NewRow(1, 0).version = 1
    BY <1>1 DEF Submitted, NewRow
<1>5. NothingLeft(b)'
    BY <1>2 DEF NothingLeft, NoRow
<1>6. OneLease(b)'
    BY <1>2, <1>3 DEF OneLease, Active
<1>7. CancelBinds(b)'
    BY <1>2 DEF CancelBinds
<1>8. AttemptLeft(b)'
    BY <1>3, RepositoryAssumption DEF AttemptLeft, Numbers
<1>9. WholeSet(b)'
    <2>1. artifact[b] = {}
        BY DEF BuildInv, WholeSet, Submitted
    <2> QED
        BY <1>2, <1>3, <2>1 DEF WholeSet, Submitted
<1>10. HasRow(b)'
    BY <1>2, <1>4 DEF HasRow
<1>11. Replays(b)'
    BY <1>2 DEF Replays, NoRow, Submitted
<1> QED
    BY <1>5, <1>6, <1>7, <1>8, <1>9, <1>10, <1>11 DEF BuildInv

\* A step that moves the row of a build and logs the move keeps its log.
LEMMA MoveReplays ==
    ASSUME TypeOK, NEW b \in Builds, Replays(b), build[b].status \notin NoRow,
           NEW target \in Statuses, target \notin NoRow,
           build'[b].status = target, build'[b].version = build[b].version + 1,
           event'[b] = Logged(b, target)
    PROVE  Replays(b)'
<1> DEFINE e == [from |-> build[b].status, to |-> target]
           n == Len(event[b])
<1>1. e \in Event /\ event[b] \in Seq(Event) /\ build[b].version \in Nat
    BY DEF TypeOK, BuildRow, Event
<1>2. event'[b] = Append(event[b], e)
    BY DEF Logged
<1>3. /\ n = build[b].version + 1
      /\ event[b][n].to = build[b].status
      /\ \A i \in 1 .. n - 1 : event[b][i].to = event[b][i + 1].from
    BY DEF Replays
<1>4. Len(event'[b]) = n + 1 /\ event'[b][n + 1] = e
      /\ \A i \in 1 .. n : event'[b][i] = event[b][i]
    BY <1>1, <1>2
<1>5. \A i \in 1 .. n : event'[b][i].to = event'[b][i + 1].from
    <2> SUFFICES ASSUME NEW i \in 1 .. n PROVE event'[b][i].to = event'[b][i + 1].from
        OBVIOUS
    <2>1. CASE i = n
        <3>1. event'[b][i] = event[b][n] /\ event'[b][i + 1] = e
            BY <1>4, <2>1
        <3> QED
            BY <1>3, <3>1
    <2>2. CASE i # n
        <3>1. i \in 1 .. n - 1 /\ i + 1 \in 1 .. n
            BY <1>1, <2>2
        <3> QED
            BY <1>3, <1>4, <3>1
    <2> QED
        BY <2>1, <2>2
<1>6. n \in Nat /\ (n + 1) - 1 = n
    BY <1>1
<1> QED
    BY <1>1, <1>3, <1>4, <1>5, <1>6 DEF Replays

LEMMA KeepsCancelAsked ==
    ASSUME TypeOK, NEW b \in Builds, BuildInv(b), CancelAsked(b)
    PROVE  BuildInv(b)'
<1>1. PICK target \in Statuses :
          /\ target = IF build[b].status \in {"validating", "queued"}
                      THEN "canceled" ELSE build[b].status
          /\ build'[b] = Moved(b, target, TRUE)
          /\ event'[b] = Logged(b, target)
    BY DEF CancelAsked
<1>2. /\ build[b].status \notin NoRow \union Terminal
      /\ UNCHANGED <<attempt[b], outbox[b], artifact[b]>>
    BY DEF CancelAsked
<1>3. /\ build'[b].status = target
      /\ build'[b].cancel
      /\ build'[b].version = build[b].version + 1
    BY <1>1 DEF Moved
<1>4. build[b].status \in {"validating", "queued", "running"} /\ build[b].version \in Nat
    BY <1>2 DEF TypeOK, BuildRow, Statuses
<1>5. target \in {"canceled", "running"} /\ (target = "running" <=> build[b].status = "running")
    BY <1>1, <1>4
<1>6. NothingLeft(b)'
    BY <1>3, <1>5 DEF NothingLeft, NoRow
<1>7. OneLease(b)'
    BY <1>2, <1>3, <1>5 DEF BuildInv, OneLease
<1>8. CancelBinds(b)'
    BY <1>3, <1>5 DEF CancelBinds
<1>9. AttemptLeft(b)'
    BY <1>3, <1>5 DEF AttemptLeft
<1>10. WholeSet(b)'
    BY <1>2, <1>3, <1>4, <1>5 DEF BuildInv, WholeSet
<1>11. HasRow(b)'
    <2>1. \A row \in outbox[b] : row.version \in Nat
        BY DEF TypeOK, OutboxRow
    <2> QED
        BY <1>2, <1>3, <1>4, <1>5, <2>1 DEF BuildInv, HasRow
<1>12. Replays(b)'
    BY <1>1, <1>2, <1>3, <1>5, MoveReplays DEF BuildInv, NoRow
<1> QED
    BY <1>6, <1>7, <1>8, <1>9, <1>10, <1>11, <1>12 DEF BuildInv

LEMMA KeepsStarted ==
    ASSUME TypeOK, NEW b \in Builds, BuildInv(b), Started(b)
    PROVE  BuildInv(b)'
<1>1. PICK k \in Numbers :
          /\ NextNumber(b, k)
          /\ \A j \in Numbers : attempt'[b][j].status =
                IF j = k THEN "running" ELSE attempt[b][j].status
    BY DEF Started
<1>2. /\ build'[b].status = "running"
      /\ build'[b].cancel = build[b].cancel
      /\ build'[b].version = build[b].version + 1
    BY DEF Started, Moved
<1>3. build[b].status = "queued" /\ UNCHANGED <<outbox[b], artifact[b]>> /\ build[b].version \in Nat
    BY DEF Started, TypeOK, BuildRow
<1>4. \A j \in Numbers : attempt[b][j].status \notin Active
    BY <1>3 DEF BuildInv, OneLease
<1>5. NothingLeft(b)'
    BY <1>2 DEF NothingLeft, NoRow
<1>6. OneLease(b)'
    <2>1. \A j \in Numbers : j < k => attempt[b][j].status \notin Active \union {"none"}
        <3> SUFFICES ASSUME NEW j \in Numbers, j < k
                     PROVE  attempt[b][j].status # "none"
            BY <1>4
        <3>1. k > 1 /\ k - 1 \in Numbers
            BY RepositoryAssumption DEF Numbers
        <3>2. attempt[b][k - 1].status # "none"
            BY <1>1, <3>1 DEF NextNumber
        <3>3. j = k - 1 \/ j < k - 1
            BY DEF Numbers
        <3> QED
            BY <3>1, <3>2, <3>3 DEF BuildInv, OneLease
    <2>2. \A j \in Numbers : j > k => attempt'[b][j].status = "none"
        BY <1>1 DEF NextNumber, Numbers
    <2>3. attempt'[b][k].status = "running" /\ "running" \in Active
        BY <1>1 DEF Active
    <2>4. ASSUME NEW i \in Numbers, NEW j \in Numbers, i < j, attempt'[b][j].status # "none"
          PROVE  attempt'[b][i].status \notin Active \union {"none"}
        <3>1. j <= k
            BY <2>2, <2>4 DEF Numbers
        <3>2. i < k /\ i # k
            BY <2>4, <3>1 DEF Numbers
        <3> QED
            BY <1>1, <2>1, <3>2
    <2> QED
        BY <1>2, <2>3, <2>4 DEF OneLease
<1>7. CancelBinds(b)'
    BY <1>2, <1>3 DEF BuildInv, CancelBinds
<1>8. AttemptLeft(b)'
    BY <1>2 DEF AttemptLeft
<1>9. WholeSet(b)'
    BY <1>1, <1>2, <1>3 DEF BuildInv, WholeSet
<1>10. HasRow(b)'
    <2>1. \A row \in outbox[b] : row.version \in Nat
        BY DEF TypeOK, OutboxRow
    <2> QED
        BY <1>2, <1>3, <2>1 DEF BuildInv, HasRow
<1>11. Replays(b)'
    BY <1>2, <1>3, MoveReplays DEF BuildInv, Started, NoRow, Statuses
<1> QED
    BY <1>5, <1>6, <1>7, <1>8, <1>9, <1>10, <1>11 DEF BuildInv

LEMMA KeepsEnded ==
    ASSUME TypeOK, NEW b \in Builds, BuildInv(b), Ended(b)
    PROVE  BuildInv(b)'
<1>1. PICK k \in Numbers, final \in AttemptStatuses, target \in Statuses :
          Closed(b, k, final, target)
    BY DEF Ended
<1>2. /\ build[b].status = "running" /\ attempt[b][k].status \in Active
      /\ target \in {"queued"} \union Terminal
      /\ build[b].version \in Nat
    BY <1>1 DEF Closed, TypeOK, BuildRow
<1>3. /\ build'[b].status = target
      /\ build'[b].cancel = build[b].cancel
      /\ build'[b].version = build[b].version + 1
    BY <1>1 DEF Closed, Moved
<1>4. /\ \A j \in Numbers : attempt'[b][j].status =
            IF j = k THEN final ELSE attempt[b][j].status
      /\ final \notin Active \union {"none"}
    BY <1>1 DEF Closed
<1>5. \A j \in Numbers : j # k => attempt[b][j].status \notin Active
    <2> SUFFICES ASSUME NEW j \in Numbers, j # k PROVE attempt[b][j].status \notin Active
        OBVIOUS
    <2>1. j < k \/ k < j
        BY DEF Numbers
    <2>2. attempt[b][k].status # "none"
        BY <1>2 DEF Active
    <2>3. attempt[b][j].status \in Active => attempt[b][j].status # "none"
        BY DEF Active
    <2> QED
        BY <1>2, <2>1, <2>2, <2>3 DEF BuildInv, OneLease
<1>6. NothingLeft(b)'
    BY <1>2, <1>3 DEF NothingLeft, NoRow, Terminal
<1>7. OneLease(b)'
    <2>1. target # "running"
        BY <1>2 DEF Terminal
    <2>2. \A j \in Numbers : attempt'[b][j].status \notin Active
        BY <1>4, <1>5
    <2>3. ASSUME NEW i \in Numbers, NEW j \in Numbers, i < j, attempt'[b][j].status # "none"
          PROVE  attempt'[b][i].status # "none"
        <3>1. attempt[b][j].status # "none"
            BY <1>2, <1>4, <2>3 DEF Active
        <3>2. attempt[b][i].status # "none"
            BY <2>3, <3>1 DEF BuildInv, OneLease
        <3> QED
            BY <1>4, <3>2
    <2> QED
        BY <1>3, <2>1, <2>2, <2>3 DEF OneLease
<1>8. CancelBinds(b)'
    <2>1. build[b].cancel <=> target = "canceled"
        BY <1>1 DEF Closed
    <2> QED
        BY <1>3, <2>1 DEF CancelBinds
<1>9. AttemptLeft(b)'
    <2> SUFFICES ASSUME target = "queued" PROVE attempt'[b][MaxAttempts].status = "none"
        BY <1>3 DEF AttemptLeft
    <2>1. k < MaxAttempts /\ MaxAttempts \in Numbers
        BY <1>1, RepositoryAssumption DEF Closed, Numbers
    <2>2. attempt[b][MaxAttempts].status = "none"
        BY <1>2, <2>1 DEF BuildInv, OneLease
    <2> QED
        BY <1>4, <2>1, <2>2 DEF Numbers
<1>10. WholeSet(b)'
    <2>1. artifact[b] = {} /\ \A j \in Numbers : attempt[b][j].status # "succeeded"
        BY <1>2 DEF BuildInv, WholeSet
    <2>2. CASE target = "succeeded"
        <3>1. final = "succeeded" /\ artifact'[b] = {k} \X Artifacts
            BY <1>1, <2>2 DEF Closed
        <3>2. \A j \in Numbers : attempt'[b][j].status = "succeeded" <=> j = k
            BY <1>4, <2>1, <3>1
        <3> QED
            BY <1>3, <2>2, <3>1, <3>2 DEF WholeSet
    <2>3. CASE target # "succeeded"
        <3>1. final # "succeeded" /\ artifact'[b] = {}
            BY <1>1, <2>1, <2>3 DEF Closed
        <3>2. \A j \in Numbers : attempt'[b][j].status # "succeeded"
            BY <1>4, <2>1, <3>1
        <3> QED
            BY <1>3, <2>3, <3>1, <3>2 DEF WholeSet
    <2> QED
        BY <2>2, <2>3
<1>11. HasRow(b)'
    <2>1. \A row \in outbox[b] : row.version \in Nat /\ row.version <= build[b].version
        BY DEF TypeOK, OutboxRow, BuildInv, HasRow
    <2>2. \A r1, r2 \in outbox[b] : r1.version = r2.version => r1 = r2
        BY DEF BuildInv, HasRow
    <2>3. CASE target = "queued"
        <3> DEFINE new == NewRow(build[b].version + 1, RetryTicks)
        <3>1. outbox'[b] = outbox[b] \union {new}
            BY <1>1, <2>3 DEF Closed
        <3>2. new.version = build[b].version + 1
            BY DEF NewRow
        <3> HIDE DEF new
        <3> QED
            BY <1>2, <1>3, <2>1, <2>2, <3>1, <3>2 DEF HasRow
    <2>4. CASE target # "queued"
        <3>1. outbox'[b] = outbox[b]
            BY <1>1, <2>4 DEF Closed
        <3> QED
            BY <1>2, <1>3, <2>1, <2>2, <2>4, <3>1 DEF HasRow
    <2> QED
        BY <2>3, <2>4
<1>12. Replays(b)'
    <2>1. event'[b] = Logged(b, target)
        BY <1>1 DEF Closed
    <2>2. target \notin NoRow /\ build[b].status \notin NoRow
        BY <1>2 DEF NoRow, Terminal
    <2> QED
        BY <1>3, <2>1, <2>2, MoveReplays DEF BuildInv
<1> QED
    BY <1>6, <1>7, <1>8, <1>9, <1>10, <1>11, <1>12 DEF BuildInv

LEMMA KeepsDeleted ==
    ASSUME NEW b \in Builds, Deleted(b)
    PROVE  BuildInv(b)'
<1>1. /\ build'[b].status = "deleted" /\ ~build'[b].cancel
      /\ outbox'[b] = {} /\ artifact'[b] = {} /\ event'[b] = <<>>
      /\ \A k \in Numbers : attempt'[b][k].status = "none"
    BY DEF Deleted, Missing, NoAttempts, NoAttempt
<1>2. NothingLeft(b)' /\ AttemptLeft(b)'
    BY <1>1 DEF NothingLeft, AttemptLeft
<1>3. OneLease(b)'
    BY <1>1 DEF OneLease, Active
<1>4. CancelBinds(b)'
    BY <1>1 DEF CancelBinds
<1>5. WholeSet(b)' /\ HasRow(b)'
    BY <1>1 DEF WholeSet, HasRow
<1>6. Replays(b)'
    BY <1>1 DEF Replays, NoRow
<1> QED
    BY <1>2, <1>3, <1>4, <1>5, <1>6 DEF BuildInv

LEMMA StoreInvInit == Init => StoreInv
<1> SUFFICES ASSUME Init, NEW b \in Builds PROVE BuildInv(b)
    BY TypeInit DEF StoreInv
<1>1. /\ build[b].status = "absent" /\ ~build[b].cancel
      /\ outbox[b] = {} /\ artifact[b] = {} /\ event[b] = <<>>
      /\ \A k \in Numbers : attempt[b][k].status = "none"
    BY DEF Init, Missing, NoAttempts, NoAttempt
<1>2. NothingLeft(b) /\ AttemptLeft(b)
    BY <1>1 DEF NothingLeft, AttemptLeft
<1>3. OneLease(b)
    BY <1>1 DEF OneLease, Active
<1>4. CancelBinds(b)
    BY <1>1 DEF CancelBinds
<1>5. WholeSet(b) /\ HasRow(b)
    BY <1>1 DEF WholeSet, HasRow
<1>6. Replays(b)
    BY <1>1 DEF Replays, NoRow
<1> QED
    BY <1>2, <1>3, <1>4, <1>5, <1>6 DEF BuildInv

LEMMA StoreInvNext == StoreInv /\ [Next]_repoVars => StoreInv'
<1> SUFFICES ASSUME StoreInv, [Next]_repoVars PROVE StoreInv'
    OBVIOUS
<1>1. TypeOK /\ TypeOK'
    BY TypeNext DEF StoreInv
<1>2. \A b \in Builds : BuildInv(b)'
    <2> SUFFICES ASSUME NEW b \in Builds PROVE BuildInv(b)'
        OBVIOUS
    <2>1. BuildInv(b) /\ BuildStep(b)
        BY Steps DEF StoreInv
    <2> QED
        BY <1>1, <2>1, KeepsSame, KeepsTimersOnly, KeepsSubmitted, KeepsCancelAsked,
           KeepsStarted, KeepsEnded, KeepsDeleted DEF BuildStep
<1> QED
    BY <1>1, <1>2 DEF StoreInv

LEMMA StoreInvariant == Spec => []StoreInv
    BY StoreInvInit, StoreInvNext, PTL DEF Spec

-------------------------------------------------------------------------------
(* The theorems.                                                           *)

\* A build is running exactly while one attempt, its latest, is active, however
\* leases, completions, publications and recoveries interleave.
THEOREM OneLeasePerBuild == Spec => []RunningUnderOneLease
<1>1. StoreInv => RunningUnderOneLease
    BY DEF StoreInv, BuildInv, RunningUnderOneLease
<1> QED
    BY <1>1, StoreInvariant, PTL

\* An accepted cancellation is never retried, published or overridden.
THEOREM CancellationWins == Spec => []CancelWins
<1>1. StoreInv => CancelWins
    BY DEF StoreInv, BuildInv, CancelWins
<1> QED
    BY <1>1, StoreInvariant, PTL

\* No queued build is left without an attempt that lease_build may start.
THEOREM QueuedCanStart == Spec => []QueuedHasAttemptLeft
<1>1. StoreInv => QueuedHasAttemptLeft
    BY DEF StoreInv, BuildInv, QueuedHasAttemptLeft
<1> QED
    BY <1>1, StoreInvariant, PTL

\* Artifacts are visible for a succeeded build only, and as one whole set.
THEOREM PublicationIsWhole == Spec => []PublishedWhole
<1>1. StoreInv => PublishedWhole
    BY DEF StoreInv, BuildInv, PublishedWhole
<1> QED
    BY <1>1, StoreInvariant, PTL

\* Whenever a build is queued, its wake-up is in the outbox of the same version.
THEOREM QueuedIsRecorded == Spec => []QueuedHasRow
<1>1. StoreInv => QueuedHasRow
    BY DEF StoreInv, BuildInv, QueuedHasRow
<1> QED
    BY <1>1, StoreInvariant, PTL

\* The event log of every build replays to its current row.
THEOREM LogIsFaithful == Spec => []LogReplays
<1>1. StoreInv => LogReplays
    BY DEF StoreInv, BuildInv, LogReplays
<1> QED
    BY <1>1, StoreInvariant, PTL

-------------------------------------------------------------------------------
(***************************************************************************)
(* The state version orders every change that a client of the store can    *)
(* see.  Beside the invariant above the argument needs that only active    *)
(* attempts hold a lease, so that time never touches a finished one; that  *)
(* a build without a row has no version yet; and that no key leads to a    *)
(* build that retention deleted.                                           *)
(***************************************************************************)

LeaseEnds(b) == \A k \in Numbers : attempt[b][k].status \in Active \/ attempt[b][k].lease = 0
Fresh(b) == build[b].status = "absent" => build[b].version = 0
NoKeyLeads(b) == build[b].status = "deleted" => \A key \in Keys : keyed[key] # b

GuardInv == StoreInv /\ \A b \in Builds : LeaseEnds(b) /\ Fresh(b) /\ NoKeyLeads(b)

-------------------------------------------------------------------------------
(* What one operation does, seen by one build, to what BuildStep leaves out. *)

\* An attempt changes while its build is not terminal, and loses its lease when
\* it ends; with its build it is deleted.
AttemptRule(b) ==
    \/ build'[b].status = "deleted" /\ attempt'[b] = NoAttempts
    \/ \A k \in Numbers :
          attempt'[b][k] # attempt[b][k] =>
              /\ build[b].status \notin Terminal
              /\ attempt'[b][k].status \in Active \/ attempt'[b][k].lease = 0

\* A build is deleted with its keys, after its artifacts were queued.
DeletionRule(b) ==
    build'[b].status = "deleted" =>
        /\ build[b].status = "deleted" \/ artifact[b] \subseteq deletion'[b]
        /\ \A key \in Keys : keyed'[key] # b

Rules(b) == AttemptRule(b) /\ DeletionRule(b)

\* Operations that keep the attempts and the keys.
LEMMA RulesKept ==
    ASSUME TypeOK, NEW b \in Builds, NoKeyLeads(b), UNCHANGED <<attempt, keyed>>,
           build'[b].status = "deleted" => build[b].status = "deleted"
    PROVE  Rules(b)
BY DEF Rules, AttemptRule, DeletionRule, NoKeyLeads

\* Operations on one attempt of a build that is not terminal.
LEMMA RulesOne ==
    ASSUME TypeOK, NEW b \in Builds, NEW c \in Builds, NEW k \in Numbers,
           NEW a \in AttemptRow, attempt' = WithAttempt(c, k, a),
           build[c].status \notin Terminal, a.status \in Active \/ a.lease = 0,
           NoKeyLeads(b), UNCHANGED keyed,
           build'[b].status = "deleted" => build[b].status = "deleted"
    PROVE  Rules(b)
<1>1. \A j \in Numbers : attempt'[b][j] = IF b = c /\ j = k THEN a ELSE attempt[b][j]
    BY WithAttemptType
<1>2. AttemptRule(b)
    BY <1>1 DEF AttemptRule
<1> QED
    BY <1>2 DEF Rules, DeletionRule, NoKeyLeads

LEMMA RulesSubmit ==
    ASSUME GuardInv, NEW c \in Builds, NEW r \in Requests, NEW key \in Keys \union {NoKey},
           Submit(c, r, key), NEW b \in Builds
    PROVE  Rules(b)
<1>0. TypeOK /\ NoKeyLeads(b)
    BY DEF GuardInv, StoreInv
<1>1. build'[b] = IF b = c THEN [status |-> "queued", version |-> 1,
                                 cancel |-> FALSE, request |-> r] ELSE build[b]
    BY <1>0 DEF Submit, TypeOK
<1>2. AttemptRule(b)
    BY DEF Submit, AttemptRule
<1>3. ASSUME build'[b].status = "deleted" PROVE DeletionRule(b)
  <2>1. b # c /\ build[b].status = "deleted"
      BY <1>1, <1>3
  <2>2. \A other \in Keys : keyed'[other] # b
      BY <1>0, <2>1 DEF Submit, TypeOK, NoKeyLeads
  <2> QED
      BY <2>1, <2>2 DEF DeletionRule
<1> QED
    BY <1>2, <1>3 DEF Rules, DeletionRule

LEMMA RulesRequestCancel ==
    ASSUME GuardInv, NEW c \in Builds, NEW v, RequestCancel(c, v), NEW b \in Builds
    PROVE  Rules(b)
<1>0. TypeOK /\ NoKeyLeads(b)
    BY DEF GuardInv, StoreInv
<1>1. build'[b].status = "deleted" => build[b].status = "deleted"
    BY <1>0 DEF RequestCancel, TypeOK, Moved, NoRow
<1> QED
    BY <1>0, <1>1, RulesKept DEF RequestCancel

LEMMA RulesLeaseBuild ==
    ASSUME GuardInv, NEW c \in Builds, NEW t \in Tokens, LeaseBuild(c, t), NEW b \in Builds
    PROVE  Rules(b)
<1>0. TypeOK /\ NoKeyLeads(b)
    BY DEF GuardInv, StoreInv
<1> DEFINE a == [status |-> "running", token |-> t, lease |-> LeaseTicks]
<1>1. PICK k \in Numbers : attempt' = WithAttempt(c, k, a)
    BY DEF LeaseBuild
<1>2. a \in AttemptRow /\ a.status \in Active
    BY RepositoryAssumption DEF AttemptRow, AttemptStatuses, Active
<1>3. build'[b].status = "deleted" => build[b].status = "deleted"
    BY <1>0 DEF LeaseBuild, TypeOK, Moved
<1>4. build[c].status \notin Terminal
    BY DEF LeaseBuild, Terminal
<1> HIDE DEF a
<1> QED
    BY <1>0, <1>1, <1>2, <1>3, <1>4, RulesOne DEF LeaseBuild

\* A build with an active attempt is running.
LEMMA ActiveRuns ==
    ASSUME StoreInv, NEW b \in Builds, NEW k \in Numbers, attempt[b][k].status \in Active
    PROVE  build[b].status = "running" /\ build[b].status \notin Terminal
<1>1. build[b].status = "running"
    BY DEF StoreInv, BuildInv, OneLease
<1> QED
    BY <1>1 DEF Terminal

LEMMA RulesHolder ==
    ASSUME GuardInv, NEW c \in Builds, NEW k \in Numbers, NEW t \in Tokens,
           Holder(c, k, t), NEW b \in Builds
    PROVE  Rules(b)
<1>0. TypeOK /\ StoreInv /\ NoKeyLeads(b) /\ attempt[c][k] \in AttemptRow
    BY DEF GuardInv, StoreInv, TypeOK
<1>1. LeaseHeld(c, k, t)
    BY DEF Holder, HeartbeatAttempt, CompleteAttempt, CanComplete,
           PublishAttemptSuccess, CanPublish
<1>2. build[c].status \notin Terminal
    BY <1>0, <1>1, ActiveRuns DEF LeaseHeld
<1>3. UNCHANGED keyed
    BY DEF Holder, HeartbeatAttempt, CompleteAttempt, PublishAttemptSuccess
<1>4. CASE HeartbeatAttempt(c, k, t)
  <2> DEFINE a == [status |-> attempt[c][k].status, token |-> t, lease |-> LeaseTicks]
  <2>1. a \in AttemptRow /\ a.status \in Active
      BY <1>0, <1>1, RepositoryAssumption DEF AttemptRow, LeaseHeld
  <2>2. attempt' = WithAttempt(c, k, a) /\ build' = build
      BY <1>4 DEF HeartbeatAttempt
  <2> HIDE DEF a
  <2> QED
      BY <1>0, <1>2, <1>3, <2>1, <2>2, RulesOne
<1>5. ASSUME NEW final \in AttemptStatuses, NEW target, target # "deleted",
             attempt' = WithAttempt(c, k, Finished(attempt[c][k], final)),
             build' = [build EXCEPT ![c] = Moved(c, target, build[c].cancel)]
      PROVE  Rules(b)
  <2> DEFINE a == Finished(attempt[c][k], final)
  <2>1. a \in AttemptRow /\ a.lease = 0
      BY <1>0, FinishedType DEF Finished
  <2>2. build'[b].status = "deleted" => build[b].status = "deleted"
      BY <1>0, <1>5 DEF TypeOK, Moved
  <2> HIDE DEF a
  <2>3. attempt' = WithAttempt(c, k, a)
      BY <1>5 DEF a
  <2> QED
      BY <1>0, <1>2, <1>3, <2>1, <2>2, <2>3, RulesOne
<1>6. ASSUME NEW outcome \in Outcomes, NEW retryable \in BOOLEAN,
             CompleteAttempt(c, k, t, outcome, retryable)
      PROVE  Rules(b)
  <2> DEFINE canRetry == /\ ~build[c].cancel /\ outcome \in {"failed", "timed_out"}
                         /\ retryable /\ k < MaxAttempts
             final    == IF build[c].cancel THEN "canceled" ELSE outcome
             target   == IF canRetry THEN "queued"
                         ELSE IF final \in {"canceled", "needs_review"} THEN final
                         ELSE "failed"
  <2>1. /\ attempt' = WithAttempt(c, k, Finished(attempt[c][k], final))
        /\ build' = [build EXCEPT ![c] = Moved(c, target, build[c].cancel)]
      BY <1>6 DEF CompleteAttempt
  <2>2. final \in AttemptStatuses /\ target # "deleted"
      BY DEF Outcomes, AttemptStatuses
  <2> HIDE DEF final, target
  <2> QED
      BY <1>5, <2>1, <2>2
<1>7. ASSUME NEW records, PublishAttemptSuccess(c, k, t, records)
      PROVE  Rules(b)
  <2>1. /\ attempt' = WithAttempt(c, k, Finished(attempt[c][k], "succeeded"))
        /\ build' = [build EXCEPT ![c] = Moved(c, "succeeded", build[c].cancel)]
      BY <1>7 DEF PublishAttemptSuccess
  <2> QED
      BY <1>5, <2>1 DEF AttemptStatuses
<1> QED
    BY <1>4, <1>6, <1>7 DEF Holder

LEMMA RulesRecover ==
    ASSUME GuardInv, NEW S \in SUBSET (Builds \X Numbers), RecoverExpiredAttempts(S),
           NEW b \in Builds
    PROVE  Rules(b)
<1>0. TypeOK /\ StoreInv /\ NoKeyLeads(b)
    BY DEF GuardInv, StoreInv
<1>1. ASSUME NEW k \in Numbers, attempt'[b][k] # attempt[b][k]
      PROVE  build[b].status \notin Terminal /\ attempt'[b][k].lease = 0
  <2>1. <<b, k>> \in S
      BY <1>0, <1>1 DEF RecoverExpiredAttempts, TypeOK
  <2>2. attempt[b][k].status \in Active
      BY <2>1 DEF RecoverExpiredAttempts, Expired
  <2>3. \E status : attempt'[b][k] = Finished(attempt[b][k], status)
      BY <2>1 DEF RecoverExpiredAttempts
  <2> QED
      BY <1>0, <2>2, <2>3, ActiveRuns DEF Finished
<1>2. build'[b].status = "deleted" => build[b].status = "deleted"
    BY <1>0 DEF RecoverExpiredAttempts, RecoveryTarget, Moved
<1>3. UNCHANGED keyed
    BY DEF RecoverExpiredAttempts
<1> QED
    BY <1>0, <1>1, <1>2, <1>3 DEF Rules, AttemptRule, DeletionRule, NoKeyLeads

LEMMA RulesDispatches ==
    ASSUME GuardInv, Dispatches, NEW b \in Builds
    PROVE  Rules(b)
<1>1. TypeOK /\ NoKeyLeads(b)
    BY DEF GuardInv, StoreInv
<1>2. UNCHANGED <<attempt, keyed, build>>
    BY DEF Dispatches, MarkDispatched, DeferDispatch
<1> QED
    BY <1>1, <1>2, RulesKept

LEMMA RulesDelete ==
    ASSUME GuardInv, NEW B \in SUBSET Builds, DeleteBuilds(B), NEW b \in Builds
    PROVE  Rules(b)
<1>0. TypeOK /\ NoKeyLeads(b)
    BY DEF GuardInv, StoreInv
<1>1. CASE b \in B
  <2>1. /\ build'[b].status = "deleted" /\ attempt'[b] = NoAttempts
        /\ artifact[b] \subseteq deletion'[b]
      BY <1>1 DEF DeleteBuilds, Missing
  <2>2. \A key \in Keys : keyed'[key] # b
      BY <1>1, RepositoryAssumption DEF DeleteBuilds, KeysWithout
  <2> QED
      BY <2>1, <2>2 DEF Rules, AttemptRule, DeletionRule
<1>2. CASE b \notin B
  <2>1. build'[b] = build[b] /\ attempt'[b] = attempt[b]
      BY <1>2 DEF DeleteBuilds
  <2>2. \A key \in Keys : keyed'[key] = b => keyed[key] = b
      BY RepositoryAssumption DEF DeleteBuilds, KeysWithout
  <2> QED
      BY <1>0, <2>1, <2>2 DEF Rules, AttemptRule, DeletionRule, NoKeyLeads
<1> QED
    BY <1>1, <1>2

LEMMA RulesTick ==
    ASSUME GuardInv, Tick, NEW b \in Builds
    PROVE  Rules(b)
<1>0. TypeOK /\ StoreInv /\ NoKeyLeads(b) /\ LeaseEnds(b)
    BY DEF GuardInv, StoreInv
<1>1. ASSUME NEW k \in Numbers, attempt'[b][k] # attempt[b][k]
      PROVE  build[b].status \notin Terminal /\ attempt'[b][k].status \in Active
  <2>1. attempt[b][k] \in AttemptRow
      BY <1>0 DEF TypeOK
  <2>2. attempt'[b][k] = [status |-> attempt[b][k].status, token |-> attempt[b][k].token,
                          lease |-> Less(attempt[b][k].lease)]
      BY DEF Tick, Advance
  <2>3. attempt[b][k].lease # 0
      BY <1>1, <2>1, <2>2 DEF AttemptRow, Less
  <2>4. attempt[b][k].status \in Active
      BY <1>0, <2>3 DEF LeaseEnds
  <2> QED
      BY <1>0, <2>2, <2>4, ActiveRuns
<1>2. build' = build /\ keyed' = keyed
    BY DEF Tick, Advance
<1> QED
    BY <1>0, <1>1, <1>2 DEF Rules, AttemptRule, DeletionRule, NoKeyLeads

LEMMA RulesStep ==
    ASSUME GuardInv, [Next]_repoVars, NEW b \in Builds
    PROVE  Rules(b)
<1>1. CASE UNCHANGED repoVars
  <2>1. TypeOK /\ NoKeyLeads(b) /\ UNCHANGED <<attempt, keyed, build>>
      BY <1>1 DEF GuardInv, StoreInv, repoVars
  <2> QED
      BY <2>1, RulesKept
<1>2. CASE Dispatches
    BY <1>2, RulesDispatches
<1>3. CASE Tick
    BY <1>3, RulesTick
<1>4. CASE \E S \in SUBSET (Builds \X Numbers) : RecoverExpiredAttempts(S)
    BY <1>4, RulesRecover
<1>5. CASE \E B \in SUBSET Builds : DeleteBuilds(B)
    BY <1>5, RulesDelete
<1>6. CASE \E c \in Builds, k \in Numbers, t \in Tokens : Holder(c, k, t)
    BY <1>6, RulesHolder
<1>7. CASE \E c \in Builds, t \in Tokens : LeaseBuild(c, t)
    BY <1>7, RulesLeaseBuild
<1>8. CASE \E c \in Builds, v \in {build[d].version : d \in Builds} : RequestCancel(c, v)
    BY <1>8, RulesRequestCancel
<1>9. CASE \E c \in Builds, r \in Requests, key \in Keys \union {NoKey} : Submit(c, r, key)
    BY <1>9, RulesSubmit
<1> QED
    BY <1>1, <1>2, <1>3, <1>4, <1>5, <1>6, <1>7, <1>8, <1>9 DEF Next

-------------------------------------------------------------------------------
(* The invariant and the theorem *)

\* What a step makes of the row of a build.
LEMMA RowMoves ==
    ASSUME StoreInv, NEW b \in Builds, BuildStep(b)
    PROVE  \/ build'[b] = build[b]
           \/ build[b].status = "absent" /\ build'[b].status = "queued"
                 /\ build'[b].version = 1
           \/ build'[b].version = build[b].version + 1
                 /\ build'[b].status \notin NoRow
           \/ Deleted(b)
<1>0. build[b].status \in Statuses
    BY DEF StoreInv, TypeOK, BuildRow
<1>1. ASSUME NEW target, NEW cancel, build'[b] = Moved(b, target, cancel), target \notin NoRow
      PROVE  build'[b].version = build[b].version + 1 /\ build'[b].status \notin NoRow
    BY <1>1 DEF Moved
<1>2. CASE CancelAsked(b)
  <2>1. PICK target \in Statuses :
            /\ target = IF build[b].status \in {"validating", "queued"}
                        THEN "canceled" ELSE build[b].status
            /\ build'[b] = Moved(b, target, TRUE)
      BY <1>2 DEF CancelAsked
  <2>2. target \notin NoRow
      BY <1>2, <2>1 DEF CancelAsked, NoRow
  <2> QED
      BY <1>1, <2>1, <2>2
<1>3. CASE Started(b)
  <2>1. build'[b] = Moved(b, "running", build[b].cancel) /\ "running" \notin NoRow
      BY <1>3 DEF Started, NoRow
  <2> QED
      BY <1>1, <2>1
<1>4. CASE Ended(b)
  <2>1. PICK k \in Numbers, final \in AttemptStatuses, target \in Statuses :
            Closed(b, k, final, target)
      BY <1>4 DEF Ended
  <2>2. build'[b] = Moved(b, target, build[b].cancel) /\ target \notin NoRow
      BY <2>1 DEF Closed, Terminal, NoRow
  <2> QED
      BY <1>1, <2>2
<1>5. CASE Submitted(b)
    BY <1>5 DEF Submitted
<1>6. CASE Same(b) \/ TimersOnly(b)
    BY <1>6 DEF Same, TimersOnly
<1> QED
    BY <1>2, <1>3, <1>4, <1>5, <1>6 DEF BuildStep

\* No step leads back to a build that was never submitted.
LEMMA NeverAbsentAgain ==
    ASSUME StoreInv, NEW b \in Builds, BuildStep(b), build'[b].status = "absent"
    PROVE  build'[b] = build[b]
<1>1. ~Deleted(b)
  <2>1. Missing("deleted").status # "absent"
      BY DEF Missing
  <2> QED
      BY <2>1 DEF Deleted
<1> QED
    BY <1>1, RowMoves DEF NoRow

LEMMA GuardInitially == Init => GuardInv
<1> SUFFICES ASSUME Init, NEW b \in Builds PROVE LeaseEnds(b) /\ Fresh(b) /\ NoKeyLeads(b)
    BY StoreInvInit DEF GuardInv
<1>1. LeaseEnds(b)
    BY DEF Init, NoAttempts, NoAttempt, LeaseEnds
<1>2. Fresh(b) /\ NoKeyLeads(b)
    BY RepositoryAssumption DEF Init, Missing, Fresh, NoKeyLeads
<1> QED
    BY <1>1, <1>2

LEMMA GuardInductive == GuardInv /\ [Next]_repoVars => GuardInv'
<1> SUFFICES ASSUME GuardInv, [Next]_repoVars PROVE GuardInv'
    OBVIOUS
<1>1. StoreInv /\ StoreInv'
    BY StoreInvNext DEF GuardInv
<1>2. ASSUME NEW b \in Builds PROVE LeaseEnds(b)' /\ Fresh(b)' /\ NoKeyLeads(b)'
  <2>1. Rules(b) /\ BuildStep(b) /\ LeaseEnds(b) /\ Fresh(b)
      BY <1>1, RulesStep, Steps DEF GuardInv
  <2>2. LeaseEnds(b)'
    <3>1. CASE attempt'[b] = NoAttempts
        BY <3>1 DEF LeaseEnds, NoAttempts, NoAttempt
    <3>2. CASE \A k \in Numbers : attempt'[b][k] # attempt[b][k] =>
                   attempt'[b][k].status \in Active \/ attempt'[b][k].lease = 0
        BY <2>1, <3>2 DEF LeaseEnds
    <3> QED
        BY <2>1, <3>1, <3>2 DEF Rules, AttemptRule
  <2>3. Fresh(b)'
      BY <1>1, <2>1, NeverAbsentAgain DEF Fresh
  <2>4. NoKeyLeads(b)'
      BY <2>1 DEF Rules, DeletionRule, NoKeyLeads
  <2> QED
      BY <2>2, <2>3, <2>4
<1> QED
    BY <1>1, <1>2 DEF GuardInv

LEMMA GuardInvariant == Spec => []GuardInv
    BY GuardInitially, GuardInductive, PTL DEF Spec

\* A row that a step leaves in the table.
LEMMA KeptRow ==
    ASSUME GuardInv, TypeOK', NEW b \in Builds, BuildStep(b), Rules(b),
           build'[b].status # "deleted"
    PROVE  RowStep(b)
<1>0. TypeOK /\ StoreInv /\ Fresh(b) /\ build[b] \in BuildRow
    BY DEF GuardInv, StoreInv, TypeOK
<1>1. ~Deleted(b)
    BY DEF Deleted, Missing
<1>2. build'[b] # build[b] => build'[b].version = build[b].version + 1
    BY <1>0, <1>1, RowMoves DEF Fresh
<1>3. artifact'[b] # artifact[b] => build'[b] # build[b]
  <2> SUFFICES ASSUME artifact'[b] # artifact[b] PROVE build'[b] # build[b]
      OBVIOUS
  <2>1. Ended(b)
      BY <1>1 DEF BuildStep, Same, TimersOnly, Submitted, CancelAsked, Started
  <2>2. build'[b].version = build[b].version + 1
      BY <2>1 DEF Ended, Closed, Moved
  <2> QED
      BY <1>0, <2>2 DEF BuildRow
<1>4. ASSUME build[b].status \in Terminal
      PROVE  UNCHANGED <<build[b], artifact[b], event[b], attempt[b]>>
  <2>1. Same(b) \/ TimersOnly(b)
      BY <1>1, <1>4 DEF BuildStep, Submitted, CancelAsked, Started, Ended, Closed, Terminal
  <2>2. \A k \in Numbers : attempt'[b][k] = attempt[b][k]
      BY <1>4 DEF Rules, AttemptRule
  <2>3. attempt'[b] = attempt[b]
      BY <1>0, <2>2 DEF TypeOK
  <2> QED
      BY <2>1, <2>3 DEF Same, TimersOnly
<1> QED
    BY <1>2, <1>3, <1>4 DEF RowStep

\* A row that retention has deleted or deletes.
LEMMA DeletedRow ==
    ASSUME GuardInv, NEW b \in Builds, BuildStep(b), Rules(b),
           build'[b].status = "deleted"
    PROVE  RowStep(b)
<1>1. build[b].status \in Terminal \union {"deleted"}
    BY RowMoves DEF GuardInv, Deleted, NoRow
<1>2. artifact[b] \subseteq deletion'[b]
  <2>1. CASE build[b].status = "deleted"
      BY <2>1 DEF GuardInv, StoreInv, BuildInv, WholeSet
  <2>2. CASE build[b].status # "deleted"
      BY <2>2 DEF Rules, DeletionRule
  <2> QED
      BY <2>1, <2>2
<1> QED
    BY <1>1, <1>2 DEF RowStep, Rules, DeletionRule

\* No step changes the row of a build without raising its version by one, a
\* terminal build never changes until retention deletes it, and with its
\* artifacts queued and its keys removed (every transaction of repository.py).
THEOREM VersionsGuardRows == Spec => VersionGuardsRow
<1>1. GuardInv /\ [Next]_repoVars => [\A b \in Builds : RowStep(b)]_repoVars
  <2> SUFFICES ASSUME GuardInv, [Next]_repoVars, NEW b \in Builds PROVE RowStep(b)
      OBVIOUS
  <2>1. StoreInv /\ TypeOK' /\ BuildStep(b) /\ Rules(b)
      BY StoreInvNext, RulesStep, Steps DEF GuardInv, StoreInv
  <2> QED
      BY <2>1, KeptRow, DeletedRow
<1> QED
    BY <1>1, GuardInvariant, PTL DEF Spec, VersionGuardsRow

-------------------------------------------------------------------------------
(***************************************************************************)
(* Repository implements what it promises and what it was written after:   *)
(* the public life cycle of each build (BuildLifecycle) and the in-memory  *)
(* store (StateStore).                                                     *)
(*                                                                         *)
(* The argument rests on the invariant proved above and on a little        *)
(* history: attempts are numbered without gaps, so that the number that    *)
(* were spent is their highest number, and an attempt is never stored as   *)
(* leased, nor a build as validating.                                      *)
(***************************************************************************)

-------------------------------------------------------------------------------
(* The history of a build *)

\* The first n attempts of b were started.
Started1To(b, n) ==
    n \in 0 .. MaxAttempts /\ \A k \in Numbers : attempt[b][k].status # "none" <=> k <= n

History(b) ==
    /\ build[b].status # "validating"
    /\ \A k \in Numbers : attempt[b][k].status # "leased"
    /\ \E n \in 0 .. MaxAttempts : Started1To(b, n)

RefinementInv == StoreInv /\ \A b \in Builds : History(b)

LEMMA SpentIs ==
    ASSUME NEW b \in Builds, NEW n, Started1To(b, n)
    PROVE  Spent(b) = n
<1>1. \A i, j \in 0 .. MaxAttempts :
         Started1To(b, i) /\ Started1To(b, j) => i = j
  <2> SUFFICES ASSUME NEW i \in 0 .. MaxAttempts, NEW j \in 0 .. MaxAttempts,
                      Started1To(b, i), Started1To(b, j), i < j
               PROVE  FALSE
      BY RepositoryAssumption
  <2>1. j \in Numbers
      BY RepositoryAssumption DEF Numbers
  <2> QED
      BY <2>1 DEF Started1To
<1>2. Spent(b) = CHOOSE m \in 0 .. MaxAttempts : Started1To(b, m)
    BY DEF Spent, Started1To
<1>3. n \in 0 .. MaxAttempts
    BY DEF Started1To
<1> QED
    BY <1>1, <1>2, <1>3

LEMMA SpentIsNext ==
    ASSUME NEW b \in Builds, NEW n, Started1To(b, n)'
    PROVE  Spent(b)' = n
<1>1. \A i, j \in 0 .. MaxAttempts :
         Started1To(b, i)' /\ Started1To(b, j)' => i = j
  <2> SUFFICES ASSUME NEW i \in 0 .. MaxAttempts, NEW j \in 0 .. MaxAttempts,
                      Started1To(b, i)', Started1To(b, j)', i < j
               PROVE  FALSE
      BY RepositoryAssumption
  <2>1. j \in Numbers
      BY RepositoryAssumption DEF Numbers
  <2> QED
      BY <2>1 DEF Started1To
<1>2. Spent(b)' = CHOOSE m \in 0 .. MaxAttempts : Started1To(b, m)'
    BY DEF Spent, Started1To
<1>3. n \in 0 .. MaxAttempts
    BY DEF Started1To
<1> QED
    BY <1>1, <1>2, <1>3

\* Steps that keep the statuses of the attempts keep the number that were spent.
LEMMA SameAttempts ==
    ASSUME NEW b \in Builds, History(b), build'[b].status # "validating",
           \A k \in Numbers : attempt'[b][k].status = attempt[b][k].status
    PROVE  History(b)' /\ Spent(b)' = Spent(b)
<1>1. PICK n \in 0 .. MaxAttempts : Started1To(b, n)
    BY DEF History
<1>2. Started1To(b, n)'
    BY <1>1 DEF Started1To
<1> QED
    BY <1>1, <1>2, SpentIs, SpentIsNext DEF History

\* lease_build takes the number after the last one.
LEMMA StartsNext ==
    ASSUME TypeOK, NEW b \in Builds, History(b), Started(b)
    PROVE  /\ History(b)'
           /\ Spent(b) \in 0 .. MaxAttempts /\ Spent(b) < MaxAttempts
           /\ Spent(b)' = Spent(b) + 1
<1>1. PICK k \in Numbers :
          /\ NextNumber(b, k)
          /\ \A j \in Numbers : attempt'[b][j].status =
                IF j = k THEN "running" ELSE attempt[b][j].status
    BY DEF Started
<1>2. PICK n \in 0 .. MaxAttempts : Started1To(b, n)
    BY DEF History
<1>3. n = k - 1
  <2>1. n < k
      BY <1>1, <1>2, RepositoryAssumption DEF NextNumber, Started1To, Numbers
  <2>2. CASE k = 1
      BY <2>1, <2>2, <1>2
  <2>3. CASE k > 1
    <3>1. k - 1 \in Numbers /\ attempt[b][k - 1].status # "none"
        BY <1>1, <2>3, RepositoryAssumption DEF NextNumber, Numbers
    <3>2. k - 1 <= n
        BY <1>2, <3>1 DEF Started1To
    <3> QED
        BY <2>1, <3>2, <1>2 DEF Numbers
  <2> QED
      BY <2>2, <2>3 DEF Numbers
<1>4. Started1To(b, k)'
  <2>1. k \in 0 .. MaxAttempts
      BY RepositoryAssumption DEF Numbers
  <2>2. ASSUME NEW j \in Numbers PROVE attempt'[b][j].status # "none" <=> j <= k
    <3>1. attempt[b][j].status # "none" <=> j <= k - 1
        BY <1>2, <1>3 DEF Started1To
    <3>2. CASE j = k
        BY <1>1, <3>2 DEF Numbers
    <3>3. CASE j # k
        BY <1>1, <3>1, <3>3 DEF Numbers
    <3> QED
        BY <3>2, <3>3
  <2> QED
      BY <2>1, <2>2 DEF Started1To
<1>5. Spent(b) = k - 1 /\ Spent(b)' = k
    BY <1>2, <1>3, <1>4, SpentIs, SpentIsNext
<1>6. build'[b].status = "running"
    BY DEF Started, Moved
<1>7. History(b)'
    BY <1>1, <1>4, <1>6, RepositoryAssumption DEF History, Numbers
<1> QED
    BY <1>5, <1>7, RepositoryAssumption DEF Numbers

\* The attempt that ends is the last one.
LEMMA EndsLast ==
    ASSUME TypeOK, NEW b \in Builds, History(b), BuildInv(b),
           NEW k \in Numbers, NEW final \in AttemptStatuses, NEW target \in Statuses,
           Closed(b, k, final, target)
    PROVE  History(b)' /\ Spent(b) = k /\ Spent(b)' = k
<1>1. PICK n \in 0 .. MaxAttempts : Started1To(b, n)
    BY DEF History
<1>2. attempt[b][k].status \in Active
    BY DEF Closed
<1>3. n = k
  <2>1. k <= n
      BY <1>1, <1>2 DEF Started1To, Active
  <2>2. ASSUME k < n PROVE FALSE
    <3>1. n \in Numbers /\ attempt[b][n].status # "none"
        BY <1>1, <2>2, RepositoryAssumption DEF Started1To, Numbers
    <3> QED
        BY <1>2, <2>2, <3>1 DEF BuildInv, OneLease
  <2> QED
      BY <2>1, <2>2 DEF Numbers
<1>4. \A j \in Numbers : attempt'[b][j].status =
          IF j = k THEN final ELSE attempt[b][j].status
    BY DEF Closed
<1>5. final \notin Active \union {"none"} /\ target \in {"queued"} \union Terminal
    BY DEF Closed
<1>6. Started1To(b, k)'
    BY <1>1, <1>2, <1>3, <1>4, <1>5 DEF Started1To, Active
<1>7. build'[b].status # "validating"
    BY <1>5 DEF Closed, Moved, Terminal
<1>8. \A j \in Numbers : attempt'[b][j].status # "leased"
    BY <1>4, <1>5 DEF History, Active
<1> QED
    BY <1>1, <1>3, <1>6, <1>7, <1>8, SpentIs, SpentIsNext DEF History, Started1To

LEMMA DeletesAll ==
    ASSUME NEW b \in Builds, Deleted(b)
    PROVE  History(b)' /\ Spent(b)' = 0
<1>1. /\ build'[b].status = "deleted"
      /\ \A k \in Numbers : attempt'[b][k].status = "none"
    BY DEF Deleted, Missing, NoAttempts, NoAttempt
<1>2. Started1To(b, 0)'
    BY <1>1, RepositoryAssumption DEF Started1To, Numbers
<1> QED
    BY <1>1, <1>2, SpentIsNext DEF History, Started1To

-------------------------------------------------------------------------------
(* Every step of the store is a step of the life cycle of each build. *)

LEMMA LifecycleStep ==
    ASSUME TypeOK, TypeOK', NEW b \in Builds, BuildInv(b), History(b), BuildStep(b)
    PROVE  /\ History(b)'
           /\ Lifecycle(b)!Next \/ UNCHANGED Lifecycle(b)!lifecycleVars
<1>1. CASE Same(b)
  <2>1. \A k \in Numbers : attempt'[b][k].status = attempt[b][k].status
      BY <1>1 DEF Same
  <2> QED
      BY <1>1, <2>1, SameAttempts DEF Same, History, Lifecycle!lifecycleVars
<1>2. CASE TimersOnly(b)
    BY <1>2, SameAttempts DEF TimersOnly, History, Lifecycle!lifecycleVars
<1>3. CASE Submitted(b)
  <2>1. History(b)' /\ Spent(b)' = Spent(b)
      BY <1>3, SameAttempts DEF Submitted
  <2>2. build[b].status = "absent" /\ build'[b].status = "queued"
      BY <1>3 DEF Submitted
  <2>3. build'[b].cancel = build[b].cancel
    <3>1. build[b].cancel \in BOOLEAN /\ build'[b].cancel \in BOOLEAN
        BY DEF TypeOK, BuildRow
    <3>2. ~build[b].cancel
        BY <2>2 DEF BuildInv, CancelBinds
    <3>3. ~build'[b].cancel
        BY <1>3 DEF Submitted
    <3> QED
        BY <3>1, <3>2, <3>3
  <2>4. artifact'[b] = artifact[b]
      BY <1>3 DEF Submitted
  <2>5. Lifecycle(b)!Accept
      BY <2>1, <2>2, <2>3, <2>4 DEF Lifecycle!Accept
  <2> QED
      BY <2>1, <2>5 DEF Lifecycle!Next
<1>4. CASE CancelAsked(b)
  <2>1. PICK target \in Statuses :
            /\ target = IF build[b].status \in {"validating", "queued"}
                        THEN "canceled" ELSE build[b].status
            /\ build'[b] = Moved(b, target, TRUE)
      BY <1>4 DEF CancelAsked
  <2>2. build[b].status \in {"queued", "running"}
      BY <1>4 DEF CancelAsked, History, TypeOK, BuildRow, Statuses
  <2>3. /\ build'[b].cancel = TRUE
        /\ build'[b].status = IF build[b].status = "queued" THEN "canceled" ELSE build[b].status
      BY <2>1, <2>2 DEF Moved
  <2>4. History(b)' /\ Spent(b)' = Spent(b)
      BY <1>4, <2>2, <2>3, SameAttempts DEF CancelAsked
  <2>5. artifact'[b] = artifact[b]
      BY <1>4 DEF CancelAsked
  <2>6. CASE build[b].cancel
    <3>1. build[b].status = "running" /\ build[b].cancel = TRUE
        BY <2>2, <2>6 DEF BuildInv, CancelBinds, TypeOK, BuildRow
    <3> QED
        BY <2>3, <2>4, <2>5, <3>1 DEF Lifecycle!lifecycleVars
  <2>7. CASE ~build[b].cancel
    <3>1. Lifecycle(b)!Cancel
        BY <2>2, <2>3, <2>4, <2>5, <2>7 DEF Lifecycle!Cancel
    <3> QED
        BY <2>4, <3>1 DEF Lifecycle!Next
  <2> QED
      BY <2>6, <2>7
<1>5. CASE Started(b)
  <2>1. /\ History(b)' /\ Spent(b) < MaxAttempts /\ Spent(b)' = Spent(b) + 1
      BY <1>5, StartsNext
  <2>2. /\ build[b].status = "queued" /\ build'[b].status = "running"
        /\ build'[b].cancel = build[b].cancel /\ artifact'[b] = artifact[b]
      BY <1>5 DEF Started, Moved
  <2>3. Lifecycle(b)!Start
      BY <2>1, <2>2 DEF Lifecycle!Start
  <2> QED
      BY <2>1, <2>3 DEF Lifecycle!Next
<1>6. CASE Ended(b)
  <2>1. PICK k \in Numbers, final \in AttemptStatuses, target \in Statuses :
            Closed(b, k, final, target)
      BY <1>6 DEF Ended
  <2>2. History(b)' /\ Spent(b) = k /\ Spent(b)' = k
      BY <2>1, EndsLast
  <2>3. /\ build[b].status = "running" /\ build'[b].status = target
        /\ build'[b].cancel = build[b].cancel
        /\ build[b].cancel <=> target = "canceled"
        /\ target = "queued" => k < MaxAttempts
        /\ target \in {"queued"} \union Terminal
        /\ artifact'[b] = IF target = "succeeded" THEN {k} \X Artifacts ELSE artifact[b]
      BY <2>1 DEF Closed, Moved
  <2>4. artifact[b] = {}
      BY <2>3 DEF BuildInv, WholeSet
  <2>5. CASE target = "queued"
    <3>1. Lifecycle(b)!Retry
        BY <2>2, <2>3, <2>5 DEF Lifecycle!Retry
    <3> QED
        BY <2>2, <3>1 DEF Lifecycle!Next
  <2>6. CASE target \in Terminal
    <3>1. (artifact'[b] # {}) = (target = "succeeded")
      <4>1. CASE target = "succeeded"
        <5>1. PICK a \in Artifacts : TRUE
            BY RepositoryAssumption
        <5>2. <<k, a>> \in artifact'[b]
            BY <2>3, <4>1, <5>1
        <5> QED
            BY <4>1, <5>2
      <4>2. CASE target # "succeeded"
        <5>1. artifact'[b] = {}
            BY <2>3, <2>4, <4>2
        <5> QED
            BY <4>2, <5>1
      <4> QED
          BY <4>1, <4>2
    <3>2. Lifecycle(b)!End(target)
        BY <2>2, <2>3, <3>1 DEF Lifecycle!End
    <3> QED
        BY <2>2, <2>6, <3>2 DEF Lifecycle!Next, Terminal
  <2> QED
      BY <2>3, <2>5, <2>6
<1>7. CASE Deleted(b)
  <2>1. History(b)' /\ Spent(b)' = 0
      BY <1>7, DeletesAll
  <2>2. /\ build[b].status \in Terminal /\ build'[b].status = "deleted"
        /\ build'[b].cancel = FALSE /\ artifact'[b] = {}
      BY <1>7 DEF Deleted, Missing
  <2>3. Lifecycle(b)!Forget
      BY <2>1, <2>2 DEF Lifecycle!Forget, Terminal
  <2> QED
      BY <2>1, <2>3 DEF Lifecycle!Next
<1> QED
    BY <1>1, <1>2, <1>3, <1>4, <1>5, <1>6, <1>7 DEF BuildStep

LEMMA RefinementInitially == Init => RefinementInv
<1> SUFFICES ASSUME Init, NEW b \in Builds PROVE History(b)
    BY StoreInvInit DEF RefinementInv
<1>1. build[b].status = "absent" /\ \A k \in Numbers : attempt[b][k].status = "none"
    BY DEF Init, Missing, NoAttempts, NoAttempt
<1>2. 0 \in 0 .. MaxAttempts /\ Started1To(b, 0)
    BY <1>1, RepositoryAssumption DEF Started1To, Numbers
<1> QED
    BY <1>1, <1>2 DEF History

LEMMA RefinementInductive == RefinementInv /\ [Next]_repoVars => RefinementInv'
<1> SUFFICES ASSUME RefinementInv, [Next]_repoVars PROVE RefinementInv'
    OBVIOUS
<1>1. StoreInv'
    BY StoreInvNext DEF RefinementInv
<1>2. ASSUME NEW b \in Builds PROVE History(b)'
    BY <1>1, Steps, LifecycleStep DEF RefinementInv, StoreInv
<1> QED
    BY <1>1, <1>2 DEF RefinementInv

LEMMA RefinementInvariant == Spec => []RefinementInv
    BY RefinementInitially, RefinementInductive, PTL DEF Spec

\* Seen by its client, every build behaves as BuildLifecycle promises: accepted,
\* started and retried at most MaxAttempts times, canceled when a cancellation
\* was accepted, with artifacts exactly when it succeeded (repository.py).
THEOREM StoreImplementsLifecycle == Spec => ImplementsLifecycle
<1>1. Init => \A b \in Builds : Lifecycle(b)!Init
  <2> SUFFICES ASSUME Init, NEW b \in Builds PROVE Lifecycle(b)!Init
      OBVIOUS
  <2>1. /\ build[b].status = "absent" /\ build[b].cancel = FALSE /\ artifact[b] = {}
        /\ \A k \in Numbers : attempt[b][k].status = "none"
      BY DEF Init, Missing, NoAttempts, NoAttempt
  <2>2. Started1To(b, 0)
      BY <2>1, RepositoryAssumption DEF Started1To, Numbers
  <2>3. Spent(b) = 0
      BY <2>2, SpentIs
  <2> QED
      BY <2>1, <2>3 DEF Lifecycle!Init
<1>2. RefinementInv /\ [Next]_repoVars =>
         [\A b \in Builds : Lifecycle(b)!Next \/ UNCHANGED Lifecycle(b)!lifecycleVars]_repoVars
  <2> SUFFICES ASSUME RefinementInv, [Next]_repoVars, NEW b \in Builds
               PROVE  Lifecycle(b)!Next \/ UNCHANGED Lifecycle(b)!lifecycleVars
      OBVIOUS
  <2> QED
      BY Steps, LifecycleStep, StoreInvNext DEF RefinementInv, StoreInv
<1> QED
    BY <1>1, <1>2, RefinementInvariant, PTL DEF Spec, ImplementsLifecycle

-------------------------------------------------------------------------------
(***************************************************************************)
(* PostgresRepository implements the in-memory adapter.  Each operation is *)
(* mapped to the method of the same name; what the adapter checks and      *)
(* Postgres does not (that no other attempt is active, that an expired     *)
(* attempt belongs to a running build) follows from the invariant above.   *)
(***************************************************************************)

Rows == [b \in Builds |-> Undelayed(outbox[b])]
Row0(v) == [version |-> v, dispatched |-> FALSE, wait |-> 0]

-------------------------------------------------------------------------------
(* Rows without their delays *)

LEMMA UndelayedAdds ==
    ASSUME NEW R, NEW v \in Nat, NEW delay \in Nat
    PROVE  Undelayed(R \union {NewRow(v, delay)}) = Undelayed(R) \union {Row0(v)}
<1>1. [NewRow(v, delay) EXCEPT !.wait = 0] = Row0(v)
  <2> DEFINE row == NewRow(v, delay)
  <2>1. /\ row \in [version : Nat, dispatched : BOOLEAN, wait : Nat]
        /\ row.version = v /\ row.dispatched = FALSE
      BY DEF NewRow
  <2> HIDE DEF row
  <2>2. [row EXCEPT !.wait = 0]
          = [version |-> row.version, dispatched |-> row.dispatched, wait |-> 0]
      BY <2>1
  <2> QED
      BY <2>1, <2>2 DEF row, Row0
<1> QED
    BY <1>1 DEF Undelayed

LEMMA RowsGrow ==
    ASSUME TypeOK, NEW b \in Builds, NEW v \in Nat, NEW delay \in Nat,
           outbox' = [outbox EXCEPT ![b] = @ \union {NewRow(v, delay)}]
    PROVE  Rows' = [Rows EXCEPT ![b] = Rows[b] \union {Row0(v)}]
<1>1. \A c \in Builds : outbox'[c] =
          IF c = b THEN outbox[b] \union {NewRow(v, delay)} ELSE outbox[c]
    BY DEF TypeOK
<1>2. \A c \in Builds : Undelayed(outbox'[c]) =
          IF c = b THEN Undelayed(outbox[b]) \union {Row0(v)} ELSE Undelayed(outbox[c])
    BY <1>1, UndelayedAdds
<1>3. Rows[b] = Undelayed(outbox[b])
    BY DEF Rows
<1>4. Rows' = [c \in Builds |-> Undelayed(outbox'[c])]
    BY DEF Rows, Undelayed
<1> QED
    BY <1>2, <1>3, <1>4 DEF Rows

LEMMA RowsStay == ASSUME UNCHANGED outbox PROVE UNCHANGED Rows
BY DEF Rows

\* A row that is due has no delay to leave out.
LEMMA DueRow ==
    ASSUME NEW row \in OutboxRow, row.wait = 0
    PROVE  /\ [row EXCEPT !.wait = 0] = row
           /\ [row EXCEPT !.dispatched = TRUE]
                = [version |-> row.version, dispatched |-> TRUE, wait |-> 0]
<1>1. row \in [version : Nat, dispatched : BOOLEAN, wait : Nat]
    BY RepositoryAssumption DEF OutboxRow
<1>2. [row EXCEPT !.wait = 0] = row
    BY <1>1
<1>3. [row EXCEPT !.dispatched = TRUE]
        = [version |-> row.version, dispatched |-> TRUE, wait |-> 0]
  <2>1. \A d \in BOOLEAN : [row EXCEPT !.dispatched = d]
                            = [version |-> row.version, dispatched |-> d, wait |-> 0]
      BY <1>1
  <2> QED
      BY <2>1
<1> QED
    BY <1>2, <1>3

-------------------------------------------------------------------------------
(* Rows of the tables, as the adapter writes them *)

LEMMA SameUpdates ==
    ASSUME TypeOK, NEW b \in Builds, NEW target \in Statuses, NEW cancel \in BOOLEAN
    PROVE  /\ Reference!Replaced(b, target, cancel) = Moved(b, target, cancel)
           /\ Reference!LogFrom(b, build[b].status, target) = Logged(b, target)
<1> DEFINE first == [build[b] EXCEPT !.status = target]
           second == [first EXCEPT !.version = build[b].version + 1]
<1>1. first \in BuildRow /\ first.status = target /\ first.version = build[b].version
      /\ first.request = build[b].request
    BY DEF TypeOK, BuildRow
<1>2. second \in BuildRow /\ second.status = target
      /\ second.version = build[b].version + 1 /\ second.request = build[b].request
  <2> HIDE DEF first
  <2>1. build[b].version + 1 \in Nat
      BY DEF TypeOK, BuildRow
  <2> QED
      BY <1>1, <2>1 DEF BuildRow
<1>3. [second EXCEPT !.cancel = cancel] = Moved(b, target, cancel)
  <2> HIDE DEF second
  <2> QED
      BY <1>2 DEF BuildRow, Moved
<1>4. Reference!Replaced(b, target, cancel) = [second EXCEPT !.cancel = cancel]
    BY <1>1 DEF Reference!Replaced
<1> QED
    BY <1>3, <1>4 DEF Logged, Reference!LogFrom

LEMMA SameAttempt ==
    ASSUME TypeOK, NEW b \in Builds, NEW k \in Numbers, NEW a
    PROVE  Reference!WithAttempt(b, k, a) = WithAttempt(b, k, a)
BY DEF TypeOK, WithAttempt, Reference!WithAttempt

LEMMA SameEnd ==
    ASSUME TypeOK, NEW b \in Builds, NEW k \in Numbers, NEW status \in AttemptStatuses
    PROVE  Reference!Ended(b, k, status) = Finished(attempt[b][k], status)
<1> DEFINE first == [attempt[b][k] EXCEPT !.status = status]
<1>0. attempt[b][k] \in AttemptRow
    BY DEF TypeOK
<1>1. first \in AttemptRow /\ first.status = status /\ first.token = attempt[b][k].token
    BY <1>0 DEF AttemptRow
<1> HIDE DEF first
<1>2. [first EXCEPT !.lease = 0] = Finished(attempt[b][k], status)
    BY <1>1 DEF AttemptRow, Finished
<1> QED
    BY <1>2 DEF first, Reference!Ended

LEMMA SameFence ==
    ASSUME NEW b \in Builds, NEW k \in Numbers, NEW t, LeaseHeld(b, k, t)
    PROVE  Reference!Fenced(b, k, t)
BY DEF LeaseHeld, Active, Reference!Fenced, Reference!Active

LEMMA SameNumbers == Reference!Numbers = Numbers
BY DEF Reference!Numbers, Numbers

-------------------------------------------------------------------------------
(* The operations *)

LEMMA RefSubmit ==
    ASSUME TypeOK, NEW b \in Builds, NEW r \in Requests, NEW key \in Keys \union {NoKey},
           Submit(b, r, key)
    PROVE  Reference!Submit(b, r, key)
<1>1. Rows' = [Rows EXCEPT ![b] = Rows[b] \union {Row0(1)}]
    BY RowsGrow DEF Submit
<1> QED
    BY <1>1 DEF Submit, Rows, Row0, Reference!Submit, Reference!Exists, Reference!Appended

LEMMA RefRequestCancel ==
    ASSUME TypeOK, NEW b \in Builds, History(b), NEW v, RequestCancel(b, v)
    PROVE  Reference!RequestCancel(b, v)
<1>1. build[b].status # "validating" /\ build[b].status # "absent"
    BY DEF History, RequestCancel, NoRow
<1>2. UNCHANGED Rows
    BY RowsStay DEF RequestCancel
<1> DEFINE target == IF build[b].status = "queued" THEN "canceled" ELSE build[b].status
<1>3. target \in Statuses /\ TRUE \in BOOLEAN
    BY DEF TypeOK, BuildRow, Statuses, Terminal
<1>4. /\ build' = [build EXCEPT ![b] = Moved(b, target, TRUE)]
      /\ event' = [event EXCEPT ![b] = Logged(b, target)]
    BY <1>1 DEF RequestCancel
<1> HIDE DEF target
<1>5. /\ build' = [build EXCEPT ![b] = Reference!Replaced(b, target, TRUE)]
      /\ event' = [event EXCEPT ![b] = Reference!LogFrom(b, build[b].status, target)]
    BY <1>3, <1>4, SameUpdates
<1> QED
    BY <1>1, <1>2, <1>5
    DEF target, RequestCancel, Terminal, Rows,
        Reference!RequestCancel, Reference!Exists, Reference!Terminal

LEMMA RefLeaseBuild ==
    ASSUME StoreInv, NEW b \in Builds, NEW t \in Tokens, LeaseBuild(b, t)
    PROVE  \E k \in Numbers : Reference!LeaseBuild(b, k, t)
<1>0. TypeOK /\ OneLease(b)
    BY DEF StoreInv, BuildInv
<1>1. PICK k \in Numbers :
          /\ NextNumber(b, k)
          /\ attempt' = WithAttempt(b, k, [status |-> "running", token |-> t,
                                           lease |-> LeaseTicks])
    BY DEF LeaseBuild
<1>2. Reference!CanLease(b, k)
  <2>1. ~ Reference!HasActive(b)
      BY <1>0, SameNumbers
      DEF LeaseBuild, OneLease, Active, Reference!HasActive, Reference!Active
  <2>2. \A j \in Numbers : attempt[b][j].status # "none" => j < k
      BY <1>1 DEF NextNumber, Numbers
  <2> QED
      BY <1>1, <2>1, <2>2, SameNumbers DEF LeaseBuild, NextNumber, Reference!CanLease
<1>3. Reference!Move(b, "running", build[b].cancel, "queued", 0)
  <2>1. UNCHANGED Rows
      BY RowsStay DEF LeaseBuild
  <2>2. "running" \in Statuses /\ build[b].cancel \in BOOLEAN
      BY <1>0 DEF TypeOK, BuildRow, Statuses
  <2>3. /\ Reference!Replaced(b, "running", build[b].cancel)
             = Moved(b, "running", build[b].cancel)
        /\ Reference!LogFrom(b, "queued", "running") = Logged(b, "running")
      BY <1>0, <2>2, SameUpdates DEF LeaseBuild
  <2> QED
      BY <2>1, <2>3 DEF LeaseBuild, Rows, Reference!Move
<1> QED
    BY <1>0, <1>1, <1>2, <1>3, SameAttempt DEF LeaseBuild, Reference!LeaseBuild

LEMMA RefHeartbeat ==
    ASSUME TypeOK, NEW b \in Builds, NEW k \in Numbers, NEW t \in Tokens,
           HeartbeatAttempt(b, k, t)
    PROVE  Reference!HeartbeatAttempt(b, k, t)
<1>0. attempt[b][k] \in AttemptRow /\ attempt[b][k].token = t
    BY DEF TypeOK, HeartbeatAttempt, LeaseHeld
<1>1. [attempt[b][k] EXCEPT !.lease = LeaseTicks]
        = [status |-> attempt[b][k].status, token |-> t, lease |-> LeaseTicks]
    BY <1>0, RepositoryAssumption DEF AttemptRow
<1>2. UNCHANGED Rows
    BY RowsStay DEF HeartbeatAttempt
<1> QED
    BY <1>1, <1>2, SameFence, SameAttempt
    DEF HeartbeatAttempt, Rows, Reference!HeartbeatAttempt

LEMMA RefComplete ==
    ASSUME TypeOK, NEW b \in Builds, NEW k \in Numbers, NEW t \in Tokens,
           NEW outcome \in Outcomes, NEW retryable \in BOOLEAN,
           CompleteAttempt(b, k, t, outcome, retryable)
    PROVE  Reference!CompleteAttempt(b, k, t, outcome, retryable)
<1> DEFINE canRetry == /\ ~build[b].cancel /\ retryable /\ k < MaxAttempts
                       /\ outcome \in {"failed", "timed_out"}
           final    == IF build[b].cancel THEN "canceled" ELSE outcome
           target   == IF canRetry THEN "queued"
                       ELSE IF final \in {"canceled", "needs_review"} THEN final
                       ELSE "failed"
<1>1. /\ LeaseHeld(b, k, t) /\ build[b].status = "running"
      /\ outcome = "canceled" => build[b].cancel
    BY DEF CompleteAttempt, CanComplete
<1>2. /\ attempt' = WithAttempt(b, k, Finished(attempt[b][k], final))
      /\ build' = [build EXCEPT ![b] = Moved(b, target, build[b].cancel)]
      /\ event' = [event EXCEPT ![b] = Logged(b, target)]
      /\ outbox' = IF canRetry
                   THEN [outbox EXCEPT ![b] =
                            @ \union {NewRow(build[b].version + 1, RetryTicks)}]
                   ELSE outbox
      /\ UNCHANGED <<artifact, keyed>>
    BY DEF CompleteAttempt
<1>3. final \in AttemptStatuses /\ target \in Statuses /\ build[b].cancel \in BOOLEAN
      /\ build[b].version + 1 \in Nat /\ RetryTicks \in Nat
    BY RepositoryAssumption
    DEF TypeOK, BuildRow, Outcomes, AttemptStatuses, Statuses, Terminal
<1>4. target = "queued" <=> canRetry
    OBVIOUS
<1> HIDE DEF target, final
<1>5. Rows' = IF target = "queued"
              THEN [Rows EXCEPT ![b] = Rows[b] \union {Row0(build[b].version + 1)}]
              ELSE Rows
  <2>1. CASE target = "queued"
      BY <1>2, <1>3, <1>4, <2>1, RowsGrow
  <2>2. CASE target # "queued"
      BY <1>2, <1>4, <2>2, RowsStay
  <2> QED
      BY <2>1, <2>2
<1>6. Reference!Move(b, target, build[b].cancel, "running", 0)
  <2>1. /\ Reference!Replaced(b, target, build[b].cancel) = Moved(b, target, build[b].cancel)
        /\ Reference!LogFrom(b, "running", target) = Logged(b, target)
      BY <1>1, <1>3, SameUpdates
  <2> QED
      BY <1>2, <1>5, <2>1 DEF Rows, Row0, Reference!Move, Reference!Appended
<1>7. attempt' = Reference!WithAttempt(b, k, Reference!Ended(b, k, final))
    BY <1>2, <1>3, SameAttempt, SameEnd
<1>8. Reference!Fenced(b, k, t)
    BY <1>1, SameFence
<1> QED
    BY <1>1, <1>2, <1>6, <1>7, <1>8 DEF target, final, Reference!CompleteAttempt

LEMMA RefPublish ==
    ASSUME TypeOK, NEW b \in Builds, History(b), NEW k \in Numbers, NEW t \in Tokens,
           NEW records, PublishAttemptSuccess(b, k, t, records)
    PROVE  Reference!PublishAttemptSuccess(b, k, t, k, {k} \X Artifacts)
<1>1. /\ records = {k} \X Artifacts /\ LeaseHeld(b, k, t)
      /\ build[b].status = "running" /\ ~build[b].cancel /\ artifact[b] = {}
    BY DEF PublishAttemptSuccess, CanPublish
<1>2. attempt[b][k].status = "running"
    BY <1>1 DEF LeaseHeld, Active, History
<1>3. "succeeded" \in AttemptStatuses /\ "succeeded" \in Statuses
      /\ build[b].cancel = FALSE
    BY <1>1 DEF AttemptStatuses, Statuses, Terminal, TypeOK, BuildRow
<1>4. attempt' = Reference!WithAttempt(b, k, Reference!Ended(b, k, "succeeded"))
    BY <1>3, SameAttempt, SameEnd DEF PublishAttemptSuccess
<1>5. Reference!Move(b, "succeeded", FALSE, "running", 0)
  <2>1. /\ Reference!Replaced(b, "succeeded", FALSE) = Moved(b, "succeeded", FALSE)
        /\ Reference!LogFrom(b, "running", "succeeded") = Logged(b, "succeeded")
      BY <1>1, <1>3, SameUpdates
  <2>2. UNCHANGED Rows
      BY RowsStay DEF PublishAttemptSuccess
  <2> QED
      BY <1>3, <2>1, <2>2 DEF PublishAttemptSuccess, Rows, Reference!Move
<1>6. Reference!Fenced(b, k, t)
    BY <1>1, SameFence
<1> QED
    BY <1>1, <1>2, <1>4, <1>5, <1>6
    DEF PublishAttemptSuccess, Reference!PublishAttemptSuccess, Reference!PublishSuccess

LEMMA RefDispatches ==
    ASSUME StoreInv, NEW b \in Builds, NEW row \in outbox[b],
           MarkDispatched(b, row) \/ DeferDispatch(b, row)
    PROVE  Reference!MarkOutboxDispatched(b, row) \/ UNCHANGED Reference!storeVars
<1>1. /\ row \in OutboxRow /\ outbox[b] \subseteq OutboxRow /\ row.wait = 0
      /\ row.dispatched = FALSE /\ outbox \in [Builds -> SUBSET OutboxRow] /\ HasRow(b)
    BY DEF StoreInv, TypeOK, BuildInv, MarkDispatched, DeferDispatch, Due, OutboxRow
<1>2. \A r \in outbox[b] \ {row} : [r EXCEPT !.wait = 0] # row
  <2> SUFFICES ASSUME NEW r \in outbox[b], [r EXCEPT !.wait = 0] = row PROVE r = row
      OBVIOUS
  <2>1. r \in OutboxRow
      BY <1>1
  <2>2. [r EXCEPT !.wait = 0].version = r.version
      BY <2>1 DEF OutboxRow
  <2> QED
      BY <1>1, <2>2 DEF HasRow
<1>3. [row EXCEPT !.wait = 0] = row
    BY <1>1, DueRow
<1>4. Undelayed(outbox[b] \ {row}) = Undelayed(outbox[b]) \ {row}
    BY <1>2, <1>3 DEF Undelayed
<1>5. CASE MarkDispatched(b, row)
  <2> DEFINE done == [version |-> row.version, dispatched |-> TRUE, wait |-> 0]
  <2>1. outbox' = [outbox EXCEPT ![b] = (@ \ {row}) \union {done}]
      BY <1>1, <1>5 DEF MarkDispatched
  <2>2. [row EXCEPT !.dispatched = TRUE] = done
      BY <1>1, DueRow
  <2>3. [done EXCEPT !.wait = 0] = done
    <3>1. done \in OutboxRow /\ done.wait = 0
        BY <1>1, RepositoryAssumption DEF OutboxRow
    <3> HIDE DEF done
    <3> QED
        BY <3>1, DueRow
  <2> HIDE DEF done
  <2>4. Undelayed(outbox'[b]) = (Undelayed(outbox[b]) \ {row}) \union {done}
    <3>1. outbox'[b] = (outbox[b] \ {row}) \union {done}
        BY <1>1, <2>1
    <3>2. Undelayed((outbox[b] \ {row}) \union {done})
            = Undelayed(outbox[b] \ {row}) \union {done}
        BY <2>3 DEF Undelayed
    <3> QED
        BY <1>4, <3>1, <3>2
  <2>5. \A c \in Builds : c # b => outbox'[c] = outbox[c]
      BY <1>1, <2>1
  <2>6. Rows' = [Rows EXCEPT ![b] = (@ \ {row}) \union {done}]
    <3>1. Rows' = [c \in Builds |-> Undelayed(outbox'[c])]
        BY DEF Rows, Undelayed
    <3> QED
        BY <2>4, <2>5, <3>1 DEF Rows
  <2>7. row \in Undelayed(outbox[b])
      BY <1>3 DEF Undelayed
  <2>8. Reference!Dispatched({row}) = {done}
      BY <2>2 DEF Reference!Dispatched
  <2> QED
      BY <1>1, <1>5, <2>6, <2>7, <2>8
      DEF MarkDispatched, Rows, Reference!MarkOutboxDispatched, Reference!Pending
<1>6. CASE DeferDispatch(b, row)
  <2> DEFINE later == [version |-> row.version, dispatched |-> FALSE, wait |-> RetryTicks]
  <2>1. outbox' = [outbox EXCEPT ![b] = (@ \ {row}) \union {later}]
      BY <1>6 DEF DeferDispatch
  <2>2. [later EXCEPT !.wait = 0] = row
    <3>1. later \in [version : Nat, dispatched : BOOLEAN, wait : Nat]
          /\ later.version = row.version /\ later.dispatched = row.dispatched
        BY <1>1, RepositoryAssumption DEF OutboxRow
    <3>2. row \in [version : Nat, dispatched : BOOLEAN, wait : Nat]
        BY <1>1, RepositoryAssumption DEF OutboxRow
    <3> HIDE DEF later
    <3> QED
        BY <1>1, <3>1, <3>2
  <2> HIDE DEF later
  <2>3. Undelayed(outbox'[b]) = Undelayed(outbox[b])
    <3>1. outbox'[b] = (outbox[b] \ {row}) \union {later}
        BY <1>1, <2>1
    <3>2. Undelayed((outbox[b] \ {row}) \union {later})
            = Undelayed(outbox[b] \ {row}) \union {row}
        BY <2>2 DEF Undelayed
    <3>3. row \in Undelayed(outbox[b])
        BY <1>3 DEF Undelayed
    <3> QED
        BY <1>4, <3>1, <3>2, <3>3
  <2>4. \A c \in Builds : Undelayed(outbox'[c]) = Undelayed(outbox[c])
      BY <1>1, <2>1, <2>3
  <2>5. UNCHANGED Rows
    <3>1. Rows' = [c \in Builds |-> Undelayed(outbox'[c])]
        BY DEF Rows, Undelayed
    <3> QED
        BY <2>4, <3>1 DEF Rows
  <2> QED
      BY <1>6, <2>5 DEF DeferDispatch, Rows, Reference!storeVars
<1> QED
    BY <1>5, <1>6

LEMMA RefRecover ==
    ASSUME StoreInv, NEW S \in SUBSET (Builds \X Numbers), RecoverExpiredAttempts(S)
    PROVE  Reference!RecoverExpiredAttempts(S)
<1> DEFINE expired(b) == CHOOSE k \in Numbers : <<b, k>> \in S
           moves(b)  == \E k \in Numbers : <<b, k>> \in S
           target(b) == RecoveryTarget(b, expired(b))
           final(b)  == IF build[b].cancel THEN "canceled" ELSE "lost"
<1>0. TypeOK
    BY DEF StoreInv
<1>1. \A b \in Builds : moves(b) => build[b].status = "running"
  <2> SUFFICES ASSUME NEW b \in Builds, NEW k \in Numbers, <<b, k>> \in S
               PROVE  build[b].status = "running"
      OBVIOUS
  <2>1. attempt[b][k].status \in Active
      BY DEF RecoverExpiredAttempts, Expired
  <2> QED
      BY <2>1 DEF StoreInv, BuildInv, OneLease
<1>2. \A b \in Builds : /\ target(b) \in {"canceled", "queued", "failed"}
                        /\ target(b) \in Statuses
    BY DEF RecoveryTarget, Statuses, Terminal
<1>3. attempt' = [b \in Builds |-> [k \in Numbers |->
          IF <<b, k>> \in S THEN Finished(attempt[b][k], final(b)) ELSE attempt[b][k]]]
  <2>1. \A b \in Builds : \A k \in Numbers :
            <<b, k>> \in S => (build[b].status = "running" /\ build[b].cancel <=>
                               build[b].cancel)
      BY <1>1
  <2>2. attempt' = [b \in Builds |-> [k \in Numbers |->
            IF <<b, k>> \in S
            THEN Finished(attempt[b][k],
                          IF (<<b, k>> \in S /\ build[b].status = "running")
                             /\ build[b].cancel
                          THEN "canceled" ELSE "lost")
            ELSE attempt[b][k]]]
      BY DEF RecoverExpiredAttempts
  <2>3. \A b \in Builds : \A k \in Numbers : <<b, k>> \in S =>
            Finished(attempt[b][k],
                     IF (<<b, k>> \in S /\ build[b].status = "running")
                        /\ build[b].cancel
                     THEN "canceled" ELSE "lost") = Finished(attempt[b][k], final(b))
      BY <2>1
  <2> QED
      BY <2>2, <2>3
<1>4. \A b \in Builds : \A k \in Numbers :
          Reference!Ended(b, k, final(b)) = Finished(attempt[b][k], final(b))
  <2>1. \A b \in Builds : final(b) \in AttemptStatuses
      BY DEF AttemptStatuses
  <2> HIDE DEF final
  <2> QED
      BY <1>0, <2>1, SameEnd
<1>5. \A b \in Builds :
          (\E k \in Numbers : <<b, k>> \in S /\ build[b].status = "running") <=> moves(b)
    BY <1>1
<1>6. /\ build' = [b \in Builds |->
            IF moves(b) THEN Moved(b, target(b), build[b].cancel) ELSE build[b]]
      /\ event' = [b \in Builds |->
            IF moves(b) THEN Logged(b, target(b)) ELSE event[b]]
      /\ outbox' = [b \in Builds |->
            IF moves(b) /\ target(b) = "queued"
            THEN outbox[b] \union {NewRow(build[b].version + 1, RetryTicks)}
            ELSE outbox[b]]
  <2> DEFINE live(b) == \E k \in Numbers : <<b, k>> \in S /\ build[b].status = "running"
  <2>1. /\ build' = [b \in Builds |->
              IF live(b) THEN Moved(b, target(b), build[b].cancel) ELSE build[b]]
        /\ event' = [b \in Builds |->
              IF live(b) THEN Logged(b, target(b)) ELSE event[b]]
        /\ outbox' = [b \in Builds |->
              IF live(b) /\ target(b) = "queued"
              THEN outbox[b] \union {NewRow(build[b].version + 1, RetryTicks)}
              ELSE outbox[b]]
      BY DEF RecoverExpiredAttempts
  <2>2. \A b \in Builds : live(b) <=> moves(b)
      BY <1>5
  <2> HIDE DEF live, moves, target
  <2> QED
      BY <2>1, <2>2
<1>7. \A b \in Builds : moves(b) =>
          /\ Reference!RecoveryTarget(b, expired(b)) = target(b)
          /\ target(b) # build[b].status
          /\ Reference!Replaced(b, target(b), build[b].cancel)
                = Moved(b, target(b), build[b].cancel)
          /\ Reference!LogFrom(b, "running", target(b)) = Logged(b, target(b))
  <2> SUFFICES ASSUME NEW b \in Builds, moves(b)
               PROVE  /\ Reference!RecoveryTarget(b, expired(b)) = target(b)
                      /\ target(b) # build[b].status
                      /\ Reference!Replaced(b, target(b), build[b].cancel)
                            = Moved(b, target(b), build[b].cancel)
                      /\ Reference!LogFrom(b, "running", target(b)) = Logged(b, target(b))
      OBVIOUS
  <2>1. build[b].status = "running" /\ build[b].cancel \in BOOLEAN
      BY <1>0, <1>1 DEF TypeOK, BuildRow
  <2>2. Reference!RecoveryTarget(b, expired(b)) = target(b)
      BY <2>1 DEF RecoveryTarget, Reference!RecoveryTarget
  <2>3. target(b) # build[b].status
      BY <1>2, <2>1
  <2> HIDE DEF target
  <2> QED
      BY <1>0, <1>2, <2>1, <2>2, <2>3, SameUpdates
<1>8. Rows' = [b \in Builds |->
          IF moves(b) /\ target(b) = "queued"
          THEN Rows[b] \union {Row0(build[b].version + 1)} ELSE Rows[b]]
  <2>1. Rows' = [b \in Builds |-> Undelayed(outbox'[b])]
      BY DEF Rows, Undelayed
  <2>2. \A b \in Builds : Rows[b] = Undelayed(outbox[b])
      BY DEF Rows
  <2>3. \A b \in Builds : build[b].version + 1 \in Nat /\ RetryTicks \in Nat
      BY <1>0, RepositoryAssumption DEF TypeOK, BuildRow
  <2>4. \A b \in Builds : Undelayed(outbox[b] \union {NewRow(build[b].version + 1, RetryTicks)})
                            = Undelayed(outbox[b]) \union {Row0(build[b].version + 1)}
      BY <2>3, UndelayedAdds
  <2> HIDE DEF target, moves
  <2> QED
      BY <1>6, <2>1, <2>2, <2>4
<1>9. \A p \in S : /\ attempt[p[1]][p[2]].status \in Active
                   /\ attempt[p[1]][p[2]].lease = 0
    BY DEF RecoverExpiredAttempts, Expired
<1>10. attempt' = [b \in Builds |-> [k \in Numbers |->
          IF <<b, k>> \in S THEN Reference!Ended(b, k, final(b)) ELSE attempt[b][k]]]
    BY <1>3, <1>4
<1> DEFINE refTarget(b) == Reference!RecoveryTarget(b, expired(b))
           refMoves(b) == moves(b) /\ refTarget(b) # build[b].status
<1>11. \A b \in Builds : /\ refMoves(b) <=> moves(b)
                         /\ moves(b) => refTarget(b) = target(b)
    BY <1>7
<1>12. /\ build' = [b \in Builds |->
             IF refMoves(b) THEN Reference!Replaced(b, refTarget(b), build[b].cancel)
             ELSE build[b]]
       /\ event' = [b \in Builds |->
             IF refMoves(b) THEN Reference!LogFrom(b, "running", refTarget(b))
             ELSE event[b]]
       /\ Rows' = [b \in Builds |->
             IF refMoves(b) /\ refTarget(b) = "queued"
             THEN Rows[b] \union {Row0(build[b].version + 1)} ELSE Rows[b]]
  <2>1. \A b \in Builds : moves(b) =>
            /\ Reference!Replaced(b, target(b), build[b].cancel)
                  = Moved(b, target(b), build[b].cancel)
            /\ Reference!LogFrom(b, "running", target(b)) = Logged(b, target(b))
      BY <1>7
  <2> HIDE DEF moves, target, refMoves, refTarget
  <2> QED
      BY <1>6, <1>8, <1>11, <2>1
<1>13. S # {} /\ UNCHANGED <<artifact, keyed>>
    BY DEF RecoverExpiredAttempts
<1> QED
    BY <1>9, <1>10, <1>12, <1>13, ZenonT(30)
    DEF Rows, Row0, Numbers, Reference!Numbers, Reference!RecoverExpiredAttempts, Reference!Appended, Active,
        Reference!Active

LEMMA RefDelete ==
    ASSUME NEW B \in SUBSET Builds, DeleteBuilds(B)
    PROVE  Retention
<1>1. PICK b \in B : TRUE
    BY DEF DeleteBuilds
<1>2. build[b].status # "deleted" /\ build'[b].status = "deleted"
    BY <1>1 DEF DeleteBuilds, Terminal, Missing
<1> QED
    BY <1>1, <1>2 DEF Retention

LEMMA RefTick == ASSUME TypeOK, Tick PROVE Reference!Tick
<1>1. \A b \in Builds : \A k \in Numbers :
          [attempt[b][k] EXCEPT !.lease = Less(@)]
            = [status |-> attempt[b][k].status, token |-> attempt[b][k].token,
               lease |-> Less(attempt[b][k].lease)]
  <2> SUFFICES ASSUME NEW b \in Builds, NEW k \in Numbers
               PROVE  [attempt[b][k] EXCEPT !.lease = Less(attempt[b][k].lease)]
                        = [status |-> attempt[b][k].status, token |-> attempt[b][k].token,
                           lease |-> Less(attempt[b][k].lease)]
      OBVIOUS
  <2>1. attempt[b][k] \in AttemptRow
      BY DEF TypeOK
  <2> QED
      BY <2>1 DEF AttemptRow
<1>2. attempt' = [b \in Builds |-> [k \in Numbers |->
                     [attempt[b][k] EXCEPT !.lease = Reference!Less(@)]]]
    BY <1>1 DEF Tick, Advance, Less, Reference!Less
<1>3. \A b \in Builds : Undelayed(outbox'[b])
          = {[row EXCEPT !.wait = Reference!Less(@)] : row \in Undelayed(outbox[b])}
  <2> SUFFICES ASSUME NEW b \in Builds
               PROVE  Undelayed(outbox'[b])
          = {[row EXCEPT !.wait = Reference!Less(@)] : row \in Undelayed(outbox[b])}
      OBVIOUS
  <2> DEFINE bare(row) == [version |-> row.version, dispatched |-> row.dispatched,
                           wait |-> 0]
             later(row) == [version |-> row.version, dispatched |-> row.dispatched,
                            wait |-> Less(row.wait)]
  <2>1. outbox'[b] = {later(row) : row \in outbox[b]}
      BY DEF Tick, Advance
  <2>2. \A row \in outbox[b] : row \in [version : Nat, dispatched : BOOLEAN, wait : Nat]
      BY RepositoryAssumption DEF TypeOK, OutboxRow
  <2>3. \A row \in outbox[b] : [row EXCEPT !.wait = 0] = bare(row)
      BY <2>2
  <2>4. \A row \in outbox[b] : [later(row) EXCEPT !.wait = 0] = bare(row)
    <3> SUFFICES ASSUME NEW row \in outbox[b]
                 PROVE  [later(row) EXCEPT !.wait = 0] = bare(row)
        OBVIOUS
    <3> DEFINE l == later(row)
    <3>1. /\ l \in [version : Nat, dispatched : BOOLEAN, wait : Nat]
          /\ l.version = row.version /\ l.dispatched = row.dispatched
        BY <2>2 DEF Less
    <3> HIDE DEF l
    <3>2. [l EXCEPT !.wait = 0] = [version |-> l.version, dispatched |-> l.dispatched,
                                   wait |-> 0]
        BY <3>1
    <3> QED
        BY <3>1, <3>2 DEF l
  <2>5. \A row \in outbox[b] : [bare(row) EXCEPT !.wait = Reference!Less(@)] = bare(row)
    <3> SUFFICES ASSUME NEW row \in outbox[b]
                 PROVE  [bare(row) EXCEPT !.wait = Reference!Less(bare(row).wait)] = bare(row)
        OBVIOUS
    <3> DEFINE l == bare(row)
    <3>1. l \in [version : Nat, dispatched : BOOLEAN, wait : Nat] /\ l.wait = 0
        BY <2>2
    <3> HIDE DEF l
    <3>2. [l EXCEPT !.wait = Reference!Less(l.wait)] = l
        BY <3>1 DEF Reference!Less
    <3> QED
        BY <3>2 DEF l
  <2>6. Undelayed(outbox[b]) = {bare(row) : row \in outbox[b]}
      BY <2>3 DEF Undelayed
  <2>7. Undelayed(outbox'[b]) = {bare(row) : row \in outbox[b]}
    <3> HIDE DEF later, bare
    <3>1. Undelayed(outbox'[b]) = {[r EXCEPT !.wait = 0] : r \in outbox'[b]}
        BY DEF Undelayed
    <3>2. {[r EXCEPT !.wait = 0] : r \in outbox'[b]}
            = {[later(row) EXCEPT !.wait = 0] : row \in outbox[b]}
        BY <2>1
    <3> QED
        BY <2>4, <3>1, <3>2
  <2> HIDE DEF bare
  <2> QED
      BY <2>5, <2>6, <2>7
<1>4. Rows' = [b \in Builds |->
          {[row EXCEPT !.wait = Reference!Less(@)] : row \in Rows[b]}]
  <2>1. Rows' = [b \in Builds |-> Undelayed(outbox'[b])]
      BY DEF Rows, Undelayed
  <2>2. \A b \in Builds : Rows[b] = Undelayed(outbox[b])
      BY DEF Rows
  <2> QED
      BY <1>3, <2>1, <2>2
<1> QED
    BY <1>2, <1>4, SameNumbers DEF Tick, Advance, Rows, Reference!Tick

-------------------------------------------------------------------------------
\* PostgresRepository implements the adapter that defines its contract: every
\* operation, in every reachable state, is a call that InMemoryStateStore
\* answers in the same way (repository.py, state.py).
THEOREM StoreImplementsReference == Spec => ImplementsReference
<1>1. Init => Reference!Init
  <2> SUFFICES ASSUME Init PROVE Reference!Init
      OBVIOUS
  <2>1. Rows = [b \in Builds |-> {}]
      BY DEF Init, Rows, Undelayed
  <2> QED
      BY <2>1, SameNumbers
      DEF Init, Rows, Missing, NoAttempts, NoAttempt, Reference!Init, Reference!NoAttempt
<1>2. RefinementInv /\ [Next]_repoVars =>
          [Retention \/ Reference!Next \/ UNCHANGED Reference!storeVars]_repoVars
  <2> SUFFICES ASSUME RefinementInv, Next
               PROVE  Retention \/ Reference!Next \/ UNCHANGED Reference!storeVars
      OBVIOUS
  <2>1. StoreInv /\ TypeOK /\ \A b \in Builds : History(b)
      BY DEF RefinementInv, StoreInv
  <2>2. ASSUME NEW b \in Builds, NEW r \in Requests, NEW key \in Keys \union {NoKey},
               Submit(b, r, key)
        PROVE  Reference!Next
      BY <2>1, <2>2, RefSubmit DEF Reference!Next
  <2>3. ASSUME NEW b \in Builds, NEW v \in {build[c].version : c \in Builds},
               RequestCancel(b, v)
        PROVE  Reference!Next
      BY <2>1, <2>3, RefRequestCancel DEF Reference!Next, Reference!Versions
  <2>4. ASSUME NEW b \in Builds, NEW t \in Tokens, LeaseBuild(b, t)
        PROVE  Reference!Next
    <3>1. PICK k \in Numbers : Reference!LeaseBuild(b, k, t)
        BY <2>1, <2>4, RefLeaseBuild
    <3>2. Reference!Worker(b, k, t)
        BY <3>1 DEF Reference!Worker
    <3> QED
        BY <3>2, SameNumbers DEF Reference!Next
  <2>5. ASSUME NEW b \in Builds, NEW k \in Numbers, NEW t \in Tokens, Holder(b, k, t)
        PROVE  Reference!Next
    <3>1. SUFFICES Reference!Worker(b, k, t)
        BY SameNumbers DEF Reference!Next
    <3>2. CASE HeartbeatAttempt(b, k, t)
        BY <2>1, <3>2, RefHeartbeat DEF Reference!Worker
    <3>3. CASE \E outcome \in Outcomes, retryable \in BOOLEAN :
                   CompleteAttempt(b, k, t, outcome, retryable)
      <4>1. \E outcome \in Outcomes, retryable \in BOOLEAN :
                Reference!CompleteAttempt(b, k, t, outcome, retryable)
          BY <2>1, <3>3, RefComplete
      <4> QED
          BY <4>1 DEF Outcomes, Reference!Worker, Reference!Outcomes
    <3>4. CASE \E records \in SUBSET (Numbers \X Artifacts) :
                   PublishAttemptSuccess(b, k, t, records)
      <4>1. Reference!PublishAttemptSuccess(b, k, t, k, {k} \X Artifacts)
          BY <2>1, <3>4, RefPublish
      <4> QED
          BY <4>1, SameNumbers DEF Reference!Worker
    <3> QED
        BY <2>5, <3>2, <3>3, <3>4 DEF Holder
  <2>6. ASSUME NEW S \in SUBSET (Builds \X Numbers), RecoverExpiredAttempts(S)
        PROVE  Reference!Next
      BY <2>1, <2>6, RefRecover, SameNumbers DEF Reference!Next
  <2>7. ASSUME NEW b \in Builds, NEW row \in outbox[b],
               MarkDispatched(b, row) \/ DeferDispatch(b, row)
        PROVE  Reference!Next \/ UNCHANGED Reference!storeVars
    <3>1. Reference!MarkOutboxDispatched(b, row) \/ UNCHANGED Reference!storeVars
        BY <2>1, <2>7, RefDispatches
    <3>2. row \in Undelayed(outbox[b])
      <4>1. row \in OutboxRow /\ row.wait = 0
          BY <2>1, <2>7 DEF TypeOK, MarkDispatched, DeferDispatch, Due
      <4> QED
          BY <4>1, DueRow DEF Undelayed
    <3> QED
        BY <3>1, <3>2 DEF Reference!Next
  <2>8. ASSUME NEW B \in SUBSET Builds, DeleteBuilds(B)
        PROVE  Retention
      BY <2>8, RefDelete
  <2>9. CASE Tick
      BY <2>1, <2>9, RefTick DEF Reference!Next
  <2> QED
      BY <2>2, <2>3, <2>4, <2>5, <2>6, <2>7, <2>8, <2>9 DEF Next, Dispatches
<1> QED
    BY <1>1, <1>2, RefinementInvariant, PTL DEF Spec, ImplementsReference

-------------------------------------------------------------------------------
(***************************************************************************)
(* The in-memory store by itself, with the methods that Postgres does not  *)
(* have and whatever number of generic transitions.  Only leasing and      *)
(* registering make an attempt active, and both refuse a build that has    *)
(* one; every other method leaves at most the attempts active that were.   *)
(***************************************************************************)

Memory(bound) == INSTANCE StateStore WITH MaxVersion <- bound

MemoryAttempt == [status : AttemptStatuses, token : Tokens \union {NoToken}, lease : Nat]
MemoryTyped == attempt \in [Builds -> [Numbers -> MemoryAttempt]]

OneActive ==
    \A b \in Builds : \A j, k \in Numbers :
        attempt[b][j].status \in Active /\ attempt[b][k].status \in Active => j = k

MemoryInv == MemoryTyped /\ OneActive

\* It has the numbers and the active states of the tables, and its own words
\* for an update.
LEMMA MemoryWords ==
    ASSUME NEW bound
    PROVE  /\ Memory(bound)!Numbers = Numbers
           /\ Memory(bound)!Active = Active
           /\ Memory(bound)!OneActiveAttempt <=> OneActive
BY DEF Memory!Numbers, Memory!Active, Memory!OneActiveAttempt, Numbers, Active, OneActive

-------------------------------------------------------------------------------
(* Steps *)

\* A step after which every active attempt was active before.
NoneStarts ==
    \A b \in Builds : \A k \in Numbers :
        attempt'[b][k].status \in Active => attempt[b][k].status \in Active

LEMMA NoneStartsKeeps == ASSUME MemoryInv, MemoryTyped', NoneStarts PROVE MemoryInv'
BY DEF MemoryInv, OneActive, NoneStarts

\* One attempt is replaced by another value.
Becomes(b, k, a) == attempt' = [attempt EXCEPT ![b][k] = a]

LEMMA MemoryReplaces ==
    ASSUME MemoryTyped, NEW b \in Builds, NEW k \in Numbers, NEW a \in MemoryAttempt,
           Becomes(b, k, a)
    PROVE  /\ MemoryTyped'
           /\ attempt'[b][k] = a
           /\ \A c \in Builds : \A j \in Numbers :
                 c # b \/ j # k => attempt'[c][j] = attempt[c][j]
BY DEF MemoryTyped, Becomes

\* ... by one that is active, of a build that has none.
LEMMA MemoryStarts ==
    ASSUME MemoryInv, NEW b \in Builds, NEW k \in Numbers, NEW a \in MemoryAttempt,
           \A j \in Numbers : attempt[b][j].status \notin Active,
           Becomes(b, k, a)
    PROVE  MemoryInv'
<1>1. /\ MemoryTyped'
      /\ \A c \in Builds : \A j \in Numbers :
            c # b \/ j # k => attempt'[c][j] = attempt[c][j]
    BY MemoryReplaces DEF MemoryInv
<1>2. OneActive'
  <2> SUFFICES ASSUME NEW c \in Builds, NEW i \in Numbers, NEW j \in Numbers,
                      attempt'[c][i].status \in Active, attempt'[c][j].status \in Active
               PROVE  i = j
      BY DEF OneActive
  <2>1. CASE c = b
      BY <1>1, <2>1
  <2>2. CASE c # b
      BY <1>1, <2>2 DEF MemoryInv, OneActive
  <2> QED
      BY <2>1, <2>2
<1> QED
    BY <1>1, <1>2 DEF MemoryInv

\* ... by one that is not active, or that replaces an active one.
LEMMA MemoryGoesOn ==
    ASSUME MemoryInv, NEW b \in Builds, NEW k \in Numbers, NEW a \in MemoryAttempt,
           Becomes(b, k, a),
           a.status \in Active => attempt[b][k].status \in Active
    PROVE  MemoryInv'
<1>1. MemoryTyped
    BY DEF MemoryInv
<1>2. /\ MemoryTyped' /\ attempt'[b][k] = a
      /\ \A c \in Builds : \A j \in Numbers :
            c # b \/ j # k => attempt'[c][j] = attempt[c][j]
    BY <1>1, MemoryReplaces
<1>3. NoneStarts
    BY <1>2 DEF NoneStarts
<1> QED
    BY <1>2, <1>3, NoneStartsKeeps

LEMMA MemoryEnded ==
    ASSUME MemoryTyped, NEW bound, NEW b \in Builds, NEW k \in Numbers,
           NEW status \in AttemptStatuses \ Active
    PROVE  /\ Memory(bound)!Ended(b, k, status) \in MemoryAttempt
           /\ Memory(bound)!Ended(b, k, status).status \notin Active
<1>1. attempt[b][k] \in MemoryAttempt
    BY DEF MemoryTyped
<1> QED
    BY <1>1 DEF Memory!Ended, MemoryAttempt

LEMMA MemoryEnds ==
    ASSUME MemoryInv, NEW bound, NEW b \in Builds, NEW k \in Numbers,
           NEW status \in AttemptStatuses \ Active,
           attempt' = Memory(bound)!WithAttempt(b, k, Memory(bound)!Ended(b, k, status))
    PROVE  MemoryInv'
<1>1. /\ Memory(bound)!Ended(b, k, status) \in MemoryAttempt
      /\ Memory(bound)!Ended(b, k, status).status \notin Active
    BY MemoryEnded DEF MemoryInv
<1>2. Becomes(b, k, Memory(bound)!Ended(b, k, status))
    BY DEF Memory!WithAttempt, Becomes
<1> QED
    BY <1>1, <1>2, MemoryGoesOn

-------------------------------------------------------------------------------
(* Methods *)

LEMMA MemoryPublishes ==
    ASSUME MemoryInv, NEW bound, NEW b \in Builds, NEW v, NEW k \in Numbers, NEW records,
           Memory(bound)!PublishSuccess(b, v, k, records)
    PROVE  MemoryInv'
<1>1. "succeeded" \in AttemptStatuses \ Active
    BY DEF AttemptStatuses, Active
<1>2. attempt' = Memory(bound)!WithAttempt(b, k, Memory(bound)!Ended(b, k, "succeeded"))
    BY DEF Memory!PublishSuccess
<1> QED
    BY <1>1, <1>2, MemoryEnds

LEMMA MemoryWorker ==
    ASSUME MemoryInv, NEW bound, NEW b \in Builds, NEW k \in Numbers, NEW t \in Tokens,
           Memory(bound)!Worker(b, k, t)
    PROVE  MemoryInv'
<1>1. CASE Memory(bound)!LeaseBuild(b, k, t) \/ Memory(bound)!RegisterRunningAttempt(b, k, t)
  <2> DEFINE a == [status |-> "running", token |-> t, lease |-> LeaseTicks]
  <2>1. a \in MemoryAttempt
      BY RepositoryAssumption DEF MemoryAttempt, AttemptStatuses, Active
  <2>2. ~Memory(bound)!HasActive(b) /\ Becomes(b, k, a)
      BY <1>1 DEF Memory!LeaseBuild, Memory!CanLease, Memory!RegisterRunningAttempt,
                  Memory!WithAttempt, Becomes
  <2>3. \A j \in Numbers : attempt[b][j].status \notin Active
      BY <2>2, MemoryWords DEF Memory!HasActive
  <2> QED
      BY <2>1, <2>2, <2>3, MemoryStarts
<1>2. CASE Memory(bound)!HeartbeatAttempt(b, k, t)
  <2> DEFINE a == [attempt[b][k] EXCEPT !.lease = LeaseTicks]
  <2>1. attempt[b][k] \in MemoryAttempt
      BY DEF MemoryInv, MemoryTyped
  <2>2. a \in MemoryAttempt /\ a.status = attempt[b][k].status
      BY <2>1, RepositoryAssumption DEF MemoryAttempt
  <2>3. Becomes(b, k, a)
      BY <1>2 DEF Memory!HeartbeatAttempt, Memory!WithAttempt, Becomes
  <2> QED
      BY <2>2, <2>3, MemoryGoesOn
<1>3. ASSUME NEW status \in Memory(bound)!Outcomes, NEW retryable \in BOOLEAN,
             Memory(bound)!CompleteAttempt(b, k, t, status, retryable)
      PROVE  MemoryInv'
  <2>1. PICK final \in AttemptStatuses \ Active :
            attempt' = Memory(bound)!WithAttempt(b, k, Memory(bound)!Ended(b, k, final))
      BY <1>3 DEF Memory!CompleteAttempt, Memory!Outcomes, AttemptStatuses, Active
  <2> QED
      BY <2>1, MemoryEnds
<1>4. ASSUME NEW j \in Memory(bound)!Numbers,
             Memory(bound)!PublishAttemptSuccess(b, k, t, j, {j} \X Artifacts)
      PROVE  MemoryInv'
    BY <1>4, MemoryWords, MemoryPublishes DEF Memory!PublishAttemptSuccess
<1> QED
    BY <1>1, <1>2, <1>3, <1>4 DEF Memory!Worker

LEMMA MemoryRecovers ==
    ASSUME MemoryInv, NEW bound, NEW S, Memory(bound)!RecoverExpiredAttempts(S)
    PROVE  MemoryInv'
<1> DEFINE final(b) == IF build[b].cancel THEN "canceled" ELSE "lost"
           next(b, k) == IF <<b, k>> \in S THEN Memory(bound)!Ended(b, k, final(b))
                         ELSE attempt[b][k]
<1>1. attempt' = [b \in Builds |-> [k \in Numbers |-> next(b, k)]]
    BY MemoryWords DEF Memory!RecoverExpiredAttempts
<1>2. ASSUME NEW b \in Builds, NEW k \in Numbers
      PROVE  /\ next(b, k) \in MemoryAttempt
             /\ next(b, k).status \in Active => attempt[b][k].status \in Active
  <2>1. final(b) \in AttemptStatuses \ Active
      BY DEF AttemptStatuses, Active
  <2>2. /\ Memory(bound)!Ended(b, k, final(b)) \in MemoryAttempt
        /\ Memory(bound)!Ended(b, k, final(b)).status \notin Active
      BY <2>1, MemoryEnded DEF MemoryInv
  <2>3. attempt[b][k] \in MemoryAttempt
      BY DEF MemoryInv, MemoryTyped
  <2> QED
      BY <2>2, <2>3
<1> HIDE DEF next
<1>3. MemoryTyped' /\ NoneStarts
    BY <1>1, <1>2 DEF MemoryTyped, NoneStarts
<1> QED
    BY <1>3, NoneStartsKeeps

LEMMA MemoryTicks ==
    ASSUME MemoryInv, NEW bound, Memory(bound)!Tick
    PROVE  MemoryInv'
<1> DEFINE less(n) == IF n = 0 THEN 0 ELSE n - 1
           next(b, k) == [attempt[b][k] EXCEPT !.lease = less(attempt[b][k].lease)]
<1>1. attempt' = [b \in Builds |-> [k \in Numbers |-> next(b, k)]]
    BY MemoryWords DEF Memory!Tick, Memory!Less
<1>2. ASSUME NEW b \in Builds, NEW k \in Numbers
      PROVE  next(b, k) \in MemoryAttempt /\ next(b, k).status = attempt[b][k].status
  <2>1. attempt[b][k] \in MemoryAttempt
      BY DEF MemoryInv, MemoryTyped
  <2>2. less(attempt[b][k].lease) \in Nat
      BY <2>1 DEF MemoryAttempt
  <2> HIDE DEF less
  <2> QED
      BY <2>1, <2>2 DEF MemoryAttempt
<1> HIDE DEF next
<1>3. MemoryTyped' /\ NoneStarts
    BY <1>1, <1>2 DEF MemoryTyped, NoneStarts
<1> QED
    BY <1>3, NoneStartsKeeps

LEMMA MemoryOthers == ASSUME MemoryInv, attempt' = attempt PROVE MemoryInv'
BY DEF MemoryInv, MemoryTyped, OneActive

LEMMA MemoryInductive ==
    ASSUME MemoryInv, NEW bound, [Memory(bound)!Next]_(Memory(bound)!storeVars)
    PROVE  MemoryInv'
<1>1. ASSUME NEW b \in Builds, NEW r, NEW key, Memory(bound)!Submit(b, r, key)
      PROVE  MemoryInv'
    BY <1>1, MemoryOthers DEF Memory!Submit
<1>2. ASSUME NEW b \in Builds, NEW k \in Memory(bound)!Numbers, NEW t \in Tokens,
             Memory(bound)!Worker(b, k, t)
      PROVE  MemoryInv'
    BY <1>2, MemoryWords, MemoryWorker
<1>3. ASSUME NEW b \in Builds, NEW v, NEW k \in Memory(bound)!Numbers, NEW records,
             Memory(bound)!PublishSuccess(b, v, k, records)
      PROVE  MemoryInv'
    BY <1>3, MemoryWords, MemoryPublishes
<1>4. ASSUME NEW S, Memory(bound)!RecoverExpiredAttempts(S) PROVE MemoryInv'
    BY <1>4, MemoryRecovers
<1>5. ASSUME NEW b \in Builds, NEW row,
             \/ Memory(bound)!MarkOutboxDispatched(b, row)
             \/ Memory(bound)!DispatchOutbox(b, row)
      PROVE  MemoryInv'
    BY <1>5, MemoryOthers DEF Memory!MarkOutboxDispatched, Memory!DispatchOutbox
<1>6. ASSUME NEW b \in Builds, NEW v, NEW target,
             Memory(bound)!RequestCancel(b, v) \/ Memory(bound)!Transition(b, v, target)
      PROVE  MemoryInv'
    BY <1>6, MemoryOthers DEF Memory!RequestCancel, Memory!Transition
<1>7. CASE Memory(bound)!Tick
    BY <1>7, MemoryTicks
<1>8. CASE UNCHANGED Memory(bound)!storeVars
    BY <1>8, MemoryOthers DEF Memory!storeVars
<1> QED
    BY <1>1, <1>2, <1>3, <1>4, <1>5, <1>6, <1>7, <1>8 DEF Memory!Next

LEMMA MemoryInitially == ASSUME NEW bound, Memory(bound)!Init PROVE MemoryInv
<1> DEFINE none == [status |-> "none", token |-> NoToken, lease |-> 0]
<1>1. none \in MemoryAttempt /\ none.status \notin Active
    BY DEF MemoryAttempt, AttemptStatuses, Active
<1>2. attempt = [b \in Builds |-> [k \in Numbers |-> none]]
    BY MemoryWords DEF Memory!Init, Memory!NoAttempt
<1> HIDE DEF none
<1> QED
    BY <1>1, <1>2 DEF MemoryInv, MemoryTyped, OneActive

\* The in-memory store never holds two active attempts of one build, in
\* whatever order and with whatever tokens and versions its methods are called,
\* the tests' generic transitions included (state.py, lease_build and
\* register_running_attempt).
THEOREM AtMostOneActiveAttempt ==
    ASSUME NEW CONSTANT bound
    PROVE  Memory(bound)!Spec => []Memory(bound)!OneActiveAttempt
<1>1. Memory(bound)!Init => MemoryInv
    BY MemoryInitially
<1>2. MemoryInv /\ [Memory(bound)!Next]_(Memory(bound)!storeVars) => MemoryInv'
    BY MemoryInductive
<1>3. MemoryInv => Memory(bound)!OneActiveAttempt
    BY MemoryWords DEF MemoryInv
<1> QED
    BY <1>1, <1>2, <1>3, PTL DEF Memory!Spec

===============================================================================
