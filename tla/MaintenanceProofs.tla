-------------------------- MODULE MaintenanceProofs --------------------------
(***************************************************************************)
(* Proofs about Maintenance, for every set of builds, objects, deletion    *)
(* and discovery processes, and all periods with UrlTicks + StallTicks     *)
(* <= GraceTicks.                                                          *)
(***************************************************************************)
EXTENDS Maintenance, TLAPS

-------------------------------------------------------------------------------
(* The helpers return values of the right type. *)

LEMMA Bounds ==
    /\ KeepTicks \in Nat /\ GraceTicks \in Nat /\ UrlTicks \in Nat
    /\ StallTicks \in Nat /\ MaxFaults \in Nat /\ LeaseTicks \in Nat
    /\ UrlTicks + StallTicks <= GraceTicks
    /\ UrlTicks <= GraceTicks /\ StallTicks <= GraceTicks
<1>1. /\ KeepTicks \in Nat /\ GraceTicks \in Nat /\ UrlTicks \in Nat
      /\ StallTicks \in Nat /\ MaxFaults \in Nat /\ LeaseTicks \in Nat
    BY MaintenanceAssumption
<1> QED
    BY <1>1, MaintenanceAssumption

LEMMA OwnerType == ASSUME NEW v \in Versions PROVE Owner(v) \in Builds
BY DEF Versions, Owner

LEMMA OlderType ==
    ASSUME NEW limit \in Nat, NEW n \in 0 .. limit
    PROVE  Older(n, limit) \in 0 .. limit /\ Older(n, limit) \in {n, n + 1}
BY DEF Older

LEMMA SoonerType ==
    ASSUME NEW limit \in Nat, NEW n \in 0 .. limit
    PROVE  /\ Sooner(n) \in 0 .. limit
           /\ n > 0 => Sooner(n) = n - 1
           /\ n = 0 => Sooner(n) = 0
BY DEF Sooner

LEMMA NoRowType == NoRow \in Row /\ NoRow.status = "none"
BY Bounds DEF NoRow, Row, RowStatuses

LEMMA PendingType ==
    ASSUME NEW since \in 0 .. GraceTicks
    PROVE  /\ Pending(since) \in Row
           /\ Pending(since).status = "pending" /\ Pending(since).waited = since
<1>1. ASSUME NEW r \in Row
      PROVE  /\ [r EXCEPT !.status = "pending", !.waited = since] \in Row
             /\ [r EXCEPT !.status = "pending", !.waited = since].status = "pending"
             /\ [r EXCEPT !.status = "pending", !.waited = since].waited = since
    BY DEF Row, RowStatuses
<1> QED
    BY <1>1, NoRowType DEF Pending

LEMMA WithStatusType ==
    ASSUME NEW r \in Row, NEW st \in RowStatuses, NEW t \in Deleters \union {NoDeleter},
           NEW n \in 0 .. LeaseTicks
    PROVE  /\ [r EXCEPT !.status = st, !.token = t, !.lease = n] \in Row
           /\ [r EXCEPT !.status = st, !.token = t, !.lease = n].status = st
           /\ [r EXCEPT !.status = st, !.token = t, !.lease = n].waited = r.waited
BY DEF Row

Runs  == [pc : {"idle", "delete", "record"}, batch : SUBSET Versions,
          item : SUBSET Versions, outcome : {"deleted", "failed"}]
Scans == [pc : {"idle", "reconcile"}, seen : SUBSET Versions, since : 0 .. GraceTicks]

LEMMA IdleType == IdleRun \in Runs /\ IdleScan \in Scans
BY Bounds DEF IdleRun, IdleScan, Runs, Scans

LEMMA RecordingType ==
    ASSUME NEW l \in Runs, NEW v \in Versions, NEW outcome \in {"deleted", "failed"}
    PROVE  /\ Recording(l, v, outcome) \in Runs
           /\ Recording(l, v, outcome).pc = "record"
           /\ Recording(l, v, outcome).item = {v}
           /\ Recording(l, v, outcome).batch = l.batch
           /\ Recording(l, v, outcome).outcome = outcome
BY DEF Recording, Runs

LEMMA ProcessedType ==
    ASSUME NEW l \in Runs, NEW v \in Versions
    PROVE  /\ Processed(l, v) \in Runs
           /\ Processed(l, v).batch \subseteq l.batch
           /\ Processed(l, v).item = {} /\ Processed(l, v).pc # "record"
BY DEF Processed, IdleRun, Runs

-------------------------------------------------------------------------------
(* Type correctness. *)

LEMMA TypeInit == Init => TypeOK
BY NoRowType, IdleType, Bounds DEF Init, TypeOK, Runs, Scans

LEMMA TypeFault == ASSUME TypeOK, Fault PROVE faults' \in 0 .. MaxFaults
BY Bounds DEF TypeOK, Fault


LEMMA TypeRetain ==
    ASSUME TypeOK, NEW S \in SUBSET Builds, NEW since \in 0 .. StallTicks, Retain(S, since)
    PROVE  TypeOK'
<1>1. since \in 0 .. GraceTicks
    BY Bounds
<1>2. Pending(since) \in Row
    BY <1>1, PendingType
<1>3. row' \in [Versions -> Row]
    BY <1>2 DEF Retain, TypeOK
<1>4. status' \in [Builds -> {"active", "ended", "deleted"}] /\ referenced' \subseteq Versions
    BY DEF Retain, TypeOK
<1> QED
    BY <1>3, <1>4 DEF Retain, TypeOK, store

LEMMA TypeDiscovery ==
    ASSUME TypeOK, NEW s \in Scanners, Discovery(s)
    PROVE  TypeOK'
<1>1. scan[s] \in Scans
    BY DEF TypeOK, Scans
<1>2. CASE Inventory(s)
    <2> DEFINE l == [pc |-> "reconcile", since |-> 0,
                     seen |-> {v \in Versions : object[v] = "stored" /\ age[v] >= GraceTicks}]
    <2>1. l \in Scans
        BY Bounds DEF Scans
    <2>2. scan' = [scan EXCEPT ![s] = l]
        BY <1>2 DEF Inventory
    <2>3. scan' \in [Scanners -> Scans]
        BY <2>1, <2>2 DEF TypeOK, Scans
    <2> QED
        BY <1>2, <2>3 DEF Inventory, TypeOK, Scans, tables, store, rows
<1>3. CASE Reconcile(s)
    <2>1. Pending(scan[s].since) \in Row
        BY <1>1, PendingType DEF Scans
    <2>2. row' \in [Versions -> Row]
        BY <1>3, <2>1 DEF Reconcile, TypeOK
    <2>3. scan' \in [Scanners -> Scans]
        BY <1>3, IdleType DEF Reconcile, TypeOK, Scans
    <2> QED
        BY <1>3, <2>2, <2>3 DEF Reconcile, TypeOK, Scans, tables, store
<1> QED
    BY <1>2, <1>3 DEF Discovery

LEMMA TypeClaim ==
    ASSUME TypeOK, NEW d \in Deleters, NEW S \in SUBSET Versions, Claim(d, S)
    PROVE  TypeOK'
<1>1. \A v \in Versions : [row[v] EXCEPT !.status = "deleting", !.token = d,
                                         !.lease = LeaseTicks] \in Row
    <2>1. "deleting" \in RowStatuses /\ LeaseTicks \in 0 .. LeaseTicks
        BY Bounds DEF RowStatuses
    <2>2. \A v \in Versions : row[v] \in Row
        BY DEF TypeOK
    <2> QED
        BY <2>1, <2>2, WithStatusType
<1>2. row' \in [Versions -> Row]
    BY <1>1 DEF Claim, TypeOK
<1>3. [IdleRun EXCEPT !.pc = "delete", !.batch = S] \in Runs
    BY DEF IdleRun, Runs
<1>4. run' \in [Deleters -> Runs]
    BY <1>3 DEF Claim, TypeOK, Runs
<1> QED
    BY <1>2, <1>4 DEF Claim, TypeOK, Runs, tables, store

LEMMA TypeDeleteVersion ==
    ASSUME TypeOK, NEW d \in Deleters, NEW v \in Versions, DeleteVersion(d, v)
    PROVE  TypeOK'
<1>1. run[d] \in Runs
    BY DEF TypeOK, Runs
<1>2. Recording(run[d], v, "deleted") \in Runs /\ Recording(run[d], v, "failed") \in Runs
    BY <1>1, RecordingType
<1>3. run' \in [Deleters -> Runs]
    <2>1. \E l \in Runs : run' = [run EXCEPT ![d] = l]
        BY <1>2 DEF DeleteVersion
    <2> QED
        BY <2>1 DEF TypeOK, Runs
<1>4. object' \in [Versions -> {"none", "stored", "gone"}] /\ faults' \in 0 .. MaxFaults
    BY TypeFault DEF DeleteVersion, TypeOK
<1> QED
    BY <1>3, <1>4 DEF DeleteVersion, TypeOK, Runs, tables, rows

LEMMA TypeRecordAttempt ==
    ASSUME TypeOK, NEW d \in Deleters, NEW v \in Versions, RecordAttempt(d, v)
    PROVE  TypeOK'
<1>1. run[d] \in Runs
    BY DEF TypeOK, Runs
<1>2. Processed(run[d], v) \in Runs /\ IdleRun \in Runs
    BY <1>1, ProcessedType, IdleType
<1>3. run' \in [Deleters -> Runs]
    <2>1. \E l \in Runs : run' = [run EXCEPT ![d] = l]
        BY <1>2 DEF RecordAttempt
    <2> QED
        BY <2>1 DEF TypeOK, Runs
<1>4. [row[v] EXCEPT !.status = run[d].outcome, !.token = NoDeleter, !.lease = 0] \in Row
    <2>1. run[d].outcome \in RowStatuses /\ 0 \in 0 .. LeaseTicks
        BY <1>1, Bounds DEF RowStatuses, Runs
    <2>2. row[v] \in Row
        BY DEF TypeOK
    <2> QED
        BY <2>1, <2>2, WithStatusType
<1>5. row' \in [Versions -> Row]
    BY <1>4 DEF RecordAttempt, TypeOK, rows
<1>6. attempts' \in [Versions -> Seq({"deleted", "failed"})]
    <2>1. run[d].outcome \in {"deleted", "failed"}
        BY <1>1 DEF Runs
    <2>2. attempts[v] \in Seq({"deleted", "failed"})
        BY DEF TypeOK
    <2>3. Append(attempts[v], run[d].outcome) \in Seq({"deleted", "failed"})
        BY <2>1, <2>2
    <2> QED
        BY <2>3 DEF RecordAttempt, TypeOK, rows
<1>7. faults' \in 0 .. MaxFaults
    BY TypeFault DEF RecordAttempt, TypeOK
<1> QED
    BY <1>3, <1>5, <1>6, <1>7 DEF RecordAttempt, TypeOK, Runs, tables, store

LEMMA TypeDies == ASSUME TypeOK, Dies PROVE TypeOK'
<1>1. run \in [Deleters -> Runs] /\ scan \in [Scanners -> Scans]
    BY DEF TypeOK, Runs, Scans
<1>2. run' \in [Deleters -> Runs] /\ scan' \in [Scanners -> Scans]
    BY <1>1, IdleType DEF Dies
<1> QED
    BY <1>2, TypeFault DEF Dies, TypeOK, Runs, Scans, tables, store, rows

LEMMA TypeTick == ASSUME TypeOK, Tick PROVE TypeOK'
<1>1. ended' \in [Builds -> 0 .. (KeepTicks + StallTicks)]
    <2>1. KeepTicks + StallTicks \in Nat
        BY Bounds
    <2>2. \A b \in Builds : Older(ended[b], KeepTicks + StallTicks) \in 0 .. (KeepTicks + StallTicks)
        BY <2>1, OlderType DEF TypeOK
    <2>3. 0 \in 0 .. (KeepTicks + StallTicks)
        BY <2>1
    <2> QED
        BY <2>2, <2>3 DEF Tick
<1>2. age' \in [Versions -> 0 .. GraceTicks]
    <2>1. \A v \in Versions : Older(age[v], GraceTicks) \in 0 .. GraceTicks
        BY OlderType, Bounds DEF TypeOK
    <2>2. 0 \in 0 .. GraceTicks
        BY Bounds
    <2> QED
        BY <2>1, <2>2 DEF Tick
<1>3. url' \in [Versions -> 0 .. UrlTicks]
    BY SoonerType, Bounds DEF Tick, TypeOK
<1>4. ASSUME NEW v \in Versions
      PROVE  [row[v] EXCEPT !.waited = Older(@, GraceTicks), !.lease = Sooner(@)] \in Row
    <2>1. row[v] \in Row
        BY DEF TypeOK
    <2>2. Older(row[v].waited, GraceTicks) \in 0 .. GraceTicks
        BY <2>1, OlderType, Bounds DEF Row
    <2>3. Sooner(row[v].lease) \in 0 .. LeaseTicks
        BY <2>1, SoonerType, Bounds DEF Row
    <2> QED
        BY <2>1, <2>2, <2>3 DEF Row
<1>5. row' \in [Versions -> Row]
    BY <1>4 DEF Tick, TypeOK
<1>6. ASSUME NEW s \in Scanners
      PROVE  [scan[s] EXCEPT !.since = Older(@, GraceTicks)] \in Scans
    BY OlderType, Bounds DEF TypeOK, Scans
<1>7. scan' \in [Scanners -> Scans]
    BY <1>6 DEF Tick, TypeOK, Scans
<1> QED
    BY <1>1, <1>2, <1>3, <1>5, <1>7 DEF Tick, TypeOK, Scans

LEMMA TypeNext == TypeOK /\ [Next]_vars => TypeOK'
<1> SUFFICES ASSUME TypeOK, [Next]_vars PROVE TypeOK'
    OBVIOUS
<1>1. CASE \E v \in Versions : Upload(v) \/ SignUrl(v)
    <2>1. PICK v \in Versions : Upload(v) \/ SignUrl(v)
        BY <1>1
    <2>2. CASE Upload(v)
        BY <2>2, Bounds DEF TypeOK, Upload, tables, rows
    <2>3. CASE SignUrl(v)
        BY <2>3, Bounds DEF TypeOK, SignUrl, tables, rows
    <2> QED
        BY <2>1, <2>2, <2>3
<1>2. CASE \E b \in Builds : EndsUnpublished(b) \/ \E S \in SUBSET Versions : Publish(b, S)
    <2>1. PICK b \in Builds : EndsUnpublished(b) \/ \E S \in SUBSET Versions : Publish(b, S)
        BY <1>2
    <2>2. 0 \in 0 .. (KeepTicks + StallTicks)
        BY Bounds
    <2>3. CASE EndsUnpublished(b)
        BY <2>2, <2>3 DEF TypeOK, EndsUnpublished, store, rows
    <2>4. CASE \E S \in SUBSET Versions : Publish(b, S)
        BY <2>2, <2>4 DEF TypeOK, Publish, store, rows
    <2> QED
        BY <2>1, <2>3, <2>4
<1>3. CASE Retention
    BY <1>3, TypeRetain DEF Retention
<1>4. CASE \E s \in Scanners : Discovery(s)
    BY <1>4, TypeDiscovery
<1>5. CASE \E d \in Deleters : Deletion(d)
    BY <1>5, TypeClaim, TypeDeleteVersion, TypeRecordAttempt DEF Deletion
<1>6. CASE Dies
    BY <1>6, TypeDies
<1>7. CASE Tick
    BY <1>7, TypeTick
<1>8. CASE UNCHANGED vars
    BY <1>8 DEF vars, TypeOK
<1> QED
    BY <1>1, <1>2, <1>3, <1>4, <1>5, <1>6, <1>7, <1>8 DEF Next

\* Every table, object and process of the maintenance side stays well typed.
THEOREM MaintenanceTypeCorrect == Spec => []TypeOK
    BY TypeInit, TypeNext, PTL DEF Spec

-------------------------------------------------------------------------------
(* What a step does to one version.                                        *)

\* The parts of the state of v that a kind of step leaves alone.
SameUse(v)    == (v \in referenced') = (v \in referenced) /\ (Active(v)' => Active(v))
SameObject(v) == object'[v] = object[v]
SameUrl(v)    == url'[v] = url[v]
SameRow(v)    == row'[v] = row[v]
SameLog(v)    == attempts'[v] = attempts[v]

Unmoved(v) == SameUse(v) /\ SameObject(v) /\ SameUrl(v) /\ SameRow(v) /\ SameLog(v)

Uploaded(v) ==
    /\ object[v] = "none" /\ object'[v] = "stored"
    /\ SameUse(v) /\ SameUrl(v) /\ SameRow(v) /\ SameLog(v)

Published(v) ==
    /\ Active(v) /\ object[v] # "none"
    /\ v \in referenced' /\ ~Active(v)'
    /\ SameObject(v) /\ SameUrl(v) /\ SameRow(v) /\ SameLog(v)

Signed(v) ==
    /\ v \in referenced /\ url'[v] = UrlTicks
    /\ SameUse(v) /\ SameObject(v) /\ SameRow(v) /\ SameLog(v)

Retired(v) ==
    /\ v \in referenced /\ v \notin referenced' /\ ~Active(v)'
    /\ \/ row[v] # NoRow /\ SameRow(v)
       \/ \E since \in 0 .. StallTicks : row'[v] = Pending(since)
    /\ SameObject(v) /\ SameUrl(v) /\ SameLog(v)

Orphaned(v) ==
    /\ v \notin referenced /\ ~Active(v) /\ row[v] = NoRow
    /\ \E s \in Scanners : v \in scan[s].seen
    /\ \E since \in 0 .. GraceTicks : row'[v] = Pending(since)
    /\ SameUse(v) /\ SameObject(v) /\ SameUrl(v) /\ SameLog(v)

Claimed(v) ==
    /\ Eligible(v)
    /\ row'[v].status = "deleting"
    /\ SameUse(v) /\ SameObject(v) /\ SameUrl(v) /\ SameLog(v)

Removed(v) ==
    /\ \E d \in Deleters : v \in run[d].batch
    /\ object'[v] = "gone"
    /\ SameUse(v) /\ SameUrl(v) /\ SameRow(v) /\ SameLog(v)

Recorded(v) ==
    /\ row[v].status = "deleting"
    /\ \E d \in Deleters :
          /\ run[d].pc = "record" /\ run[d].item = {v}
          /\ row'[v].status = run[d].outcome
          /\ attempts'[v] = Append(attempts[v], run[d].outcome)
    /\ SameUse(v) /\ SameObject(v) /\ SameUrl(v)

Aged(v) ==
    /\ url'[v] = Sooner(url[v])
    /\ row'[v].status = row[v].status
    /\ row'[v].waited \in {row[v].waited, row[v].waited + 1}
    /\ row[v].status \in {"none", "deleted"} => SameRow(v)
    /\ SameUse(v) /\ SameObject(v) /\ SameLog(v)

VersionStep(v) ==
    \/ Unmoved(v) \/ Uploaded(v) \/ Published(v) \/ Signed(v) \/ Retired(v)
    \/ Orphaned(v) \/ Claimed(v) \/ Removed(v) \/ Recorded(v) \/ Aged(v)

LEMMA StepsOfWorkers ==
    ASSUME TypeOK, NEW v \in Versions, NEW u \in Versions, Upload(u) \/ SignUrl(u)
    PROVE  VersionStep(v)
<1> USE DEF SameUse, SameObject, SameUrl, SameRow, SameLog, Active
<1>1. CASE Upload(u) /\ v = u
    BY <1>1 DEF Upload, TypeOK, tables, rows, VersionStep, Uploaded
<1>2. CASE Upload(u) /\ v # u
    BY <1>2 DEF Upload, TypeOK, tables, rows, VersionStep, Unmoved
<1>3. CASE SignUrl(u) /\ v = u
    BY <1>3 DEF SignUrl, TypeOK, tables, rows, VersionStep, Signed
<1>4. CASE SignUrl(u) /\ v # u
    BY <1>4 DEF SignUrl, TypeOK, tables, rows, VersionStep, Unmoved
<1> QED
    BY <1>1, <1>2, <1>3, <1>4

LEMMA StepsOfEndings ==
    ASSUME TypeOK, NEW v \in Versions, NEW b \in Builds,
           EndsUnpublished(b) \/ \E S \in SUBSET Versions : Publish(b, S)
    PROVE  VersionStep(v)
<1> USE DEF SameUse, SameObject, SameUrl, SameRow, SameLog, Active
<1>1. Owner(v) \in Builds
    BY OwnerType
<1>2. CASE EndsUnpublished(b)
    BY <1>1, <1>2 DEF EndsUnpublished, TypeOK, store, rows, VersionStep, Unmoved
<1>3. CASE \E S \in SUBSET Versions : Publish(b, S)
    <2>1. PICK S \in SUBSET Versions : Publish(b, S)
        BY <1>3
    <2>2. CASE v \in S
        BY <1>1, <2>1, <2>2 DEF Publish, Publishable, TypeOK, store, rows, VersionStep, Published
    <2>3. CASE v \notin S
        BY <1>1, <2>1, <2>3 DEF Publish, TypeOK, store, rows, VersionStep, Unmoved
    <2> QED
        BY <2>2, <2>3
<1> QED
    BY <1>2, <1>3

LEMMA StepsOfRetention ==
    ASSUME TypeOK, NEW v \in Versions, NEW S \in SUBSET Builds, NEW since \in 0 .. StallTicks,
           Retain(S, since)
    PROVE  VersionStep(v)
<1> USE DEF SameUse, SameObject, SameUrl, SameRow, SameLog, Active
<1>1. Owner(v) \in Builds
    BY OwnerType
<1>2. CASE v \in referenced /\ Owner(v) \in S
    BY <1>1, <1>2 DEF Retain, TypeOK, store, VersionStep, Retired
<1>3. CASE ~(v \in referenced /\ Owner(v) \in S)
    BY <1>1, <1>3 DEF Retain, TypeOK, store, VersionStep, Unmoved
<1> QED
    BY <1>2, <1>3

LEMMA StepsOfDiscovery ==
    ASSUME TypeOK, NEW v \in Versions, NEW s \in Scanners, Discovery(s)
    PROVE  VersionStep(v)
<1> USE DEF SameUse, SameObject, SameUrl, SameRow, SameLog, Active
<1>1. CASE Inventory(s)
    BY <1>1 DEF Inventory, tables, store, rows, VersionStep, Unmoved
<1>2. CASE Reconcile(s)
    <2>1. scan[s].since \in 0 .. GraceTicks
        BY DEF TypeOK
    <2>2. PICK S \in SUBSET {u \in scan[s].seen : Orphan(u)} :
              row' = IF \E u \in S : row[u] # NoRow THEN row
                     ELSE [u \in Versions |-> IF u \in S THEN Pending(scan[s].since)
                                              ELSE row[u]]
        BY <1>2 DEF Reconcile
    <2>3. CASE \E u \in S : row[u] # NoRow
        BY <1>2, <2>2, <2>3 DEF Reconcile, tables, store, VersionStep, Unmoved
    <2>4. CASE ~(\E u \in S : row[u] # NoRow) /\ v \in S
        <3>1. /\ row[v] = NoRow /\ Orphan(v) /\ v \in scan[s].seen
              /\ row'[v] = Pending(scan[s].since)
            BY <2>2, <2>4
        <3> QED
            BY <1>2, <2>1, <3>1 DEF Reconcile, Orphan, tables, store, VersionStep, Orphaned
    <2>5. CASE ~(\E u \in S : row[u] # NoRow) /\ v \notin S
        BY <1>2, <2>2, <2>5 DEF Reconcile, tables, store, VersionStep, Unmoved
    <2> QED
        BY <2>3, <2>4, <2>5
<1> QED
    BY <1>1, <1>2 DEF Discovery

LEMMA StepsOfDeletion ==
    ASSUME TypeOK, NEW v \in Versions, NEW d \in Deleters, Deletion(d)
    PROVE  VersionStep(v)
<1> USE DEF SameUse, SameObject, SameUrl, SameRow, SameLog, Active
<1>1. ASSUME NEW S \in SUBSET Versions, Claim(d, S) PROVE VersionStep(v)
    <2>1. CASE v \in S
        <3>1. Eligible(v)
            BY <1>1, <2>1 DEF Claim, Batch
        <3>2. row'[v] = [row[v] EXCEPT !.status = "deleting", !.token = d, !.lease = LeaseTicks]
            BY <1>1, <2>1 DEF Claim
        <3>3. row'[v].status = "deleting"
            BY <3>2 DEF TypeOK, Row
        <3> QED
            BY <1>1, <3>1, <3>3 DEF Claim, tables, store, VersionStep, Claimed
    <2>2. CASE v \notin S
        BY <1>1, <2>2 DEF Claim, tables, store, VersionStep, Unmoved
    <2> QED
        BY <2>1, <2>2
<1>2. ASSUME NEW u \in Versions, DeleteVersion(d, u) PROVE VersionStep(v)
    <2>1. CASE v = u /\ object' = [object EXCEPT ![u] = "gone"]
        BY <1>2, <2>1 DEF DeleteVersion, TypeOK, tables, rows, VersionStep, Removed
    <2>2. CASE v # u \/ UNCHANGED object
        BY <1>2, <2>2 DEF DeleteVersion, TypeOK, tables, rows, VersionStep, Unmoved
    <2> QED
        BY <1>2, <2>1, <2>2 DEF DeleteVersion
<1>3. ASSUME NEW u \in Versions, RecordAttempt(d, u) PROVE VersionStep(v)
    <2>1. CASE ClaimHeld(d, u) /\ v = u
        <3>1. attempts'[v] = Append(attempts[v], run[d].outcome)
            BY <1>3, <2>1 DEF RecordAttempt, TypeOK
        <3>2. row'[v] = [row[v] EXCEPT !.status = run[d].outcome, !.token = NoDeleter, !.lease = 0]
            BY <1>3, <2>1 DEF RecordAttempt, TypeOK
        <3>3. row'[v].status = run[d].outcome
            BY <3>2 DEF TypeOK, Row
        <3>4. row[v].status = "deleting" /\ run[d].pc = "record" /\ run[d].item = {v}
            BY <1>3, <2>1 DEF RecordAttempt, ClaimHeld
        <3> QED
            BY <1>3, <3>1, <3>3, <3>4 DEF RecordAttempt, tables, store, VersionStep, Recorded
    <2>2. CASE ~(ClaimHeld(d, u) /\ v = u)
        BY <1>3, <2>2 DEF RecordAttempt, TypeOK, tables, store, rows, VersionStep, Unmoved
    <2> QED
        BY <2>1, <2>2
<1> QED
    BY <1>1, <1>2, <1>3 DEF Deletion

LEMMA StepsOfTime ==
    ASSUME TypeOK, NEW v \in Versions, Tick
    PROVE  VersionStep(v)
<1>1. row[v] \in Row
    BY DEF TypeOK
<1>2. url'[v] = Sooner(url[v]) /\ SameUse(v) /\ SameObject(v) /\ SameLog(v)
    BY DEF Tick, SameUse, SameObject, SameLog, Active
<1>3. CASE row[v].status \in {"none", "deleted"}
    BY <1>2, <1>3 DEF Tick, SameRow, VersionStep, Aged
<1>4. CASE row[v].status \notin {"none", "deleted"}
    <2>1. row'[v] = [row[v] EXCEPT !.waited = Older(@, GraceTicks), !.lease = Sooner(@)]
        BY <1>4 DEF Tick
    <2>2. row'[v].status = row[v].status /\ row'[v].waited = Older(row[v].waited, GraceTicks)
        BY <1>1, <2>1 DEF Row
    <2>3. row[v].waited \in 0 .. GraceTicks
        BY <1>1 DEF Row
    <2>4. row'[v].waited \in {row[v].waited, row[v].waited + 1}
        BY <2>2, <2>3, OlderType, Bounds
    <2> QED
        BY <1>2, <1>4, <2>2, <2>4 DEF VersionStep, Aged
<1> QED
    BY <1>3, <1>4

LEMMA VersionSteps ==
    ASSUME TypeOK, [Next]_vars, NEW v \in Versions
    PROVE  VersionStep(v)
<1>1. CASE Dies \/ UNCHANGED vars
    BY <1>1 DEF Dies, vars, tables, store, rows, VersionStep, Unmoved,
                SameUse, SameObject, SameUrl, SameRow, SameLog, Active
<1> QED
    BY <1>1, StepsOfWorkers, StepsOfEndings, StepsOfRetention, StepsOfDiscovery,
       StepsOfDeletion, StepsOfTime DEF Next, Retention

-------------------------------------------------------------------------------
(* The inductive invariant: what holds of a version.                       *)

\* Nothing may happen to a queued version but its deletion.
Released(v) == row[v].status # "none" => v \notin referenced /\ ~Active(v)
Unqueued(v) == row[v].status = "none" => row[v] = NoRow

\* Only stored versions are queued, and only queued ones are removed.
QueuedExists(v) == row[v].status # "none" => object[v] # "none"
GoneIsQueued(v) == object[v] = "gone" => row[v].status # "none"
Stored(v)       == v \in referenced => object[v] = "stored"

\* A valid URL either is of a published version or expires before the version
\* can be claimed.
Serves(v) ==
    url[v] > 0 =>
        /\ object[v] = "stored"
        /\ v \in referenced \/ (row[v].status = "pending" /\ url[v] + row[v].waited <= GraceTicks)

Logged(v) ==
    /\ row[v].status = "deleted" => object[v] = "gone"
    /\ \A i \in 1 .. Len(attempts[v]) :
          attempts[v][i] = "deleted" <=> (i = Len(attempts[v]) /\ row[v].status = "deleted")

VersionInv(v) ==
    /\ Released(v) /\ Unqueued(v) /\ QueuedExists(v) /\ GoneIsQueued(v)
    /\ Stored(v) /\ Serves(v) /\ Logged(v)

\* ... and of a deletion run: the versions it works on are queued and have no
\* valid URL, whether its claim still holds or not, and it reports the truth.
Handled(v) == row[v].status # "none" /\ url[v] = 0

RunInv(d) ==
    /\ \A v \in run[d].batch \union run[d].item : Handled(v)
    /\ run[d].pc = "record" /\ run[d].outcome = "deleted" =>
          \A v \in run[d].item : object[v] = "gone"

\* An inventory lists versions that were stored.
ScanInv(s) == \A v \in scan[s].seen : object[v] # "none"

MInv ==
    /\ TypeOK
    /\ \A v \in Versions : VersionInv(v)
    /\ \A d \in Deleters : RunInv(d)
    /\ \A s \in Scanners : ScanInv(s)

LEMMA MInvInit == Init => MInv
<1> SUFFICES ASSUME Init PROVE MInv
    OBVIOUS
<1>1. TypeOK
    BY TypeInit
<1>2. \A v \in Versions : VersionInv(v)
    BY NoRowType DEF Init, VersionInv, Released, Unqueued, QueuedExists, GoneIsQueued, Stored, Serves, Logged
<1>3. \A d \in Deleters : RunInv(d)
    BY DEF Init, RunInv, IdleRun
<1>4. \A s \in Scanners : ScanInv(s)
    BY DEF Init, ScanInv, IdleScan
<1> QED
    BY <1>1, <1>2, <1>3, <1>4 DEF MInv

\* A valid URL keeps its version from being claimed.
LEMMA EligibleIsHandled ==
    ASSUME TypeOK, NEW v \in Versions, VersionInv(v), Eligible(v)
    PROVE  Handled(v)
<1>1. row[v] \in Row /\ url[v] \in Nat /\ GraceTicks \in Nat
    BY Bounds DEF TypeOK
<1>2. row[v].waited \in Nat
    BY <1>1 DEF Row
<1> QED
    BY <1>1, <1>2 DEF VersionInv, Serves, Eligible, Handled

\* The versions of a run stay as they are, except that they may be removed.
LEMMA HandledStays ==
    ASSUME TypeOK, NEW v \in Versions, VersionInv(v), Handled(v), VersionStep(v)
    PROVE  Handled(v)' /\ (object[v] = "gone" => object'[v] = "gone")
<1> USE DEF SameUse, SameObject, SameUrl, SameRow, SameLog, Active
<1>1. row[v].status # "none" /\ url[v] = 0 /\ v \notin referenced /\ ~Active(v)
    BY DEF Handled, VersionInv, Released
<1>2. row[v] # NoRow
    BY <1>1, NoRowType
<1>3. CASE Unmoved(v) \/ Uploaded(v) \/ Claimed(v) \/ Removed(v)
    BY <1>1, <1>3 DEF Handled, Unmoved, Uploaded, Claimed, Removed
<1>4. ~Published(v) /\ ~Signed(v) /\ ~Retired(v) /\ ~Orphaned(v)
    BY <1>1, <1>2 DEF Published, Signed, Retired, Orphaned
<1>5. CASE Recorded(v)
    <2>1. row'[v].status \in {"deleted", "failed"}
        BY <1>5 DEF Recorded, TypeOK
    <2> QED
        BY <1>1, <1>5, <2>1 DEF Handled, Recorded
<1>6. CASE Aged(v)
    BY <1>1, <1>6 DEF Handled, Aged, Sooner
<1> QED
    BY <1>3, <1>4, <1>5, <1>6 DEF VersionStep

-------------------------------------------------------------------------------
(* Every kind of step keeps the invariant of a version.                    *)

LEMMA LogOfUnchanged ==
    ASSUME NEW v \in Versions, Logged(v), SameLog(v),
           object[v] = "gone" => object'[v] = "gone",
           (row'[v].status = "deleted") = (row[v].status = "deleted")
    PROVE  Logged(v)'
BY DEF Logged, SameLog

LEMMA KeptByUse ==
    ASSUME TypeOK, NEW v \in Versions, VersionInv(v), Unmoved(v) \/ Uploaded(v) \/ Published(v)
    PROVE  VersionInv(v)'
<1> USE DEF SameUse, SameObject, SameUrl, SameRow, SameLog, Active
<1>1. /\ Released(v) /\ Unqueued(v) /\ QueuedExists(v) /\ GoneIsQueued(v)
      /\ Stored(v) /\ Serves(v) /\ Logged(v)
    BY DEF VersionInv
<1>2. Logged(v)'
    BY <1>1, LogOfUnchanged DEF Unmoved, Uploaded, Published
<1>3. object[v] \in {"none", "stored", "gone"}
    BY DEF TypeOK
<1>4. CASE Unmoved(v)
    BY <1>1, <1>2, <1>4
       DEF Unmoved, VersionInv, Released, Unqueued, QueuedExists, GoneIsQueued, Stored, Serves
<1>5. CASE Uploaded(v)
    BY <1>1, <1>2, <1>5
       DEF Uploaded, VersionInv, Released, Unqueued, QueuedExists, GoneIsQueued, Stored, Serves
<1>6. CASE Published(v)
    BY <1>1, <1>2, <1>3, <1>6
       DEF Published, VersionInv, Released, Unqueued, QueuedExists, GoneIsQueued, Stored, Serves
<1> QED
    BY <1>4, <1>5, <1>6

LEMMA KeptBySigning ==
    ASSUME TypeOK, NEW v \in Versions, VersionInv(v), Signed(v)
    PROVE  VersionInv(v)'
<1>1. Logged(v)'
    BY LogOfUnchanged DEF VersionInv, Signed, SameObject, SameRow
<1> QED
    BY <1>1 DEF Signed, VersionInv, Released, Unqueued, QueuedExists, GoneIsQueued, Stored, Serves,
                SameUse, SameObject, SameRow, Active

\* The version is queued with a grace period that outlasts its last URL.
LEMMA KeptByRetiring ==
    ASSUME TypeOK, NEW v \in Versions, VersionInv(v), Retired(v)
    PROVE  VersionInv(v)'
<1>1. row[v] = NoRow /\ row[v].status = "none" /\ object[v] = "stored"
    BY DEF VersionInv, Retired, Released, Unqueued, Stored
<1>2. PICK since \in 0 .. StallTicks : row'[v] = Pending(since)
    BY <1>1 DEF Retired
<1>3. since \in 0 .. GraceTicks /\ url[v] \in 0 .. UrlTicks
    BY Bounds DEF TypeOK
<1>4. row'[v].status = "pending" /\ row'[v].waited = since
    BY <1>2, <1>3, PendingType
<1>5. url[v] + since <= GraceTicks
    BY <1>3, Bounds
<1>6. Logged(v)'
    BY <1>1, <1>4, LogOfUnchanged DEF VersionInv, Retired, SameObject
<1> QED
    BY <1>1, <1>4, <1>5, <1>6
       DEF Retired, VersionInv, Released, Unqueued, QueuedExists, GoneIsQueued, Stored, Serves,
           SameObject, SameUrl, Active

\* A version that nobody refers to has no valid URL when it is found.
LEMMA KeptByOrphaning ==
    ASSUME TypeOK, NEW v \in Versions, VersionInv(v), Orphaned(v), \A s \in Scanners : ScanInv(s)
    PROVE  VersionInv(v)'
<1>1. row[v].status = "none" /\ ~(url[v] > 0) /\ object[v] \notin {"none", "gone"}
    BY NoRowType DEF Orphaned, VersionInv, Serves, GoneIsQueued, ScanInv
<1>2. row'[v].status = "pending"
    BY PendingType DEF Orphaned
<1>3. Logged(v)'
    BY <1>1, <1>2, LogOfUnchanged DEF VersionInv, Orphaned, SameObject
<1> QED
    BY <1>1, <1>2, <1>3
       DEF Orphaned, VersionInv, Released, Unqueued, QueuedExists, GoneIsQueued, Stored, Serves,
           SameUse, SameObject, SameUrl, Active

LEMMA KeptByClaiming ==
    ASSUME TypeOK, NEW v \in Versions, VersionInv(v), Claimed(v)
    PROVE  VersionInv(v)'
<1>1. url[v] = 0
    BY EligibleIsHandled DEF Claimed, Handled
<1>2. row[v].status \in {"pending", "failed", "deleting"} /\ v \notin referenced /\ ~Active(v)
    BY DEF Claimed, Eligible
<1>3. Logged(v)'
    BY <1>2, LogOfUnchanged DEF VersionInv, Claimed, SameObject
<1> QED
    BY <1>1, <1>2, <1>3
       DEF Claimed, VersionInv, Released, Unqueued, QueuedExists, GoneIsQueued, Stored, Serves,
           SameUse, SameObject, SameUrl, Active

LEMMA KeptByRemoving ==
    ASSUME TypeOK, NEW v \in Versions, VersionInv(v), Removed(v), \A d \in Deleters : RunInv(d)
    PROVE  VersionInv(v)'
<1>1. row[v].status # "none" /\ url[v] = 0
    BY DEF Removed, RunInv, Handled
<1>2. Logged(v)'
    BY LogOfUnchanged DEF VersionInv, Removed, SameRow
<1> QED
    BY <1>1, <1>2
       DEF Removed, VersionInv, Released, Unqueued, QueuedExists, GoneIsQueued, Stored, Serves,
           SameUse, SameUrl, SameRow, Active

LEMMA KeptByRecording ==
    ASSUME TypeOK, NEW v \in Versions, VersionInv(v), Recorded(v), \A d \in Deleters : RunInv(d)
    PROVE  VersionInv(v)'
<1>1. PICK d \in Deleters : /\ run[d].pc = "record" /\ run[d].item = {v}
                            /\ row'[v].status = run[d].outcome
                            /\ attempts'[v] = Append(attempts[v], run[d].outcome)
    BY DEF Recorded
<1>2. run[d].outcome \in {"deleted", "failed"} /\ attempts[v] \in Seq({"deleted", "failed"})
    BY DEF TypeOK
<1>3. Handled(v) /\ (run[d].outcome = "deleted" => object[v] = "gone")
    BY <1>1 DEF RunInv
<1>4. \A i \in 1 .. Len(attempts[v]) : attempts[v][i] # "deleted"
    BY DEF VersionInv, Logged, Recorded
<1>5. Logged(v)'
    <2>1. Len(attempts'[v]) = Len(attempts[v]) + 1 /\ Len(attempts[v]) \in Nat
        BY <1>1, <1>2
    <2>2. ASSUME NEW i \in 1 .. Len(attempts'[v])
          PROVE  attempts'[v][i] = "deleted" <=>
                     (i = Len(attempts'[v]) /\ row'[v].status = "deleted")
        <3>1. CASE i = Len(attempts'[v])
            <4>1. attempts'[v][i] = run[d].outcome
                BY <1>1, <1>2, <2>1, <3>1
            <4> QED
                BY <1>1, <3>1, <4>1
        <3>2. CASE i # Len(attempts'[v])
            <4>1. i \in 1 .. Len(attempts[v])
                BY <2>1, <3>2
            <4>2. attempts'[v][i] = attempts[v][i]
                BY <1>1, <1>2, <2>1, <4>1
            <4> QED
                BY <1>4, <3>2, <4>1, <4>2
        <3> QED
            BY <3>1, <3>2
    <2>3. row'[v].status = "deleted" => object'[v] = "gone"
        BY <1>1, <1>3 DEF Recorded, SameObject
    <2> QED
        BY <2>2, <2>3 DEF Logged
<1> QED
    BY <1>1, <1>2, <1>3, <1>5
       DEF Recorded, Handled, VersionInv, Released, Unqueued, QueuedExists, GoneIsQueued, Stored, Serves,
           SameUse, SameObject, SameUrl, Active

\* The URL comes closer to its end at least as fast as the row to its claim.
LEMMA KeptByTime ==
    ASSUME TypeOK, NEW v \in Versions, VersionInv(v), Aged(v)
    PROVE  VersionInv(v)'
<1> USE DEF SameUse, SameObject, SameRow, Active
<1>1. Logged(v)'
    BY LogOfUnchanged DEF VersionInv, Aged
<1>2. Released(v)' /\ Unqueued(v)' /\ QueuedExists(v)' /\ GoneIsQueued(v)' /\ Stored(v)'
    BY DEF Aged, VersionInv, Released, Unqueued, QueuedExists, GoneIsQueued, Stored
<1>3. Serves(v)'
    <2>1. url[v] \in Nat /\ row[v].waited \in Nat /\ GraceTicks \in Nat
        BY Bounds DEF TypeOK, Row
    <2>2. SUFFICES ASSUME url'[v] > 0
                   PROVE  /\ object'[v] = "stored"
                          /\ \/ v \in referenced'
                             \/ /\ row'[v].status = "pending"
                                /\ url'[v] + row'[v].waited <= GraceTicks
        BY DEF Serves
    <2>3. url[v] > 0 /\ url'[v] = url[v] - 1
        BY <2>1, <2>2 DEF Aged, Sooner
    <2>4. object[v] = "stored"
        BY <2>3 DEF VersionInv, Serves
    <2>5. v \in referenced \/ (row[v].status = "pending" /\ url[v] + row[v].waited <= GraceTicks)
        BY <2>3 DEF VersionInv, Serves
    <2>6. row'[v].status = row[v].status /\ url'[v] + row'[v].waited <= url[v] + row[v].waited
        BY <2>1, <2>3 DEF Aged
    <2>7. row'[v].waited \in Nat
        BY <2>1 DEF Aged
    <2> QED
        BY <2>1, <2>3, <2>4, <2>5, <2>6, <2>7 DEF Aged
<1> QED
    BY <1>1, <1>2, <1>3 DEF VersionInv

LEMMA VersionInvKept ==
    ASSUME MInv, [Next]_vars, NEW v \in Versions
    PROVE  VersionInv(v)'
<1>1. /\ TypeOK /\ VersionInv(v)
      /\ \A d \in Deleters : RunInv(d)
      /\ \A s \in Scanners : ScanInv(s)
    BY DEF MInv
<1>2. VersionStep(v)
    BY <1>1, VersionSteps
<1> QED
    BY <1>1, <1>2, KeptByUse, KeptBySigning, KeptByRetiring, KeptByOrphaning, KeptByClaiming,
       KeptByRemoving, KeptByRecording, KeptByTime DEF VersionStep

-------------------------------------------------------------------------------
(* Every step keeps the invariant of a run.                                *)

\* The run goes on with versions it already had, or has no version at all.
Continues(d) ==
    /\ run'[d].batch \union run'[d].item \subseteq run[d].batch \union run[d].item
    /\ run'[d].pc = "record" /\ run'[d].outcome = "deleted" =>
          \A v \in run'[d].item :
              object'[v] = "gone" \/ (run[d].pc = "record" /\ run[d].outcome = "deleted"
                                      /\ v \in run[d].item)

LEMMA RunContinues ==
    ASSUME MInv, [Next]_vars, NEW d \in Deleters, Continues(d)
    PROVE  RunInv(d)'
<1>1. RunInv(d) /\ TypeOK /\ run[d].batch \union run[d].item \subseteq Versions
    BY DEF MInv, TypeOK
<1>2. ASSUME NEW v \in run[d].batch \union run[d].item
      PROVE  Handled(v)' /\ (object[v] = "gone" => object'[v] = "gone")
    <2>1. v \in Versions /\ VersionInv(v) /\ Handled(v)
        BY <1>1 DEF MInv, RunInv
    <2> QED
        BY <1>1, <2>1, VersionSteps, HandledStays
<1>3. \A v \in run'[d].batch \union run'[d].item : Handled(v)'
    BY <1>2 DEF Continues
<1>4. run'[d].pc = "record" /\ run'[d].outcome = "deleted" =>
          \A v \in run'[d].item : object'[v] = "gone"
    BY <1>1, <1>2 DEF Continues, RunInv
<1> QED
    BY <1>3, <1>4 DEF RunInv

LEMMA IdleContinues ==
    ASSUME NEW d \in Deleters, run'[d] = run[d] \/ run'[d] = IdleRun
    PROVE  Continues(d)
BY DEF Continues, IdleRun

LEMMA RunOfClaim ==
    ASSUME MInv, [Next]_vars, NEW d \in Deleters, NEW S \in SUBSET Versions, Claim(d, S)
    PROVE  RunInv(d)'
<1>1. run'[d].batch = S /\ run'[d].item = {} /\ run'[d].pc = "delete"
    BY DEF Claim, MInv, TypeOK, IdleRun
<1>2. ASSUME NEW v \in S PROVE Handled(v)'
    <2>1. v \in Versions /\ Eligible(v) /\ VersionInv(v) /\ TypeOK
        BY DEF Claim, Batch, MInv
    <2> QED
        BY <2>1, EligibleIsHandled, VersionSteps, HandledStays
<1> QED
    BY <1>1, <1>2 DEF RunInv

LEMMA DeleteVersionContinues ==
    ASSUME TypeOK, NEW d \in Deleters, NEW v \in Versions, DeleteVersion(d, v)
    PROVE  Continues(d)
<1>1. run[d] \in Runs
    BY DEF TypeOK, Runs
<1>2. CASE object' = [object EXCEPT ![v] = "gone"] /\ run'[d] = Recording(run[d], v, "deleted")
    <2>1. object'[v] = "gone"
        BY <1>2 DEF TypeOK
    <2>2. run'[d].item = {v} /\ run'[d].batch = run[d].batch
        BY <1>1, <1>2, RecordingType
    <2>3. v \in run[d].batch
        BY DEF DeleteVersion
    <2> QED
        BY <2>1, <2>2, <2>3 DEF Continues
<1>3. CASE run'[d] = Recording(run[d], v, "failed")
    <2>1. /\ run'[d].item = {v} /\ run'[d].batch = run[d].batch
          /\ run'[d].outcome = "failed"
        BY <1>1, <1>3, RecordingType
    <2>2. v \in run[d].batch
        BY DEF DeleteVersion
    <2> QED
        BY <2>1, <2>2 DEF Continues
<1> QED
    BY <1>2, <1>3 DEF DeleteVersion, TypeOK

LEMMA RecordAttemptContinues ==
    ASSUME TypeOK, NEW d \in Deleters, NEW v \in Versions, RecordAttempt(d, v)
    PROVE  Continues(d)
<1>1. run[d] \in Runs
    BY DEF TypeOK, Runs
<1>2. CASE run'[d] = Processed(run[d], v)
    BY <1>1, <1>2, ProcessedType DEF Continues
<1>3. CASE run'[d] = IdleRun
    BY <1>3, IdleContinues
<1> QED
    BY <1>2, <1>3 DEF RecordAttempt, TypeOK

LEMMA RunInvKept ==
    ASSUME MInv, [Next]_vars, NEW d \in Deleters
    PROVE  RunInv(d)'
<1>1. TypeOK
    BY DEF MInv
<1>2. CASE run'[d] = run[d] \/ run'[d] = IdleRun
    BY <1>2, IdleContinues, RunContinues
<1>3. CASE \E e \in Deleters : Deletion(e)
    <2>1. PICK e \in Deleters : Deletion(e)
        BY <1>3
    <2>2. CASE e # d
        <3>1. \E l : run' = [run EXCEPT ![e] = l]
            BY <2>1 DEF Deletion, Claim, DeleteVersion, RecordAttempt
        <3>2. run'[d] = run[d]
            BY <1>1, <2>2, <3>1 DEF TypeOK
        <3> QED
            BY <3>2, <1>2
    <2>3. CASE e = d
        <3>1. ASSUME NEW S \in SUBSET Versions, Claim(d, S) PROVE RunInv(d)'
            BY <3>1, RunOfClaim
        <3>2. ASSUME NEW v \in Versions, DeleteVersion(d, v) \/ RecordAttempt(d, v)
              PROVE  RunInv(d)'
            BY <1>1, <3>2, DeleteVersionContinues, RecordAttemptContinues, RunContinues
        <3> QED
            BY <2>1, <2>3, <3>1, <3>2 DEF Deletion
    <2> QED
        BY <2>2, <2>3
<1>4. CASE Dies
    <2>1. run'[d] = run[d] \/ run'[d] = IdleRun
        BY <1>1, <1>4 DEF Dies, TypeOK
    <2> QED
        BY <2>1, <1>2
<1>5. CASE UNCHANGED run
    BY <1>2, <1>5
<1>6. (\E e \in Deleters : Deletion(e)) \/ Dies \/ UNCHANGED run
    BY DEF Next, Upload, SignUrl, EndsUnpublished, Publish, Retention, Retain, Discovery,
           Inventory, Reconcile, Tick, vars
<1> QED
    BY <1>3, <1>4, <1>5, <1>6

LEMMA StoredStays ==
    ASSUME TypeOK, [Next]_vars, NEW v \in Versions, object[v] # "none"
    PROVE  object'[v] # "none"
BY VersionSteps
   DEF VersionStep, Unmoved, Uploaded, Published, Signed, Retired, Orphaned, Claimed, Removed,
       Recorded, Aged, SameObject

LEMMA ScanInvKept ==
    ASSUME MInv, [Next]_vars, NEW s \in Scanners
    PROVE  ScanInv(s)'
<1>1. TypeOK /\ ScanInv(s) /\ scan[s].seen \subseteq Versions
    BY DEF MInv, TypeOK
<1>2. CASE Inventory(s)
    BY <1>1, <1>2 DEF Inventory, ScanInv, TypeOK, store
<1>3. CASE \E e \in Scanners : Discovery(e) /\ ~Inventory(s)
    <2>1. scan'[s].seen \subseteq scan[s].seen /\ object' = object
        BY <1>1, <1>3 DEF Discovery, Inventory, Reconcile, TypeOK, IdleScan, store
    <2> QED
        BY <1>1, <2>1 DEF ScanInv
<1>4. CASE Dies
    <2>1. (scan'[s] = scan[s] \/ scan'[s] = IdleScan) /\ object' = object
        BY <1>4 DEF Dies, MInv, TypeOK, store
    <2> QED
        BY <1>1, <2>1 DEF ScanInv, IdleScan
<1>5. CASE Tick
    <2>1. scan'[s].seen = scan[s].seen /\ object' = object
        BY <1>1, <1>5 DEF Tick, TypeOK
    <2> QED
        BY <1>1, <2>1 DEF ScanInv
<1>6. CASE UNCHANGED scan
    BY <1>1, <1>6, StoredStays DEF ScanInv
<1>7. (\E e \in Scanners : Discovery(e)) \/ Dies \/ Tick \/ UNCHANGED scan
    BY DEF Next, Upload, SignUrl, EndsUnpublished, Publish, Retention, Retain, Deletion, Claim,
           DeleteVersion, RecordAttempt, vars
<1> QED
    BY <1>2, <1>3, <1>4, <1>5, <1>6, <1>7

LEMMA MInvNext == MInv /\ [Next]_vars => MInv'
<1> SUFFICES ASSUME MInv, [Next]_vars PROVE MInv'
    OBVIOUS
<1>1. TypeOK'
    BY TypeNext DEF MInv
<1>2. \A v \in Versions : VersionInv(v)'
    BY VersionInvKept
<1>3. \A d \in Deleters : RunInv(d)'
    BY RunInvKept
<1>4. \A s \in Scanners : ScanInv(s)'
    BY ScanInvKept
<1> QED
    BY <1>1, <1>2, <1>3, <1>4 DEF MInv

LEMMA MInvAlways == Spec => []MInv
    BY MInvInit, MInvNext, PTL DEF Spec

-------------------------------------------------------------------------------
(* The theorems. *)

\* No artifact row ever points to a missing object: publication, retention,
\* orphan discovery and deletion may interleave in any way.
THEOREM ReferencedIsStoredAlways == Spec => []ReferencedIsStored
<1>1. MInv => ReferencedIsStored
    BY DEF MInv, TypeOK, VersionInv, Stored, ReferencedIsStored
<1> QED
    BY <1>1, MInvAlways, PTL

\* A queued version has no artifact row and no build that could publish it.
THEOREM QueuedIsReleasedAlways == Spec => []QueuedIsReleased
<1>1. MInv => QueuedIsReleased
    BY DEF MInv, VersionInv, Released, QueuedIsReleased
<1> QED
    BY <1>1, MInvAlways, PTL

\* A signed URL serves its object until it expires: the grace period of the
\* queue outlasts it, however slowly the retention run committed.
THEOREM UrlServesAlways == Spec => []UrlServes
<1>1. MInv => UrlServes
    BY DEF MInv, VersionInv, Serves, UrlServes
<1> QED
    BY <1>1, MInvAlways, PTL

\* What the queue and its history say of a deleted version is true.
THEOREM DeletedIsGoneAlways == Spec => []DeletedIsGone
<1>1. MInv => DeletedIsGone
    BY DEF MInv, VersionInv, Logged, DeletedIsGone
<1> QED
    BY <1>1, MInvAlways, PTL

\* No late run changes a row or a history once the deletion is recorded.
THEOREM DeletedIsFinalAlways == Spec => DeletedIsFinal
<1>1. ASSUME MInv, [Next]_vars, NEW v \in Versions, row[v].status = "deleted"
      PROVE  row'[v] = row[v] /\ attempts'[v] = attempts[v]
    <2>1. VersionStep(v) /\ VersionInv(v)
        BY <1>1, VersionSteps DEF MInv
    <2>2. v \notin referenced /\ row[v] # NoRow
        BY <1>1, <2>1, NoRowType DEF VersionInv, Released
    <2> QED
        BY <1>1, <2>1, <2>2
           DEF VersionStep, Unmoved, Uploaded, Published, Signed, Retired, Orphaned, Claimed,
               Eligible, Removed, Recorded, Aged, SameRow, SameLog
<1>2. MInv /\ [Next]_vars =>
          [\A v \in Versions : row[v].status = "deleted" =>
               row'[v] = row[v] /\ attempts'[v] = attempts[v]]_vars
    BY <1>1
<1> QED
    BY <1>2, MInvAlways, PTL DEF Spec, DeletedIsFinal

-------------------------------------------------------------------------------
(* Maintenance implements ObjectLifecycle, for every version.              *)

LEMMA PhaseInit == ASSUME Init, NEW v \in Versions PROVE Life(v)!Init
BY OwnerType DEF Init, Phase, Active, Life!Init

LEMMA PhaseOfUse ==
    ASSUME TypeOK, NEW v \in Versions, VersionInv(v), Unmoved(v) \/ Uploaded(v) \/ Published(v)
    PROVE  Life(v)!Next \/ UNCHANGED Phase(v)
<1> USE DEF SameUse, SameObject, Active
<1>1. object[v] \in {"none", "stored", "gone"}
    BY DEF TypeOK
<1>2. Released(v) /\ GoneIsQueued(v) /\ Stored(v)
    BY DEF VersionInv
<1>3. CASE Unmoved(v)
    BY <1>1, <1>2, <1>3 DEF Unmoved, Stored, Phase, Life!Next, Life!Release
<1>4. CASE Uploaded(v)
    BY <1>1, <1>2, <1>4 DEF Uploaded, Stored, Phase, Life!Next, Life!Store
<1>5. CASE Published(v)
    BY <1>1, <1>2, <1>5
       DEF Published, Released, GoneIsQueued, Stored, Phase, Life!Next, Life!Publish
<1> QED
    BY <1>3, <1>4, <1>5

LEMMA PhaseOfRetention ==
    ASSUME TypeOK, NEW v \in Versions, VersionInv(v), Retired(v)
    PROVE  Life(v)!Next \/ UNCHANGED Phase(v)
BY DEF VersionInv, Retired, SameObject, Stored, Phase, Active, Life!Next, Life!Release

LEMMA PhaseOfRemoval ==
    ASSUME TypeOK, NEW v \in Versions, VersionInv(v), Removed(v), \A d \in Deleters : RunInv(d)
    PROVE  Life(v)!Next \/ UNCHANGED Phase(v)
<1>1. row[v].status # "none"
    BY DEF Removed, RunInv, Handled
<1>2. v \notin referenced /\ ~Active(v) /\ object[v] # "none"
    BY <1>1 DEF VersionInv, Released, QueuedExists
<1> QED
    BY <1>2 DEF Removed, SameUse, Active, Phase, Life!Next, Life!Remove

LEMMA PhaseOfRows ==
    ASSUME TypeOK, NEW v \in Versions, VersionInv(v),
           Signed(v) \/ Orphaned(v) \/ Claimed(v) \/ Recorded(v) \/ Aged(v)
    PROVE  Life(v)!Next \/ UNCHANGED Phase(v)
<1>1. SameUse(v) /\ SameObject(v)
    BY DEF Signed, Orphaned, Claimed, Recorded, Aged
<1> QED
    BY <1>1 DEF TypeOK, VersionInv, Stored, SameUse, SameObject, Active, Phase,
                Life!Next, Life!Release

LEMMA PhaseNext ==
    ASSUME MInv, [Next]_vars, NEW v \in Versions
    PROVE  Life(v)!Next \/ UNCHANGED Phase(v)
<1>1. TypeOK /\ VersionInv(v) /\ \A d \in Deleters : RunInv(d)
    BY DEF MInv
<1>2. VersionStep(v)
    BY <1>1, VersionSteps
<1> QED
    BY <1>1, <1>2, PhaseOfUse, PhaseOfRetention, PhaseOfRemoval, PhaseOfRows DEF VersionStep

\* Every version, whatever its build and the maintenance runs do, is stored,
\* published, released and removed in the order that ObjectLifecycle promises.
THEOREM MaintenanceImplementsObjectLifecycle == Spec => ImplementsObjectLifecycle
<1>1. Init => \A v \in Versions : Life(v)!Init
    BY PhaseInit
<1>2. MInv /\ [Next]_vars => [\A v \in Versions : Life(v)!Next \/ UNCHANGED Phase(v)]_vars
    BY PhaseNext
<1> QED
    BY <1>1, <1>2, MInvAlways, PTL DEF Spec, ImplementsObjectLifecycle

===============================================================================
