------------------------------- MODULE Handoff -------------------------------
(***************************************************************************)
(* The operator's actions on a deployment (scripts/vps): start, backup,    *)
(* quiesced handoff, forward-only upgrade, abort and empty-target restore, *)
(* with the backup and restore of artifact versions that they run          *)
(* (maintenance.py).                                                       *)
(*                                                                         *)
(* One lock file serialises the actions, so one runs at a time; it is a    *)
(* program of steps, one per call to Compose, PostgreSQL or the object     *)
(* store.  A step may fail before or after it took effect, and the whole   *)
(* action may be killed between two steps.  Clients and the worker go on   *)
(* as long as their containers and the database let them.                  *)
(***************************************************************************)
EXTENDS Naturals, Sequences

CONSTANTS
    Builds,
    MaxBundles,    \* bound: backup bundles
    MaxTargets,    \* bound: databases with their object stores
    MaxFaults      \* bound: failed steps and killed actions

ASSUME HandoffAssumption ==
    MaxBundles \in Nat /\ MaxTargets \in Nat \ {0} /\ MaxFaults \in Nat

VARIABLES
    services,  \* the containers that run: caddy, api, worker
    image,     \* the release they were started from
    lock,      \* the release lock that is installed
    db,        \* [id, ro, schema, builds, done, rows, whole, used]
    objects,   \* the object versions of the namespace
    bundles,   \* published bundles
    handoff,   \* upgrade-handoff.json
    op,        \* [name, at, bundle, dump]: the action that runs
    faults

target == <<db, objects>>
containers == <<services, image>>
vars == <<containers, lock, target, bundles, handoff, op, faults>>

Services == {"caddy", "api", "worker"}
Locks == {"source", "target"}

\* A new database, object store and Redis.  `whole' is FALSE while a restore
\* has begun and not ended; `used' once a worker left its group in Redis.
Empty(id) == [id |-> id, ro |-> FALSE, schema |-> "none", builds |-> {},
              done |-> {}, rows |-> {}, whole |-> TRUE, used |-> FALSE]

NoDump == [builds |-> {}, rows |-> {}, listed |-> {}, copied |-> {}]
Idle == [name |-> "idle", at |-> 1, bundle |-> 0, dump |-> NoDump]
NoHandoff == [status |-> "none", lock |-> "none", bundle |-> 0, id |-> 0,
              next |-> "none"]

Init ==
    /\ services = Services /\ image = "source" /\ lock = "source"
    /\ db = [Empty(1) EXCEPT !.schema = "source", !.used = TRUE]
    /\ objects = {}
    /\ bundles = <<>>
    /\ handoff = NoHandoff
    /\ op = Idle
    /\ faults = MaxFaults

Fault == faults > 0 /\ faults' = faults - 1

Quiescent == db.builds = db.done

-----------------------------------------------------------------------------
(* What goes on meanwhile *)

\* Clients reach the API through Caddy only.
Accept ==
    /\ {"caddy", "api"} \subseteq services /\ ~db.ro
    /\ \E b \in Builds \ db.builds : db' = [db EXCEPT !.builds = @ \union {b}]
    /\ UNCHANGED <<containers, lock, objects, bundles, handoff, op, faults>>

\* Every version that is uploaded is new: it names its target.
Finish ==
    /\ "worker" \in services /\ ~db.ro
    /\ \E b \in db.builds \ db.done :
        /\ db' = [db EXCEPT !.done = @ \union {b}, !.rows = @ \union {<<b, db.id>>}]
        /\ objects' = objects \union {<<b, db.id>>}
    /\ UNCHANGED <<containers, lock, bundles, handoff, op, faults>>

\* The operator selects a release; outside a handoff nothing calls for it.
InstallLock ==
    /\ op = Idle /\ handoff.status \in {"ready", "upgrading"}
    /\ lock' \in Locks \ {lock}
    /\ UNCHANGED <<containers, target, bundles, handoff, op, faults>>

\* New, empty stores: for a restore on another machine, for a rollback, or after
\* a restore that failed.  The marker of a handoff stays with its deployment.
NewTarget ==
    /\ op = Idle /\ services = {}
    /\ handoff.status \in {"none", "upgrading"}
    /\ db.id < MaxTargets
    /\ db' = Empty(db.id + 1)
    /\ objects' = {}
    /\ UNCHANGED <<containers, lock, bundles, handoff, op, faults>>

-----------------------------------------------------------------------------
(* The actions and their steps *)

Drain_DumpFirst == <<"dump", "stop_ingress", "drain", "stop_worker", "probe",
                     "list", "copy", "publish">>

Drain == <<"stop_ingress", "drain", "stop_worker", "probe",
           "dump", "list", "copy", "publish">>
Live == <<"start_private", "start_ingress">>

Programs ==
    [up       |-> Live,
     down     |-> <<"stop_all">>,
     backup   |-> Drain \o Live,
     handoff  |-> <<"prepare">> \o Drain \o <<"seal", "ready">>,
     restart  |-> Live,
     undo     |-> Live \o <<"consume">>,
     upgrade  |-> <<"stop_all", "validate", "begin", "unseal">> \o Live \o <<"consume">>,
     retry    |-> <<"seal", "stop_all", "revalidate", "unseal">> \o Live \o <<"consume">>,
     abort    |-> <<"stop_all", "check", "unseal">> \o Live \o <<"consume">>,
     reseal   |-> <<"reseal">>,
     restore  |-> <<"stop_all", "empty_target", "database", "upload", "remap",
                    "start_private">>,
     rollback |-> <<"stop_all", "empty_target", "database", "upload", "remap",
                    "start_private", "consume">>]

Doing(step) == op.name # "idle" /\ Programs[op.name][op.at] = step
Before(step) ==
    \A i \in 1 .. Len(Programs[op.name]) :
        Programs[op.name][i] = step => op.at < i

Done ==
    op' = IF op.at = Len(Programs[op.name]) THEN Idle
          ELSE [op EXCEPT !.at = @ + 1]

\* What the exception handlers around the present step do.
Handler ==
    CASE op.name = "backup" /\ Before("start_private") -> "restart"
      [] op.name = "handoff" /\ ~Before("stop_ingress") /\ Before("seal") -> "undo"
      [] op.name = "upgrade" /\ ~Before("unseal") -> "reseal"
      [] op.name \in {"retry", "abort"} -> "reseal"
      [] OTHER -> "idle"

Failed == op' = [Idle EXCEPT !.name = Handler]

\* A step took effect and returns, or fails after all.
Returns == \/ Done /\ UNCHANGED faults
           \/ Failed /\ Fault

\* Only one action runs at a time, and a marker admits few of them.
CanBegin_AbortLate(name) ==
    CASE handoff.status = "none" -> name \in {"up", "down", "backup", "handoff", "restore"}
      [] handoff.status = "preparing" -> name = "abort"
      [] handoff.status = "ready" -> name \in {"upgrade", "abort"}
      [] handoff.status = "upgrading" -> name \in {"retry", "rollback", "abort"}

CanBegin(name) ==
    CASE handoff.status = "none" -> name \in {"up", "down", "backup", "handoff", "restore"}
      [] handoff.status = "preparing" -> name = "abort"
      [] handoff.status = "ready" -> name \in {"upgrade", "abort"}
      [] handoff.status = "upgrading" -> name \in {"retry", "rollback"}

\* The bundle is the operator's choice.  A target whose restore failed is
\* given up, not started or saved (the procedure asks for that), and one that
\* never ran has nothing to save.
Begin ==
    /\ op = Idle
    /\ \E name \in DOMAIN Programs, k \in 0 .. Len(bundles) :
        /\ CanBegin(name)
        /\ name \in {"upgrade", "retry", "rollback", "restore"} <=> k > 0
        /\ name \in {"up", "backup", "handoff"} => db.whole
        /\ name \in {"backup", "handoff"} => db.used /\ Len(bundles) < MaxBundles
        /\ name = "abort" => lock = handoff.lock
        /\ name = "rollback" => k = handoff.bundle
        /\ op' = [Idle EXCEPT !.name = name, !.bundle = k]
    /\ UNCHANGED <<containers, lock, target, bundles, handoff, faults>>

-----------------------------------------------------------------------------
(* Stopping and starting containers *)

\* _stop_writers tries every service, also after one did not stop.
Stop(S) ==
    /\ \/ services' = services \ S /\ Done /\ UNCHANGED faults
       \/ /\ \E T \in SUBSET S : services' = services \ T
          /\ Failed /\ Fault
    /\ UNCHANGED <<image, lock, target, bundles, handoff>>

StopIngress == Doing("stop_ingress") /\ Stop({"caddy", "api"})
StopWorker  == Doing("stop_worker") /\ Stop({"worker"})
StopAll     == Doing("stop_all") /\ Stop(Services)

\* database-init cannot write to a sealed database and refuses one that is
\* ahead of its release.
Initialises == ~db.ro /\ ~(db.schema = "target" /\ lock = "source")

\* initialize_database: roles, migrations and grants of the installed release.
Initialised == [db EXCEPT !.schema = lock]

\* database-init, then api and worker of that release.
StartPrivate ==
    /\ Doing("start_private") /\ Initialises
    /\ services' = services \union {"api", "worker"}
    /\ image' = lock
    /\ db' = [Initialised EXCEPT !.whole = TRUE, !.used = TRUE]
    /\ Returns
    /\ UNCHANGED <<lock, objects, bundles, handoff>>

StartIngress ==
    /\ Doing("start_ingress")
    /\ services' = services \union {"caddy"}
    /\ Returns
    /\ UNCHANGED <<image, lock, target, bundles, handoff>>

-----------------------------------------------------------------------------
(* Backup *)

Drained ==
    /\ Doing("drain") \/ Doing("probe")
    /\ Quiescent
    /\ Returns
    /\ UNCHANGED <<containers, lock, target, bundles, handoff>>

Step(dump) ==
    /\ \/ /\ op' = [op EXCEPT !.at = @ + 1, !.dump = dump]
          /\ UNCHANGED faults
       \/ Failed /\ Fault
    /\ UNCHANGED <<containers, lock, target, bundles, handoff>>

\* pg_dump, without the deletion queue.
Dump ==
    /\ Doing("dump")
    /\ Step([NoDump EXCEPT !.builds = db.builds, !.rows = db.rows])

\* export_object_backup: the inventory is read from the quiescent database
\* again.
List ==
    /\ Doing("list") /\ Quiescent
    /\ Step([op.dump EXCEPT !.listed = db.rows])

\* _copy_version_to_backup, one version after the other; one that is missing
\* or differs from its evidence ends the action.
CopyVersion ==
    /\ Doing("copy")
    /\ \E o \in (op.dump.listed \ op.dump.copied) \intersect objects :
        op' = [op EXCEPT !.dump.copied = @ \union {o}]
    /\ UNCHANGED <<containers, lock, target, bundles, handoff, faults>>

\* The inventory is the last file.
Copied ==
    /\ Doing("copy")
    /\ op.dump.copied = op.dump.listed
    /\ Step(op.dump)

\* The bundle appears under its name by one rename.
PublishBundle ==
    /\ Doing("publish")
    /\ bundles' = Append(bundles,
         [lock |-> lock, builds |-> op.dump.builds, rows |-> op.dump.rows,
          listed |-> op.dump.listed, copied |-> op.dump.copied])
    /\ Returns
    /\ UNCHANGED <<containers, lock, target, handoff>>

-----------------------------------------------------------------------------
(* The handoff *)

Prepare ==
    /\ Doing("prepare")
    /\ handoff' = [NoHandoff EXCEPT !.status = "preparing", !.lock = lock]
    /\ Returns
    /\ UNCHANGED <<containers, lock, target, bundles>>

\* ALTER DATABASE ... SET default_transaction_read_only; sessions are ended.
Sets(ro) ==
    /\ db' = [db EXCEPT !.ro = ro]
    /\ Returns
    /\ UNCHANGED <<containers, lock, objects, bundles, handoff>>

Seal   == Doing("seal") /\ Sets(TRUE)
Unseal == Doing("unseal") /\ Sets(FALSE)

Ready ==
    /\ Doing("ready") /\ db.ro
    /\ handoff' = [handoff EXCEPT !.status = "ready", !.bundle = Len(bundles),
                                  !.id = db.id]
    /\ Returns
    /\ UNCHANGED <<containers, lock, target, bundles>>

\* The same database, still sealed.
Bound == handoff.id = db.id /\ db.ro

Passes ==
    /\ Returns
    /\ UNCHANGED <<containers, lock, target, bundles, handoff>>

Validate   == Doing("validate") /\ op.bundle = handoff.bundle /\ Bound /\ Quiescent /\ Passes
Revalidate == Doing("revalidate") /\ op.bundle = handoff.bundle /\ Bound
              /\ lock = handoff.next /\ Passes
Check      == Doing("check") /\ (handoff.status = "ready" => Bound) /\ Passes

\* The point of no return, before anything can write.
BeginUpgrade ==
    /\ Doing("begin")
    /\ handoff' = [handoff EXCEPT !.status = "upgrading", !.next = lock]
    /\ Returns
    /\ UNCHANGED <<containers, lock, target, bundles>>

\* The marker is renamed away; what fails after that still fails the action.
Consume ==
    /\ Doing("consume")
    /\ handoff' = NoHandoff
    /\ Returns
    /\ UNCHANGED <<containers, lock, target, bundles>>

\* _reseal_after_upgrade_failure attempts both halves in any case.
Reseal ==
    /\ Doing("reseal")
    /\ \/ /\ services' = {} /\ db' = [db EXCEPT !.ro = TRUE]
          /\ Done /\ UNCHANGED faults
       \/ /\ services' \in SUBSET services
          /\ db' \in {db, [db EXCEPT !.ro = TRUE]}
          /\ Failed /\ Fault
    /\ UNCHANGED <<image, lock, objects, bundles, handoff>>

-----------------------------------------------------------------------------
(* Restore into an empty target *)

Source == bundles[op.bundle]

\* The bundle fits the release, database-init succeeds, and the database,
\* Redis and the namespace are empty.
Restorable ==
    Initialises /\ lock = Source.lock /\ db.builds = {} /\ ~db.used /\ objects = {}

EmptyTarget ==
    /\ Doing("empty_target") /\ Restorable
    /\ db' = Initialised
    /\ Returns
    /\ UNCHANGED <<containers, lock, objects, bundles, handoff>>

\* pg_restore --single-transaction: the rows name the versions of the source.
RestoreDatabase ==
    /\ Doing("database")
    /\ db' = [db EXCEPT !.builds = Source.builds, !.done = Source.builds,
                        !.rows = Source.rows, !.whole = FALSE]
    /\ Returns
    /\ UNCHANGED <<containers, lock, objects, bundles, handoff>>

\* _load_object_backup: the files are those of the inventory.
Loaded == Source.copied = Source.listed

\* upload_version, one object after the other, each under a new version.
Upload ==
    /\ Doing("upload") /\ Loaded
    /\ \E o \in Source.listed :
        /\ <<o[1], db.id>> \notin objects
        /\ objects' = objects \union {<<o[1], db.id>>}
    /\ \/ UNCHANGED <<op, faults>>
       \/ Failed /\ Fault
    /\ UNCHANGED <<containers, lock, db, bundles, handoff>>

Uploaded ==
    /\ Doing("upload")
    /\ \A o \in Source.listed : <<o[1], db.id>> \in objects
    /\ Done /\ UNCHANGED faults
    /\ UNCHANGED <<containers, lock, target, bundles, handoff>>

Remapped_Kept(rows) == rows

Remapped(rows) == {<<o[1], db.id>> : o \in rows}

\* restore_version_ids: every version is read back, then all rows are changed
\* in one transaction.  (Redis is rebuilt from no queued build at all.)
Remap ==
    /\ Doing("remap")
    /\ db' = [db EXCEPT !.rows = Remapped(@)]
    /\ Returns
    /\ UNCHANGED <<containers, lock, objects, bundles, handoff>>

-----------------------------------------------------------------------------
(* Failures *)

\* A step that its checks refuse.
Refused ==
    \/ (Doing("drain") \/ Doing("probe") \/ Doing("list")) /\ ~Quiescent
    \/ Doing("copy") /\ ~(op.dump.listed \subseteq objects)
    \/ Doing("start_private") /\ ~Initialises
    \/ Doing("ready") /\ ~db.ro
    \/ Doing("validate") /\ ~(op.bundle = handoff.bundle /\ Bound /\ Quiescent)
    \/ Doing("revalidate") /\ ~(op.bundle = handoff.bundle /\ Bound /\ lock = handoff.next)
    \/ Doing("check") /\ handoff.status = "ready" /\ ~Bound
    \/ Doing("empty_target") /\ ~Restorable

StepFails ==
    /\ op # Idle
    /\ \/ Refused /\ UNCHANGED faults
       \/ Fault
    /\ Failed
    /\ UNCHANGED <<containers, lock, target, bundles, handoff>>

\* The action is killed; its lock file is free again.
Killed ==
    /\ op # Idle
    /\ Fault
    /\ op' = Idle
    /\ UNCHANGED <<containers, lock, target, bundles, handoff>>

-----------------------------------------------------------------------------
Next ==
    \/ Accept \/ Finish \/ InstallLock \/ NewTarget
    \/ Begin
    \/ StopIngress \/ StopWorker \/ StopAll \/ StartPrivate \/ StartIngress
    \/ Drained \/ Dump \/ List \/ CopyVersion \/ Copied \/ PublishBundle
    \/ Prepare \/ Seal \/ Unseal \/ Ready \/ Validate \/ Revalidate \/ Check
    \/ BeginUpgrade \/ Consume \/ Reseal
    \/ EmptyTarget \/ RestoreDatabase \/ Upload \/ Uploaded \/ Remap
    \/ StepFails \/ Killed

Spec == Init /\ [][Next]_vars

-----------------------------------------------------------------------------
(* Properties *)

Writers == services \intersect {"api", "worker"}

\* D-051: once an upgrade has begun, the source release never runs against
\* that database again, whatever fails, is killed or is retried.
NoReturnToSource ==
    /\ handoff.status = "upgrading" /\ handoff.id = db.id
       /\ handoff.next = "target" /\ Writers # {} => image = "target"
    /\ db.schema = "target" /\ Writers # {} => image = "target"

\* A bundle holds no unfinished build, and the versions that its rows name
\* are the ones that were copied.
BundleIsWhole ==
    \A k \in 1 .. Len(bundles) :
        /\ bundles[k].rows = bundles[k].listed
        /\ bundles[k].rows = bundles[k].copied
        /\ {o[1] : o \in bundles[k].rows} = bundles[k].builds

\* Whoever is served by a deployment, the original or a restored one, finds
\* the object version of every artifact row.
RowsAreServed == "api" \in services => db.rows \subseteq objects

\* "After a failed or interrupted attempt, the database is read-only again.
\* The target binding stays." (docs/deployment.md): between actions, a sealed
\* database that the target release migrated has the marker that names the
\* way out.  _remove_upgrade_handoff renames the marker away and may fail
\* after that; the handler of `upgrade' then seals the database.
SealedHasMarker ==
    op = Idle /\ db.ro /\ db.schema = "target" => handoff.status # "none"
=============================================================================
