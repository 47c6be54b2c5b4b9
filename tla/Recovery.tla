------------------------------ MODULE Recovery ------------------------------
(***************************************************************************)
(* The service of Service.tla with a Redis that loses what it held, and    *)
(* the three ways back: the operator's reconstruct_redis, the readiness    *)
(* probe, which creates the consumer group again, and the restart of a     *)
(* worker, which does the same.                                            *)
(*                                                                         *)
(* Redis holds no authoritative state, so it may lose everything, or, with *)
(* appendfsync everysec, the last commands: an enqueue whose outbox row is *)
(* already marked as dispatched, or the settling of a message.  A loss     *)
(* counts as a fault, and so does a reconstruction nothing called for:     *)
(* MaxFaults bounds all of them together.                                  *)
(***************************************************************************)
EXTENDS Service

VARIABLES
    group,     \* the consumer group exists
    lost,      \* Redis lost something since the last full reconstruction
    operator   \* [pc, ids, current]: reconstruct_redis

recoveryVars == <<group, lost, operator>>
allVars == <<vars, recoveryVars>>

RecoveryInit ==
    /\ Init
    /\ group = TRUE /\ lost = FALSE
    /\ operator = [pc |-> "idle", ids |-> {}, current |-> TRUE]

-----------------------------------------------------------------------------
(* Redis loses data. *)

Lose ==
    /\ Fault
    /\ lost' = TRUE
    /\ operator' = [operator EXCEPT !.current = (operator.pc = "idle")]
    /\ UNCHANGED <<repoVars, sent, stored, worker>>

\* An empty Redis is started in its place.
LoseEverything ==
    /\ Lose
    /\ stream' = {} /\ dead' = <<>>
    /\ group' = FALSE

\* It restarts without the newest entry.
LoseEnqueue ==
    /\ Lose
    /\ \E e \in stream :
        /\ \A f \in stream : f.id <= e.id
        /\ stream' = stream \ {e}
    /\ UNCHANGED <<dead, group>>

\* It restarts with an entry that was settled.
LoseSettling ==
    /\ Lose
    /\ \E id \in 1 .. Len(sent), w \in Workers :
        /\ \A e \in stream : e.id # id
        /\ stream' = stream \union
             {[id |-> id, build |-> sent[id], owner |-> w, idle |-> 0]}
    /\ UNCHANGED <<dead, group>>

-----------------------------------------------------------------------------
(* The service meanwhile. *)

\* XAUTOCLAIM, XREADGROUP and the XPENDING of the move script need the group.
NeedsGroup(w) == At(w, "claim") \/ At(w, "deadletter")

\* Without it they raise; run_forever logs that and starts over, it never
\* creates the group.
GroupMissing(w) ==
    /\ ~group /\ NeedsGroup(w)
    /\ Becomes(w, Raised(worker[w]))
    /\ UNCHANGED <<repoVars, redisVars, stored, faults>>

WorkerRuns(w) ==
    /\ \/ (group \/ ~NeedsGroup(w)) /\ WorkerStep(w)
       \/ GroupMissing(w)
    /\ UNCHANGED recoveryVars

ServiceRuns ==
    /\ \/ ClientSubmits
       \/ ClientCancels
       \/ RetentionDeletes
       \/ \E w \in Workers : Heartbeat(w) \/ CallFails(w)
       \/ Tick
    /\ UNCHANGED recoveryVars

\* create_supervisor of the restarted process calls initialize.
WorkerRestarts ==
    /\ \E w \in Workers : Crash(w)
    /\ group' = TRUE
    /\ UNCHANGED <<lost, operator>>

Readiness_OnlyLooks ==
    /\ ~group
    /\ UNCHANGED allVars

\* ServiceReadiness calls initialize whenever the container is probed.
Readiness ==
    /\ ~group
    /\ group' = TRUE
    /\ UNCHANGED <<vars, lost, operator>>

-----------------------------------------------------------------------------
(* reconstruct_redis *)

\* Used to see that the properties notice the mistake.
Derived_Undispatched(b) ==
    build[b].status = "queued" /\ \E row \in outbox[b] : ~row.dispatched

\* The wake-ups are derived from the status of the builds alone.
Derived(b) == build[b].status = "queued"

\* All pages are read from one snapshot (REPEATABLE READ).
ReadQueued ==
    /\ operator.pc = "idle"
    /\ IF lost THEN UNCHANGED faults ELSE Fault
    /\ operator' = [pc |-> "enqueue", ids |-> {b \in Builds : Derived(b)},
                    current |-> TRUE]
    /\ UNCHANGED <<repoVars, redisVars, stored, worker, group, lost>>

\* _InitializingQueue creates the group before the first entry.
EnqueueNext ==
    /\ operator.pc = "enqueue"
    /\ \E b \in operator.ids :
        /\ Redis!Enqueue(b)
        /\ operator' = [operator EXCEPT !.ids = @ \ {b}]
    /\ group' = TRUE
    /\ UNCHANGED <<repoVars, stored, worker, faults, lost>>

\* A call to PostgreSQL or Redis fails: the command ends, and is repeated.
ReconstructionFails ==
    /\ operator.pc = "enqueue"
    /\ Fault
    /\ operator' = [operator EXCEPT !.pc = "idle", !.ids = {}, !.current = TRUE]
    /\ UNCHANGED <<repoVars, redisVars, stored, worker, group, lost>>

Reconstructed ==
    /\ operator.pc = "enqueue" /\ operator.ids = {}
    /\ operator' = [operator EXCEPT !.pc = "idle", !.current = TRUE]
    /\ lost' = (lost /\ ~operator.current)
    /\ UNCHANGED <<vars, group>>

Reconstruct == ReadQueued \/ EnqueueNext \/ Reconstructed

-----------------------------------------------------------------------------
RecoveryNext ==
    \/ LoseEverything \/ LoseEnqueue \/ LoseSettling
    \/ \E w \in Workers : WorkerRuns(w)
    \/ ServiceRuns \/ WorkerRestarts \/ Readiness
    \/ Reconstruct \/ ReconstructionFails

RecoverySpec == RecoveryInit /\ [][RecoveryNext]_allVars

\* Time passes, and a worker that was started runs its loop: the supervisor
\* calls process_once again after every ServiceError, the container restarts a
\* worker that died, and the launcher's deadline ends every builder.  The
\* container is probed for ever, and the operator reconstructs Redis after a
\* loss until a reconstruction was not overtaken by another loss.
RecoveryFairness ==
    /\ WF_allVars(Tick /\ UNCHANGED recoveryVars)
    /\ \A w \in Workers : WF_allVars(WorkerRuns(w))
    /\ WF_allVars(Readiness)
    /\ WF_allVars((lost \/ operator.pc = "enqueue") /\ Reconstruct)

FairRecoverySpec == RecoverySpec /\ RecoveryFairness

-----------------------------------------------------------------------------
\* Once a reconstruction is complete, every queued build has a wake-up again,
\* whatever the workers, the outbox and the clients did while it ran.
ReconstructionSuffices == ~lost => NoLostWakeup
=============================================================================
