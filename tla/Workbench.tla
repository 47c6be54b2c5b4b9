------------------------------ MODULE Workbench ------------------------------
(***************************************************************************)
(* The authoring workbench (src/experimental_modeling/workbench.py and     *)
(* authoring.py): a local server that spends permissions of a person, each *)
(* on one isolated build or on one request to a model provider.            *)
(*                                                                         *)
(* Handlers run in threads of one process under one reentrant lock.  The   *)
(* journal (`record`, `calls`) is durable; everything the server knows of  *)
(* its child process and of its model thread ends with the server.  The    *)
(* child runs in a session of its own and outlives a crash.  One server at *)
(* a time holds the workbench lease of a project.                          *)
(***************************************************************************)
EXTENDS Naturals, FiniteSets, Functions

CONSTANTS Inspections,  \* inspected proposals: one permission each
          Previews,     \* displayed model requests: one permission each
          Estimate,     \* [Previews -> Nat], cost shown with a preview
          Budget,       \* budget_usd
          MaxCalls,     \* max_calls
          MaxCrashes,   \* bound on crashes of the server
          None

ASSUME WorkbenchAssumption ==
  /\ None \notin Inspections \cup Previews
  /\ Estimate \in [Previews -> Nat \ {0}]
  /\ Budget \in Nat /\ MaxCalls \in Nat /\ MaxCrashes \in Nat

VARIABLES record,    \* journal: state of operation-<id>.json
          calls,     \* journal: state of modelcall-<id>.json
          bridge,    \* the child process of an operation
          signals,   \* SIGTERMs that a bridge received
          spawned,   \* bridges started for an operation, over all servers
          sent,      \* transmissions of a preview, over all servers
          server,    \* "up", "closing", "stopping", "down"
          run,       \* the run handler: [pc, id]; it holds the lock
          child,     \* child_id of this server
          stopped,   \* stopped_process is the child
          monitor,   \* a thread waits for the child in watch
          active, cancel,  \* the model call of this server
          thread,    \* the model thread: [pc, outcome]
          transport, \* [pc, id] of the daemon thread that talks to the provider
          crashes

journal == <<record, calls>>
history == <<signals, spawned, sent>>
running == <<run, child, stopped, monitor>>
authoring == <<active, cancel, thread>>
vars == <<journal, history, bridge, server, running, authoring, transport,
          crashes>>

NoRun == [pc |-> "idle", id |-> None]
NoThread == [pc |-> "none", outcome |-> "none"]
NoTransport == [pc |-> "idle", id |-> None]

Init ==
  /\ record = [i \in Inspections |-> "none"]
  /\ calls = [m \in Previews |-> "none"]
  /\ bridge = [i \in Inspections |-> "none"]
  /\ signals = [i \in Inspections |-> 0]
  /\ spawned = [i \in Inspections |-> 0]
  /\ sent = [m \in Previews |-> 0]
  /\ server = "up"
  /\ run = NoRun /\ child = None /\ stopped = FALSE /\ monitor = FALSE
  /\ active = None /\ cancel = FALSE /\ thread = NoThread
  /\ transport = NoTransport
  /\ crashes = 0

\* A handler may take the lock: requests that were in flight are still served
\* after Ctrl-C.
Serving == server \in {"up", "closing"}
Unlocked == run.pc = "idle"
Live(i) == child = i /\ bridge[i] = "running"

-----------------------------------------------------------------------------
(* Operations: one inspected proposal, one build *)

\* operation(): what the journal says, unless this server cannot know it.
View(i) ==
  IF record[i] \in {"claimed", "running", "interruption_requested"} /\ ~Live(i)
  THEN IF child = i /\ monitor THEN "finalizing" ELSE "uncertain"
  ELSE record[i]

Busy_Known(i) ==
  View(i) \in {"running", "claimed", "interruption_requested", "finalizing"}

Busy(i) ==
  View(i) \in {"running", "claimed", "interruption_requested", "finalizing",
               "uncertain"}

StopOwned_Again(i, halted) ==
  /\ signals' = IF bridge[i] = "running"
                THEN [signals EXCEPT ![i] = @ + 1] ELSE signals
  /\ stopped' = TRUE

\* One SIGTERM for each child: a second one would abort the cleanup of its
\* sandbox.  `halted` tells whether the child was signalled before.
StopOwned(i, halted) ==
  /\ signals' = IF ~halted /\ bridge[i] = "running"
                THEN [signals EXCEPT ![i] = @ + 1] ELSE signals
  /\ stopped' = TRUE

\* run, up to the durable claim.  An existing operation is only shown.
Claim(i) ==
  /\ Serving /\ Unlocked
  /\ record[i] = "none"
  /\ \A j \in Inspections : ~Busy(j)
  /\ record' = [record EXCEPT ![i] = "claimed"]
  /\ run' = [pc |-> "claimed", id |-> i]
  /\ UNCHANGED <<calls, bridge, history, server, child, stopped, monitor,
                 authoring, transport, crashes>>

\* The second inspection refuses changed inputs, or the child does not start.
\* The permission is spent; when the journal cannot be written either, it
\* stays claimed.
FailBeforeExecution ==
  /\ run.pc = "claimed"
  /\ \E r \in {"failed_before_execution", "claimed"} :
       record' = [record EXCEPT ![run.id] = r]
  /\ run' = NoRun
  /\ UNCHANGED <<calls, bridge, history, server, child, stopped, monitor,
                 authoring, transport, crashes>>

\* Popen and the start of the monitor.
Spawn ==
  /\ run.pc = "claimed"
  /\ bridge' = [bridge EXCEPT ![run.id] = "running"]
  /\ spawned' = [spawned EXCEPT ![run.id] = @ + 1]
  /\ child' = run.id
  /\ stopped' = FALSE
  /\ monitor' = TRUE
  /\ run' = [run EXCEPT !.pc = "spawned"]
  /\ UNCHANGED <<journal, signals, sent, server, authoring, transport, crashes>>

\* No thread could be started: the handler stops the child and watches it
\* itself, still holding the lock.
SpawnUnwatched ==
  /\ run.pc = "spawned" /\ monitor
  /\ StopOwned(run.id, stopped)
  /\ monitor' = FALSE
  /\ run' = [run EXCEPT !.pc = "watching"]
  /\ UNCHANGED <<journal, bridge, spawned, sent, server, child, authoring,
                 transport, crashes>>

\* The journal shows the child as running, or the write fails and the child
\* is stopped; its monitor records the end in both cases.
SaveRunning ==
  /\ run.pc = "spawned"
  /\ \/ /\ record' = [record EXCEPT ![run.id] = "running"]
        /\ UNCHANGED <<signals, stopped>>
     \/ StopOwned(run.id, stopped) /\ UNCHANGED record
  /\ run' = NoRun
  /\ UNCHANGED <<calls, bridge, spawned, sent, server, child, monitor,
                 authoring, transport, crashes>>

\* The request bridge ends by itself or because of its signal.
BridgeExits(i) ==
  /\ bridge[i] = "running"
  /\ \E code \in {"done", "stopped", "broken"} :
       bridge' = [bridge EXCEPT ![i] = code]
  /\ UNCHANGED <<journal, history, server, running, authoring, transport,
                 crashes>>

Outcome == [done |-> "finished", stopped |-> "interrupted", broken |-> "failed"]

\* watch, after the child was reaped; an unwritable journal leaves the claim.
\* A broken output pipe fails the operation and stops the child.
SaveOutcome ==
  /\ child # None /\ bridge[child] \in DOMAIN Outcome
  /\ \/ monitor /\ Unlocked
     \/ run.pc = "watching"
  /\ \E r \in {Outcome[bridge[child]], "failed", record[child]} :
       record' = [record EXCEPT ![child] = r]
  /\ monitor' = FALSE
  /\ run' = NoRun
  /\ UNCHANGED <<calls, bridge, history, server, child, stopped, authoring,
                 transport, crashes>>

PipeBreaks ==
  /\ monitor /\ Unlocked
  /\ ~stopped
  /\ StopOwned(child, stopped)
  /\ UNCHANGED <<journal, bridge, spawned, sent, server, run, child, monitor,
                 authoring, transport, crashes>>

Interrupt_Concludes(i) ==
  /\ server # "down" /\ Unlocked
  /\ Live(i)
  /\ record' = [record EXCEPT ![i] = "interrupted"]
  /\ StopOwned(i, stopped)
  /\ UNCHANGED <<calls, bridge, spawned, sent, server, run, child, monitor,
                 authoring, transport, crashes>>

\* interrupt: the request is in the journal before the signal is sent.
Interrupt(i) ==
  /\ server # "down" /\ Unlocked
  /\ Live(i)
  /\ record' = [record EXCEPT ![i] = "interruption_requested"]
  /\ StopOwned(i, stopped)
  /\ UNCHANGED <<calls, bridge, spawned, sent, server, run, child, monitor,
                 authoring, transport, crashes>>

-----------------------------------------------------------------------------
(* Model calls: one displayed preview, one transmission *)

Called == {m \in Previews : calls[m] # "none"}
Unsettled == {"claimed", "sending", "cancel_requested", "uncertain"}
Reserved_Completed ==
  SumFunctionOnSet(Estimate, {m \in Called : calls[m] = "completed"})

Reserved == SumFunctionOnSet(Estimate, Called)

\* submit: the reservation is durable before anything else happens.
Submit(m) ==
  /\ Serving /\ server = "up" /\ Unlocked
  /\ calls[m] = "none"
  /\ active = None
  /\ \A n \in Previews : calls[n] \notin Unsettled
  /\ Cardinality(Called) < MaxCalls
  /\ Reserved + Estimate[m] <= Budget
  /\ calls' = [calls EXCEPT ![m] = "claimed"]
  /\ cancel' = FALSE
  /\ \/ active' = m /\ thread' = [pc |-> "started", outcome |-> "none"]
     \/ UNCHANGED <<active, thread>>     \* the thread does not start
  /\ UNCHANGED <<record, bridge, history, server, running, transport, crashes>>

\* _generate: cancelled before the provider is involved, refused because a
\* trusted input changed, or journaled as sending.
Begin ==
  /\ thread.pc = "started" /\ Unlocked
  /\ IF cancel
     THEN /\ thread' = [pc |-> "saving", outcome |-> "cancelled"]
          /\ UNCHANGED calls
     ELSE \/ /\ calls' = [calls EXCEPT ![active] = "sending"]
             /\ thread' = [thread EXCEPT !.pc = "calling"]
          \/ /\ thread' = [pc |-> "saving", outcome |-> "failed"]
             /\ UNCHANGED calls
  /\ UNCHANGED <<record, bridge, history, server, running, active, cancel,
                 transport, crashes>>

\* direct_https_request starts its daemon, unless one is still under way; the
\* credential, a timeout and a cancellation may end the call before.
Connect ==
  /\ thread.pc = "calling"
  /\ \/ /\ ~cancel /\ transport.pc = "idle"
        /\ transport' = [pc |-> "connecting", id |-> active]
        /\ thread' = [thread EXCEPT !.pc = "waiting"]
     \/ /\ \E outcome \in {"failed", "uncertain"} :
             thread' = [pc |-> "saving", outcome |-> outcome]
        /\ UNCHANGED transport
  /\ UNCHANGED <<journal, bridge, history, server, running, active, cancel,
                 crashes>>

\* After connecting, the daemon goes on only for a caller that still waits.
Waited == thread.pc = "waiting" /\ ~cancel /\ active = transport.id

CheckAbandoned ==
  /\ transport.pc = "connecting"
  /\ transport' = IF Waited THEN [transport EXCEPT !.pc = "cleared"]
                  ELSE NoTransport
  /\ UNCHANGED <<journal, bridge, history, server, running, authoring, crashes>>

Transmit ==
  /\ transport.pc = "cleared"
  /\ sent' = [sent EXCEPT ![transport.id] = @ + 1]
  /\ transport' = [transport EXCEPT !.pc = "sent"]
  /\ UNCHANGED <<journal, bridge, signals, spawned, server, running, authoring,
                 crashes>>

\* The daemon finishes: with an answer for a caller that waits, or unnoticed.
Answer ==
  /\ transport.pc \in {"cleared", "sent"}
  /\ transport' = NoTransport
  /\ IF Waited
     THEN \/ thread' = [pc |-> "saving", outcome |-> "failed"]
          \/ thread' = [pc |-> "saving", outcome |-> "uncertain"]
          \/ transport.pc = "sent" /\ thread' = [thread EXCEPT !.pc = "answered"]
     ELSE UNCHANGED thread
  /\ UNCHANGED <<journal, bridge, history, server, running, active, cancel,
                 crashes>>

\* Cancellation and timeouts end the waiting and leave the daemon behind.
Abandon ==
  /\ thread.pc = "waiting"
  /\ thread' = [pc |-> "saving", outcome |-> "uncertain"]
  /\ UNCHANGED <<journal, bridge, history, server, running, active, cancel,
                 transport, crashes>>

\* A validated proposal is published unless the call was cancelled, before or
\* after the provider's last look, or the handoff is out of date.
Publish ==
  /\ thread.pc = "answered" /\ Unlocked
  /\ \E outcome \in IF cancel THEN {"cancelled", "uncertain"}
                    ELSE {"completed", "failed"} :
       thread' = [pc |-> "saving", outcome |-> outcome]
  /\ UNCHANGED <<journal, bridge, history, server, running, active, cancel,
                 transport, crashes>>

SaveCall ==
  /\ thread.pc = "saving" /\ Unlocked
  /\ \E saved \in {thread.outcome, calls[active]} :
       calls' = [calls EXCEPT ![active] = saved]
  /\ active' = None
  /\ thread' = NoThread
  /\ UNCHANGED <<record, bridge, history, server, running, cancel, transport,
                 crashes>>

CancelCall(m) ==
  /\ Serving /\ Unlocked
  /\ active = m
  /\ cancel' = TRUE
  /\ calls' = [calls EXCEPT ![m] = "cancel_requested"]
  /\ UNCHANGED <<record, bridge, history, server, running, active, thread,
                 transport, crashes>>

-----------------------------------------------------------------------------
(* Stopping, crashing and starting the server *)

\* Ctrl-C: Authoring.close first, which waits for the model thread ...
Close ==
  /\ server = "up" /\ Unlocked
  /\ server' = "closing"
  /\ cancel' = TRUE
  /\ UNCHANGED <<journal, bridge, history, running, active, thread, transport,
                 crashes>>

StopChild_Waits ==
  /\ server = "closing" /\ Unlocked
  /\ thread.pc = "none"
  /\ server' = "stopping"
  /\ UNCHANGED <<journal, bridge, history, running, authoring, transport,
                 crashes>>

\* ... then no further child can start and the present one is stopped ...
StopChild ==
  /\ server = "closing" /\ Unlocked
  /\ thread.pc = "none"
  /\ server' = "stopping"
  /\ IF child # None /\ bridge[child] = "running" THEN StopOwned(child, stopped)
     ELSE UNCHANGED <<signals, stopped>>
  /\ UNCHANGED <<journal, bridge, spawned, sent, run, child, monitor,
                 authoring, transport, crashes>>

Forget ==
  /\ server' = "down"
  /\ run' = NoRun /\ child' = None /\ stopped' = FALSE /\ monitor' = FALSE
  /\ active' = None /\ cancel' = FALSE /\ thread' = NoThread
  /\ transport' = NoTransport

\* ... and the monitor is joined.
Exit ==
  /\ server = "stopping"
  /\ ~monitor /\ Unlocked
  /\ Forget
  /\ UNCHANGED <<journal, bridge, history, crashes>>

Crash ==
  /\ server # "down"
  /\ crashes < MaxCrashes
  /\ crashes' = crashes + 1
  /\ Forget
  /\ UNCHANGED <<journal, bridge, history>>

Start ==
  /\ server = "down"
  /\ server' = "up"
  /\ UNCHANGED <<journal, bridge, history, running, authoring, transport,
                 crashes>>

-----------------------------------------------------------------------------
Operation ==
  \/ \E i \in Inspections : Claim(i) \/ Interrupt(i)
  \/ FailBeforeExecution \/ Spawn \/ SpawnUnwatched \/ SaveRunning
  \/ SaveOutcome \/ PipeBreaks

ModelCall ==
  \/ \E m \in Previews : Submit(m) \/ CancelCall(m)
  \/ Begin \/ Connect \/ CheckAbandoned \/ Transmit \/ Answer \/ Abandon
  \/ Publish \/ SaveCall

Next ==
  \/ Operation \/ ModelCall
  \/ \E i \in Inspections : BridgeExits(i)
  \/ Close \/ StopChild \/ Exit \/ Crash \/ Start

RunStep == FailBeforeExecution \/ Spawn \/ SaveRunning
ThreadStep == Begin \/ Connect \/ Abandon \/ Publish \/ SaveCall

\* Threads go on, and only finitely many handlers can hold the lock against
\* them; the provider call is bounded by its timeout; a bridge that was
\* signalled once cleans up and ends.
Fairness ==
  /\ WF_vars(RunStep) /\ WF_vars(SaveOutcome) /\ WF_vars(ThreadStep)
  /\ WF_vars(StopChild) /\ WF_vars(Exit)
  /\ \A i \in Inspections : WF_vars(signals[i] > 0 /\ BridgeExits(i))

Spec == Init /\ [][Next]_vars /\ Fairness

-----------------------------------------------------------------------------
(* Properties *)

\* A permission starts at most one bridge, and there is at most one bridge at
\* a time, also after a crash left one running that nobody owns.
OneRunAtATime ==
  /\ \A i \in Inspections : spawned[i] <= 1
  /\ Cardinality({i \in Inspections : bridge[i] = "running"}) <= 1

\* The journal never reports an end that did not happen: an operation shown
\* as over has no bridge, and one shown as never executed had none.
EndedIsOver ==
  \A i \in Inspections :
    /\ record[i] \in {"finished", "interrupted", "failed"} =>
         bridge[i] \notin {"none", "running"}
    /\ record[i] \in {"none", "failed_before_execution"} => spawned[i] = 0

\* Interrupt, Ctrl-C, a broken pipe and a failed write together send one
\* signal at most, so that nothing cuts the cleanup of the sandbox short.
CleanupUndisturbed == \A i \in Inspections : signals[i] <= 1

\* Every preview is transmitted at most once, and what was transmitted, by
\* this server or by one before it, was within the budget.
SpendingIsBounded ==
  /\ \A m \in Previews : sent[m] <= 1
  /\ SumFunctionOnSet(Estimate, {m \in Previews : sent[m] > 0}) <= Budget

\* Ctrl-C ends the server: nothing waits for the lock and a thread, or for a
\* child, in a circle.
CloseEnds == server = "closing" ~> server = "down"
=============================================================================
