---------------------------- MODULE EvidenceProofs ----------------------------
(***************************************************************************)
(* Proofs about Evidence, for any number of builders, revisions, handoffs  *)
(* and power losses: what a dead build left behind is always announced,    *)
(* and what a build returned as accepted stays in the accepted history.    *)
(*                                                                         *)
(* LeaksAreMarked is not inductive: the marker is cleared by a build that  *)
(* returns without an error, so one needs that such a build is the only    *)
(* one that runs under the marker (RunsMarked), and that nothing was left  *)
(* behind while it ran unless it knows of it (LeaksAreKnown).              *)
(*                                                                         *)
(* The history is the least set of revisions that holds the pointer and is *)
(* closed under parents, so that nothing has to be said of its length.  It *)
(* moves when the pointer does, by one child, and that child was flushed   *)
(* before (HistoryInv).                                                    *)
(***************************************************************************)
EXTENDS Evidence, TLAPS

Places == {"none", "attempts", "accepted"}
Tree == [place : [Revisions -> Places], pointer : Revisions \cup {None},
         rules : Rules \cup {None}]

Early == {"marked", "entered", "job", "cleaning", "verify"}
Late == {"record", "sync", "rename", "syncdirs", "pointer", "syncstore", "return"}
Job == [pc : {"idle"} \cup Early \cup Late, rev : Revisions \cup {None},
        parent : Revisions \cup {None}, handoff : Handoffs \cup {None},
        error : BOOLEAN, stop : BOOLEAN, verdict : Verdicts \cup {"none"}]

TreeTyped == fs \in Tree /\ disk \in Tree
JobTyped == job \in [Builders -> Job]

Runs(p) == job[p].pc # "idle"

\* A launched build that runs holds the build lock under its marker.
RunsMarked == \A p \in Launched : Runs(p) => buildLock = p /\ marker = "unfinished"

\* A build beside leftovers has failed to clean up, and is past its last job.
LeaksAreKnown ==
  leftovers # {} => \A p \in Launched : Runs(p) => job[p].error /\ job[p].pc \in Late

LeakInv == TreeTyped /\ JobTyped /\ RunsMarked /\ LeaksAreKnown /\ LeaksAreMarked

-----------------------------------------------------------------------------
(* Kinds of steps *)

\* At most one launched build runs.
LEMMA OneRuns ==
  ASSUME LeakInv, NEW p \in Launched, NEW q \in Launched, Runs(p), Runs(q)
  PROVE  p = q
BY DEF LeakInv, RunsMarked

LEMMA IdleType == Idle \in Job /\ Idle.pc = "idle"
BY DEF Idle, Job, Early

\* A builder goes from one step to the next.
LEMMA StepKeeps ==
  ASSUME LeakInv, TreeTyped', JobTyped', NEW p \in Builders, Runs(p),
         \A q \in Builders \ {p} : job'[q] = job[q],
         UNCHANGED <<marker, buildLock, leftovers>>,
         p \in Launched /\ leftovers # {} => job'[p].error /\ job'[p].pc \in Late
  PROVE  LeakInv'
<1>1. RunsMarked'
  BY DEF LeakInv, RunsMarked, Runs, Builders
<1>2. LeaksAreKnown'
  BY DEF LeakInv, LeaksAreKnown, Runs, Builders
<1>3. LeaksAreMarked'
  BY DEF LeakInv, LeaksAreMarked
<1> QED
  BY <1>1, <1>2, <1>3 DEF LeakInv

\* A builder's process ends, and marker and leftovers stay.
LEMMA ExitKeeps ==
  ASSUME LeakInv, NEW p \in Builders, Exit(p), UNCHANGED <<fs, disk, marker, leftovers>>
  PROVE  LeakInv'
<1>1. TreeTyped' /\ LeaksAreMarked'
  BY DEF LeakInv, TreeTyped, LeaksAreMarked
<1>2. JobTyped' /\ job'[p].pc = "idle" /\ \A q \in Builders \ {p} : job'[q] = job[q]
  BY IdleType DEF LeakInv, JobTyped, Exit
<1>3. RunsMarked'
  BY <1>2 DEF LeakInv, RunsMarked, Runs, Builders, Exit
<1>4. LeaksAreKnown'
  BY <1>2 DEF LeakInv, LeaksAreKnown, Runs, Builders
<1> QED
  BY <1>1, <1>2, <1>3, <1>4 DEF LeakInv

\* Only the tree changes.
LEMMA NothingRuns ==
  ASSUME LeakInv, TreeTyped', UNCHANGED <<marker, buildLock, job, leftovers>>
  PROVE  LeakInv'
BY DEF LeakInv, JobTyped, RunsMarked, LeaksAreKnown, LeaksAreMarked, Runs

-----------------------------------------------------------------------------
(* Launching *)

LEMMA LaunchingKeeps ==
  ASSUME LeakInv, NEW p \in Builders, NEW r \in Revisions, NEW h \in Handoffs \cup {None},
         Launching(p, r, h)
  PROVE  LeakInv'
<1>1. leftovers = {} /\ leftovers' = {} /\ marker' = "unfinished" /\ buildLock' = p
  BY DEF LeakInv, LeaksAreMarked, Launching
<1>2. \A q \in Launched : ~Runs(q)
  BY EvidenceAssumption DEF LeakInv, RunsMarked, Launching
<1>3. TreeTyped'
  BY DEF LeakInv, TreeTyped, Launching, tree
<1>4. JobTyped' /\ \A q \in Builders \ {p} : job'[q] = job[q]
  <2>1. [Idle EXCEPT !.pc = "marked", !.rev = r, !.parent = fs.pointer, !.handoff = h] \in Job
    BY DEF Idle, Job, Early, LeakInv, TreeTyped, Tree
  <2> QED
    BY <2>1 DEF Launching, LeakInv, JobTyped
<1>5. RunsMarked'
  BY <1>1, <1>2, <1>4 DEF RunsMarked, Runs, Builders
<1> QED
  BY <1>1, <1>3, <1>4, <1>5 DEF LeakInv, LeaksAreKnown, LeaksAreMarked

\* Locking the rules of a project only touches the tree and the store lock.
LEMMA LockRulesType ==
  ASSUME LeakInv, NEW p \in Builders, NEW q \in Rules \cup {None}, LockRules(p, q)
  PROVE  TreeTyped' /\ UNCHANGED <<marker, buildLock, leftovers>>
<1>1. CASE fs.rules = None /\ q # None
  <2>1. fs' \in Tree
    BY <1>1 DEF LeakInv, TreeTyped, Tree, LockRules
  <2>2. [disk EXCEPT !.rules = q, !.pointer = fs.pointer] \in Tree
    BY DEF LeakInv, TreeTyped, Tree
  <2> QED
    BY <1>1, <2>1, <2>2 DEF LockRules, TreeTyped
<1>2. CASE ~(fs.rules = None /\ q # None)
  BY <1>2 DEF LeakInv, TreeTyped, LockRules
<1> QED
  BY <1>1, <1>2

LEMMA EnterKeeps ==
  ASSUME LeakInv, NEW p \in Builders, NEW q \in Rules \cup {None}, Enter(p, q)
  PROVE  LeakInv'
<1>1. TreeTyped' /\ UNCHANGED <<marker, buildLock, leftovers>>
  BY LockRulesType DEF Enter
<1>2. job[p] \in Job /\ job[p].pc = "marked"
  BY DEF LeakInv, JobTyped, Enter, At
<1>3. [job[p] EXCEPT !.pc = "entered", !.handoff = None] \in Job
  BY <1>2 DEF Job, Early
<1>4. job' = [job EXCEPT ![p] = [job[p] EXCEPT !.pc = "entered", !.handoff = None]]
  BY DEF Enter, LeakInv, JobTyped
<1>5. JobTyped' /\ \A b \in Builders \ {p} : job'[b] = job[b]
  BY <1>3, <1>4 DEF LeakInv, JobTyped
<1>6. p \in Launched => leftovers = {}
  BY <1>2 DEF LeakInv, LeaksAreKnown, Runs, Late
<1> QED
  BY <1>1, <1>2, <1>5, <1>6, StepKeeps DEF Runs

\* A build of the developer CLI runs beside the marker.
LEMMA EnterBareKeeps ==
  ASSUME LeakInv, NEW p \in Builders, NEW q \in Rules \cup {None}, NEW r \in Revisions,
         NEW from \in Revisions \cup {None}, EnterBare(p, q, r, from)
  PROVE  LeakInv'
<1>1. TreeTyped' /\ UNCHANGED <<marker, buildLock, leftovers>>
  BY LockRulesType DEF EnterBare
<1>2. [Idle EXCEPT !.pc = "entered", !.rev = r, !.parent = from] \in Job
  BY DEF Idle, Job, Early
<1>3. JobTyped' /\ \A b \in Builders \ {p} : job'[b] = job[b]
  BY <1>2 DEF EnterBare, LeakInv, JobTyped
<1>4. \A b \in Launched : job'[b] = job[b]
  BY <1>3, EvidenceAssumption DEF EnterBare, Builders
<1> QED
  BY <1>1, <1>3, <1>4
     DEF LeakInv, RunsMarked, LeaksAreKnown, LeaksAreMarked, Runs

-----------------------------------------------------------------------------
(* The steps of a builder *)

LEMMA OpenAttemptKeeps ==
  ASSUME LeakInv, NEW p \in Builders, OpenAttempt(p) PROVE LeakInv'
<1>1. job[p] \in Job /\ job[p].pc = "entered"
  BY DEF LeakInv, JobTyped, OpenAttempt, At
<1>2. fs' = [fs EXCEPT !.place[job[p].rev] = "attempts"] /\ disk' = disk
  BY DEF OpenAttempt
<1>3. TreeTyped'
  BY <1>2 DEF LeakInv, TreeTyped, Tree, Places
<1>4. job' = [job EXCEPT ![p].pc = "job"]
  BY DEF OpenAttempt, Goto
<1>5. JobTyped' /\ \A b \in Builders \ {p} : job'[b] = job[b]
  BY <1>1, <1>4 DEF LeakInv, JobTyped, Job, Early
<1>6. p \in Launched => leftovers = {}
  BY <1>1 DEF LeakInv, LeaksAreKnown, Runs, Late
<1> QED
  BY <1>1, <1>3, <1>5, <1>6, StepKeeps DEF Runs, OpenAttempt

LEMMA RefusedKeeps == ASSUME LeakInv, NEW p \in Builders, Refused(p) PROVE LeakInv'
BY ExitKeeps DEF Refused, tree

\* The steps that change only the builder's own state, before its record.
LEMMA JobsKeep ==
  ASSUME LeakInv, NEW p \in Builders, EndJob(p) \/ NextJob(p) \/ Verify(p)
  PROVE  LeakInv'
<1>1. job[p] \in Job /\ job[p].pc \in Early
  BY DEF LeakInv, JobTyped, EndJob, NextJob, Verify, At, Early
<1>2. PICK j \in Job : job' = [job EXCEPT ![p] = j]
  <2>1. CASE EndJob(p)
    <3>1. \/ job' = [job EXCEPT ![p] = [job[p] EXCEPT !.pc = "cleaning"]]
          \/ job' = [job EXCEPT ![p] = [job[p] EXCEPT !.pc = "cleaning", !.error = TRUE]]
          \/ job' = [job EXCEPT ![p] = [job[p] EXCEPT !.pc = "cleaning", !.stop = TRUE]]
      BY <2>1 DEF EndJob, Goto, LeakInv, JobTyped
    <3> QED
      BY <1>1, <3>1 DEF Job, Early
  <2>2. CASE NextJob(p)
    <3>1. job' = [job EXCEPT ![p] = [job[p] EXCEPT !.pc = "job"]]
      BY <2>2 DEF NextJob, Goto, LeakInv, JobTyped
    <3> QED
      BY <1>1, <3>1 DEF Job, Early
  <2>3. CASE Verify(p)
    <3>1. PICK e \in BOOLEAN, v \in Verdicts :
            job' = [job EXCEPT ![p] =
                      [job[p] EXCEPT !.pc = "record", !.error = e, !.verdict = v]]
      <4> DEFINE same == /\ ruleset[job[p].rev] \in {None, fs.rules}
                         /\ job[p].parent # None => AcceptedWhole(job[p].parent)
      <4>1. PICK w \in Verdicts, frozen \in BOOLEAN :
              job' = [job EXCEPT ![p].pc = "record",
                                 ![p].error = ~(same /\ frozen),
                                 ![p].verdict = IF same /\ frozen THEN w
                                                ELSE "needs_review"]
        BY <2>3 DEF Verify
      <4>2. \E e \in BOOLEAN, v \in Verdicts :
              /\ e = ~(same /\ frozen)
              /\ v = IF same /\ frozen THEN w ELSE "needs_review"
        BY DEF Verdicts
      <4> HIDE DEF same
      <4> QED
        BY <4>1, <4>2 DEF LeakInv, JobTyped
    <3> DEFINE first == [job[p] EXCEPT !.pc = "record"]
               second == [first EXCEPT !.error = e]
    <3>2. first \in Job
      BY <1>1 DEF Job, Late
    <3>3. second \in Job
      <4> HIDE DEF first
      <4> QED
        BY <3>2 DEF Job
    <3>4. [second EXCEPT !.verdict = v] \in Job
      <4> HIDE DEF second
      <4> QED
        BY <3>3 DEF Job
    <3> QED
      BY <3>1, <3>4
  <2> QED
    BY <2>1, <2>2, <2>3
<1>3. JobTyped' /\ \A b \in Builders \ {p} : job'[b] = job[b]
  BY <1>2 DEF LeakInv, JobTyped
<1>4. p \in Launched => leftovers = {}
  BY <1>1 DEF LeakInv, LeaksAreKnown, Runs, Early, Late
<1>5. TreeTyped' /\ UNCHANGED <<marker, buildLock, leftovers>>
  BY DEF EndJob, NextJob, Verify, tree, LeakInv, TreeTyped
<1> QED
  BY <1>1, <1>3, <1>4, <1>5, StepKeeps DEF Runs, Early

LEMMA CleanJobKeeps == ASSUME LeakInv, NEW p \in Builders, CleanJob(p) PROVE LeakInv'
<1>1. job[p] \in Job /\ job[p].pc = "cleaning"
  BY DEF LeakInv, JobTyped, CleanJob, At
<1>2. CASE job[p].stop
  BY <1>2, ExitKeeps DEF CleanJob, tree
<1>3. CASE ~job[p].stop
  <2>1. \/ job' = [job EXCEPT ![p] = [job[p] EXCEPT !.pc = "record", !.verdict = "needs_review"]]
        \/ job' = [job EXCEPT ![p] = [job[p] EXCEPT !.pc = "verify"]]
    BY <1>3 DEF CleanJob, LeakInv, JobTyped
  <2>2. PICK j \in Job : job' = [job EXCEPT ![p] = j]
    BY <1>1, <2>1 DEF Job, Early, Late, Verdicts
  <2>3. JobTyped' /\ \A b \in Builders \ {p} : job'[b] = job[b]
    BY <2>2 DEF LeakInv, JobTyped
  <2>4. p \in Launched => leftovers = {}
    BY <1>1 DEF LeakInv, LeaksAreKnown, Runs, Late
  <2>5. TreeTyped' /\ UNCHANGED <<marker, buildLock, leftovers>>
    BY <1>3 DEF CleanJob, tree, LeakInv, TreeTyped
  <2> QED
    BY <1>1, <2>3, <2>4, <2>5, StepKeeps DEF Runs
<1> QED
  BY <1>2, <1>3

\* The removal fails: the build knows, and its marker is there.
LEMMA CleanFailsKeeps == ASSUME LeakInv, NEW p \in Builders, CleanFails(p) PROVE LeakInv'
<1> DEFINE j == [job[p] EXCEPT !.pc = "record", !.error = TRUE, !.stop = FALSE,
                              !.verdict = "needs_review"]
<1>1. job[p] \in Job /\ job[p].pc = "cleaning"
  BY DEF LeakInv, JobTyped, CleanFails, At
<1>2. j \in Job /\ j.error /\ j.pc = "record"
  BY <1>1 DEF Job, Late, Verdicts
<1>3. job' = [job EXCEPT ![p] = j]
  BY DEF CleanFails, LeakInv, JobTyped
<1> HIDE DEF j
<1>4. JobTyped' /\ job'[p] = j /\ \A b \in Builders \ {p} : job'[b] = job[b]
  BY <1>2, <1>3 DEF LeakInv, JobTyped
<1>5. CASE p \in Launched
  <2>1. Runs(p) /\ buildLock = p /\ marker = "unfinished"
    BY <1>1, <1>5 DEF LeakInv, RunsMarked, Runs
  <2>2. \A q \in Launched : Runs(q) => q = p
    BY <2>1, <1>5, OneRuns
  <2>3. marker' = marker /\ buildLock' = buildLock /\ TreeTyped'
    BY DEF CleanFails, tree, LeakInv, TreeTyped
  <2>4. \A q \in Launched \ {p} : job'[q].pc = "idle"
    BY <1>4, <2>2 DEF Runs, Builders
  <2>5. RunsMarked' /\ LeaksAreKnown' /\ LeaksAreMarked'
    BY <1>2, <1>4, <2>1, <2>3, <2>4
       DEF RunsMarked, LeaksAreKnown, LeaksAreMarked, Runs, Late
  <2> QED
    BY <1>4, <2>3, <2>5 DEF LeakInv
<1>6. CASE p \notin Launched
  <2>1. TreeTyped' /\ UNCHANGED <<marker, buildLock, leftovers>>
    BY <1>6 DEF CleanFails, tree, LeakInv, TreeTyped
  <2> QED
    BY <1>1, <1>4, <1>6, <2>1, StepKeeps DEF Runs
<1> QED
  BY <1>5, <1>6

\* From the record to the return nothing touches error, marker or leftovers.
LEMMA PromotionKeeps ==
  ASSUME LeakInv, NEW p \in Builders,
         \/ Record(p) \/ SyncTree(p) \/ Rename(p) \/ SyncDirectories(p)
         \/ ReplacePointer(p) \/ SyncStore(p)
  PROVE  LeakInv'
<1>1. job[p] \in Job /\ job[p].pc \in Late
  BY DEF LeakInv, JobTyped, Record, SyncTree, Rename, SyncDirectories, ReplacePointer,
         SyncStore, At, Late
<1>2. PICK j \in Job : job' = [job EXCEPT ![p] = j] /\ j.pc \in Late /\ j.error = job[p].error
  <2>1. CASE Record(p)
    <3>1. PICK pc \in {"sync", "return"} :
            job' = [job EXCEPT ![p] =
                      [job[p] EXCEPT !.verdict = "none", !.parent = None, !.pc = pc]]
      BY <2>1 DEF Record, LeakInv, JobTyped
    <3> DEFINE j == [job[p] EXCEPT !.verdict = "none", !.parent = None, !.pc = pc]
    <3>2. j \in Job /\ j.pc \in Late /\ j.error = job[p].error
      BY <1>1 DEF Job, Late
    <3> QED
      BY <3>1, <3>2
  <2>2. CASE ~Record(p)
    <3>1. PICK pc \in Late : job' = [job EXCEPT ![p] = [job[p] EXCEPT !.pc = pc]]
      BY <2>2 DEF SyncTree, Rename, SyncDirectories, ReplacePointer, SyncStore, Goto, Late,
                  LeakInv, JobTyped
    <3> DEFINE j == [job[p] EXCEPT !.pc = pc]
    <3>2. j \in Job /\ j.pc \in Late /\ j.error = job[p].error
      BY <1>1 DEF Job, Late
    <3> QED
      BY <3>1, <3>2
  <2> QED
    BY <2>1, <2>2
<1>3. JobTyped' /\ job'[p] = j /\ \A b \in Builders \ {p} : job'[b] = job[b]
  BY <1>2 DEF LeakInv, JobTyped
<1>4. p \in Launched /\ leftovers # {} => job'[p].error /\ job'[p].pc \in Late
  BY <1>1, <1>2, <1>3 DEF LeakInv, LeaksAreKnown, Runs, Late
<1>5. UNCHANGED <<marker, buildLock, leftovers>>
  BY DEF Record, SyncTree, Rename, SyncDirectories, ReplacePointer, SyncStore
<1>6. fs' \in Tree
  <2>1. CASE Rename(p)
    BY <2>1 DEF Rename, LeakInv, TreeTyped, Tree, Places
  <2>2. CASE ReplacePointer(p)
    BY <1>1, <2>2 DEF ReplacePointer, LeakInv, TreeTyped, Tree, Job
  <2> QED
    BY <2>1, <2>2 DEF Record, SyncTree, SyncDirectories, SyncStore, LeakInv, TreeTyped
<1>7. disk' \in Tree
  <2>1. CASE SyncDirectories(p)
    BY <2>1 DEF SyncDirectories, LeakInv, TreeTyped, Tree
  <2>2. CASE SyncStore(p)
    BY <1>1, <2>2 DEF SyncStore, LeakInv, TreeTyped, Tree, Job
  <2> QED
    BY <2>1, <2>2 DEF Record, SyncTree, Rename, ReplacePointer, LeakInv, TreeTyped
<1> QED
  BY <1>1, <1>3, <1>4, <1>5, <1>6, <1>7, StepKeeps DEF Runs, Late, TreeTyped

\* The marker is cleared only when no container can be left.
LEMMA ReturnKeeps == ASSUME LeakInv, NEW p \in Builders, Return(p) PROVE LeakInv'
<1>1. CASE p \in Launched /\ ~job[p].error
  <2>1. Runs(p)
    BY DEF Return, At, Runs
  <2>2. leftovers = {} /\ leftovers' = {}
    BY <1>1, <2>1 DEF LeakInv, LeaksAreKnown, Return
  <2>3. \A q \in Launched : Runs(q) => q = p
    BY <1>1, <2>1, OneRuns
  <2>4. JobTyped' /\ job'[p].pc = "idle" /\ \A q \in Builders \ {p} : job'[q] = job[q]
    BY IdleType DEF LeakInv, JobTyped, Return, Exit
  <2>5. \A q \in Launched : job'[q].pc = "idle"
    BY <2>3, <2>4 DEF Runs, Builders
  <2>6. TreeTyped'
    BY DEF Return, tree, LeakInv, TreeTyped
  <2> QED
    BY <2>2, <2>4, <2>5, <2>6 DEF LeakInv, RunsMarked, LeaksAreKnown, LeaksAreMarked, Runs
<1>2. CASE ~(p \in Launched /\ ~job[p].error)
  BY <1>2, ExitKeeps DEF Return, tree
<1> QED
  BY <1>1, <1>2

\* A launched builder that is stopped while it owns containers leaves them
\* under its marker.
LEMMA StopKeeps == ASSUME LeakInv, NEW p \in Builders, Stop(p) PROVE LeakInv'
<1>1. CASE OwnsContainers(p)
  <2>1. p \in Launched /\ Runs(p)
    BY <1>1 DEF OwnsContainers, Runs
  <2>2. marker' = "unfinished"
    BY <2>1 DEF LeakInv, RunsMarked, Stop
  <2>3. \A q \in Launched : Runs(q) => q = p
    BY <2>1, OneRuns
  <2>4. JobTyped' /\ job'[p].pc = "idle" /\ \A q \in Builders \ {p} : job'[q] = job[q]
    BY IdleType DEF LeakInv, JobTyped, Stop, Exit
  <2>5. \A q \in Launched : job'[q].pc = "idle"
    BY <2>3, <2>4 DEF Runs, Builders
  <2>6. TreeTyped'
    BY DEF Stop, tree, LeakInv, TreeTyped
  <2> QED
    BY <2>2, <2>4, <2>5, <2>6 DEF LeakInv, RunsMarked, LeaksAreKnown, LeaksAreMarked, Runs
<1>2. CASE ~OwnsContainers(p)
  BY <1>2, ExitKeeps DEF Stop, tree
<1> QED
  BY <1>1, <1>2

-----------------------------------------------------------------------------
(* Faults *)

LEMMA PowerLossKeeps == ASSUME LeakInv, PowerLoss PROVE LeakInv'
<1>1. job' = [p \in Builders |-> Idle]
  BY DEF PowerLoss
<1>2. JobTyped' /\ \A p \in Launched : job'[p].pc = "idle"
  BY <1>1, IdleType DEF JobTyped, Builders
<1>3. PICK place \in [Revisions -> Places], pointer \in {fs.pointer, disk.pointer} :
        fs' = [fs EXCEPT !.place = place, !.pointer = pointer] /\ disk' = fs'
  BY DEF PowerLoss, Places
<1>4. TreeTyped'
  BY <1>3 DEF LeakInv, TreeTyped, Tree
<1>5. LeaksAreMarked'
  <2>1. marker' = marker
        /\ leftovers' = leftovers \cup {p \in Builders : OwnsContainers(p)}
    BY DEF PowerLoss
  <2>2. \A p \in Builders : OwnsContainers(p) => marker = "unfinished"
    BY DEF LeakInv, RunsMarked, OwnsContainers, Runs
  <2> QED
    BY <2>1, <2>2 DEF LeakInv, LeaksAreMarked
<1> QED
  BY <1>2, <1>4, <1>5 DEF LeakInv, RunsMarked, LeaksAreKnown, Runs

LEMMA RemoveLeftoversKeeps == ASSUME LeakInv, RemoveLeftovers PROVE LeakInv'
BY DEF RemoveLeftovers, tree, LeakInv, TreeTyped, JobTyped, RunsMarked, LeaksAreKnown,
       LeaksAreMarked, Runs

-----------------------------------------------------------------------------
(* The invariant *)

LEMMA LeakInitially == Init => LeakInv
<1> SUFFICES ASSUME Init PROVE LeakInv
  OBVIOUS
<1>1. TreeTyped
  BY DEF Init, TreeTyped, Tree, Places
<1>2. JobTyped /\ \A p \in Builders : job[p].pc = "idle"
  BY IdleType DEF Init, JobTyped
<1> QED
  BY <1>1, <1>2
     DEF Init, LeakInv, RunsMarked, LeaksAreKnown, LeaksAreMarked, Runs, Builders

LEMMA LeakInductive == LeakInv /\ [Next]_vars => LeakInv'
<1> SUFFICES ASSUME LeakInv, [Next]_vars PROVE LeakInv'
  OBVIOUS
<1>1. ASSUME NEW p \in Builders, Step(p) PROVE LeakInv'
  <2>1. ASSUME NEW q \in Rules \cup {None}, Enter(p, q) PROVE LeakInv'
    BY <2>1, EnterKeeps
  <2> QED
    BY <1>1, <2>1, OpenAttemptKeeps, RefusedKeeps, JobsKeep, CleanJobKeeps, CleanFailsKeeps,
       PromotionKeeps, ReturnKeeps, StopKeeps DEF Step
<1>2. ASSUME NEW p \in Builders, NEW r \in Revisions, Launch(p, r) PROVE LeakInv'
  <2>1. CASE LaunchBuild(p, r)
    BY <2>1, LaunchingKeeps DEF LaunchBuild
  <2>2. ASSUME NEW h \in Handoffs, LaunchRequest(p, r, h) PROVE LeakInv'
    BY <2>2, LaunchingKeeps DEF LaunchRequest
  <2>3. ASSUME NEW q \in Rules \cup {None}, NEW from \in {None, fs.pointer},
               EnterBare(p, q, r, from)
        PROVE  LeakInv'
    <3>1. from \in Revisions \cup {None}
      BY DEF LeakInv, TreeTyped, Tree
    <3> QED
      BY <2>3, <3>1, EnterBareKeeps
  <2> QED
    BY <1>2, <2>1, <2>2, <2>3 DEF Launch
<1>3. ASSUME NEW r \in Revisions, Accept(r) PROVE LeakInv'
  BY <1>3, NothingRuns DEF Accept, tree, LeakInv, TreeTyped
<1>4. ASSUME NEW h \in Handoffs, NEW r \in Revisions \cup {None}, Prepare(h, r) PROVE LeakInv'
  BY <1>4, NothingRuns DEF Prepare, tree, LeakInv, TreeTyped
<1>5. CASE PowerLoss
  BY <1>5, PowerLossKeeps
<1>6. CASE RemoveLeftovers
  BY <1>6, RemoveLeftoversKeeps
<1>7. CASE UNCHANGED vars
  BY <1>7, NothingRuns DEF vars, tree, LeakInv, TreeTyped
<1> QED
  BY <1>1, <1>2, <1>3, <1>4, <1>5, <1>6, <1>7 DEF Next

\* Containers and volumes of a launched build that is gone are announced by the
\* recovery marker until the operator has removed them, whichever process is
\* stopped or killed at whatever step, and through any power loss
\* (launcher.py, execute_project_build; sandbox.py, DockerSandbox.run).
THEOREM LeaksAreAlwaysMarked == Spec => []LeaksAreMarked
<1>1. Init => LeakInv
  BY LeakInitially
<1>2. LeakInv /\ [Next]_vars => LeakInv'
  BY LeakInductive
<1>3. LeakInv => LeaksAreMarked
  BY DEF LeakInv
<1> QED
  BY <1>1, <1>2, <1>3, PTL DEF Spec

-----------------------------------------------------------------------------
(* The chain of accepted revisions *)

Links == [Revisions -> Revisions \cup {None}]

\* The chain holds the revision the pointer names and, with a revision, its
\* parent.
LEMMA ChainHolds ==
  ASSUME NEW up \in Links, NEW p \in Revisions \cup {None}
  PROVE  /\ p \in ChainFrom(p, up) \cup {None}
         /\ \A s \in ChainFrom(p, up) : up[s] \in ChainFrom(p, up) \cup {None}
BY DEF ChainFrom, Links

\* It is the least such set.
LEMMA ChainLeast ==
  ASSUME NEW up \in Links, NEW p, NEW S \in SUBSET Revisions, p \in S \cup {None},
         \A s \in S : up[s] \in S \cup {None}
  PROVE  ChainFrom(p, up) \subseteq S
BY DEF ChainFrom

LEMMA ChainType ==
  ASSUME NEW up, NEW p
  PROVE  ChainFrom(p, up) \in SUBSET Revisions
BY DEF ChainFrom

\* A revision of the chain has its own chain within it.
LEMMA ChainOfMember ==
  ASSUME NEW up \in Links, NEW p \in Revisions \cup {None},
         NEW q \in ChainFrom(p, up) \cup {None}
  PROVE  ChainFrom(q, up) \subseteq ChainFrom(p, up)
BY ChainHolds, ChainLeast, ChainType

\* A pointer that moves to a child adds that child.
LEMMA ChainOfChild ==
  ASSUME NEW up \in Links, NEW r \in Revisions, NEW p \in Revisions \cup {None}, up[r] = p
  PROVE  /\ ChainFrom(r, up) \subseteq ChainFrom(p, up) \cup {r}
         /\ ChainFrom(p, up) \subseteq ChainFrom(r, up)
         /\ r \in ChainFrom(r, up)
<1>1. ChainFrom(p, up) \cup {r} \in SUBSET Revisions
  BY ChainType
<1>2. \A s \in ChainFrom(p, up) \cup {r} : up[s] \in (ChainFrom(p, up) \cup {r}) \cup {None}
  <2>1. up[r] \in ChainFrom(p, up) \cup {None}
    BY ChainHolds
  <2>2. \A s \in ChainFrom(p, up) : up[s] \in ChainFrom(p, up) \cup {None}
    BY ChainHolds
  <2> QED
    BY ONLY <2>1, <2>2
<1>3. ChainFrom(r, up) \subseteq ChainFrom(p, up) \cup {r}
  <2> DEFINE S == ChainFrom(p, up) \cup {r}
  <2>1. r \in S \cup {None}
    OBVIOUS
  <2> HIDE DEF S
  <2>2. S \in SUBSET Revisions /\ \A s \in S : up[s] \in S \cup {None}
    BY <1>1, <1>2 DEF S
  <2>3. ChainFrom(r, up) \subseteq S
    BY <2>1, <2>2, ChainLeast
  <2> QED
    BY <2>3 DEF S
<1>4. r \in ChainFrom(r, up)
  BY ChainHolds, EvidenceAssumption
<1>5. p \in ChainFrom(r, up) \cup {None}
  BY <1>4, ChainHolds
<1>6. ChainFrom(p, up) \subseteq ChainFrom(r, up)
  BY <1>5, ChainOfMember
<1> QED
  BY <1>3, <1>4, <1>6

\* What other revisions record of their parents does not matter to it.
LEMMA ChainUnmoved ==
  ASSUME NEW up \in Links, NEW down \in Links, NEW p \in Revisions \cup {None},
         \A r \in ChainFrom(p, up) : down[r] = up[r]
  PROVE  ChainFrom(p, down) = ChainFrom(p, up)
<1>1. ChainFrom(p, down) \subseteq ChainFrom(p, up)
  <2>1. \A s \in ChainFrom(p, up) : down[s] \in ChainFrom(p, up) \cup {None}
    BY ChainHolds
  <2> QED
    BY <2>1, ChainHolds, ChainLeast, ChainType
<1>2. ChainFrom(p, up) \subseteq ChainFrom(p, down)
  <2>1. \A s \in ChainFrom(p, down) : up[s] \in ChainFrom(p, down) \cup {None}
    BY <1>1, ChainHolds
  <2> QED
    BY <2>1, ChainHolds, ChainLeast, ChainType
<1> QED
  BY <1>1, <1>2

-----------------------------------------------------------------------------
(* The accepted history.  A builder holds the store lease from its checks   *)
(* to its return, so that one revision at a time is promoted (Promoting).   *)
(* What a revision needs before last_good.json names it has then reached    *)
(* the disk (ChainDurable); the durable pointer may lag behind the visible  *)
(* one, but only along the chain (PointerDurable), and what a build has     *)
(* reported is reached from the durable one (ReportedDurable).              *)

Inside(p) == job[p].pc \notin {"idle", "marked"}
Trying == {"job", "cleaning", "verify", "record", "sync", "rename"}
Passed == {"sync", "rename", "syncdirs", "pointer", "syncstore"}

\* How far the revision of a builder has come.
Fits(p) ==
  /\ job[p].pc \in Trying => fs.place[job[p].rev] = "attempts"
  /\ job[p].pc \in Trying \cup {"syncdirs", "pointer"} => parent[job[p].rev] = fs.pointer
  /\ job[p].pc \in Passed => result[job[p].rev] = "accepted"
  /\ job[p].pc \in Passed \ {"sync"} => job[p].rev \in synced
  /\ job[p].pc \in {"syncdirs", "pointer", "syncstore"} => fs.place[job[p].rev] = "accepted"
  /\ job[p].pc \in {"pointer", "syncstore"} => disk.place[job[p].rev] = "accepted"
  /\ job[p].pc = "syncstore" => fs.pointer = job[p].rev

RecordsTyped ==
  /\ parent \in Links
  /\ result \in [Revisions -> Verdicts \cup {"none", "torn"}]
  /\ synced \subseteq Revisions
  /\ losses \in Nat

Named == \A p \in Builders : Runs(p) => job[p].rev \in Revisions
Promoting == \A p \in Builders : Inside(p) => storeLock = p /\ Fits(p)
ChainDurable ==
  \A r \in Chain : AcceptedWhole(r) /\ disk.place[r] = "accepted" /\ r \in synced
PointerDurable == disk.pointer \in Chain \cup {None}
ReportedDurable == reported \subseteq ChainFrom(disk.pointer, parent)

Standing == ChainDurable /\ PointerDurable /\ ReportedDurable /\ AcceptancesAnchored

HistoryInv == RecordsTyped /\ Named /\ Promoting /\ Standing

\* The types that the other invariant gives.
StoreTyped == TreeTyped /\ JobTyped

LEMMA HistoryFollows == ASSUME HistoryInv, StoreTyped PROVE HistoryStands
<1>1. parent \in Links /\ fs.pointer \in Revisions \cup {None}
  BY DEF HistoryInv, RecordsTyped, StoreTyped, TreeTyped, Tree
<1>2. ChainFrom(disk.pointer, parent) \subseteq Chain
  BY <1>1, ChainOfMember DEF HistoryInv, Standing, PointerDurable, Chain
<1> QED
  BY <1>2 DEF HistoryInv, Standing, ReportedDurable, ChainDurable, HistoryStands

\* One builder at a time is past its checks.
LEMMA OneInside ==
  ASSUME HistoryInv, NEW p \in Builders, NEW q \in Builders, Inside(p), Inside(q)
  PROVE  p = q
BY DEF HistoryInv, Promoting

\* The builder that holds the lease takes a step.
LEMMA InsideStep ==
  ASSUME HistoryInv, NEW p \in Builders, Inside(p), storeLock' = storeLock, Fits(p)',
         job'[p].rev = job[p].rev, \A q \in Builders \ {p} : job'[q] = job[q]
  PROVE  Named' /\ Promoting'
<1>1. \A q \in Builders \ {p} : ~Inside(q)
  BY OneInside
<1>2. \A q \in Builders \ {p} : ~Inside(q)'
  BY <1>1 DEF Inside
<1>3. Inside(p)' => storeLock' = p
  BY DEF HistoryInv, Promoting
<1>4. Promoting'
  BY <1>2, <1>3 DEF Promoting
<1>5. Named'
  BY DEF HistoryInv, Named, Runs, Inside
<1> QED
  BY <1>4, <1>5

\* A process ends, or one that does not hold the lease takes a step.
LEMMA OutsideStep ==
  ASSUME HistoryInv, NEW p \in Builders, UNCHANGED tree, ~Inside(p)', Named',
         storeLock' = storeLock \/ storeLock = p,
         \A q \in Builders \ {p} : job'[q] = job[q]
  PROVE  Promoting'
<1> SUFFICES ASSUME NEW q \in Builders, Inside(q)' PROVE storeLock' = q /\ Fits(q)'
  BY DEF Promoting
<1>1. q # p /\ job'[q] = job[q]
  OBVIOUS
<1>2. storeLock = q /\ Fits(q)
  BY <1>1 DEF HistoryInv, Promoting, Inside
<1>3. Fits(q)'
  BY <1>1, <1>2 DEF Fits, tree
<1> QED
  BY <1>1, <1>2, <1>3

\* Nothing that the history consists of changes.
LEMMA Untouched ==
  ASSUME HistoryInv, UNCHANGED <<tree, acceptance, history>>, Named', Promoting'
  PROVE  HistoryInv'
<1>1. RecordsTyped'
  BY DEF HistoryInv, RecordsTyped, tree, history
<1>2. Standing'
  BY DEF HistoryInv, Standing, ChainDurable, PointerDurable, ReportedDurable,
         AcceptancesAnchored, AcceptedWhole, Chain, tree, history
<1> QED
  BY <1>1, <1>2 DEF HistoryInv

\* A process ends.
LEMMA ExitStands ==
  ASSUME HistoryInv, StoreTyped, NEW p \in Builders, Exit(p),
         UNCHANGED <<tree, acceptance, history>>
  PROVE  HistoryInv'
<1>1. job'[p] = Idle /\ \A q \in Builders \ {p} : job'[q] = job[q]
  BY DEF Exit, StoreTyped, JobTyped
<1>2. ~Inside(p)' /\ Named'
  BY <1>1 DEF Inside, Idle, HistoryInv, Named, Runs
<1>3. storeLock' = storeLock \/ storeLock = p
  BY DEF Exit
<1>4. Promoting'
  BY <1>1, <1>2, <1>3, OutsideStep
<1> QED
  BY <1>2, <1>4, Untouched

LEMMA LaunchingStands ==
  ASSUME HistoryInv, StoreTyped, NEW p \in Builders, NEW r \in Revisions,
         NEW h \in Handoffs \cup {None}, Launching(p, r, h)
  PROVE  HistoryInv'
<1>1. /\ job'[p] = [Idle EXCEPT !.pc = "marked", !.rev = r, !.parent = fs.pointer,
                                !.handoff = h]
      /\ \A q \in Builders \ {p} : job'[q] = job[q]
  BY DEF Launching, StoreTyped, JobTyped
<1>2. job'[p].pc = "marked" /\ job'[p].rev = r
  BY <1>1 DEF Idle
<1>3. ~Inside(p)' /\ Named'
  BY <1>1, <1>2 DEF Inside, HistoryInv, Named, Runs
<1>4. Promoting'
  BY <1>1, <1>3, OutsideStep DEF Launching
<1> QED
  BY <1>3, <1>4, Untouched DEF Launching, review

\* Locking the rules may flush the pointer that everybody sees.
LEMMA LockRulesStands ==
  ASSUME HistoryInv, StoreTyped, NEW p \in Builders, NEW q \in Rules \cup {None},
         LockRules(p, q)
  PROVE  RecordsTyped' /\ Standing'
<1>1. /\ fs'.pointer = fs.pointer /\ fs'.place = fs.place /\ disk'.place = disk.place
      /\ disk'.pointer \in {disk.pointer, fs.pointer}
  BY DEF LockRules, StoreTyped, TreeTyped, Tree
<1>2. UNCHANGED <<parent, result, synced, acceptance, reported, losses>>
  BY DEF LockRules, review, history
<1>3. RecordsTyped'
  BY <1>2 DEF HistoryInv, RecordsTyped
<1>4. Chain' = Chain
  BY <1>1, <1>2 DEF Chain
<1>5. parent \in Links /\ fs.pointer \in Revisions \cup {None}
  BY DEF HistoryInv, RecordsTyped, StoreTyped, TreeTyped, Tree
<1>6. ChainDurable' /\ AcceptancesAnchored'
  BY <1>1, <1>2, <1>4
     DEF HistoryInv, Standing, ChainDurable, AcceptedWhole, AcceptancesAnchored
<1>7. fs.pointer \in Chain \cup {None}
  BY <1>5, ChainHolds DEF Chain
<1>8. PointerDurable'
  BY <1>1, <1>4, <1>7 DEF HistoryInv, Standing, PointerDurable
<1>9. ChainFrom(disk.pointer, parent) \subseteq Chain
  BY <1>5, ChainOfMember DEF HistoryInv, Standing, PointerDurable, Chain
<1>10. reported \subseteq ChainFrom(disk'.pointer, parent)
  BY <1>1, <1>9 DEF HistoryInv, Standing, ReportedDurable, Chain
<1>11. ReportedDurable'
  BY <1>2, <1>10 DEF ReportedDurable
<1> QED
  BY <1>3, <1>6, <1>8, <1>11 DEF Standing

\* The lease was free, so that no other build is past its checks.
LEMMA EntryStands ==
  ASSUME HistoryInv, StoreTyped, NEW p \in Builders, NEW q \in Rules \cup {None},
         LockRules(p, q), job'[p].pc = "entered", job'[p].rev \in Revisions,
         \A b \in Builders \ {p} : job'[b] = job[b]
  PROVE  HistoryInv'
<1>1. RecordsTyped' /\ Standing'
  BY LockRulesStands
<1>2. \A b \in Builders : ~Inside(b)
  BY EvidenceAssumption DEF HistoryInv, Promoting, LockRules, Builders
<1>3. \A b \in Builders \ {p} : ~Inside(b)'
  BY <1>2 DEF Inside
<1>4. Fits(p)'
  BY DEF Fits, Trying, Passed
<1>5. Promoting'
  BY <1>3, <1>4 DEF Promoting, LockRules
<1>6. Named'
  BY DEF HistoryInv, Named, Runs
<1> QED
  BY <1>1, <1>5, <1>6 DEF HistoryInv

LEMMA EnterStands ==
  ASSUME HistoryInv, StoreTyped, NEW p \in Builders, NEW q \in Rules \cup {None},
         Enter(p, q)
  PROVE  HistoryInv'
<1>1. job[p] \in Job /\ job[p].pc = "marked"
  BY DEF StoreTyped, JobTyped, Enter, At
<1>2. job' = [job EXCEPT ![p] = [job[p] EXCEPT !.pc = "entered", !.handoff = None]]
  BY DEF Enter, StoreTyped, JobTyped
<1>3. /\ job'[p] = [job[p] EXCEPT !.pc = "entered", !.handoff = None]
      /\ \A b \in Builders \ {p} : job'[b] = job[b]
  BY <1>2 DEF StoreTyped, JobTyped
<1>4. job'[p].pc = "entered" /\ job'[p].rev = job[p].rev
  BY <1>1, <1>3 DEF Job
<1>5. job'[p].rev \in Revisions
  BY <1>1, <1>4 DEF HistoryInv, Named, Runs
<1> QED
  BY <1>3, <1>4, <1>5, EntryStands DEF Enter

LEMMA EnterBareStands ==
  ASSUME HistoryInv, StoreTyped, NEW p \in Builders, NEW q \in Rules \cup {None},
         NEW r \in Revisions, NEW from \in Revisions \cup {None}, EnterBare(p, q, r, from)
  PROVE  HistoryInv'
<1>1. /\ job'[p] = [Idle EXCEPT !.pc = "entered", !.rev = r, !.parent = from]
      /\ \A b \in Builders \ {p} : job'[b] = job[b]
  BY DEF EnterBare, StoreTyped, JobTyped
<1>2. job'[p].pc = "entered" /\ job'[p].rev = r
  BY <1>1 DEF Idle
<1> QED
  BY <1>1, <1>2, EntryStands DEF EnterBare

\* The form of the steps that a builder takes inside.
LEMMA GotoForm ==
  ASSUME StoreTyped, NEW p \in Builders, NEW step, Goto(p, step)
  PROVE  /\ job'[p].pc = step /\ job'[p].rev = job[p].rev
         /\ \A b \in Builders \ {p} : job'[b] = job[b]
BY DEF StoreTyped, JobTyped, Goto, Job

\* A revision that is being tried is not in the chain.
LEMMA TriedIsNew ==
  ASSUME HistoryInv, NEW r \in Chain
  PROVE  fs.place[r] = "accepted" /\ disk.place[r] = "accepted"
         /\ result[r] = "accepted" /\ r \in synced
BY DEF HistoryInv, Standing, ChainDurable, AcceptedWhole

LEMMA OpenAttemptStands ==
  ASSUME HistoryInv, StoreTyped, StoreTyped', NEW p \in Builders, OpenAttempt(p)
  PROVE  HistoryInv'
<1> DEFINE r == job[p].rev
<1>1. job[p].pc = "entered" /\ Inside(p) /\ r \in Revisions
  BY DEF OpenAttempt, At, Inside, HistoryInv, Named, Runs
<1>2. /\ job'[p].pc = "job" /\ job'[p].rev = r
      /\ \A b \in Builders \ {p} : job'[b] = job[b]
  BY GotoForm DEF OpenAttempt
<1>3. fs.place[r] = "none" /\ job[p].parent = fs.pointer
  BY DEF OpenAttempt, ParentFits
<1>4. /\ fs' = [fs EXCEPT !.place[r] = "attempts"]
      /\ parent' = [parent EXCEPT ![r] = fs.pointer]
  BY <1>3 DEF OpenAttempt
<1>5. UNCHANGED <<disk, synced, result, acceptance, reported, losses, storeLock>>
  BY DEF OpenAttempt, review, history
<1>6. parent \in Links /\ fs.pointer \in Revisions \cup {None}
  BY DEF HistoryInv, RecordsTyped, StoreTyped, TreeTyped, Tree
<1> HIDE DEF r
<1>7. parent' \in Links /\ parent'[r] = fs.pointer
      /\ \A s \in Revisions \ {r} : parent'[s] = parent[s]
  BY <1>1, <1>4, <1>6 DEF Links
<1>8. fs'.pointer = fs.pointer /\ fs'.place[r] = "attempts"
      /\ \A s \in Revisions \ {r} : fs'.place[s] = fs.place[s]
  BY <1>1, <1>4 DEF StoreTyped, TreeTyped, Tree
<1>9. RecordsTyped'
  BY <1>5, <1>7 DEF HistoryInv, RecordsTyped
<1>10. r \notin Chain
  BY <1>3, TriedIsNew
<1>11. Chain \in SUBSET Revisions
  BY ChainType DEF Chain
<1>12. ChainFrom(fs.pointer, parent') = ChainFrom(fs.pointer, parent)
  BY <1>6, <1>7, <1>10, <1>11, ChainUnmoved DEF Chain
<1>13. Chain' = Chain
  BY <1>8, <1>12 DEF Chain
<1>14. disk.pointer \in Chain \cup {None}
  BY DEF HistoryInv, Standing, PointerDurable
<1>15. ChainFrom(disk.pointer, parent) \subseteq Chain
  BY <1>6, <1>14, ChainOfMember DEF Chain
<1>16. ChainFrom(disk.pointer, parent') = ChainFrom(disk.pointer, parent)
  BY <1>6, <1>7, <1>10, <1>11, <1>14, <1>15, ChainUnmoved
<1>17. ChainDurable'
  BY <1>5, <1>8, <1>10, <1>11, <1>13, TriedIsNew DEF ChainDurable, AcceptedWhole
<1>18. PointerDurable' /\ ReportedDurable' /\ AcceptancesAnchored'
  BY <1>5, <1>13, <1>16
     DEF HistoryInv, Standing, PointerDurable, ReportedDurable, AcceptancesAnchored
<1>19. Fits(p)'
  BY <1>2, <1>7, <1>8 DEF Fits, Trying, Passed
<1>20. Named' /\ Promoting'
  BY <1>1, <1>2, <1>5, <1>19, InsideStep DEF r
<1> QED
  BY <1>9, <1>17, <1>18, <1>20 DEF HistoryInv, Standing

LEMMA RefusedStands ==
  ASSUME HistoryInv, StoreTyped, NEW p \in Builders, Refused(p)
  PROVE  HistoryInv'
BY ExitStands DEF Refused, review

\* The sandboxed jobs and the verdict change nothing in the tree.
LEMMA TryStands ==
  ASSUME HistoryInv, StoreTyped, NEW p \in Builders,
         job[p].pc \in Trying, job'[p].pc \in Trying \ Passed, job'[p].rev = job[p].rev,
         \A b \in Builders \ {p} : job'[b] = job[b],
         UNCHANGED <<tree, acceptance, history, storeLock>>
  PROVE  HistoryInv'
<1>1. Inside(p)
  BY DEF Inside, Trying
<1>2. Fits(p)
  BY <1>1 DEF HistoryInv, Promoting
<1>3. Fits(p)'
  BY <1>2 DEF Fits, Trying, Passed, tree
<1>4. Named' /\ Promoting'
  BY <1>1, <1>3, InsideStep
<1> QED
  BY <1>4, Untouched

LEMMA JobsStand ==
  ASSUME HistoryInv, StoreTyped, NEW p \in Builders,
         EndJob(p) \/ CleanJob(p) \/ NextJob(p) \/ CleanFails(p) \/ Verify(p)
  PROVE  HistoryInv'
<1>1. job[p] \in Job /\ job[p].pc \in {"job", "cleaning", "verify"}
  BY DEF StoreTyped, JobTyped, EndJob, CleanJob, NextJob, CleanFails, Verify, At
<1>2. UNCHANGED <<tree, acceptance, history>>
  BY DEF EndJob, CleanJob, NextJob, CleanFails, Verify, review
<1>3. CASE CleanJob(p) /\ job[p].stop
  BY <1>2, <1>3, ExitStands DEF CleanJob
<1>4. CASE ~(CleanJob(p) /\ job[p].stop)
  <2>1. storeLock' = storeLock
    BY <1>4 DEF EndJob, CleanJob, NextJob, CleanFails, Verify
  <2>2. /\ job'[p].pc \in {"job", "cleaning", "verify", "record"}
        /\ job'[p].rev = job[p].rev
        /\ \A b \in Builders \ {p} : job'[b] = job[b]
    <3>1. CASE EndJob(p) \/ NextJob(p)
      BY <1>1, <3>1 DEF EndJob, NextJob, Goto, StoreTyped, JobTyped, Job
    <3>2. CASE CleanJob(p)
      BY <1>1, <1>4, <3>2 DEF CleanJob, StoreTyped, JobTyped, Job
    <3>3. CASE CleanFails(p)
      BY <1>1, <3>3 DEF CleanFails, StoreTyped, JobTyped, Job
    <3>4. CASE Verify(p)
      <4>1. PICK e, v : job' = [job EXCEPT ![p].pc = "record", ![p].error = e,
                                           ![p].verdict = v]
        BY <3>4 DEF Verify
      <4> QED
        BY <1>1, <4>1 DEF StoreTyped, JobTyped, Job
    <3> QED
      BY <3>1, <3>2, <3>3, <3>4
  <2> QED
    BY <1>1, <1>2, <2>1, <2>2, TryStands DEF Trying, Passed
<1> QED
  BY <1>3, <1>4

-----------------------------------------------------------------------------
(* Promotion *)

\* The verdict is recorded in a revision that the chain does not hold.
LEMMA RecordStands ==
  ASSUME HistoryInv, StoreTyped, NEW p \in Builders, Record(p)
  PROVE  HistoryInv'
<1> DEFINE r == job[p].rev
<1>1. job[p].pc = "record" /\ Inside(p) /\ r \in Revisions /\ Fits(p)
  BY DEF Record, At, Inside, HistoryInv, Named, Runs, Promoting
<1>2. job[p] \in Job
  BY DEF StoreTyped, JobTyped
<1>3. PICK pc \in {"sync", "return"} :
        /\ pc = "sync" => job[p].verdict = "accepted"
        /\ job' = [job EXCEPT ![p].verdict = "none", ![p].parent = None, ![p].pc = pc]
  BY DEF Record
<1>4. /\ job'[p].pc = pc /\ job'[p].rev = r
      /\ \A b \in Builders \ {p} : job'[b] = job[b]
  BY <1>2, <1>3 DEF StoreTyped, JobTyped, Job
<1>5. result' = [result EXCEPT ![r] = job[p].verdict]
  BY DEF Record
<1>6. UNCHANGED <<fs, disk, synced, parent, acceptance, reported, losses, storeLock>>
  BY DEF Record, review, history
<1>7. fs.place[r] = "attempts" /\ parent[r] = fs.pointer
  BY <1>1 DEF Fits, Trying
<1> HIDE DEF r
<1>8. result' \in [Revisions -> Verdicts \cup {"none", "torn"}]
      /\ result'[r] = job[p].verdict /\ \A s \in Revisions \ {r} : result'[s] = result[s]
  BY <1>1, <1>2, <1>5 DEF HistoryInv, RecordsTyped, Job
<1>9. RecordsTyped'
  BY <1>6, <1>8 DEF HistoryInv, RecordsTyped
<1>10. r \notin Chain /\ Chain \in SUBSET Revisions
  BY <1>7, TriedIsNew, ChainType DEF Chain
<1>11. Chain' = Chain
  BY <1>6 DEF Chain
<1>12. ChainDurable'
  BY <1>6, <1>8, <1>10, <1>11, TriedIsNew DEF ChainDurable, AcceptedWhole
<1>13. PointerDurable' /\ ReportedDurable' /\ AcceptancesAnchored'
  BY <1>6, <1>11
     DEF HistoryInv, Standing, PointerDurable, ReportedDurable, AcceptancesAnchored
<1>14. Fits(p)'
  BY <1>3, <1>4, <1>6, <1>7, <1>8 DEF Fits, Trying, Passed
<1>15. Named' /\ Promoting'
  BY <1>1, <1>4, <1>6, <1>14, InsideStep DEF r
<1> QED
  BY <1>9, <1>12, <1>13, <1>15 DEF HistoryInv, Standing

\* A flush of the revision, the rename and the flush of both directories
\* leave pointers and parents alone, and take nothing from the chain.
LEMMA PlacingStands ==
  ASSUME HistoryInv, StoreTyped, NEW p \in Builders,
         Inside(p), Fits(p)', job'[p].rev = job[p].rev,
         \A b \in Builders \ {p} : job'[b] = job[b],
         UNCHANGED <<result, parent, acceptance, reported, losses, storeLock>>,
         fs'.pointer = fs.pointer, disk'.pointer = disk.pointer,
         synced' \subseteq Revisions, synced \subseteq synced',
         \A r \in Chain : fs'.place[r] = "accepted" /\ disk'.place[r] = "accepted"
  PROVE  HistoryInv'
<1>1. RecordsTyped'
  BY DEF HistoryInv, RecordsTyped
<1>2. Chain' = Chain
  BY DEF Chain
<1>3. ChainDurable'
  BY <1>2, TriedIsNew DEF ChainDurable, AcceptedWhole
<1>4. PointerDurable' /\ ReportedDurable' /\ AcceptancesAnchored'
  BY <1>2 DEF HistoryInv, Standing, PointerDurable, ReportedDurable, AcceptancesAnchored
<1>5. Named' /\ Promoting'
  BY InsideStep
<1> QED
  BY <1>1, <1>3, <1>4, <1>5 DEF HistoryInv, Standing

LEMMA SyncTreeStands ==
  ASSUME HistoryInv, StoreTyped, NEW p \in Builders, SyncTree(p)
  PROVE  HistoryInv'
<1>1. job[p].pc = "sync" /\ Inside(p) /\ job[p].rev \in Revisions /\ Fits(p)
  BY DEF SyncTree, At, Inside, HistoryInv, Named, Runs, Promoting
<1>2. /\ job'[p].pc = "rename" /\ job'[p].rev = job[p].rev
      /\ \A b \in Builders \ {p} : job'[b] = job[b]
  BY GotoForm DEF SyncTree
<1>3. UNCHANGED <<fs, disk, result, parent, acceptance, reported, losses, storeLock>>
      /\ synced' = synced \cup {job[p].rev}
  BY DEF SyncTree, review, history
<1>4. Fits(p)'
  BY <1>1, <1>2, <1>3 DEF Fits, Trying, Passed
<1>5. synced' \subseteq Revisions
  BY <1>1, <1>3 DEF HistoryInv, RecordsTyped
<1> QED
  BY <1>1, <1>2, <1>3, <1>4, <1>5, TriedIsNew, PlacingStands

LEMMA RenameStands ==
  ASSUME HistoryInv, StoreTyped, NEW p \in Builders, Rename(p)
  PROVE  HistoryInv'
<1> DEFINE r == job[p].rev
<1>1. job[p].pc = "rename" /\ Inside(p) /\ r \in Revisions /\ Fits(p)
  BY DEF Rename, At, Inside, HistoryInv, Named, Runs, Promoting
<1>2. /\ job'[p].pc = "syncdirs" /\ job'[p].rev = r
      /\ \A b \in Builders \ {p} : job'[b] = job[b]
  BY GotoForm DEF Rename
<1>3. UNCHANGED <<disk, synced, result, parent, acceptance, reported, losses, storeLock>>
      /\ fs' = [fs EXCEPT !.place[r] = "accepted"]
  BY DEF Rename, review, history
<1>4. fs'.pointer = fs.pointer /\ fs'.place = [fs.place EXCEPT ![r] = "accepted"]
  BY <1>3 DEF StoreTyped, TreeTyped, Tree
<1> HIDE DEF r
<1>5. fs'.place[r] = "accepted" /\ \A s \in Revisions \ {r} : fs'.place[s] = fs.place[s]
  BY <1>1, <1>4 DEF StoreTyped, TreeTyped, Tree
<1>6. Fits(p)'
  BY <1>1, <1>2, <1>3, <1>4, <1>5 DEF Fits, Trying, Passed, r
<1>7. synced' \subseteq Revisions
  BY <1>3 DEF HistoryInv, RecordsTyped
<1>8. Chain \in SUBSET Revisions
  BY ChainType DEF Chain
<1>9. \A s \in Chain : fs'.place[s] = "accepted" /\ disk'.place[s] = "accepted"
  BY <1>3, <1>5, <1>8, TriedIsNew
<1> QED
  BY <1>1, <1>2, <1>3, <1>4, <1>6, <1>7, <1>9, PlacingStands DEF r

LEMMA SyncDirectoriesStands ==
  ASSUME HistoryInv, StoreTyped, NEW p \in Builders, SyncDirectories(p)
  PROVE  HistoryInv'
<1>1. job[p].pc = "syncdirs" /\ Inside(p) /\ Fits(p)
  BY DEF SyncDirectories, At, Inside, HistoryInv, Promoting
<1>2. /\ job'[p].pc = "pointer" /\ job'[p].rev = job[p].rev
      /\ \A b \in Builders \ {p} : job'[b] = job[b]
  BY GotoForm DEF SyncDirectories
<1>3. UNCHANGED <<fs, synced, result, parent, acceptance, reported, losses, storeLock>>
      /\ disk' = [disk EXCEPT !.place = fs.place]
  BY DEF SyncDirectories, review, history
<1>4. disk'.pointer = disk.pointer /\ disk'.place = fs.place
  BY <1>3 DEF StoreTyped, TreeTyped, Tree
<1>5. Fits(p)'
  BY <1>1, <1>2, <1>3, <1>4 DEF Fits, Trying, Passed
<1>6. synced' \subseteq Revisions
  BY <1>3 DEF HistoryInv, RecordsTyped
<1> QED
  BY <1>1, <1>2, <1>3, <1>4, <1>5, <1>6, TriedIsNew, PlacingStands

\* The revision joins the chain when everything it needs is on the disk.
LEMMA ReplacePointerStands ==
  ASSUME HistoryInv, StoreTyped, NEW p \in Builders, ReplacePointer(p)
  PROVE  HistoryInv'
<1> DEFINE r == job[p].rev
<1>1. job[p].pc = "pointer" /\ Inside(p) /\ r \in Revisions /\ Fits(p)
  BY DEF ReplacePointer, At, Inside, HistoryInv, Named, Runs, Promoting
<1>2. /\ job'[p].pc = "syncstore" /\ job'[p].rev = r
      /\ \A b \in Builders \ {p} : job'[b] = job[b]
  BY GotoForm DEF ReplacePointer
<1>3. UNCHANGED <<disk, synced, result, parent, acceptance, reported, losses, storeLock>>
      /\ fs' = [fs EXCEPT !.pointer = r]
  BY DEF ReplacePointer, review, history
<1>4. fs'.pointer = r /\ fs'.place = fs.place
  BY <1>3 DEF StoreTyped, TreeTyped, Tree
<1>5. /\ parent[r] = fs.pointer /\ result[r] = "accepted" /\ r \in synced
      /\ fs.place[r] = "accepted" /\ disk.place[r] = "accepted"
  BY <1>1 DEF Fits, Trying, Passed
<1>6. parent \in Links /\ fs.pointer \in Revisions \cup {None}
  BY DEF HistoryInv, RecordsTyped, StoreTyped, TreeTyped, Tree
<1> HIDE DEF r
<1>7. RecordsTyped'
  BY <1>3 DEF HistoryInv, RecordsTyped
<1>8. Chain' \subseteq Chain \cup {r} /\ Chain \subseteq Chain'
  BY <1>1, <1>3, <1>4, <1>5, <1>6, ChainOfChild DEF Chain
<1>9. ChainDurable'
  BY <1>3, <1>4, <1>5, <1>8, TriedIsNew DEF ChainDurable, AcceptedWhole
<1>10. PointerDurable' /\ ReportedDurable' /\ AcceptancesAnchored'
  BY <1>3, <1>8
     DEF HistoryInv, Standing, PointerDurable, ReportedDurable, AcceptancesAnchored
<1>11. Fits(p)'
  BY <1>2, <1>3, <1>4, <1>5 DEF Fits, Trying, Passed
<1>12. Named' /\ Promoting'
  BY <1>1, <1>2, <1>3, <1>11, InsideStep DEF r
<1> QED
  BY <1>7, <1>9, <1>10, <1>12 DEF HistoryInv, Standing

\* A build reports when the pointer itself is on the disk.
LEMMA SyncStoreStands ==
  ASSUME HistoryInv, StoreTyped, NEW p \in Builders, SyncStore(p)
  PROVE  HistoryInv'
<1> DEFINE r == job[p].rev
<1>1. job[p].pc = "syncstore" /\ Inside(p) /\ r \in Revisions /\ Fits(p)
  BY DEF SyncStore, At, Inside, HistoryInv, Named, Runs, Promoting
<1>2. /\ job'[p].pc = "return" /\ job'[p].rev = r
      /\ \A b \in Builders \ {p} : job'[b] = job[b]
  BY GotoForm DEF SyncStore
<1>3. UNCHANGED <<fs, synced, result, parent, acceptance, losses, storeLock>>
      /\ disk' = [disk EXCEPT !.pointer = r] /\ reported' = reported \cup {r}
  BY DEF SyncStore, review
<1>4. disk'.pointer = fs.pointer /\ disk'.place = disk.place /\ fs.pointer = r
  BY <1>1, <1>3 DEF StoreTyped, TreeTyped, Tree, Fits
<1>5. parent \in Links
  BY DEF HistoryInv, RecordsTyped
<1> HIDE DEF r
<1>6. RecordsTyped'
  BY <1>3 DEF HistoryInv, RecordsTyped
<1>7. Chain' = Chain
  BY <1>3 DEF Chain
<1>8. r \in Chain
  BY <1>1, <1>4, <1>5, ChainHolds, EvidenceAssumption DEF Chain
<1>9. ChainFrom(disk.pointer, parent) \subseteq Chain
  BY <1>1, <1>4, <1>5, ChainOfMember DEF HistoryInv, Standing, PointerDurable, Chain
<1>10. ChainDurable' /\ PointerDurable' /\ AcceptancesAnchored'
  BY <1>3, <1>4, <1>7, <1>8
     DEF HistoryInv, Standing, ChainDurable, AcceptedWhole, PointerDurable,
         AcceptancesAnchored
<1>11. reported' \subseteq Chain
  BY <1>3, <1>8, <1>9 DEF HistoryInv, Standing, ReportedDurable
<1>12. ReportedDurable'
  BY <1>3, <1>4, <1>11 DEF ReportedDurable, Chain
<1>13. Fits(p)'
  BY <1>2 DEF Fits, Trying, Passed
<1>14. Named' /\ Promoting'
  BY <1>1, <1>2, <1>3, <1>13, InsideStep DEF r
<1> QED
  BY <1>6, <1>10, <1>12, <1>14 DEF HistoryInv, Standing

-----------------------------------------------------------------------------
(* Faults and decisions *)

\* What the chain needs is on the disk, and both pointers lead along it.
LEMMA PowerLossStands ==
  ASSUME HistoryInv, StoreTyped, PowerLoss PROVE HistoryInv'
<1>1. PICK place \in [Revisions -> {"none", "attempts", "accepted"}],
           pointer \in {fs.pointer, disk.pointer},
           torn \in SUBSET {r \in Revisions : result[r] # "none"
                                              /\ r \notin synced} :
        /\ \A r \in Revisions : place[r] \in {fs.place[r], disk.place[r]}
        /\ fs' = [fs EXCEPT !.place = place, !.pointer = pointer]
        /\ disk' = fs'
        /\ result' = [r \in Revisions |->
             IF place[r] = "none" THEN "none"
             ELSE IF r \in torn THEN "torn" ELSE result[r]]
        /\ parent' = [r \in Revisions |->
             IF place[r] = "none" THEN None ELSE parent[r]]
        /\ ruleset' = [r \in Revisions |->
             IF place[r] = "none" THEN None ELSE ruleset[r]]
        /\ synced' = {r \in synced : place[r] # "none"}
  BY Zenon DEF PowerLoss
<1>2. \A r \in Revisions : r \in torn => r \notin synced
  OBVIOUS
<1>3. losses' = losses + 1 /\ losses \in Nat /\ reported' = reported
      /\ job' = [p \in Builders |-> Idle]
  BY DEF PowerLoss, HistoryInv, RecordsTyped
<1>4. fs'.pointer = pointer /\ disk'.pointer = pointer
      /\ fs'.place = place /\ disk'.place = place
  BY <1>1 DEF StoreTyped, TreeTyped, Tree
<1>5. /\ parent \in Links
      /\ fs.pointer \in Revisions \cup {None} /\ disk.pointer \in Revisions \cup {None}
      /\ result \in [Revisions -> Verdicts \cup {"none", "torn"}]
      /\ synced \subseteq Revisions
  BY DEF HistoryInv, RecordsTyped, StoreTyped, TreeTyped, Tree
<1>6. parent' \in Links
  BY <1>1, <1>5 DEF Links
<1>7. RecordsTyped'
  <2>1. result' \in [Revisions -> Verdicts \cup {"none", "torn"}]
    BY <1>1, <1>5
  <2>2. synced' \subseteq Revisions /\ losses' \in Nat
    BY <1>1, <1>3, <1>5
  <2> QED
    BY <1>6, <2>1, <2>2 DEF RecordsTyped
<1>8. Chain \in SUBSET Revisions
  BY ChainType DEF Chain
<1>9. \A r \in Chain : place[r] = "accepted"
  BY <1>1, <1>8, TriedIsNew
<1>10. \A r \in Chain : result'[r] = "accepted" /\ parent'[r] = parent[r] /\ r \in synced'
  BY <1>1, <1>2, <1>8, <1>9, TriedIsNew
<1>11. fs.pointer \in Chain \cup {None} /\ disk.pointer \in Chain \cup {None}
  BY <1>5, ChainHolds DEF HistoryInv, Standing, PointerDurable, Chain
<1>12. pointer \in Chain \cup {None} /\ pointer \in Revisions \cup {None}
  BY <1>5, <1>11
<1>13. ChainFrom(pointer, parent) \subseteq Chain
  BY <1>5, <1>12, ChainOfMember DEF Chain
<1>14. ChainFrom(pointer, parent') = ChainFrom(pointer, parent)
  BY <1>5, <1>6, <1>10, <1>12, <1>13, ChainUnmoved
<1>15. Chain' = ChainFrom(pointer, parent)
  BY <1>4, <1>14 DEF Chain
<1>16. ChainDurable'
  BY <1>4, <1>9, <1>10, <1>13, <1>15 DEF ChainDurable, AcceptedWhole
<1>17. PointerDurable'
  BY <1>4, <1>5, <1>12, <1>15, ChainHolds DEF PointerDurable
<1>18. ChainFrom(disk.pointer, parent) \subseteq ChainFrom(pointer, parent)
  BY <1>5, ChainOfMember DEF HistoryInv, Standing, PointerDurable, Chain
<1>19. reported \subseteq ChainFrom(pointer, parent)
  BY <1>18 DEF HistoryInv, Standing, ReportedDurable
<1>20. ReportedDurable'
  BY <1>3, <1>4, <1>14, <1>19 DEF ReportedDurable
<1>21. AcceptancesAnchored'
  BY <1>3 DEF AcceptancesAnchored
<1>22. Named' /\ Promoting'
  BY <1>3 DEF Named, Promoting, Runs, Inside, Idle
<1> QED
  BY <1>7, <1>16, <1>17, <1>20, <1>21, <1>22 DEF HistoryInv, Standing

\* A person accepts what revision() says is anchored.
LEMMA AcceptStands ==
  ASSUME HistoryInv, StoreTyped, NEW r \in Revisions, Accept(r) PROVE HistoryInv'
<1>1. /\ UNCHANGED <<fs, disk, synced, result, parent, storeLock, job, reported, losses>>
      /\ acceptance' = acceptance \cup {r} /\ r \in Chain
  BY DEF Accept, MachineVerified, tree, history
<1>2. Chain' = Chain
  BY <1>1 DEF Chain
<1>3. AcceptancesAnchored'
  BY <1>1, <1>2 DEF HistoryInv, Standing, AcceptancesAnchored
<1>4. ChainDurable' /\ PointerDurable' /\ ReportedDurable'
  BY <1>1, <1>2
     DEF HistoryInv, Standing, ChainDurable, AcceptedWhole, PointerDurable, ReportedDurable
<1>5. RecordsTyped' /\ Named' /\ Promoting'
  BY <1>1 DEF HistoryInv, RecordsTyped, Named, Runs, Promoting, Inside, Fits
<1> QED
  BY <1>3, <1>4, <1>5 DEF HistoryInv, Standing

\* Steps that concern neither the history nor a builder.
LEMMA AsideStands ==
  ASSUME HistoryInv, UNCHANGED <<tree, acceptance, history, job, storeLock>>
  PROVE  HistoryInv'
<1>1. Named' /\ Promoting'
  BY DEF HistoryInv, Named, Runs, Promoting, Inside, Fits, tree
<1> QED
  BY <1>1, Untouched

-----------------------------------------------------------------------------
(* The invariant of the history *)

LEMMA HistoryInitially == Init => HistoryInv
<1> SUFFICES ASSUME Init PROVE HistoryInv
  OBVIOUS
<1>1. RecordsTyped
  BY DEF Init, RecordsTyped, Links
<1>2. Named /\ Promoting
  BY DEF Init, Named, Promoting, Runs, Inside, Idle
<1>3. fs.pointer = None /\ disk.pointer = None /\ parent \in Links
  BY <1>1 DEF Init, RecordsTyped
<1>4. Chain = {}
  <2>1. {} \in SUBSET Revisions
    OBVIOUS
  <2> QED
    BY <1>3, <2>1, ChainLeast DEF Chain
<1>5. Standing
  BY <1>3, <1>4
     DEF Init, Standing, ChainDurable, PointerDurable, ReportedDurable, AcceptancesAnchored
<1> QED
  BY <1>1, <1>2, <1>5 DEF HistoryInv

LEMMA HistoryInductive ==
  ASSUME HistoryInv, StoreTyped, StoreTyped', [Next]_vars PROVE HistoryInv'
<1>1. ASSUME NEW p \in Builders, Step(p) PROVE HistoryInv'
  <2>1. ASSUME NEW q \in Rules \cup {None}, Enter(p, q) PROVE HistoryInv'
    BY <2>1, EnterStands
  <2>2. CASE Return(p)
    BY <2>2, ExitStands DEF Return, review
  <2>3. CASE Stop(p)
    BY <2>3, ExitStands DEF Stop, review
  <2> QED
    BY <1>1, <2>1, <2>2, <2>3, OpenAttemptStands, RefusedStands, JobsStand, RecordStands,
       SyncTreeStands, RenameStands, SyncDirectoriesStands, ReplacePointerStands,
       SyncStoreStands DEF Step
<1>2. ASSUME NEW p \in Builders, NEW r \in Revisions, Launch(p, r) PROVE HistoryInv'
  <2>1. CASE LaunchBuild(p, r)
    BY <2>1, LaunchingStands DEF LaunchBuild
  <2>2. ASSUME NEW h \in Handoffs, LaunchRequest(p, r, h) PROVE HistoryInv'
    BY <2>2, LaunchingStands DEF LaunchRequest
  <2>3. ASSUME NEW q \in Rules \cup {None}, NEW from \in {None, fs.pointer},
               EnterBare(p, q, r, from)
        PROVE  HistoryInv'
    <3>1. from \in Revisions \cup {None}
      BY DEF StoreTyped, TreeTyped, Tree
    <3> QED
      BY <2>3, <3>1, EnterBareStands
  <2> QED
    BY <1>2, <2>1, <2>2, <2>3 DEF Launch
<1>3. ASSUME NEW r \in Revisions, Accept(r) PROVE HistoryInv'
  BY <1>3, AcceptStands
<1>4. ASSUME NEW h \in Handoffs, NEW r \in Revisions \cup {None}, Prepare(h, r)
      PROVE  HistoryInv'
  BY <1>4, AsideStands DEF Prepare
<1>5. CASE PowerLoss
  BY <1>5, PowerLossStands
<1>6. CASE RemoveLeftovers
  BY <1>6, AsideStands DEF RemoveLeftovers, review
<1>7. CASE UNCHANGED vars
  BY <1>7, AsideStands DEF vars, review
<1> QED
  BY <1>1, <1>2, <1>3, <1>4, <1>5, <1>6, <1>7 DEF Next

LEMMA HistoryAlways == Spec => [](StoreTyped /\ HistoryInv)
<1>1. Init => LeakInv /\ HistoryInv
  BY LeakInitially, HistoryInitially
<1>2. LeakInv => StoreTyped
  BY DEF LeakInv, StoreTyped
<1>3. LeakInv' => StoreTyped'
  BY DEF LeakInv, StoreTyped
<1>4. (LeakInv /\ HistoryInv) /\ [Next]_vars => (LeakInv /\ HistoryInv)'
  BY <1>2, <1>3, LeakInductive, HistoryInductive
<1> QED
  BY <1>1, <1>2, <1>4, PTL DEF Spec

\* What a build has returned as accepted stays in the history that
\* last_good.json anchors, and every revision of that history is complete, for
\* any number of builders, kills and power losses between any two steps of a
\* promotion (controller.py, promote: flush, rename, flush, pointer, flush).
THEOREM HistoryAlwaysStands == Spec => []HistoryStands
<1>1. StoreTyped /\ HistoryInv => HistoryStands
  BY HistoryFollows
<1> QED
  BY <1>1, HistoryAlways, PTL

\* As long as no power loss took a promotion back, every decision of a person
\* concerns a revision of the accepted history, whatever killed promotions
\* have left behind (review server, revision() and accept).
THEOREM AcceptancesStayAnchored == Spec => []AcceptancesAnchored
<1>1. HistoryInv => AcceptancesAnchored
  BY DEF HistoryInv, Standing
<1> QED
  BY <1>1, HistoryAlways, PTL

===============================================================================
