---------------------------- MODULE HandoffProofs ----------------------------
(***************************************************************************)
(* Proofs about Handoff, for every set of builds and every number of       *)
(* bundles, targets and faults.                                            *)
(*                                                                         *)
(* An operator's action is a program of steps; the invariant says what     *)
(* holds in front of each of its steps: which containers are stopped, what *)
(* has been read, which database the marker names.                         *)
(***************************************************************************)
EXTENDS Handoff, TLAPS

-----------------------------------------------------------------------------
(* The programs, step by step *)

\* Tuples that are put together, element by element.
LEMMA EightAndTwo ==
    ASSUME NEW a, NEW b, NEW c, NEW d, NEW e, NEW f, NEW g, NEW h, NEW x, NEW y
    PROVE  LET p == <<a, b, c, d, e, f, g, h>> \o <<x, y>> IN
           /\ Len(p) = 10
           /\ p[1] = a /\ p[2] = b /\ p[3] = c /\ p[4] = d /\ p[5] = e
           /\ p[6] = f /\ p[7] = g /\ p[8] = h /\ p[9] = x /\ p[10] = y
OBVIOUS

LEMMA OneEightAndTwo ==
    ASSUME NEW z, NEW a, NEW b, NEW c, NEW d, NEW e, NEW f, NEW g, NEW h, NEW x, NEW y
    PROVE  LET p == <<z>> \o <<a, b, c, d, e, f, g, h>> \o <<x, y>> IN
           /\ Len(p) = 11
           /\ p[1] = z /\ p[2] = a /\ p[3] = b /\ p[4] = c /\ p[5] = d /\ p[6] = e
           /\ p[7] = f /\ p[8] = g /\ p[9] = h /\ p[10] = x /\ p[11] = y
OBVIOUS

LEMMA FourTwoAndOne ==
    ASSUME NEW a, NEW b, NEW c, NEW d, NEW e, NEW f, NEW g
    PROVE  LET p == <<a, b, c, d>> \o <<e, f>> \o <<g>> IN
           /\ Len(p) = 7
           /\ p[1] = a /\ p[2] = b /\ p[3] = c /\ p[4] = d /\ p[5] = e
           /\ p[6] = f /\ p[7] = g
OBVIOUS

LEMMA ThreeTwoAndOne ==
    ASSUME NEW a, NEW b, NEW c, NEW d, NEW e, NEW f
    PROVE  LET p == <<a, b, c>> \o <<d, e>> \o <<f>> IN
           /\ Len(p) = 6
           /\ p[1] = a /\ p[2] = b /\ p[3] = c /\ p[4] = d /\ p[5] = e /\ p[6] = f
OBVIOUS

LEMMA TwoAndOne ==
    ASSUME NEW a, NEW b, NEW c
    PROVE  LET p == <<a, b>> \o <<c>> IN
           Len(p) = 3 /\ p[1] = a /\ p[2] = b /\ p[3] = c
OBVIOUS

LEMMA BackupSteps ==
    LET p == Programs["backup"] IN
    /\ Len(p) = 10
    /\ p[1] = "stop_ingress" /\ p[2] = "drain" /\ p[3] = "stop_worker" /\ p[4] = "probe"
    /\ p[5] = "dump" /\ p[6] = "list" /\ p[7] = "copy" /\ p[8] = "publish"
    /\ p[9] = "start_private" /\ p[10] = "start_ingress"
BY EightAndTwo DEF Programs, Drain, Live

LEMMA HandoffSteps ==
    LET p == Programs["handoff"] IN
    /\ Len(p) = 11
    /\ p[1] = "prepare" /\ p[2] = "stop_ingress" /\ p[3] = "drain" /\ p[4] = "stop_worker"
    /\ p[5] = "probe" /\ p[6] = "dump" /\ p[7] = "list" /\ p[8] = "copy" /\ p[9] = "publish"
    /\ p[10] = "seal" /\ p[11] = "ready"
BY OneEightAndTwo DEF Programs, Drain

LEMMA UpgradeSteps ==
    LET p == Programs["upgrade"] IN
    /\ Len(p) = 7
    /\ p[1] = "stop_all" /\ p[2] = "validate" /\ p[3] = "begin" /\ p[4] = "unseal"
    /\ p[5] = "start_private" /\ p[6] = "start_ingress" /\ p[7] = "consume"
BY FourTwoAndOne DEF Programs, Live

LEMMA RetrySteps ==
    LET p == Programs["retry"] IN
    /\ Len(p) = 7
    /\ p[1] = "seal" /\ p[2] = "stop_all" /\ p[3] = "revalidate" /\ p[4] = "unseal"
    /\ p[5] = "start_private" /\ p[6] = "start_ingress" /\ p[7] = "consume"
BY FourTwoAndOne DEF Programs, Live

LEMMA AbortSteps ==
    LET p == Programs["abort"] IN
    /\ Len(p) = 6
    /\ p[1] = "stop_all" /\ p[2] = "check" /\ p[3] = "unseal"
    /\ p[4] = "start_private" /\ p[5] = "start_ingress" /\ p[6] = "consume"
BY ThreeTwoAndOne DEF Programs, Live

LEMMA ShortSteps ==
    /\ \A n \in {"up", "restart"} :
          /\ Len(Programs[n]) = 2
          /\ Programs[n][1] = "start_private" /\ Programs[n][2] = "start_ingress"
    /\ Len(Programs["down"]) = 1 /\ Programs["down"][1] = "stop_all"
    /\ Len(Programs["reseal"]) = 1 /\ Programs["reseal"][1] = "reseal"
BY DEF Programs, Live

LEMMA UndoSteps ==
    LET p == Programs["undo"] IN
    Len(p) = 3 /\ p[1] = "start_private" /\ p[2] = "start_ingress" /\ p[3] = "consume"
BY TwoAndOne DEF Programs, Live

LEMMA RestoreSteps ==
    /\ LET p == Programs["restore"] IN
       /\ Len(p) = 6
       /\ p[1] = "stop_all" /\ p[2] = "empty_target" /\ p[3] = "database" /\ p[4] = "upload"
       /\ p[5] = "remap" /\ p[6] = "start_private"
    /\ LET p == Programs["rollback"] IN
       /\ Len(p) = 7
       /\ p[1] = "stop_all" /\ p[2] = "empty_target" /\ p[3] = "database" /\ p[4] = "upload"
       /\ p[5] = "remap" /\ p[6] = "start_private" /\ p[7] = "consume"
BY DEF Programs

-----------------------------------------------------------------------------
(* The inductive invariant *)

Versions == Builds \X Nat

Bundle == [lock : Locks, builds : SUBSET Builds, rows : SUBSET Versions,
           listed : SUBSET Versions, copied : SUBSET Versions]

DumpRow == [builds : SUBSET Builds, rows : SUBSET Versions,
            listed : SUBSET Versions, copied : SUBSET Versions]

MarkerType ==
    [status : {"none", "preparing", "ready", "upgrading"}, lock : Locks \union {"none"},
     bundle : Nat, id : Nat, next : Locks \union {"none"}]

StoresType ==
    /\ services \subseteq Services /\ image \in Locks /\ lock \in Locks
    /\ db \in [id : Nat, ro : BOOLEAN, schema : Locks \union {"none"},
               builds : SUBSET Builds, done : SUBSET Builds, rows : SUBSET Versions,
               whole : BOOLEAN, used : BOOLEAN]
    /\ objects \subseteq Versions
    /\ bundles \in Seq(Bundle)
    /\ handoff \in MarkerType
    /\ faults \in Nat

Names == {"up", "down", "backup", "handoff", "restart", "undo", "upgrade", "retry",
          "abort", "reseal", "restore", "rollback"}

OpType ==
    /\ op \in [name : Names \union {"idle"}, at : Nat,
               bundle : Nat, dump : DumpRow]
    /\ op.name # "idle" => op.at \in 1 .. Len(Programs[op.name])
    /\ op.name = "idle" => op = Idle
    /\ op.name \in {"restore", "rollback"} => op.bundle \in 1 .. Len(bundles)

BuildsOf(rows) == {o[1] : o \in rows}

\* A finished build has its row, and only it; so it is in every bundle.
RowsOfBuilds ==
    /\ db.done \subseteq db.builds
    /\ BuildsOf(db.rows) = db.done
    /\ \A k \in 1 .. Len(bundles) :
        /\ bundles[k].rows = bundles[k].listed /\ bundles[k].rows = bundles[k].copied
        /\ BuildsOf(bundles[k].rows) = bundles[k].builds

\* Nothing writes to a database whose restore has not ended, and one that was
\* written to is in use.
Usable ==
    /\ Writers # {} => db.whole /\ db.used
    /\ db.whole => db.rows \subseteq objects

\* The marker names the database it was made for, which is in use and whole.
MarkerFits ==
    /\ handoff.id <= db.id
    /\ handoff.status \in {"preparing", "ready"} => db.used /\ db.whole
    /\ handoff.status = "ready" => handoff.id = db.id
    /\ handoff.status = "upgrading" /\ handoff.id = db.id => db.used /\ db.whole

At(name, i) == op.name = name /\ op.at = i
Within(name, i, j) == op.name = name /\ i <= op.at /\ op.at <= j

\* The state of the marker in front of a step.
Marked ==
    /\ op.name \in {"up", "backup", "restart"} => handoff.status = "none" /\ db.whole
    /\ op.name = "restore" => handoff.status = "none"
    /\ op.name = "handoff" =>
        /\ db.used /\ db.whole
        /\ handoff.status = IF op.at = 1 THEN "none" ELSE "preparing"
    /\ op.name = "undo" => handoff.status = "preparing"
    /\ op.name = "abort" => handoff.status \in {"preparing", "ready"}
    /\ Within("upgrade", 1, 3) => handoff.status = "ready"
    /\ Within("upgrade", 4, 7) => handoff.status = "upgrading" /\ handoff.id = db.id
                              /\ handoff.next = lock
    /\ op.name = "retry" => handoff.status = "upgrading"
    /\ Within("retry", 4, 7) => handoff.id = db.id /\ handoff.next = lock
    /\ op.name = "rollback" => handoff.status = "upgrading"

\* The containers that are stopped in front of a step.
Stopped ==
    /\ Within("backup", 2, 9) \/ Within("handoff", 3, 11) => "api" \notin services
    /\ \/ Within("backup", 4, 9) \/ Within("handoff", 5, 11)
       \/ Within("upgrade", 2, 5) \/ Within("retry", 3, 5)
       \/ Within("restore", 2, 6) \/ Within("rollback", 2, 6)
       => Writers = {}

\* What a backup has read.
ReadSoFar ==
    /\ Within("backup", 3, 9) \/ Within("handoff", 4, 11) => db.builds = db.done
    /\ Within("backup", 6, 8) \/ Within("handoff", 7, 9) =>
          op.dump.builds = db.builds /\ op.dump.rows = db.rows
    /\ At("backup", 6) \/ At("handoff", 7) => op.dump.copied = {}
    /\ Within("backup", 7, 8) \/ Within("handoff", 8, 9) =>
          op.dump.listed = db.rows /\ op.dump.copied \subseteq op.dump.listed
    /\ At("backup", 8) \/ At("handoff", 9) => op.dump.copied = op.dump.listed

\* How far a restore got.
RestoredSoFar ==
    /\ Within("restore", 3, 6) \/ Within("rollback", 3, 6) => ~db.used
    /\ Within("restore", 4, 5) \/ Within("rollback", 4, 5) => db.rows = Source.rows
    /\ At("restore", 5) \/ At("rollback", 5) =>
          \A o \in Source.listed : <<o[1], db.id>> \in objects
    /\ At("restore", 6) \/ At("rollback", 6) => db.rows \subseteq objects

Stage == Marked /\ Stopped /\ ReadSoFar /\ RestoredSoFar

StoresInv ==
    StoresType /\ RowsOfBuilds /\ Usable /\ MarkerFits /\ NoReturnToSource

HandoffInv == StoresInv /\ OpType /\ Stage

-----------------------------------------------------------------------------
(* Where an action stands *)

LEMMA ProgramNames ==
    DOMAIN Programs = Names
BY DEF Programs, Names

\* The places at which a step stands.
LEMMA Places ==
    ASSUME OpType
    PROVE  /\ Doing("stop_ingress") => At("backup", 1) \/ At("handoff", 2)
           /\ Doing("drain") => At("backup", 2) \/ At("handoff", 3)
           /\ Doing("stop_worker") => At("backup", 3) \/ At("handoff", 4)
           /\ Doing("probe") => At("backup", 4) \/ At("handoff", 5)
           /\ Doing("dump") => At("backup", 5) \/ At("handoff", 6)
           /\ Doing("list") => At("backup", 6) \/ At("handoff", 7)
           /\ Doing("copy") => At("backup", 7) \/ At("handoff", 8)
           /\ Doing("publish") => At("backup", 8) \/ At("handoff", 9)
           /\ Doing("prepare") => At("handoff", 1)
           /\ Doing("seal") => At("handoff", 10) \/ At("retry", 1)
           /\ Doing("ready") => At("handoff", 11)
           /\ Doing("validate") => At("upgrade", 2)
           /\ Doing("begin") => At("upgrade", 3)
           /\ Doing("revalidate") => At("retry", 3)
           /\ Doing("check") => At("abort", 2)
           /\ Doing("unseal") =>
                 \/ At("upgrade", 4) \/ At("retry", 4) \/ At("abort", 3)
           /\ Doing("reseal") => At("reseal", 1)
           /\ Doing("stop_all") =>
                 \/ At("down", 1) \/ At("upgrade", 1) \/ At("retry", 2)
                 \/ At("abort", 1) \/ At("restore", 1) \/ At("rollback", 1)
           /\ Doing("empty_target") => At("restore", 2) \/ At("rollback", 2)
           /\ Doing("database") => At("restore", 3) \/ At("rollback", 3)
           /\ Doing("upload") => At("restore", 4) \/ At("rollback", 4)
           /\ Doing("remap") => At("restore", 5) \/ At("rollback", 5)
           /\ Doing("start_private") =>
                 \/ At("up", 1) \/ At("backup", 9) \/ At("restart", 1)
                 \/ At("undo", 1) \/ At("upgrade", 5) \/ At("retry", 5)
                 \/ At("abort", 4) \/ At("restore", 6) \/ At("rollback", 6)
           /\ Doing("start_ingress") =>
                 \/ At("up", 2) \/ At("backup", 10) \/ At("restart", 2)
                 \/ At("undo", 2) \/ At("upgrade", 6) \/ At("retry", 6)
                 \/ At("abort", 5)
           /\ Doing("consume") =>
                 \/ At("undo", 3) \/ At("upgrade", 7) \/ At("retry", 7)
                 \/ At("abort", 6) \/ At("rollback", 7)
<1> DEFINE step == Programs[op.name][op.at]
<1>1. op.name # "idle" => op.name \in Names
    BY DEF OpType
<1>2. op.name # "idle" => op.at \in 1 .. Len(Programs[op.name])
    BY DEF OpType
<1>3. op.name = "up" =>
        \/ (op.at = 1 /\ step = "start_private") \/ (op.at = 2 /\ step = "start_ingress")
    BY <1>2, ShortSteps
<1>4. op.name = "down" => op.at \in 1 .. 1
    BY <1>2, ShortSteps
<1>5. op.name = "down" =>
        /\ (op.at = 1 => step = "stop_all")
    BY ShortSteps
<1>6. op.name = "backup" => op.at \in 1 .. 10
    BY <1>2, BackupSteps
<1>7. op.name = "backup" =>
        /\ (op.at = 1 => step = "stop_ingress") /\ (op.at = 2 => step = "drain")
        /\ (op.at = 3 => step = "stop_worker") /\ (op.at = 4 => step = "probe")
        /\ (op.at = 5 => step = "dump") /\ (op.at = 6 => step = "list")
        /\ (op.at = 7 => step = "copy") /\ (op.at = 8 => step = "publish")
        /\ (op.at = 9 => step = "start_private") /\ (op.at = 10 => step = "start_ingress")
    BY BackupSteps
<1>8. op.name = "handoff" => op.at \in 1 .. 11
    BY <1>2, HandoffSteps
<1>9. op.name = "handoff" =>
        /\ (op.at = 1 => step = "prepare") /\ (op.at = 2 => step = "stop_ingress")
        /\ (op.at = 3 => step = "drain") /\ (op.at = 4 => step = "stop_worker")
        /\ (op.at = 5 => step = "probe") /\ (op.at = 6 => step = "dump")
        /\ (op.at = 7 => step = "list") /\ (op.at = 8 => step = "copy")
        /\ (op.at = 9 => step = "publish") /\ (op.at = 10 => step = "seal")
        /\ (op.at = 11 => step = "ready")
    BY HandoffSteps
<1>10. op.name = "restart" =>
        \/ (op.at = 1 /\ step = "start_private") \/ (op.at = 2 /\ step = "start_ingress")
    BY <1>2, ShortSteps
<1>11. op.name = "undo" =>
        \/ (op.at = 1 /\ step = "start_private") \/ (op.at = 2 /\ step = "start_ingress")
        \/ (op.at = 3 /\ step = "consume")
    BY <1>2, UndoSteps
<1>12. op.name = "upgrade" => op.at \in 1 .. 7
    BY <1>2, UpgradeSteps
<1>13. op.name = "upgrade" =>
        /\ (op.at = 1 => step = "stop_all") /\ (op.at = 2 => step = "validate")
        /\ (op.at = 3 => step = "begin") /\ (op.at = 4 => step = "unseal")
        /\ (op.at = 5 => step = "start_private") /\ (op.at = 6 => step = "start_ingress")
        /\ (op.at = 7 => step = "consume")
    BY UpgradeSteps
<1>14. op.name = "retry" => op.at \in 1 .. 7
    BY <1>2, RetrySteps
<1>15. op.name = "retry" =>
        /\ (op.at = 1 => step = "seal") /\ (op.at = 2 => step = "stop_all")
        /\ (op.at = 3 => step = "revalidate") /\ (op.at = 4 => step = "unseal")
        /\ (op.at = 5 => step = "start_private") /\ (op.at = 6 => step = "start_ingress")
        /\ (op.at = 7 => step = "consume")
    BY RetrySteps
<1>16. op.name = "abort" =>
        \/ (op.at = 1 /\ step = "stop_all") \/ (op.at = 2 /\ step = "check")
        \/ (op.at = 3 /\ step = "unseal") \/ (op.at = 4 /\ step = "start_private")
        \/ (op.at = 5 /\ step = "start_ingress") \/ (op.at = 6 /\ step = "consume")
    BY <1>2, AbortSteps
<1>17. op.name = "reseal" =>
        \/ (op.at = 1 /\ step = "reseal")
    BY <1>2, ShortSteps
<1>18. op.name = "restore" =>
        \/ (op.at = 1 /\ step = "stop_all") \/ (op.at = 2 /\ step = "empty_target")
        \/ (op.at = 3 /\ step = "database") \/ (op.at = 4 /\ step = "upload")
        \/ (op.at = 5 /\ step = "remap") \/ (op.at = 6 /\ step = "start_private")
    BY <1>2, RestoreSteps
<1>19. op.name = "rollback" => op.at \in 1 .. 7
    BY <1>2, RestoreSteps
<1>20. op.name = "rollback" =>
        /\ (op.at = 1 => step = "stop_all") /\ (op.at = 2 => step = "empty_target")
        /\ (op.at = 3 => step = "database") /\ (op.at = 4 => step = "upload")
        /\ (op.at = 5 => step = "remap") /\ (op.at = 6 => step = "start_private")
        /\ (op.at = 7 => step = "consume")
    BY RestoreSteps
<1> HIDE DEF step
<1>21. op.name = "down" =>
        \/ (op.at = 1 /\ step = "stop_all")
    BY <1>4, <1>5
<1>22. op.name = "backup" =>
        \/ (op.at = 1 /\ step = "stop_ingress") \/ (op.at = 2 /\ step = "drain")
        \/ (op.at = 3 /\ step = "stop_worker") \/ (op.at = 4 /\ step = "probe")
        \/ (op.at = 5 /\ step = "dump") \/ (op.at = 6 /\ step = "list")
        \/ (op.at = 7 /\ step = "copy") \/ (op.at = 8 /\ step = "publish")
        \/ (op.at = 9 /\ step = "start_private") \/ (op.at = 10 /\ step = "start_ingress")
    BY <1>6, <1>7
<1>23. op.name = "handoff" =>
        \/ (op.at = 1 /\ step = "prepare") \/ (op.at = 2 /\ step = "stop_ingress")
        \/ (op.at = 3 /\ step = "drain") \/ (op.at = 4 /\ step = "stop_worker")
        \/ (op.at = 5 /\ step = "probe") \/ (op.at = 6 /\ step = "dump")
        \/ (op.at = 7 /\ step = "list") \/ (op.at = 8 /\ step = "copy")
        \/ (op.at = 9 /\ step = "publish") \/ (op.at = 10 /\ step = "seal")
        \/ (op.at = 11 /\ step = "ready")
    BY <1>8, <1>9
<1>24. op.name = "upgrade" =>
        \/ (op.at = 1 /\ step = "stop_all") \/ (op.at = 2 /\ step = "validate")
        \/ (op.at = 3 /\ step = "begin") \/ (op.at = 4 /\ step = "unseal")
        \/ (op.at = 5 /\ step = "start_private") \/ (op.at = 6 /\ step = "start_ingress")
        \/ (op.at = 7 /\ step = "consume")
    BY <1>12, <1>13
<1>25. op.name = "retry" =>
        \/ (op.at = 1 /\ step = "seal") \/ (op.at = 2 /\ step = "stop_all")
        \/ (op.at = 3 /\ step = "revalidate") \/ (op.at = 4 /\ step = "unseal")
        \/ (op.at = 5 /\ step = "start_private") \/ (op.at = 6 /\ step = "start_ingress")
        \/ (op.at = 7 /\ step = "consume")
    BY <1>14, <1>15
<1>26. op.name = "rollback" =>
        \/ (op.at = 1 /\ step = "stop_all") \/ (op.at = 2 /\ step = "empty_target")
        \/ (op.at = 3 /\ step = "database") \/ (op.at = 4 /\ step = "upload")
        \/ (op.at = 5 /\ step = "remap") \/ (op.at = 6 /\ step = "start_private")
        \/ (op.at = 7 /\ step = "consume")
    BY <1>19, <1>20
<1>27. \A s : Doing(s) <=> op.name # "idle" /\ step = s
    BY DEF Doing, step
<1> QED
    BY <1>1, <1>3, <1>10, <1>11, <1>16, <1>17, <1>18, <1>21, <1>22, <1>23,
       <1>24, <1>25, <1>26, <1>27 DEF At, Names

-----------------------------------------------------------------------------
(* How an action goes on, and how it fails *)

LEMMA Advance ==
    ASSUME OpType, op.name # "idle", Done
    PROVE  \/ op' = Idle
           \/ /\ op' = [op EXCEPT !.at = op.at + 1]
              /\ op'.name = op.name /\ op'.at = op.at + 1 /\ op'.bundle = op.bundle
              /\ op'.dump = op.dump
              /\ op.at + 1 \in 1 .. Len(Programs[op.name])
<1>1. op.name \in Names /\ op.at \in Nat /\ op.at \in 1 .. Len(Programs[op.name])
    BY DEF OpType
<1>2. Len(Programs[op.name]) \in Nat
    BY <1>1, BackupSteps, HandoffSteps, UpgradeSteps, RetrySteps, AbortSteps, ShortSteps,
       UndoSteps, RestoreSteps DEF Names
<1>3. CASE op.at = Len(Programs[op.name])
    BY <1>3 DEF Done
<1>4. CASE op.at # Len(Programs[op.name])
    <2>1. op' = [op EXCEPT !.at = op.at + 1]
        BY <1>4 DEF Done
    <2>2. op.at + 1 \in 1 .. Len(Programs[op.name])
        BY <1>1, <1>2, <1>4
    <2> QED
        BY <2>1, <2>2 DEF OpType
<1> QED
    BY <1>3, <1>4

\* The handlers start the containers again after a backup and while a handoff is
\* being prepared, and nothing else.
LEMMA Handlers ==
    ASSUME OpType, op.name # "idle"
    PROVE  /\ Handler \in {"idle", "restart", "undo", "reseal"}
           /\ Handler = "restart" => op.name = "backup"
           /\ Handler = "undo" => op.name = "handoff" /\ op.at \in 2 .. 9
<1>1. op.name \in Names /\ op.at \in 1 .. Len(Programs[op.name])
    BY DEF OpType
<1>2. ASSUME op.name = "handoff", ~Before("stop_ingress"), Before("seal")
      PROVE  op.at \in 2 .. 9
    <2>1. Len(Programs[op.name]) = 11 /\ op.at \in 1 .. 11
        BY <1>1, <1>2, HandoffSteps
    <2>2. op.at < 10
        <3>1. Programs[op.name][10] = "seal"
            BY <1>2, HandoffSteps
        <3> QED
            BY <3>1, <2>1, <1>2 DEF Before
    <2>3. PICK i \in 1 .. 11 : Programs[op.name][i] = "stop_ingress" /\ ~(op.at < i)
        BY <1>2, <2>1 DEF Before
    <2>4. i # 1
        BY <2>3, <1>2, HandoffSteps
    <2> QED
        BY <2>1, <2>2, <2>3, <2>4
<1>3. \/ op.name = "backup" /\ Before("start_private") /\ Handler = "restart"
      \/ op.name = "handoff" /\ ~Before("stop_ingress") /\ Before("seal") /\ Handler = "undo"
      \/ Handler = "reseal"
      \/ Handler = "idle"
    BY DEF Handler
<1> QED
    BY <1>2, <1>3

LEMMA Failing ==
    ASSUME OpType, op.name # "idle", Failed
    PROVE  /\ op' = [Idle EXCEPT !.name = op'.name]
           /\ op'.name \in {"idle", "restart", "undo", "reseal"}
           /\ op'.at = 1 /\ op'.bundle = 0 /\ op'.dump = NoDump
           /\ op'.name = "restart" => op.name = "backup"
           /\ op'.name = "undo" => op.name = "handoff" /\ op.at \in 2 .. 9
<1>1. op' = [Idle EXCEPT !.name = Handler] /\ op'.name = Handler
    BY DEF Failed, Idle
<1> QED
    BY <1>1, Handlers DEF Idle

LEMMA EmptyDump == NoDump \in DumpRow
BY DEF NoDump, DumpRow

\* The state of an action is well formed after it went on, or failed.
LEMMA OpStaysTyped ==
    ASSUME OpType, op.name # "idle", Done \/ Failed,
           Len(bundles) \in Nat, Len(bundles') \in Nat, Len(bundles) <= Len(bundles')
    PROVE  OpType'
<1>1. CASE op' = Idle
    BY <1>1, EmptyDump DEF OpType, Idle
<1>2. CASE Failed
    <2>1. op'.name \in Names \union {"idle"}
        BY Failing, <1>2 DEF Names
    <2>2. op' \in [name : Names \union {"idle"}, at : Nat, bundle : Nat, dump : DumpRow]
        BY Failing, <1>2, <2>1, EmptyDump DEF Idle
    <2>3. op'.name # "idle" => op'.at \in 1 .. Len(Programs[op'.name])
        BY Failing, <1>2, ShortSteps, UndoSteps
    <2>4. op'.name = "idle" => op' = Idle
        BY Failing, <1>2 DEF Idle
    <2> QED
        BY <2>2, <2>3, <2>4, Failing, <1>2 DEF OpType
<1>3. CASE Done /\ op' # Idle
    <2>1. /\ op' = [op EXCEPT !.at = op.at + 1]
          /\ op'.name = op.name /\ op'.at = op.at + 1 /\ op'.bundle = op.bundle
          /\ op.at + 1 \in 1 .. Len(Programs[op.name])
        BY Advance, <1>3
    <2> QED
        BY <2>1 DEF OpType
<1> QED
    BY <1>1, <1>2, <1>3

-----------------------------------------------------------------------------
(* What every step has in common *)

Advances ==
    /\ op'.name = op.name /\ op'.at = op.at + 1
    /\ op'.bundle = op.bundle /\ op'.dump = op.dump

Stores == <<containers, lock, target, bundles, handoff>>

LEMMA StoresKept ==
    ASSUME StoresInv, faults' \in Nat, UNCHANGED Stores
    PROVE  StoresInv'
BY DEF StoresInv, StoresType, RowsOfBuilds, Usable, MarkerFits, NoReturnToSource, Writers,
       Stores, containers, target

LEMMA FaultCounts ==
    ASSUME StoresInv, Fault \/ UNCHANGED faults
    PROVE  faults' \in Nat
BY DEF StoresInv, StoresType, Fault

LEMMA BundleCount ==
    ASSUME StoresInv
    PROVE  Len(bundles) \in Nat
BY DEF StoresInv, StoresType

LEMMA IdleStage ==
    ASSUME op' = Idle
    PROVE  Stage'
BY DEF Idle, Stage, Marked, Stopped, ReadSoFar, RestoredSoFar, At, Within

\* An action that went on or failed: what is left to prove is the next step's place.
LEMMA StageAfter ==
    ASSUME OpType, op.name # "idle", Done \/ Failed,
           op.name = "backup" => handoff'.status = "none" /\ db'.whole,
           op.name = "handoff" /\ op.at \in 2 .. 9 => handoff'.status = "preparing",
           Advances => Stage'
    PROVE  Stage'
<1>1. CASE Failed
    BY <1>1, Failing DEF Stage, Marked, Stopped, ReadSoFar, RestoredSoFar, At, Within
<1>2. CASE Done
    BY <1>2, Advance, IdleStage DEF Advances
<1> QED
    BY <1>1, <1>2

\* A step that leaves the stores alone.
LEMMA StepInv ==
    ASSUME HandoffInv, op.name # "idle", UNCHANGED Stores, Fault \/ UNCHANGED faults,
           Done \/ Failed, Advances => Stage'
    PROVE  HandoffInv'
<1>1. StoresInv'
    BY StoresKept, FaultCounts DEF HandoffInv
<1>2. OpType'
    BY OpStaysTyped, BundleCount DEF HandoffInv, Stores
<1>3. Stage'
    BY StageAfter DEF HandoffInv, Stage, Marked, Stores, target
<1> QED
    BY <1>1, <1>2, <1>3 DEF HandoffInv

-----------------------------------------------------------------------------
(* The steps that leave the stores alone *)

LEMMA PassesInv ==
    ASSUME HandoffInv, Drained \/ Validate \/ Revalidate \/ Check
    PROVE  HandoffInv'
<1> USE DEF HandoffInv
<1>1. /\ op.name # "idle" /\ UNCHANGED Stores
      /\ Done \/ Failed
      /\ Fault \/ UNCHANGED faults
    BY DEF Drained, Validate, Revalidate, Check, Passes, Returns, Doing, Stores
<1>2. ASSUME Advances PROVE Stage'
    <2>1. CASE Drained
        <3>1. At("backup", 2) \/ At("handoff", 3) \/ At("backup", 4) \/ At("handoff", 5)
            BY <2>1, Places DEF Drained
        <3> QED
            BY <3>1, <2>1, <1>2, <1>1
            DEF Advances, Drained, Quiescent, Stores, containers, target, Writers, At, Within, Stage, Marked,
                Stopped, ReadSoFar, RestoredSoFar
    <2>2. CASE Validate
        <3>1. At("upgrade", 2)
            BY <2>2, Places DEF Validate
        <3> QED
            BY <3>1, <1>2, <1>1
            DEF Advances, Stores, containers, target, Writers, At, Within, Stage, Marked,
                Stopped, ReadSoFar, RestoredSoFar
    <2>3. CASE Revalidate
        <3>1. At("retry", 3)
            BY <2>3, Places DEF Revalidate
        <3> QED
            BY <3>1, <2>3, <1>2, <1>1
            DEF Advances, Stores, containers, target, Writers, At, Within, Stage, Marked,
                Stopped, ReadSoFar, RestoredSoFar, Revalidate, Bound
    <2>4. CASE Check
        <3>1. At("abort", 2)
            BY <2>4, Places DEF Check
        <3> QED
            BY <3>1, <1>2, <1>1
            DEF Advances, Stores, containers, target, Writers, At, Within, Stage, Marked,
                Stopped, ReadSoFar, RestoredSoFar
    <2> QED
        BY <2>1, <2>2, <2>3, <2>4
<1> QED
    BY <1>1, <1>2, StepInv

LEMMA StepFailsInv ==
    ASSUME HandoffInv, StepFails
    PROVE  HandoffInv'
<1>1. op.name # "idle" /\ UNCHANGED Stores /\ (Fault \/ UNCHANGED faults) /\ Failed
    BY DEF StepFails, Stores, HandoffInv, OpType
<1>2. op'.at # op.at + 1
    BY <1>1, Failing DEF HandoffInv, OpType
<1> QED
    BY <1>1, <1>2, StepInv DEF Advances

LEMMA KilledInv ==
    ASSUME HandoffInv, Killed
    PROVE  HandoffInv'
<1>1. StoresInv'
    BY StoresKept, FaultCounts DEF HandoffInv, Killed, Stores
<1>2. OpType'
    BY EmptyDump DEF Killed, Idle, OpType
<1>3. Stage'
    BY IdleStage DEF Killed
<1> QED
    BY <1>1, <1>2, <1>3 DEF HandoffInv

-----------------------------------------------------------------------------
(* Between the actions, and beside them *)

LEMMA BuildsOfOneMore ==
    ASSUME NEW rows \in SUBSET Versions, NEW b, NEW i
    PROVE  BuildsOf(rows \union {<<b, i>>}) = BuildsOf(rows) \union {b}
<1> DEFINE more == rows \union {<<b, i>>}
<1>1. <<b, i>>[1] = b
    OBVIOUS
<1>2. ASSUME NEW x \in BuildsOf(more) PROVE x \in BuildsOf(rows) \union {b}
    <2>1. PICK o \in more : x = o[1]
        BY DEF BuildsOf
    <2>2. CASE o \in rows
        BY <2>1, <2>2 DEF BuildsOf
    <2>3. CASE o = <<b, i>>
        BY <2>1, <2>3, <1>1
    <2> QED
        BY <2>1, <2>2, <2>3
<1>3. ASSUME NEW x \in BuildsOf(rows) PROVE x \in BuildsOf(more)
    BY DEF BuildsOf
<1>4. b \in BuildsOf(more)
    <2>1. <<b, i>> \in more
        OBVIOUS
    <2> QED
        BY <2>1, <1>1 DEF BuildsOf
<1> QED
    BY <1>2, <1>3, <1>4

LEMMA BeginInv ==
    ASSUME HandoffInv, Begin
    PROVE  HandoffInv'
<1>1. PICK name \in DOMAIN Programs, k \in 0 .. Len(bundles) :
        /\ CanBegin(name)
        /\ name \in {"upgrade", "retry", "rollback", "restore"} <=> k > 0
        /\ name \in {"up", "backup", "handoff"} => db.whole
        /\ name \in {"backup", "handoff"} => db.used
        /\ op' = [Idle EXCEPT !.name = name, !.bundle = k]
    BY DEF Begin
<1>2. UNCHANGED Stores /\ UNCHANGED faults
    BY DEF Begin, Stores
<1>3. StoresInv'
    BY <1>2, StoresKept, FaultCounts DEF HandoffInv
<1>4. name \in Names /\ Len(bundles) \in Nat
    BY ProgramNames, BundleCount DEF HandoffInv
<1>5. op'.name = name /\ op'.at = 1 /\ op'.bundle = k /\ op'.dump = NoDump
    BY <1>1 DEF Idle
<1>6. OpType'
    <2>1. op' \in [name : Names \union {"idle"}, at : Nat, bundle : Nat, dump : DumpRow]
        <3>1. k \in Nat
            BY <1>4
        <3> QED
            BY <3>1, <1>1, <1>4, EmptyDump DEF Idle
    <2>2. 1 \in 1 .. Len(Programs[name])
        BY <1>4, BackupSteps, HandoffSteps, UpgradeSteps, RetrySteps, AbortSteps, ShortSteps,
           UndoSteps, RestoreSteps DEF Names
    <2>3. name # "idle"
        BY <1>4 DEF Names
    <2>4. name \in {"restore", "rollback"} => k \in 1 .. Len(bundles')
        BY <1>1, <1>2, <1>4 DEF Stores
    <2> QED
        BY <2>1, <2>2, <2>3, <2>4, <1>5 DEF OpType
<1>7. Stage'
    <2>1. handoff.status \in {"none", "preparing", "ready", "upgrading"}
        BY DEF HandoffInv, StoresInv, StoresType, MarkerType
    <2>2. /\ name \in {"up", "backup", "handoff", "restore"} => handoff.status = "none"
          /\ name \notin {"restart", "undo"}
          /\ name = "abort" => handoff.status \in {"preparing", "ready"}
          /\ name = "upgrade" => handoff.status = "ready"
          /\ name \in {"retry", "rollback"} => handoff.status = "upgrading"
        BY <1>1, <2>1 DEF CanBegin
    <2>3. Marked'
        BY <1>1, <1>2, <1>5, <2>2 DEF Marked, Within, Stores, target
    <2> QED
        BY <2>3, <1>5 DEF Stage, Stopped, ReadSoFar, RestoredSoFar, At, Within
<1> QED
    BY <1>3, <1>6, <1>7 DEF HandoffInv

LEMMA InstallLockInv ==
    ASSUME HandoffInv, InstallLock
    PROVE  HandoffInv'
<1>1. /\ lock' \in Locks /\ op = Idle
      /\ UNCHANGED <<containers, target, bundles, handoff, op, faults>>
    BY DEF InstallLock
<1>2. StoresInv'
    BY <1>1 DEF HandoffInv, StoresInv, StoresType, RowsOfBuilds, Usable, MarkerFits,
                NoReturnToSource, Writers, containers, target
<1>3. OpType'
    BY <1>1 DEF HandoffInv, OpType
<1>4. Stage'
    BY <1>1, IdleStage
<1> QED
    BY <1>2, <1>3, <1>4 DEF HandoffInv

LEMMA NewTargetInv ==
    ASSUME HandoffInv, NewTarget
    PROVE  HandoffInv'
<1>1. /\ db' = Empty(db.id + 1) /\ objects' = {} /\ op = Idle /\ services = {}
      /\ handoff.status \in {"none", "upgrading"}
      /\ UNCHANGED <<containers, lock, bundles, handoff, op, faults>>
    BY DEF NewTarget
<1>2. /\ db'.id = db.id + 1 /\ db'.builds = {} /\ db'.done = {} /\ db'.rows = {}
      /\ db'.whole /\ ~db'.used /\ db'.schema = "none"
    BY <1>1 DEF Empty
<1>3. StoresType'
    BY <1>1 DEF HandoffInv, StoresInv, StoresType, Empty, containers
<1>4. RowsOfBuilds'
    BY <1>1, <1>2 DEF HandoffInv, StoresInv, RowsOfBuilds, BuildsOf
<1>5. Usable' /\ NoReturnToSource'
    BY <1>1, <1>2 DEF Usable, Writers, NoReturnToSource, containers
<1>6. MarkerFits'
    BY <1>1, <1>2 DEF HandoffInv, StoresInv, StoresType, MarkerType, MarkerFits
<1>7. OpType' /\ Stage'
    BY <1>1, IdleStage DEF HandoffInv, OpType
<1> QED
    BY <1>3, <1>4, <1>5, <1>6, <1>7 DEF HandoffInv, StoresInv

LEMMA AcceptInv ==
    ASSUME HandoffInv, Accept
    PROVE  HandoffInv'
<1>1. PICK b \in Builds \ db.builds : db' = [db EXCEPT !.builds = db.builds \union {b}]
    BY DEF Accept
<1>2. /\ "api" \in services
      /\ UNCHANGED <<containers, lock, objects, bundles, handoff, op, faults>>
    BY DEF Accept
<1>3. /\ db'.id = db.id /\ db'.builds = db.builds \union {b} /\ db'.done = db.done
      /\ db'.rows = db.rows /\ db'.whole = db.whole /\ db'.used = db.used
      /\ db'.schema = db.schema
    BY <1>1 DEF HandoffInv, StoresInv, StoresType
<1>4. StoresType'
    BY <1>1, <1>2 DEF HandoffInv, StoresInv, StoresType, containers
<1>5. RowsOfBuilds' /\ Usable' /\ MarkerFits' /\ NoReturnToSource'
    BY <1>2, <1>3 DEF HandoffInv, StoresInv, RowsOfBuilds, Usable, MarkerFits,
                      NoReturnToSource, Writers, containers
<1>6. OpType'
    BY <1>2 DEF HandoffInv, OpType
<1>7. Marked' /\ Stopped'
    <2>1. Marked'
        BY <1>2, <1>3 DEF HandoffInv, Stage, Marked, Within
    <2>2. Stopped'
        BY <1>2 DEF HandoffInv, Stage, Stopped, Within, Writers, containers
    <2> QED
        BY <2>1, <2>2
<1>8. ReadSoFar' /\ RestoredSoFar'
    <2>1. ~ Within("backup", 2, 9) /\ ~ Within("handoff", 3, 11)
        BY <1>2 DEF HandoffInv, Stage, Stopped
    <2>2. op' = op /\ op.at \in Nat
        BY <1>2 DEF HandoffInv, OpType
    <2>3. ReadSoFar'
        BY <2>1, <2>2 DEF ReadSoFar, At, Within
    <2>4. RestoredSoFar'
        BY <1>2, <1>3, <2>2 DEF HandoffInv, Stage, RestoredSoFar, At, Within, Source
    <2> QED
        BY <2>3, <2>4
<1> QED
    BY <1>4, <1>5, <1>6, <1>7, <1>8 DEF HandoffInv, StoresInv, Stage

LEMMA FinishInv ==
    ASSUME HandoffInv, Finish
    PROVE  HandoffInv'
<1>1. PICK b \in db.builds \ db.done :
        /\ db' = [db EXCEPT !.done = db.done \union {b},
                            !.rows = db.rows \union {<<b, db.id>>}]
        /\ objects' = objects \union {<<b, db.id>>}
    BY DEF Finish
<1>2. /\ "worker" \in services
      /\ UNCHANGED <<containers, lock, bundles, handoff, op, faults>>
    BY DEF Finish
<1>3. /\ db'.id = db.id /\ db'.builds = db.builds /\ db'.done = db.done \union {b}
      /\ db'.rows = db.rows \union {<<b, db.id>>} /\ db'.whole = db.whole
      /\ db'.used = db.used /\ db'.schema = db.schema
      /\ db.rows \in SUBSET Versions /\ b \in Builds /\ db.id \in Nat
    BY <1>1 DEF HandoffInv, StoresInv, StoresType
<1>4. <<b, db.id>> \in Versions
    BY <1>3 DEF Versions
<1>5. StoresType'
    BY <1>1, <1>2, <1>4 DEF HandoffInv, StoresInv, StoresType, containers
<1>6. RowsOfBuilds'
    <2>1. BuildsOf(db.rows \union {<<b, db.id>>}) = BuildsOf(db.rows) \union {b}
        BY <1>3, BuildsOfOneMore
    <2> QED
        BY <2>1, <1>1, <1>2, <1>3 DEF HandoffInv, StoresInv, RowsOfBuilds, BuildsOf
<1>7. Usable' /\ MarkerFits' /\ NoReturnToSource'
    BY <1>1, <1>2, <1>3 DEF HandoffInv, StoresInv, Usable, MarkerFits,
                            NoReturnToSource, Writers, containers
<1>8. OpType'
    BY <1>2 DEF HandoffInv, OpType
<1>9. Marked' /\ Stopped'
    <2>1. Marked'
        BY <1>2, <1>3 DEF HandoffInv, Stage, Marked, Within
    <2>2. Stopped'
        BY <1>2 DEF HandoffInv, Stage, Stopped, Within, Writers, containers
    <2> QED
        BY <2>1, <2>2
<1>10. ReadSoFar' /\ RestoredSoFar'
    <2>1. /\ ~ Within("backup", 3, 9) /\ ~ Within("handoff", 4, 11)
          /\ ~ Within("restore", 2, 6) /\ ~ Within("rollback", 2, 6)
        BY <1>1, <1>2 DEF HandoffInv, Stage, Stopped, ReadSoFar, Writers
    <2>2. op' = op /\ op.at \in Nat
        BY <1>2 DEF HandoffInv, OpType
    <2>3. ReadSoFar'
        BY <2>1, <2>2 DEF ReadSoFar, At, Within
    <2>4. RestoredSoFar'
        BY <2>1, <2>2 DEF RestoredSoFar, At, Within
    <2> QED
        BY <2>3, <2>4
<1> QED
    BY <1>5, <1>6, <1>7, <1>8, <1>9, <1>10 DEF HandoffInv, StoresInv, Stage

-----------------------------------------------------------------------------
(* Stopping and starting containers *)

LEMMA OpTyped ==
    ASSUME HandoffInv, op.name # "idle", Done \/ Failed, bundles' = bundles
    PROVE  OpType'
BY OpStaysTyped, BundleCount DEF HandoffInv

LEMMA PlaceIsNat ==
    ASSUME OpType
    PROVE  op.at \in Nat
BY DEF OpType

LEMMA StopInv ==
    ASSUME HandoffInv, NEW S \in SUBSET Services, op.name # "idle", Stop(S),
           Advances /\ services' = services \ S => Stage'
    PROVE  HandoffInv'
<1>1. /\ services' \subseteq services /\ UNCHANGED <<image, lock, target, bundles, handoff>>
      /\ Done \/ Failed
      /\ Fault \/ UNCHANGED faults
      /\ services' = services \ S \/ Failed
    BY DEF Stop
<1>2. faults' \in Nat
    BY <1>1, FaultCounts DEF HandoffInv
<1>3. StoresInv'
    <2>1. Writers' \subseteq Writers
        BY <1>1 DEF Writers
    <2> QED
        BY <1>1, <1>2, <2>1 DEF HandoffInv, StoresInv, StoresType, RowsOfBuilds, Usable,
                                MarkerFits, NoReturnToSource, target
<1>4. OpType'
    BY <1>1, OpTyped
<1>5. Advances => Stage'
    <2>1. Failed => ~Advances
        <3>1. Failed => op'.at = 1
            BY Failing DEF HandoffInv
        <3> QED
            BY <3>1 DEF HandoffInv, OpType, Advances
    <2> QED
        BY <2>1, <1>1
<1>6. Stage'
    BY <1>1, <1>5, StageAfter DEF HandoffInv, Stage, Marked, target
<1> QED
    BY <1>3, <1>4, <1>6 DEF HandoffInv

LEMMA StopsInv ==
    ASSUME HandoffInv, StopIngress \/ StopWorker \/ StopAll
    PROVE  HandoffInv'
<1>1. op.at \in Nat
    BY PlaceIsNat DEF HandoffInv
<1>2. CASE StopIngress
    <2>1. (At("backup", 1) \/ At("handoff", 2)) /\ op.name # "idle"
        BY <1>2, Places DEF StopIngress, HandoffInv, Doing
    <2>2. Stop({"caddy", "api"}) /\ UNCHANGED <<db, handoff>>
        BY <1>2 DEF StopIngress, Stop, target
    <2>3. ASSUME Advances, services' = services \ {"caddy", "api"} PROVE Stage'
        BY <2>1, <2>2, <2>3, <1>1
        DEF Advances, HandoffInv, Stage, Marked, Stopped, ReadSoFar, RestoredSoFar, At, Within
    <2> QED
        BY <2>1, <2>2, <2>3, StopInv DEF Services
<1>3. CASE StopWorker
    <2>1. (At("backup", 3) \/ At("handoff", 4)) /\ op.name # "idle"
        BY <1>3, Places DEF StopWorker, HandoffInv, Doing
    <2>2. Stop({"worker"}) /\ UNCHANGED <<db, handoff>>
        BY <1>3 DEF StopWorker, Stop, target
    <2>3. ASSUME Advances, services' = services \ {"worker"} PROVE Stage'
        <3>1. Writers' = {} /\ "api" \notin services'
            BY <2>1, <2>3 DEF HandoffInv, Stage, Stopped, Within, At, Writers
        <3> QED
            BY <2>1, <2>2, <2>3, <3>1, <1>1
            DEF Advances, HandoffInv, Stage, Marked, Stopped, ReadSoFar, RestoredSoFar, At, Within
    <2> QED
        BY <2>1, <2>2, <2>3, StopInv DEF Services
<1>4. CASE StopAll
    <2>1. /\ \/ At("down", 1) \/ At("upgrade", 1) \/ At("retry", 2) \/ At("abort", 1)
             \/ At("restore", 1) \/ At("rollback", 1)
          /\ op.name # "idle"
        BY <1>4, Places DEF StopAll, HandoffInv, Doing
    <2>2. Stop(Services) /\ UNCHANGED <<db, handoff>>
        BY <1>4 DEF StopAll, Stop, target
    <2>3. ASSUME Advances, services' = services \ Services PROVE Stage'
        <3>1. Writers' = {}
            BY <2>3 DEF HandoffInv, StoresInv, StoresType, Writers
        <3> QED
            BY <2>1, <2>2, <2>3, <3>1, <1>1
            DEF Advances, HandoffInv, Stage, Marked, Stopped, ReadSoFar, RestoredSoFar, At, Within
    <2> QED
        BY <2>1, <2>2, <2>3, StopInv
<1> QED
    BY <1>2, <1>3, <1>4

\* Which database a start may find: the one of the marker and the release it
\* names, or none that an upgrade began on.
LEMMA StartPrivateInv ==
    ASSUME HandoffInv, StartPrivate
    PROVE  HandoffInv'
<1>1. /\ op.name # "idle" /\ (Done \/ Failed)
      /\ op.at \in Nat
    BY PlaceIsNat DEF StartPrivate, Doing, Returns, HandoffInv
<1>2. /\ services' = services \union {"api", "worker"} /\ image' = lock
      /\ db' = [Initialised EXCEPT !.whole = TRUE, !.used = TRUE]
      /\ UNCHANGED <<lock, objects, bundles, handoff>>
      /\ Fault \/ UNCHANGED faults
    BY DEF StartPrivate, Returns
<1>3. /\ db'.id = db.id /\ db'.builds = db.builds /\ db'.done = db.done
      /\ db'.rows = db.rows /\ db'.whole /\ db'.used /\ db'.schema = lock
    BY <1>2 DEF HandoffInv, StoresInv, StoresType, Initialised
<1>4. \/ op.name \in {"up", "restart"}
      \/ At("backup", 9) \/ At("undo", 1) \/ At("upgrade", 5) \/ At("retry", 5)
      \/ At("abort", 4) \/ At("restore", 6) \/ At("rollback", 6)
    <2>1. Doing("start_private")
        BY DEF StartPrivate
    <2> QED
        BY <2>1, Places DEF HandoffInv, At
<1>5. StoresType'
    <2>1. faults' \in Nat
        BY <1>2, FaultCounts DEF HandoffInv
    <2> QED
        BY <1>2, <2>1 DEF HandoffInv, StoresInv, StoresType, Initialised, Services
<1>6. RowsOfBuilds'
    BY <1>2, <1>3 DEF HandoffInv, StoresInv, RowsOfBuilds
<1>7. Usable'
    <2>1. db.rows \subseteq objects
        BY <1>4 DEF HandoffInv, StoresInv, Usable, MarkerFits, Stage, Marked, RestoredSoFar,
                    At, Within
    <2> QED
        BY <1>2, <1>3, <2>1 DEF Usable
<1>8. /\ handoff.status = "upgrading" /\ handoff.id = db.id => handoff.next = lock
      /\ handoff.id = db.id /\ handoff.status = "upgrading" => db.used /\ db.whole
    BY <1>4 DEF HandoffInv, StoresInv, MarkerFits, Stage, Marked, RestoredSoFar, At, Within
<1>9. NoReturnToSource' /\ MarkerFits'
    BY <1>2, <1>3, <1>8 DEF HandoffInv, StoresInv, NoReturnToSource, MarkerFits
<1>10. OpType'
    BY <1>1, <1>2, OpTyped
<1>11. Stage'
    <2>1. ASSUME Advances PROVE Stage'
        BY <1>1, <1>2, <1>3, <1>4, <2>1
        DEF Advances, HandoffInv, Stage, Marked, Stopped, ReadSoFar, RestoredSoFar, At, Within
    <2>2. op.name = "backup" => handoff'.status = "none" /\ db'.whole
        BY <1>2, <1>3 DEF HandoffInv, Stage, Marked
    <2>3. op.name # "handoff"
        BY <1>4 DEF At
    <2> QED
        BY <1>1, <2>1, <2>2, <2>3, StageAfter DEF HandoffInv
<1> QED
    BY <1>5, <1>6, <1>7, <1>9, <1>10, <1>11 DEF HandoffInv, StoresInv

LEMMA StartIngressInv ==
    ASSUME HandoffInv, StartIngress
    PROVE  HandoffInv'
<1>1. /\ op.name # "idle" /\ (Done \/ Failed) /\ op.at \in Nat
      /\ services' = services \union {"caddy"}
      /\ UNCHANGED <<image, lock, target, bundles, handoff>>
      /\ Fault \/ UNCHANGED faults
    BY PlaceIsNat DEF StartIngress, Doing, Returns, HandoffInv
<1>2. Writers' = Writers /\ ("api" \in services' <=> "api" \in services)
    BY <1>1 DEF Writers
<1>3. faults' \in Nat
    BY <1>1, FaultCounts DEF HandoffInv
<1>4. StoresInv'
    BY <1>1, <1>2, <1>3 DEF HandoffInv, StoresInv, StoresType, RowsOfBuilds, Usable,
                            MarkerFits, NoReturnToSource, target, Services
<1>5. OpType'
    BY <1>1, OpTyped
<1>6. Stage'
    <2>1. \/ op.name \in {"up", "restart"} \/ At("backup", 10) \/ At("undo", 2)
          \/ At("upgrade", 6) \/ At("retry", 6) \/ At("abort", 5)
        <3>1. Doing("start_ingress")
            BY DEF StartIngress
        <3> QED
            BY <3>1, Places DEF HandoffInv, At
    <2>2. ASSUME Advances PROVE Stage'
        BY <1>1, <2>1, <2>2
        DEF Advances, HandoffInv, Stage, Marked, Stopped, ReadSoFar, RestoredSoFar, At, Within,
            target
    <2> QED
        BY <1>1, <2>2, StageAfter DEF HandoffInv, Stage, Marked, target
<1> QED
    BY <1>4, <1>5, <1>6 DEF HandoffInv

-----------------------------------------------------------------------------
(* Backup *)

\* Reading changes the state of the action only.
LEMMA ReadInv ==
    ASSUME HandoffInv, NEW dump \in DumpRow, op.name \in {"backup", "handoff"},
           op.at \in 5 .. 8, Step(dump), Fault \/ UNCHANGED faults,
           op.at + 1 \in 1 .. Len(Programs[op.name]),
           op' = [op EXCEPT !.at = op.at + 1, !.dump = dump] => ReadSoFar'
    PROVE  HandoffInv'
<1>1. /\ UNCHANGED Stores /\ op.name # "idle" /\ op.at \in Nat
      /\ op' = [op EXCEPT !.at = op.at + 1, !.dump = dump] \/ Failed
    BY PlaceIsNat DEF Step, Stores, HandoffInv
<1>2. StoresInv'
    BY <1>1, StoresKept, FaultCounts DEF HandoffInv
<1>3. CASE op' = [op EXCEPT !.at = op.at + 1, !.dump = dump]
    <2>1. op \in [name : Names \union {"idle"}, at : Nat, bundle : Nat, dump : DumpRow]
        BY DEF HandoffInv, OpType
    <2>2. op' \in [name : Names \union {"idle"}, at : Nat, bundle : Nat, dump : DumpRow]
        <3>1. op' = [name |-> op.name, at |-> op.at + 1, bundle |-> op.bundle, dump |-> dump]
            BY <2>1, <1>3
        <3>2. /\ op.name \in Names \union {"idle"} /\ op.at + 1 \in Nat /\ op.bundle \in Nat
            BY <2>1
        <3> QED
            BY <3>1, <3>2
    <2>3. op'.name = op.name /\ op'.at = op.at + 1 /\ op'.bundle = op.bundle
        BY <2>1, <1>3
    <2>4. OpType'
        BY <2>2, <2>3, <1>1 DEF OpType
    <2>5. Marked'
        BY <2>3, <1>1 DEF HandoffInv, Stage, Marked, Within, Stores, target
    <2>6. Stopped'
        BY <2>3, <1>1 DEF HandoffInv, Stage, Stopped, Within, Writers, Stores, containers
    <2>7. RestoredSoFar'
        BY <2>3 DEF RestoredSoFar, At, Within
    <2> QED
        BY <1>2, <1>3, <2>4, <2>5, <2>6, <2>7 DEF HandoffInv, Stage
<1>4. CASE Failed
    <2>1. OpType'
        BY <1>1, <1>4, OpTyped DEF Stores
    <2>2. op'.at # op.at + 1
        BY <1>4, <1>1, Failing DEF HandoffInv, OpType
    <2>3. Stage'
        BY <1>1, <1>4, <2>2, StageAfter DEF Advances, HandoffInv, Stage, Marked, Stores, target
    <2> QED
        BY <1>2, <2>1, <2>3 DEF HandoffInv
<1> QED
    BY <1>1, <1>3, <1>4

LEMMA ReadPlaces ==
    ASSUME \/ At("backup", 5) \/ At("backup", 6) \/ At("backup", 7)
           \/ At("handoff", 6) \/ At("handoff", 7) \/ At("handoff", 8)
    PROVE  /\ op.name \in {"backup", "handoff"} /\ op.at \in 5 .. 8
           /\ op.at + 1 \in 1 .. Len(Programs[op.name])
<1>1. CASE op.name = "backup" /\ op.at \in 5 .. 7
    <2>1. Len(Programs[op.name]) = 10
        BY <1>1, BackupSteps
    <2> QED
        BY <1>1, <2>1
<1>2. CASE op.name = "handoff" /\ op.at \in 6 .. 8
    <2>1. Len(Programs[op.name]) = 11
        BY <1>2, HandoffSteps
    <2> QED
        BY <1>2, <2>1
<1> QED
    BY <1>1, <1>2 DEF At

LEMMA DumpInv ==
    ASSUME HandoffInv, Dump
    PROVE  HandoffInv'
<1> DEFINE dump == [NoDump EXCEPT !.builds = db.builds, !.rows = db.rows]
<1>1. (At("backup", 5) \/ At("handoff", 6)) /\ Step(dump)
    BY Places DEF Dump, HandoffInv
<1>2. /\ dump \in DumpRow /\ dump.copied = {}
      /\ dump.builds = db.builds /\ dump.rows = db.rows
    BY DEF NoDump, DumpRow, HandoffInv, StoresInv, StoresType
<1>3. UNCHANGED Stores /\ (Fault \/ UNCHANGED faults)
    BY <1>1 DEF Step, Stores
<1> HIDE DEF dump
<1>4. ASSUME op' = [op EXCEPT !.at = op.at + 1, !.dump = dump] PROVE ReadSoFar'
    <2>1. op'.name = op.name /\ op'.at = op.at + 1 /\ op'.dump = dump /\ op.at \in Nat
        BY <1>4 DEF HandoffInv, OpType
    <2> QED
        BY <2>1, <1>1, <1>2, <1>3 DEF HandoffInv, Stage, ReadSoFar, At, Within, Stores, target
<1> QED
    BY <1>1, <1>2, <1>3, <1>4, ReadInv, ReadPlaces DEF HandoffInv

LEMMA ListInv ==
    ASSUME HandoffInv, List
    PROVE  HandoffInv'
<1> DEFINE dump == [op.dump EXCEPT !.listed = db.rows]
<1>1. (At("backup", 6) \/ At("handoff", 7)) /\ Step(dump)
    BY Places DEF List, HandoffInv
<1>2. /\ dump \in DumpRow /\ dump.builds = op.dump.builds /\ dump.rows = op.dump.rows
      /\ dump.listed = db.rows /\ dump.copied = op.dump.copied
    BY DEF DumpRow, HandoffInv, OpType, StoresInv, StoresType
<1>3. UNCHANGED Stores /\ (Fault \/ UNCHANGED faults)
    BY <1>1 DEF Step, Stores
<1> HIDE DEF dump
<1>4. ASSUME op' = [op EXCEPT !.at = op.at + 1, !.dump = dump] PROVE ReadSoFar'
    <2>1. op'.name = op.name /\ op'.at = op.at + 1 /\ op'.dump = dump /\ op.at \in Nat
        BY <1>4 DEF HandoffInv, OpType
    <2> QED
        BY <2>1, <1>1, <1>2, <1>3 DEF HandoffInv, Stage, ReadSoFar, At, Within, Stores, target
<1> QED
    BY <1>1, <1>2, <1>3, <1>4, ReadInv, ReadPlaces DEF HandoffInv

LEMMA CopiedInv ==
    ASSUME HandoffInv, Copied
    PROVE  HandoffInv'
<1>1. /\ At("backup", 7) \/ At("handoff", 8)
      /\ Step(op.dump) /\ op.dump.copied = op.dump.listed /\ op.dump \in DumpRow
    BY Places DEF Copied, HandoffInv, OpType
<1>3. UNCHANGED Stores /\ (Fault \/ UNCHANGED faults)
    BY <1>1 DEF Step, Stores
<1>4. ASSUME op' = [op EXCEPT !.at = op.at + 1, !.dump = op.dump] PROVE ReadSoFar'
    <2>1. op'.name = op.name /\ op'.at = op.at + 1 /\ op'.dump = op.dump /\ op.at \in Nat
        BY <1>4 DEF HandoffInv, OpType
    <2> QED
        BY <2>1, <1>1, <1>3 DEF HandoffInv, Stage, ReadSoFar, At, Within, Stores, target
<1> QED
    BY <1>1, <1>3, <1>4, ReadInv, ReadPlaces DEF HandoffInv

LEMMA CopyVersionInv ==
    ASSUME HandoffInv, CopyVersion
    PROVE  HandoffInv'
<1>1. /\ At("backup", 7) \/ At("handoff", 8)
      /\ UNCHANGED Stores /\ UNCHANGED faults
    BY Places DEF CopyVersion, HandoffInv, Stores
<1>2. PICK o \in (op.dump.listed \ op.dump.copied) \intersect objects :
        op' = [op EXCEPT !.dump.copied = op.dump.copied \union {o}]
    BY DEF CopyVersion
<1> DEFINE dump == [op.dump EXCEPT !.copied = op.dump.copied \union {o}]
<1>3. op' = [op EXCEPT !.dump = dump]
    BY <1>2
<1>4. /\ dump \in DumpRow /\ dump.builds = op.dump.builds /\ dump.rows = op.dump.rows
      /\ dump.listed = op.dump.listed /\ dump.copied = op.dump.copied \union {o}
    BY <1>2 DEF DumpRow, HandoffInv, OpType
<1> HIDE DEF dump
<1>5. /\ op'.name = op.name /\ op'.at = op.at /\ op'.bundle = op.bundle /\ op'.dump = dump
      /\ op' \in [name : Names \union {"idle"}, at : Nat, bundle : Nat, dump : DumpRow]
    BY <1>3, <1>4 DEF HandoffInv, OpType
<1>6. StoresInv'
    BY <1>1, StoresKept, FaultCounts DEF HandoffInv
<1>7. OpType'
    BY <1>1, <1>5 DEF HandoffInv, OpType, At, Stores
<1>8. Marked'
    BY <1>1, <1>5 DEF HandoffInv, Stage, Marked, Within, Stores, target
<1>9. Stopped'
    BY <1>1, <1>5 DEF HandoffInv, Stage, Stopped, Within, Writers, Stores, containers
<1>10. ReadSoFar'
    BY <1>1, <1>2, <1>4, <1>5
    DEF HandoffInv, Stage, ReadSoFar, At, Within, Stores, target
<1>11. RestoredSoFar'
    BY <1>1, <1>5 DEF RestoredSoFar, At, Within
<1> QED
    BY <1>6, <1>7, <1>8, <1>9, <1>10, <1>11 DEF HandoffInv, Stage

LEMMA PublishBundleInv ==
    ASSUME HandoffInv, PublishBundle
    PROVE  HandoffInv'
<1> DEFINE bundle == [lock |-> lock, builds |-> op.dump.builds, rows |-> op.dump.rows,
                      listed |-> op.dump.listed, copied |-> op.dump.copied]
<1>1. /\ At("backup", 8) \/ At("handoff", 9)
      /\ op.name # "idle" /\ op.at \in Nat
      /\ bundles' = Append(bundles, bundle) /\ (Done \/ Failed)
      /\ Fault \/ UNCHANGED faults
      /\ UNCHANGED <<containers, lock, target, handoff>>
    BY Places, PlaceIsNat DEF PublishBundle, Returns, Doing, HandoffInv
<1>2. bundle \in Bundle
    BY DEF Bundle, DumpRow, HandoffInv, StoresInv, StoresType, OpType
<1>3. /\ bundle.rows = db.rows /\ bundle.listed = db.rows /\ bundle.copied = db.rows
      /\ bundle.builds = db.builds /\ db.builds = db.done
    BY <1>1 DEF HandoffInv, Stage, ReadSoFar, At, Within
<1> HIDE DEF bundle
<1>4. /\ bundles \in Seq(Bundle) /\ bundles' \in Seq(Bundle)
      /\ Len(bundles) \in Nat /\ Len(bundles') = Len(bundles) + 1
      /\ bundles'[Len(bundles) + 1] = bundle
      /\ \A k \in 1 .. Len(bundles) : bundles'[k] = bundles[k]
    BY <1>1, <1>2 DEF HandoffInv, StoresInv, StoresType
<1>5. StoresType'
    <2>1. faults' \in Nat
        BY <1>1, FaultCounts DEF HandoffInv
    <2> QED
        BY <1>1, <1>4, <2>1 DEF HandoffInv, StoresInv, StoresType, containers, target
<1>6. RowsOfBuilds'
    <2>1. db' = db
        BY <1>1 DEF target
    <2>2. ASSUME NEW k \in 1 .. Len(bundles')
          PROVE  /\ bundles'[k].rows = bundles'[k].listed
                 /\ bundles'[k].rows = bundles'[k].copied
                 /\ BuildsOf(bundles'[k].rows) = bundles'[k].builds
        <3>1. CASE k = Len(bundles) + 1
            BY <3>1, <1>3, <1>4 DEF HandoffInv, StoresInv, RowsOfBuilds
        <3>2. CASE k \in 1 .. Len(bundles)
            BY <3>2, <1>4 DEF HandoffInv, StoresInv, RowsOfBuilds
        <3> QED
            BY <3>1, <3>2, <1>4
    <2> QED
        BY <2>1, <2>2 DEF HandoffInv, StoresInv, RowsOfBuilds, BuildsOf
<1>7. Usable' /\ MarkerFits' /\ NoReturnToSource'
    BY <1>1 DEF HandoffInv, StoresInv, Usable, MarkerFits, NoReturnToSource, Writers,
                containers, target
<1>8. OpType'
    BY <1>1, <1>4, OpStaysTyped DEF HandoffInv
<1>9. Stage'
    <2>1. ASSUME Advances PROVE Stage'
        BY <1>1, <2>1
        DEF Advances, HandoffInv, Stage, Marked, Stopped, ReadSoFar, RestoredSoFar, At, Within,
            Writers, containers, target
    <2> QED
        BY <1>1, <2>1, StageAfter DEF HandoffInv, Stage, Marked, target
<1> QED
    BY <1>5, <1>6, <1>7, <1>8, <1>9 DEF HandoffInv, StoresInv

-----------------------------------------------------------------------------
(* The handoff *)

LEMMA NoMarker ==
    /\ NoHandoff \in MarkerType
    /\ NoHandoff.status = "none" /\ NoHandoff.id = 0
BY DEF NoHandoff, MarkerType

\* What a step that writes the marker, and nothing else, keeps in any case.
LEMMA MarkerStep ==
    ASSUME HandoffInv, op.name # "idle", Returns,
           UNCHANGED <<containers, lock, target, bundles>>,
           handoff' \in MarkerType, MarkerFits', NoReturnToSource'
    PROVE  /\ StoresInv' /\ OpType'
           /\ Done \/ Failed
           /\ op.at \in Nat
           /\ db' = db /\ services' = services /\ objects' = objects /\ Writers' = Writers
<1>1. (Done \/ Failed) /\ (Fault \/ UNCHANGED faults) /\ op.at \in Nat
    BY PlaceIsNat DEF Returns, HandoffInv
<1>2. faults' \in Nat
    BY <1>1, FaultCounts DEF HandoffInv
<1>3. StoresInv'
    BY <1>2 DEF HandoffInv, StoresInv, StoresType, RowsOfBuilds, Usable, Writers,
                containers, target, MarkerType
<1>4. OpType'
    BY <1>1, OpTyped
<1> QED
    BY <1>1, <1>3, <1>4 DEF containers, target, Writers

LEMMA PrepareInv ==
    ASSUME HandoffInv, Prepare
    PROVE  HandoffInv'
<1>1. /\ At("handoff", 1) /\ op.name # "idle" /\ Returns
      /\ handoff' = [NoHandoff EXCEPT !.status = "preparing", !.lock = lock]
      /\ UNCHANGED <<containers, lock, target, bundles>>
    BY Places DEF Prepare, Doing, HandoffInv
<1>2. handoff' \in MarkerType /\ handoff'.status = "preparing" /\ handoff'.id = 0
    BY <1>1, NoMarker DEF MarkerType, HandoffInv, StoresInv, StoresType
<1>3. db.used /\ db.whole /\ db.id \in Nat
    BY <1>1 DEF HandoffInv, Stage, Marked, At, StoresInv, StoresType
<1>4. MarkerFits' /\ NoReturnToSource'
    BY <1>1, <1>2, <1>3 DEF HandoffInv, StoresInv, MarkerFits, NoReturnToSource, Writers,
                            containers, target
<1>5. StoresInv' /\ OpType' /\ (Done \/ Failed)
    BY <1>1, <1>2, <1>4, MarkerStep
<1>6. ASSUME Advances PROVE Stage'
    BY <1>1, <1>2, <1>3, <1>6
    DEF Advances, Stage, Marked, Stopped, ReadSoFar, RestoredSoFar, At, Within, target
<1>7. Stage'
    BY <1>1, <1>5, <1>6, StageAfter DEF HandoffInv, At
<1> QED
    BY <1>5, <1>7 DEF HandoffInv

LEMMA ReadyInv ==
    ASSUME HandoffInv, Ready
    PROVE  HandoffInv'
<1>1. /\ At("handoff", 11) /\ op.name # "idle" /\ Returns
      /\ handoff' = [handoff EXCEPT !.status = "ready", !.bundle = Len(bundles),
                                    !.id = db.id]
      /\ UNCHANGED <<containers, lock, target, bundles>>
    BY Places DEF Ready, Doing, HandoffInv
<1>2. handoff' \in MarkerType /\ handoff'.status = "ready" /\ handoff'.id = db.id
    BY <1>1, BundleCount DEF MarkerType, HandoffInv, StoresInv, StoresType
<1>3. db.used /\ db.whole /\ db.id \in Nat
    BY <1>1 DEF HandoffInv, Stage, Marked, At, StoresInv, StoresType
<1>4. MarkerFits' /\ NoReturnToSource'
    BY <1>1, <1>2, <1>3 DEF HandoffInv, StoresInv, MarkerFits, NoReturnToSource, Writers,
                            containers, target
<1>5. StoresInv' /\ OpType' /\ (Done \/ Failed)
    BY <1>1, <1>2, <1>4, MarkerStep
<1>6. ~Advances
    <2>1. ASSUME Advances PROVE FALSE
        <3>1. op'.name = "handoff" /\ op'.at = 12
            BY <2>1, <1>1 DEF Advances, At
        <3> QED
            BY <3>1, <1>5, HandoffSteps DEF OpType
    <2> QED
        BY <2>1
<1>7. Stage'
    BY <1>1, <1>5, <1>6, StageAfter DEF HandoffInv, At
<1> QED
    BY <1>5, <1>7 DEF HandoffInv

LEMMA BeginUpgradeInv ==
    ASSUME HandoffInv, BeginUpgrade
    PROVE  HandoffInv'
<1>1. /\ At("upgrade", 3) /\ op.name # "idle" /\ Returns
      /\ handoff' = [handoff EXCEPT !.status = "upgrading", !.next = lock]
      /\ UNCHANGED <<containers, lock, target, bundles>>
    BY Places DEF BeginUpgrade, Doing, HandoffInv
<1>2. /\ handoff' \in MarkerType /\ handoff'.status = "upgrading"
      /\ handoff'.id = handoff.id /\ handoff'.next = lock
    BY <1>1 DEF MarkerType, HandoffInv, StoresInv, StoresType
<1>3. handoff.status = "ready" /\ Writers = {}
    BY <1>1 DEF HandoffInv, Stage, Marked, Stopped, At, Within
<1>4. MarkerFits' /\ NoReturnToSource'
    BY <1>1, <1>2, <1>3 DEF HandoffInv, StoresInv, MarkerFits, NoReturnToSource, Writers,
                            containers, target
<1>5. StoresInv' /\ OpType' /\ (Done \/ Failed) /\ Writers' = Writers
    BY <1>1, <1>2, <1>4, MarkerStep
<1>6. ASSUME Advances PROVE Stage'
    <2>1. handoff'.id = db'.id /\ lock' = lock
        BY <1>1, <1>2, <1>3 DEF HandoffInv, StoresInv, MarkerFits, target
    <2> QED
        BY <1>1, <1>2, <1>3, <1>5, <1>6, <2>1
        DEF Advances, Stage, Marked, Stopped, ReadSoFar, RestoredSoFar, At, Within
<1>7. Stage'
    BY <1>1, <1>5, <1>6, StageAfter DEF HandoffInv, At
<1> QED
    BY <1>5, <1>7 DEF HandoffInv

LEMMA ConsumeInv ==
    ASSUME HandoffInv, Consume
    PROVE  HandoffInv'
<1>1. /\ \/ At("undo", 3) \/ At("upgrade", 7) \/ At("retry", 7) \/ At("abort", 6)
         \/ At("rollback", 7)
      /\ op.name # "idle" /\ Returns /\ handoff' = NoHandoff
      /\ UNCHANGED <<containers, lock, target, bundles>>
    BY Places DEF Consume, Doing, HandoffInv
<1>2. handoff' \in MarkerType /\ handoff'.status = "none" /\ handoff'.id = 0
    BY <1>1, NoMarker
<1>3. MarkerFits' /\ NoReturnToSource'
    BY <1>1, <1>2 DEF HandoffInv, StoresInv, StoresType, MarkerFits, NoReturnToSource, Writers,
                      containers, target
<1>4. StoresInv' /\ OpType' /\ (Done \/ Failed)
    BY <1>1, <1>2, <1>3, MarkerStep
<1>5. ~Advances
    <2>1. ASSUME Advances PROVE FALSE
        <3>1. op.at = Len(Programs[op.name])
            BY <1>1, UndoSteps, UpgradeSteps, RetrySteps, AbortSteps, RestoreSteps DEF At
        <3>2. op.at + 1 \in 1 .. Len(Programs[op.name])
            BY <2>1, <1>1, <1>4 DEF Advances, OpType, At
        <3> QED
            BY <3>1, <3>2
    <2> QED
        BY <2>1
<1>6. Stage'
    BY <1>1, <1>4, <1>5, StageAfter DEF HandoffInv, At
<1> QED
    BY <1>4, <1>6 DEF HandoffInv

\* Setting or clearing the default of the database.
LEMMA SetsInv ==
    ASSUME HandoffInv, Seal \/ Unseal
    PROVE  HandoffInv'
<1>1. PICK ro \in BOOLEAN : db' = [db EXCEPT !.ro = ro]
    BY DEF Seal, Unseal, Sets
<1>2. /\ \/ At("handoff", 10) \/ At("retry", 1)
         \/ At("upgrade", 4) \/ At("retry", 4) \/ At("abort", 3)
      /\ op.name # "idle" /\ op.at \in Nat /\ (Done \/ Failed)
      /\ Fault \/ UNCHANGED faults
      /\ UNCHANGED <<containers, lock, objects, bundles, handoff>>
    BY Places, PlaceIsNat DEF Seal, Unseal, Sets, Returns, Doing, HandoffInv
<1>3. /\ db'.id = db.id /\ db'.builds = db.builds /\ db'.done = db.done
      /\ db'.rows = db.rows /\ db'.whole = db.whole /\ db'.used = db.used
      /\ db'.schema = db.schema
    BY <1>1 DEF HandoffInv, StoresInv, StoresType
<1>4. StoresType'
    <2>1. faults' \in Nat
        BY <1>2, FaultCounts DEF HandoffInv
    <2> QED
        BY <1>1, <1>2, <2>1 DEF HandoffInv, StoresInv, StoresType, containers
<1>5. RowsOfBuilds' /\ Usable' /\ MarkerFits' /\ NoReturnToSource'
    BY <1>2, <1>3 DEF HandoffInv, StoresInv, RowsOfBuilds, Usable, MarkerFits,
                      NoReturnToSource, Writers, containers
<1>6. OpType'
    BY <1>2, OpTyped
<1>7. ASSUME Advances PROVE Stage'
    BY <1>2, <1>3, <1>7
    DEF Advances, HandoffInv, Stage, Marked, Stopped, ReadSoFar, RestoredSoFar, At, Within,
        Writers, containers
<1>8. Stage'
    BY <1>2, <1>3, <1>7, StageAfter DEF HandoffInv, Stage, Marked, At
<1> QED
    BY <1>4, <1>5, <1>6, <1>8 DEF HandoffInv, StoresInv

LEMMA ResealInv ==
    ASSUME HandoffInv, Reseal
    PROVE  HandoffInv'
<1>1. PICK ro \in BOOLEAN : db' = [db EXCEPT !.ro = ro]
    <2>1. db = [db EXCEPT !.ro = db.ro] /\ db.ro \in BOOLEAN
        BY DEF HandoffInv, StoresInv, StoresType
    <2> QED
        BY <2>1 DEF Reseal
<1>2. /\ At("reseal", 1) /\ op.name # "idle" /\ (Done \/ Failed)
      /\ Fault \/ UNCHANGED faults
      /\ services' \subseteq services
      /\ UNCHANGED <<image, lock, objects, bundles, handoff>>
    BY Places DEF Reseal, Doing, HandoffInv
<1>3. /\ db'.id = db.id /\ db'.builds = db.builds /\ db'.done = db.done
      /\ db'.rows = db.rows /\ db'.whole = db.whole /\ db'.used = db.used
      /\ db'.schema = db.schema
    BY <1>1 DEF HandoffInv, StoresInv, StoresType
<1>4. StoresType'
    <2>1. faults' \in Nat
        BY <1>2, FaultCounts DEF HandoffInv
    <2> QED
        BY <1>1, <1>2, <2>1 DEF HandoffInv, StoresInv, StoresType
<1>5. RowsOfBuilds' /\ Usable' /\ MarkerFits' /\ NoReturnToSource'
    <2>1. Writers' \subseteq Writers
        BY <1>2 DEF Writers
    <2> QED
        BY <1>2, <1>3, <2>1 DEF HandoffInv, StoresInv, RowsOfBuilds, Usable, MarkerFits,
                                NoReturnToSource
<1>6. OpType'
    BY <1>2, OpTyped
<1>7. ASSUME Advances PROVE Stage'
    BY <1>2, <1>7
    DEF Advances, Stage, Marked, Stopped, ReadSoFar, RestoredSoFar, At, Within
<1>8. Stage'
    BY <1>2, <1>7, StageAfter DEF HandoffInv, At
<1> QED
    BY <1>4, <1>5, <1>6, <1>8 DEF HandoffInv, StoresInv

-----------------------------------------------------------------------------
(* Restore *)

LEMMA EmptyTargetInv ==
    ASSUME HandoffInv, EmptyTarget
    PROVE  HandoffInv'
<1>1. /\ At("restore", 2) \/ At("rollback", 2)
      /\ op.name # "idle" /\ op.at \in Nat /\ (Done \/ Failed)
      /\ Fault \/ UNCHANGED faults
      /\ db' = Initialised /\ ~db.used
      /\ UNCHANGED <<containers, lock, objects, bundles, handoff>>
    BY Places, PlaceIsNat DEF EmptyTarget, Restorable, Returns, Doing, HandoffInv
<1>2. /\ db'.id = db.id /\ db'.builds = db.builds /\ db'.done = db.done
      /\ db'.rows = db.rows /\ db'.whole = db.whole /\ db'.used = db.used
    BY <1>1 DEF HandoffInv, StoresInv, StoresType, Initialised
<1>3. StoresType'
    <2>1. faults' \in Nat
        BY <1>1, FaultCounts DEF HandoffInv
    <2> QED
        BY <1>1, <2>1 DEF HandoffInv, StoresInv, StoresType, containers, Initialised
<1>4. Writers' = {}
    BY <1>1 DEF HandoffInv, Stage, Stopped, At, Within, Writers, containers
<1>5. RowsOfBuilds' /\ Usable' /\ MarkerFits' /\ NoReturnToSource'
    BY <1>1, <1>2, <1>4 DEF HandoffInv, StoresInv, RowsOfBuilds, Usable, MarkerFits,
                            NoReturnToSource, containers
<1>6. OpType'
    BY <1>1, OpTyped
<1>7. ASSUME Advances PROVE Stage'
    BY <1>1, <1>2, <1>4, <1>7
    DEF Advances, HandoffInv, Stage, Marked, Stopped, ReadSoFar, RestoredSoFar, At, Within
<1>8. Stage'
    BY <1>1, <1>7, StageAfter DEF HandoffInv, At
<1> QED
    BY <1>3, <1>5, <1>6, <1>8 DEF HandoffInv, StoresInv

LEMMA SourceIsWhole ==
    ASSUME HandoffInv, op.name \in {"restore", "rollback"}
    PROVE  /\ Source \in Bundle
           /\ Source.rows = Source.listed /\ BuildsOf(Source.rows) = Source.builds
           /\ Source.rows \in SUBSET Versions
<1>1. op.bundle \in 1 .. Len(bundles) /\ bundles \in Seq(Bundle)
    BY DEF HandoffInv, OpType, StoresInv, StoresType
<1>2. Source \in Bundle
    BY <1>1 DEF Source
<1> QED
    BY <1>1, <1>2 DEF HandoffInv, StoresInv, RowsOfBuilds, Source, Bundle

LEMMA RestoreDatabaseInv ==
    ASSUME HandoffInv, RestoreDatabase
    PROVE  HandoffInv'
<1>1. /\ At("restore", 3) \/ At("rollback", 3)
      /\ op.name # "idle" /\ op.at \in Nat /\ (Done \/ Failed)
      /\ Fault \/ UNCHANGED faults
      /\ db' = [db EXCEPT !.builds = Source.builds, !.done = Source.builds,
                          !.rows = Source.rows, !.whole = FALSE]
      /\ UNCHANGED <<containers, lock, objects, bundles, handoff>>
    BY Places, PlaceIsNat DEF RestoreDatabase, Returns, Doing, HandoffInv
<1>2. /\ Source.builds \in SUBSET Builds /\ Source.rows \in SUBSET Versions
      /\ BuildsOf(Source.rows) = Source.builds
    BY <1>1, SourceIsWhole DEF At, Bundle
<1>3. /\ db'.id = db.id /\ db'.builds = Source.builds /\ db'.done = Source.builds
      /\ db'.rows = Source.rows /\ ~db'.whole /\ db'.used = db.used
      /\ db'.schema = db.schema
    BY <1>1 DEF HandoffInv, StoresInv, StoresType
<1>4. StoresType'
    <2>1. faults' \in Nat
        BY <1>1, FaultCounts DEF HandoffInv
    <2> QED
        BY <1>1, <1>2, <2>1 DEF HandoffInv, StoresInv, StoresType, containers
<1>5. Writers' = {} /\ ~db.used
    BY <1>1 DEF HandoffInv, Stage, Stopped, RestoredSoFar, At, Within, Writers, containers
<1>6. RowsOfBuilds'
    BY <1>1, <1>2, <1>3 DEF HandoffInv, StoresInv, RowsOfBuilds, BuildsOf
<1>7. /\ handoff.status \in {"none", "upgrading"}
      /\ handoff.status = "upgrading" => handoff.id # db.id
    BY <1>1, <1>5 DEF HandoffInv, Stage, Marked, StoresInv, MarkerFits, At
<1>8. Usable' /\ MarkerFits' /\ NoReturnToSource'
    BY <1>1, <1>3, <1>5, <1>7 DEF HandoffInv, StoresInv, Usable, MarkerFits, NoReturnToSource
<1>9. OpType'
    BY <1>1, OpTyped
<1>10. ASSUME Advances PROVE Stage'
    <2>1. Source' = Source
        BY <1>1, <1>10 DEF Source, Advances
    <2> QED
        BY <1>1, <1>3, <1>5, <1>10, <2>1
        DEF Advances, HandoffInv, Stage, Marked, Stopped, ReadSoFar, RestoredSoFar, At, Within
<1>11. Stage'
    BY <1>1, <1>10, StageAfter DEF HandoffInv, At
<1> QED
    BY <1>4, <1>6, <1>8, <1>9, <1>11 DEF HandoffInv, StoresInv

LEMMA UploadInv ==
    ASSUME HandoffInv, Upload
    PROVE  HandoffInv'
<1>1. PICK o \in Source.listed : objects' = objects \union {<<o[1], db.id>>}
    BY DEF Upload
<1>2. /\ At("restore", 4) \/ At("rollback", 4)
      /\ op.name # "idle" /\ op.at \in Nat
      /\ UNCHANGED op \/ Failed
      /\ Fault \/ UNCHANGED faults
      /\ UNCHANGED <<containers, lock, db, bundles, handoff>>
    BY Places, PlaceIsNat DEF Upload, Doing, HandoffInv
<1>3. <<o[1], db.id>> \in Versions
    BY <1>1, <1>2, SourceIsWhole DEF At, Versions, HandoffInv, StoresInv, StoresType
<1>4. StoresType'
    <2>1. faults' \in Nat
        BY <1>2, FaultCounts DEF HandoffInv
    <2> QED
        BY <1>1, <1>2, <1>3, <2>1 DEF HandoffInv, StoresInv, StoresType, containers
<1>5. RowsOfBuilds' /\ Usable' /\ MarkerFits' /\ NoReturnToSource'
    BY <1>1, <1>2 DEF HandoffInv, StoresInv, RowsOfBuilds, Usable, MarkerFits,
                      NoReturnToSource, Writers, containers
<1>6. CASE UNCHANGED op
    <2>1. OpType'
        BY <1>2, <1>6 DEF HandoffInv, OpType
    <2>2. Source' = Source
        BY <1>2, <1>6 DEF Source
    <2>3. Stage'
        BY <1>2, <1>6, <2>2
        DEF HandoffInv, Stage, Marked, Stopped, ReadSoFar, RestoredSoFar, At, Within,
            Writers, containers
    <2> QED
        BY <1>4, <1>5, <2>1, <2>3 DEF HandoffInv, StoresInv
<1>7. CASE Failed
    <2>1. OpType'
        BY <1>2, <1>7, OpTyped
    <2>2. ~Advances
        BY <1>2, <1>7, Failing DEF Advances, HandoffInv, At
    <2>3. Stage'
        BY <1>2, <1>7, <2>2, StageAfter DEF HandoffInv, At
    <2> QED
        BY <1>4, <1>5, <2>1, <2>3 DEF HandoffInv, StoresInv
<1> QED
    BY <1>2, <1>6, <1>7

LEMMA UploadedInv ==
    ASSUME HandoffInv, Uploaded
    PROVE  HandoffInv'
<1>1. /\ At("restore", 4) \/ At("rollback", 4)
      /\ op.name # "idle" /\ op.at \in Nat /\ Done
      /\ UNCHANGED Stores /\ UNCHANGED faults
      /\ \A o \in Source.listed : <<o[1], db.id>> \in objects
    BY Places, PlaceIsNat DEF Uploaded, Doing, HandoffInv, Stores
<1>2. ASSUME Advances PROVE Stage'
    <2>1. Source' = Source
        BY <1>1, <1>2 DEF Source, Advances, Stores
    <2> QED
        BY <1>1, <1>2, <2>1
        DEF Advances, HandoffInv, Stage, Marked, Stopped, ReadSoFar, RestoredSoFar, At, Within,
            Writers, Stores, containers, target
<1> QED
    BY <1>1, <1>2, StepInv

LEMMA BuildsOfRemapped ==
    ASSUME NEW rows \in SUBSET Versions
    PROVE  BuildsOf(Remapped(rows)) = BuildsOf(rows)
<1>1. ASSUME NEW x \in BuildsOf(Remapped(rows)) PROVE x \in BuildsOf(rows)
    <2>1. PICK v \in Remapped(rows) : x = v[1]
        BY DEF BuildsOf
    <2>2. PICK o \in rows : v = <<o[1], db.id>>
        BY DEF Remapped
    <2> QED
        BY <2>1, <2>2 DEF BuildsOf
<1>2. ASSUME NEW x \in BuildsOf(rows) PROVE x \in BuildsOf(Remapped(rows))
    <2>1. PICK o \in rows : x = o[1]
        BY DEF BuildsOf
    <2>2. <<o[1], db.id>> \in Remapped(rows) /\ <<o[1], db.id>>[1] = o[1]
        BY DEF Remapped
    <2> QED
        BY <2>1, <2>2 DEF BuildsOf
<1> QED
    BY <1>1, <1>2

LEMMA RemapInv ==
    ASSUME HandoffInv, Remap
    PROVE  HandoffInv'
<1>1. /\ At("restore", 5) \/ At("rollback", 5)
      /\ op.name # "idle" /\ op.at \in Nat /\ (Done \/ Failed)
      /\ Fault \/ UNCHANGED faults
      /\ db' = [db EXCEPT !.rows = Remapped(db.rows)]
      /\ UNCHANGED <<containers, lock, objects, bundles, handoff>>
    BY Places, PlaceIsNat DEF Remap, Returns, Doing, HandoffInv
<1>2. /\ db'.id = db.id /\ db'.builds = db.builds /\ db'.done = db.done
      /\ db'.rows = Remapped(db.rows) /\ db'.whole = db.whole /\ db'.used = db.used
      /\ db'.schema = db.schema /\ db.rows \in SUBSET Versions
    BY <1>1 DEF HandoffInv, StoresInv, StoresType
<1>3. Remapped(db.rows) \subseteq objects
    <2>1. db.rows = Source.listed /\ (\A o \in Source.listed : <<o[1], db.id>> \in objects)
        BY <1>1, SourceIsWhole DEF HandoffInv, Stage, RestoredSoFar, At, Within
    <2> QED
        BY <2>1 DEF Remapped
<1>4. StoresType'
    <2>1. faults' \in Nat
        BY <1>1, FaultCounts DEF HandoffInv
    <2>2. Remapped(db.rows) \in SUBSET Versions
        BY <1>3 DEF HandoffInv, StoresInv, StoresType
    <2> QED
        BY <1>1, <2>1, <2>2 DEF HandoffInv, StoresInv, StoresType, containers
<1>5. Writers' = {}
    BY <1>1 DEF HandoffInv, Stage, Stopped, At, Within, Writers, containers
<1>6. RowsOfBuilds'
    <2>1. BuildsOf(Remapped(db.rows)) = BuildsOf(db.rows)
        BY <1>2, BuildsOfRemapped
    <2> QED
        BY <2>1, <1>1, <1>2 DEF HandoffInv, StoresInv, RowsOfBuilds, BuildsOf
<1>7. Usable' /\ MarkerFits' /\ NoReturnToSource'
    BY <1>1, <1>2, <1>3, <1>5 DEF HandoffInv, StoresInv, Usable, MarkerFits, NoReturnToSource
<1>8. OpType'
    BY <1>1, OpTyped
<1>9. ASSUME Advances PROVE Stage'
    BY <1>1, <1>2, <1>3, <1>5, <1>9
    DEF Advances, HandoffInv, Stage, Marked, Stopped, ReadSoFar, RestoredSoFar, At, Within
<1>10. Stage'
    BY <1>1, <1>9, StageAfter DEF HandoffInv, At
<1> QED
    BY <1>4, <1>6, <1>7, <1>8, <1>10 DEF HandoffInv, StoresInv

-----------------------------------------------------------------------------
(* The theorems *)

LEMMA InitInv ==
    ASSUME Init
    PROVE  HandoffInv
<1>1. StoresType
    <2>1. db = [id |-> 1, ro |-> FALSE, schema |-> "source", builds |-> {}, done |-> {},
                rows |-> {}, whole |-> TRUE, used |-> TRUE]
        BY DEF Init, Empty
    <2>2. db \in [id : Nat, ro : BOOLEAN, schema : Locks \union {"none"},
                  builds : SUBSET Builds, done : SUBSET Builds, rows : SUBSET Versions,
                  whole : BOOLEAN, used : BOOLEAN]
        BY <2>1 DEF Locks
    <2>3. bundles \in Seq(Bundle) /\ objects \subseteq Versions /\ faults \in Nat
        BY HandoffAssumption DEF Init
    <2>4. services \subseteq Services /\ image \in Locks /\ lock \in Locks
        BY DEF Init, Locks
    <2>5. handoff \in MarkerType
        BY NoMarker DEF Init
    <2> QED
        BY <2>2, <2>3, <2>4, <2>5 DEF StoresType, MarkerType
<1>2. OpType
    BY EmptyDump DEF Init, OpType, Idle
<1>3. RowsOfBuilds
    BY DEF Init, RowsOfBuilds, BuildsOf, Empty
<1>4. Usable /\ MarkerFits /\ NoReturnToSource
    BY DEF Init, Usable, MarkerFits, NoReturnToSource, Empty, NoHandoff
<1>5. Stage
    BY DEF Init, Idle, Stage, Marked, Stopped, ReadSoFar, RestoredSoFar, At, Within
<1> QED
    BY <1>1, <1>2, <1>3, <1>4, <1>5 DEF HandoffInv, StoresInv

LEMMA NextInv ==
    ASSUME HandoffInv, [Next]_vars
    PROVE  HandoffInv'
<1>1. CASE UNCHANGED vars
    <2>1. UNCHANGED Stores /\ UNCHANGED faults /\ op' = op
        BY <1>1 DEF vars, Stores
    <2>2. StoresInv'
        BY <2>1, StoresKept, FaultCounts DEF HandoffInv
    <2>3. OpType' /\ Stage'
        BY <2>1 DEF HandoffInv, OpType, Stage, Marked, Stopped, ReadSoFar, RestoredSoFar, At,
                    Within, Source, Writers, Stores, containers, target
    <2> QED
        BY <2>2, <2>3 DEF HandoffInv
<1>2. CASE Next
    BY <1>2, AcceptInv, FinishInv, InstallLockInv, NewTargetInv, BeginInv, StopsInv,
       StartPrivateInv, StartIngressInv, PassesInv, DumpInv, ListInv, CopyVersionInv,
       CopiedInv, PublishBundleInv, PrepareInv, SetsInv, ReadyInv, BeginUpgradeInv,
       ConsumeInv, ResealInv, EmptyTargetInv, RestoreDatabaseInv, UploadInv, UploadedInv,
       RemapInv, StepFailsInv, KilledInv
    DEF Next
<1> QED
    BY <1>1, <1>2

LEMMA Invariant == Spec => []HandoffInv
BY InitInv, NextInv, PTL DEF Spec

\* Once an upgrade has begun, no step, failed step or retry runs the source
\* release against that database (scripts/vps/upgrade.py).
THEOREM SourceNeverReturns == Spec => []NoReturnToSource
<1>1. HandoffInv => NoReturnToSource
    BY DEF HandoffInv, StoresInv
<1> QED
    BY <1>1, Invariant, PTL

\* A published bundle holds finished builds only, and the versions that its rows
\* name are those that were copied, whatever failed before
\* (scripts/vps/backup_restore.py, maintenance.py).
THEOREM BundlesAreWhole == Spec => []BundleIsWhole
<1>1. HandoffInv => BundleIsWhole
    BY DEF HandoffInv, StoresInv, RowsOfBuilds, BundleIsWhole, BuildsOf
<1> QED
    BY <1>1, Invariant, PTL

\* While an API container runs, every artifact row of its database has its
\* object version: after an upgrade, an abort, a restore or a rollback as well.
THEOREM EveryRowIsServed == Spec => []RowsAreServed
<1>1. HandoffInv => RowsAreServed
    BY DEF HandoffInv, StoresInv, Usable, RowsAreServed, Writers
<1> QED
    BY <1>1, Invariant, PTL
=============================================================================
