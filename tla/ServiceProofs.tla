---------------------------- MODULE ServiceProofs ----------------------------
(***************************************************************************)
(* Proofs about Service, about the Queue it calls, and about Recovery, for *)
(* every set of builds, workers and artifacts, every number of attempts,   *)
(* entries and faults.                                                     *)
(*                                                                         *)
(* First the queue: what its operations keep for consumers that present    *)
(* any receipt at any time.  Then every step of the service is shown to be *)
(* a call of the store and a call of the queue, or to leave them alone: so *)
(* what is proved of both for any caller holds here.  Then what a worker   *)
(* remembers between two calls is related to what both now hold.           *)
(***************************************************************************)
EXTENDS Recovery, TLAPS

Store == INSTANCE RepositoryProofs WITH Tokens <- Workers, NoToken <- NoWorker

\* The assumptions under which the two were proved.
LEMMA StoreAssumed == Store!RepositoryAssumption
BY ServiceAssumption DEF Store!RepositoryAssumption

LEMMA StreamAssumed == Redis!QueueConstants
BY RedisAssumption

-------------------------------------------------------------------------------
(***************************************************************************)
(* The queue.  Its consumers are the workers and its payloads are builds,  *)
(* which are any sets; nothing else of the service is used here.           *)
(*                                                                         *)
(* An entry may only be moved to the dead letters once because it leaves   *)
(* the stream with the move, and because a later entry never gets its id:  *)
(* so the invariant also says that every dead-lettered receipt was issued. *)
(***************************************************************************)

\* The invariant in parts.

StreamTyped == stream \subseteq Redis!Entry
SentTyped == sent \in Seq(Builds) /\ Len(sent) <= MaxEntries
DeadEntry == [build : Builds, receipt : Redis!Receipts]
DeadTyped == dead \in Seq(DeadEntry) /\ Len(dead) <= DeadLimit

OneEntry == \A e, f \in stream : e.id = f.id => e = f
Issued == \A e \in stream : e.id <= Len(sent) /\ sent[e.id] = e.build
DeadIssued == \A i \in 1 .. Len(dead) : dead[i].receipt <= Len(sent)
DeadOnce == \A i, j \in 1 .. Len(dead) : dead[i].receipt = dead[j].receipt => i = j
DeadLeft == \A e \in stream : \A i \in 1 .. Len(dead) : dead[i].receipt # e.id

QueueInv ==
    /\ StreamTyped /\ SentTyped /\ DeadTyped
    /\ OneEntry /\ Issued
    /\ DeadIssued /\ DeadOnce /\ DeadLeft

-------------------------------------------------------------------------------
(* Entries *)

\* A fresh entry is well typed and its id is above every id issued before.
LEMMA FreshType ==
    ASSUME Redis!QueueConstants, SentTyped, Len(sent) < MaxEntries, NEW b \in Builds
    PROVE  /\ Redis!Fresh(b) \in Redis!Entry
           /\ Redis!Fresh(b).id = Len(sent) + 1 /\ Redis!Fresh(b).build = b
BY DEF Redis!QueueConstants, SentTyped, Redis!Fresh, Redis!Entry, Redis!Receipts

\* Delivery to a consumer and the passing of time keep an entry's identity.
LEMMA ClaimedEntry ==
    ASSUME Redis!QueueConstants, NEW e \in Redis!Entry, NEW c \in Workers
    PROVE  /\ [e EXCEPT !.owner = c, !.idle = 0] \in Redis!Entry
           /\ [e EXCEPT !.owner = c, !.idle = 0].id = e.id
           /\ [e EXCEPT !.owner = c, !.idle = 0].build = e.build
<1>1. 0 \in 0 .. StaleTicks
    BY DEF Redis!QueueConstants
<1> QED
    BY <1>1 DEF Redis!Entry

LEMMA OlderEntry ==
    ASSUME Redis!QueueConstants, NEW e \in Redis!Entry, e.idle < StaleTicks
    PROVE  /\ [e EXCEPT !.idle = @ + 1] \in Redis!Entry
           /\ [e EXCEPT !.idle = @ + 1].id = e.id
           /\ [e EXCEPT !.idle = @ + 1].build = e.build
BY DEF Redis!QueueConstants, Redis!Entry

\* Newest keeps a suffix: every entry of it stood further back before.
LEMMA NewestSuffix ==
    ASSUME NEW T, NEW s \in Seq(T), NEW limit \in Nat
    PROVE  /\ Redis!Newest(s, limit) \in Seq(T)
           /\ Len(Redis!Newest(s, limit)) <= limit
           /\ \E n \in Nat : /\ Len(Redis!Newest(s, limit)) + n = Len(s)
                             /\ \A i \in 1 .. Len(Redis!Newest(s, limit)) :
                                   Redis!Newest(s, limit)[i] = s[i + n]
<1>1. CASE Len(s) > limit
  <2> DEFINE n == Len(s) - limit
  <2>1. n \in Nat /\ n + 1 \in 1 .. Len(s) + 1 /\ limit + n = Len(s)
      BY <1>1
  <2>2. Redis!Newest(s, limit) = SubSeq(s, n + 1, Len(s))
      BY <1>1 DEF Redis!Newest
  <2>3. /\ Len(Redis!Newest(s, limit)) = limit
        /\ Redis!Newest(s, limit) \in Seq(T)
        /\ \A i \in 1 .. limit : Redis!Newest(s, limit)[i] = s[i + n]
    <3>1. Len(SubSeq(s, n + 1, Len(s))) = limit
        BY <2>1
    <3>2. SubSeq(s, n + 1, Len(s)) \in Seq(T)
        BY <2>1
    <3>3. \A i \in 1 .. limit : SubSeq(s, n + 1, Len(s))[i] = s[i + n]
        BY <2>1
    <3> QED
        BY <2>2, <3>1, <3>2, <3>3
  <2> HIDE DEF n
  <2>4. /\ Len(Redis!Newest(s, limit)) + n = Len(s)
        /\ \A i \in 1 .. Len(Redis!Newest(s, limit)) : Redis!Newest(s, limit)[i] = s[i + n]
      BY <2>1, <2>3
  <2> QED
      BY <2>1, <2>3, <2>4
<1>2. CASE ~(Len(s) > limit)
  <2>1. Redis!Newest(s, limit) = s
      BY <1>2 DEF Redis!Newest
  <2>2. /\ Len(Redis!Newest(s, limit)) + 0 = Len(s)
        /\ \A i \in 1 .. Len(Redis!Newest(s, limit)) : Redis!Newest(s, limit)[i] = s[i + 0]
      BY <2>1
  <2>3. Len(Redis!Newest(s, limit)) <= limit /\ Redis!Newest(s, limit) \in Seq(T)
      BY <1>2, <2>1
  <2>4. 0 \in Nat
      OBVIOUS
  <2> QED
      BY <2>2, <2>3, <2>4
<1> QED
    BY <1>1, <1>2

-------------------------------------------------------------------------------
(* Every operation keeps the invariant. *)

\* XADD of a fresh entry, after entries may have been removed.
LEMMA AddsEntry ==
    ASSUME Redis!QueueConstants, QueueInv, NEW b \in Builds, Len(sent) < MaxEntries,
           NEW kept \in SUBSET stream,
           stream' = kept \union {Redis!Fresh(b)}, sent' = Append(sent, b), dead' = dead
    PROVE  QueueInv'
<1> USE DEF QueueInv
<1>1. /\ Redis!Fresh(b) \in Redis!Entry /\ Redis!Fresh(b).id = Len(sent) + 1 /\ Redis!Fresh(b).build = b
    BY FreshType
<1>2. /\ Len(sent') = Len(sent) + 1 /\ sent' \in Seq(Builds)
      /\ sent'[Len(sent) + 1] = b
      /\ \A i \in 1 .. Len(sent) : sent'[i] = sent[i]
    BY DEF SentTyped
<1>3. \A e \in stream : e.id \in Nat \ {0} /\ e.id <= Len(sent)
    BY DEF StreamTyped, Issued, Redis!Entry, Redis!Receipts
<1>4. StreamTyped'
    BY <1>1 DEF StreamTyped
<1>5. SentTyped'
    BY <1>2 DEF SentTyped, Redis!QueueConstants
<1>6. DeadTyped'
    BY DEF DeadTyped
<1>7. OneEntry'
    BY <1>1, <1>3 DEF OneEntry, SentTyped
<1>8. Issued'
  <2> SUFFICES ASSUME NEW e \in stream' PROVE e.id <= Len(sent') /\ sent'[e.id] = e.build
      BY DEF Issued
  <2>1. CASE e = Redis!Fresh(b)
      BY <2>1, <1>1, <1>2 DEF SentTyped
  <2>2. CASE e \in stream
    <3>1. e.id \in 1 .. Len(sent) /\ sent[e.id] = e.build
        BY <2>2, <1>3 DEF Issued, SentTyped
    <3> QED
        BY <3>1, <1>2 DEF SentTyped
  <2> QED
      BY <2>1, <2>2
<1>9. DeadIssued'
  <2> SUFFICES ASSUME NEW i \in 1 .. Len(dead) PROVE dead[i].receipt <= Len(sent')
      BY DEF DeadIssued
  <2>1. dead[i] \in DeadEntry
      BY DEF DeadTyped
  <2>2. dead[i].receipt \in Nat /\ dead[i].receipt <= Len(sent)
      BY <2>1 DEF DeadIssued, DeadEntry, Redis!Receipts
  <2> QED
      BY <1>2, <2>2 DEF SentTyped
<1>10. DeadOnce'
    BY DEF DeadOnce
<1>11. DeadLeft'
    BY <1>1 DEF DeadLeft, DeadIssued, DeadTyped, DeadEntry, Redis!Receipts, SentTyped
<1> QED
    BY <1>4, <1>5, <1>6, <1>7, <1>8, <1>9, <1>10, <1>11

LEMMA EnqueueKeepsQueue ==
    ASSUME Redis!QueueConstants, QueueInv, NEW b \in Builds, Redis!Enqueue(b)
    PROVE  QueueInv'
BY AddsEntry DEF Redis!Enqueue

\* A stream that holds the same entries, as far as id and build go.
SameEntries ==
    /\ \A f \in stream' : f \in Redis!Entry /\ \E e \in stream : e.id = f.id /\ e.build = f.build
    /\ \A f, g \in stream' : f.id = g.id => f = g

LEMMA KeepsEntries ==
    ASSUME Redis!QueueConstants, QueueInv, SameEntries, sent' = sent, dead' = dead
    PROVE  QueueInv'
<1> USE DEF QueueInv
<1>1. StreamTyped' /\ OneEntry'
    BY DEF SameEntries, StreamTyped, OneEntry
<1>2. SentTyped' /\ DeadTyped' /\ DeadIssued' /\ DeadOnce'
    BY DEF SentTyped, DeadTyped, DeadIssued, DeadOnce
<1>3. Issued'
    BY DEF SameEntries, Issued
<1>4. DeadLeft'
    BY DEF SameEntries, DeadLeft
<1> QED
    BY <1>1, <1>2, <1>3, <1>4

LEMMA ClaimKeeps ==
    ASSUME Redis!QueueConstants, QueueInv, NEW c \in Workers, NEW e \in stream, Redis!Claim(c, e)
    PROVE  QueueInv'
<1> DEFINE taken == [e EXCEPT !.owner = c, !.idle = 0]
<1>1. e \in Redis!Entry /\ \A f \in stream : f \in Redis!Entry
    BY DEF QueueInv, StreamTyped
<1>2. taken \in Redis!Entry /\ taken.id = e.id /\ taken.build = e.build
    BY <1>1, ClaimedEntry
<1>3. stream' = (stream \ {e}) \union {taken} /\ sent' = sent /\ dead' = dead
    BY DEF Redis!Claim
<1> HIDE DEF taken
<1>4. \A f \in stream' : f \in Redis!Entry /\ \E d \in stream : d.id = f.id /\ d.build = f.build
    BY <1>1, <1>2, <1>3
<1>5. \A f, g \in stream' : f.id = g.id => f = g
    BY <1>2, <1>3 DEF QueueInv, OneEntry
<1> QED
    BY <1>3, <1>4, <1>5, KeepsEntries DEF SameEntries

LEMMA AcknowledgeKeeps ==
    ASSUME Redis!QueueConstants, QueueInv, NEW id, Redis!Acknowledge(id)
    PROVE  QueueInv'
<1>1. SameEntries
    BY DEF Redis!Acknowledge, Redis!PendingEntry, SameEntries, QueueInv, StreamTyped, OneEntry
<1> QED
    BY <1>1, KeepsEntries DEF Redis!Acknowledge

LEMMA DeadLetterKeeps ==
    ASSUME Redis!QueueConstants, QueueInv, NEW id \in 1 .. Len(sent), Redis!DeadLetter(id)
    PROVE  QueueInv'
<1>1. CASE Redis!PendingEntry(id) = {}
  <2>1. SameEntries
      BY <1>1 DEF Redis!DeadLetter, SameEntries, QueueInv, StreamTyped, OneEntry
  <2> QED
      BY <1>1, <2>1, KeepsEntries DEF Redis!DeadLetter
<1>2. CASE Redis!PendingEntry(id) # {}
  <2> DEFINE letter == [build |-> sent[id], receipt |-> id]
             longer == Append(dead, letter)
  <2> USE DEF QueueInv
  <2>1. PICK e \in stream : e.id = id /\ e \in Redis!PendingEntry(id)
      BY <1>2 DEF Redis!PendingEntry
  <2>2. /\ stream' \subseteq stream /\ sent' = sent
        /\ dead' = Redis!Newest(longer, DeadLimit)
        /\ \A f \in stream' : f.id # id
      BY <1>2, <2>1 DEF Redis!DeadLetter, OneEntry
  <2>3. letter \in DeadEntry /\ letter.receipt = id
      BY DEF SentTyped, DeadEntry, Redis!Receipts, Redis!QueueConstants
  <2>4. /\ longer \in Seq(DeadEntry) /\ Len(longer) = Len(dead) + 1
        /\ longer[Len(dead) + 1] = letter
        /\ \A i \in 1 .. Len(dead) : longer[i] = dead[i]
      BY <2>3 DEF DeadTyped
  <2>5. \A i \in 1 .. Len(dead) : dead[i].receipt # id
      BY <2>1 DEF DeadLeft
  <2> HIDE DEF letter, longer
  <2>6. /\ dead' \in Seq(DeadEntry) /\ Len(dead') <= DeadLimit
        /\ \E n \in Nat : /\ Len(dead') + n = Len(longer)
                          /\ \A i \in 1 .. Len(dead') : dead'[i] = longer[i + n]
    <3>1. DeadLimit \in Nat
        BY DEF Redis!QueueConstants
    <3>2. /\ Redis!Newest(longer, DeadLimit) \in Seq(DeadEntry)
          /\ Len(Redis!Newest(longer, DeadLimit)) <= DeadLimit
          /\ \E n \in Nat : /\ Len(Redis!Newest(longer, DeadLimit)) + n = Len(longer)
                            /\ \A i \in 1 .. Len(Redis!Newest(longer, DeadLimit)) :
                                  Redis!Newest(longer, DeadLimit)[i] = longer[i + n]
        BY <2>4, <3>1, NewestSuffix
    <3> QED
        BY <2>2, <3>2, Zenon
  <2>7. PICK n \in Nat : /\ Len(dead') + n = Len(longer)
                         /\ \A i \in 1 .. Len(dead') : dead'[i] = longer[i + n]
      BY <2>6
  <2>8. \A i \in 1 .. Len(longer) : \A j \in 1 .. Len(longer) :
           longer[i].receipt = longer[j].receipt => i = j
      BY <2>3, <2>4, <2>5 DEF DeadOnce, DeadTyped
  <2>9. \A i \in 1 .. Len(dead') : i + n \in 1 .. Len(longer)
      BY <2>6, <2>7
  <2>10. \A i \in 1 .. Len(longer) : longer[i].receipt <= Len(sent)
      BY <2>3, <2>4 DEF DeadIssued, DeadTyped, SentTyped
  <2>11. \A i \in 1 .. Len(longer) : \A f \in stream' : longer[i].receipt # f.id
      BY <2>2, <2>3, <2>4 DEF DeadLeft, DeadTyped
  <2>12. StreamTyped' /\ SentTyped' /\ DeadTyped'
      BY <2>2, <2>6 DEF StreamTyped, SentTyped, DeadTyped
  <2>13. OneEntry' /\ Issued'
      BY <2>2 DEF OneEntry, Issued
  <2>14. DeadIssued'
      BY <2>2, <2>7, <2>9, <2>10 DEF DeadIssued
  <2>15. DeadOnce'
    <3> SUFFICES ASSUME NEW i \in 1 .. Len(dead'), NEW j \in 1 .. Len(dead'),
                        dead'[i].receipt = dead'[j].receipt
                 PROVE  i = j
        BY DEF DeadOnce
    <3>1. longer[i + n].receipt = longer[j + n].receipt
        BY <2>7
    <3>2. i + n = j + n
        BY <3>1, <2>8, <2>9
    <3> QED
        BY <3>2
  <2>16. DeadLeft'
      BY <2>7, <2>9, <2>11 DEF DeadLeft
  <2> QED
      BY <2>12, <2>13, <2>14, <2>15, <2>16
<1> QED
    BY <1>1, <1>2

LEMMA RequeueKeeps ==
    ASSUME Redis!QueueConstants, QueueInv, NEW id \in 1 .. Len(sent), Redis!Requeue(id)
    PROVE  QueueInv'
<1>1. CASE Redis!PendingEntry(id) = {}
  <2>1. SameEntries
      BY <1>1 DEF Redis!Requeue, Redis!queueVars, SameEntries, QueueInv, StreamTyped, OneEntry
  <2> QED
      BY <1>1, <2>1, KeepsEntries DEF Redis!Requeue, Redis!queueVars
<1>2. CASE Redis!PendingEntry(id) # {}
  <2>1. sent[id] \in Builds
      BY DEF QueueInv, SentTyped
  <2>2. stream \ Redis!PendingEntry(id) \in SUBSET stream
      OBVIOUS
  <2> QED
      BY <1>2, <2>1, <2>2, AddsEntry DEF Redis!Requeue
<1> QED
    BY <1>1, <1>2

LEMMA AdvanceKeeps ==
    ASSUME Redis!QueueConstants, QueueInv, Redis!Advance
    PROVE  QueueInv'
<1> DEFINE aged(e) == IF Redis!Pending(e) /\ e.idle < StaleTicks
                      THEN [e EXCEPT !.idle = @ + 1] ELSE e
<1>1. stream' = {aged(e) : e \in stream} /\ sent' = sent /\ dead' = dead
    BY DEF Redis!Advance
<1>2. \A e \in stream : aged(e) \in Redis!Entry /\ aged(e).id = e.id /\ aged(e).build = e.build
    BY OlderEntry DEF QueueInv, StreamTyped
<1> HIDE DEF aged
<1>3. SameEntries
    BY <1>1, <1>2 DEF SameEntries, QueueInv, OneEntry
<1> QED
    BY <1>1, <1>3, KeepsEntries

LEMMA QueueInductive ==
    Redis!QueueConstants /\ QueueInv /\ [Redis!Next]_(Redis!queueVars) => QueueInv'
<1> SUFFICES ASSUME Redis!QueueConstants, QueueInv, [Redis!Next]_(Redis!queueVars)
             PROVE  QueueInv'
    OBVIOUS
<1>1. ASSUME NEW b \in Builds, Redis!Enqueue(b) PROVE QueueInv'
    BY <1>1, EnqueueKeepsQueue
<1>2. ASSUME NEW c \in Workers, NEW e \in stream, Redis!Claim(c, e) PROVE QueueInv'
    BY <1>2, ClaimKeeps
<1>3. ASSUME NEW id \in 1 .. Len(sent), Redis!Acknowledge(id) PROVE QueueInv'
    BY <1>3, AcknowledgeKeeps
<1>4. ASSUME NEW id \in 1 .. Len(sent), Redis!DeadLetter(id) PROVE QueueInv'
    BY <1>4, DeadLetterKeeps
<1>5. ASSUME NEW id \in 1 .. Len(sent), Redis!Requeue(id) PROVE QueueInv'
    BY <1>5, RequeueKeeps
<1>6. CASE Redis!Advance
    BY <1>6, AdvanceKeeps
<1>7. CASE UNCHANGED Redis!queueVars
  <2>1. SameEntries
      BY <1>7 DEF Redis!queueVars, SameEntries, QueueInv, StreamTyped, OneEntry
  <2> QED
      BY <1>7, <2>1, KeepsEntries DEF Redis!queueVars
<1> QED
    BY <1>1, <1>2, <1>3, <1>4, <1>5, <1>6, <1>7 DEF Redis!Next

LEMMA QueueInitially == Redis!QueueConstants /\ Redis!Init => QueueInv
BY DEF Redis!QueueConstants, Redis!Init, QueueInv, StreamTyped, SentTyped, DeadTyped, OneEntry, Issued,
       DeadIssued, DeadOnce, DeadLeft

LEMMA QueueInvariant ==
    ASSUME Redis!QueueConstants
    PROVE  Redis!Spec => []QueueInv
<1>1. Redis!Init => QueueInv
    BY QueueInitially
<1>2. QueueInv /\ [Redis!Next]_(Redis!queueVars) => QueueInv'
    BY QueueInductive
<1> QED
    BY <1>1, <1>2, PTL DEF Redis!Spec

-------------------------------------------------------------------------------
(* Theorems *)

\* Entries, receipts and dead letters stay well typed and within their limits:
\* what claim returns is always a message that enqueue accepted.
THEOREM QueueTypeCorrect == Redis!Spec => []Redis!TypeOK
<1>1. QueueInv => Redis!TypeOK
    BY DEF QueueInv, StreamTyped, SentTyped, DeadTyped, DeadEntry, Redis!TypeOK
<1> QED
    BY <1>1, QueueInvariant, StreamAssumed, PTL

\* A receipt names one entry, and is dead-lettered once and only out of the
\* stream, whatever consumers present, also receipts that were taken over or
\* settled by others (queue.py, _MOVE_AND_DELETE_SCRIPT).
THEOREM ReceiptStaysInOnePlace == Redis!Spec => []Redis!ReceiptInOnePlace
<1>1. QueueInv => Redis!ReceiptInOnePlace
    BY DEF QueueInv, DeadTyped, OneEntry, Issued, DeadOnce, DeadLeft, Redis!ReceiptInOnePlace
<1> QED
    BY <1>1, QueueInvariant, StreamAssumed, PTL

\* No settlement, with whatever receipt, removes an entry that no consumer has
\* seen: acknowledge, requeue and dead_letter ask Redis for a pending entry
\* first.
THEOREM UndeliveredStaysAlways == Redis!Spec => Redis!UndeliveredStays
<1> DEFINE Untaken == \A e \in stream : ~Redis!Pending(e) =>
                       \E f \in stream' : f.id = e.id /\ f.build = e.build
<1>1. ASSUME QueueInv, [Redis!Next]_(Redis!queueVars), NEW d \in stream, ~Redis!Pending(d)
      PROVE  \E f \in stream' : f.id = d.id /\ f.build = d.build
  <2>1. ASSUME NEW id PROVE d \notin Redis!PendingEntry(id)
      BY <1>1 DEF Redis!PendingEntry
  <2>2. ASSUME NEW b \in Builds, Redis!Enqueue(b) PROVE d \in stream'
      BY <2>2 DEF Redis!Enqueue
  <2>3. ASSUME NEW c \in Workers, NEW e \in stream, Redis!Claim(c, e)
        PROVE  \E f \in stream' : f.id = d.id /\ f.build = d.build
    <3>1. e \in Redis!Entry
        BY <1>1 DEF QueueInv, StreamTyped
    <3> QED
        BY <2>3, <3>1, StreamAssumed, ClaimedEntry DEF Redis!Claim
  <2>4. ASSUME NEW id \in 1 .. Len(sent), Redis!Acknowledge(id) PROVE d \in stream'
      BY <2>1, <2>4 DEF Redis!Acknowledge
  <2>5. ASSUME NEW id \in 1 .. Len(sent), Redis!DeadLetter(id) PROVE d \in stream'
      BY <2>1, <2>5 DEF Redis!DeadLetter
  <2>6. ASSUME NEW id \in 1 .. Len(sent), Redis!Requeue(id) PROVE d \in stream'
      BY <2>1, <2>6 DEF Redis!Requeue, Redis!queueVars
  <2>7. CASE Redis!Advance
      BY <1>1, <2>7 DEF Redis!Advance
  <2>8. CASE UNCHANGED Redis!queueVars
      BY <2>8 DEF Redis!queueVars
  <2> QED
      BY <1>1, <2>2, <2>3, <2>4, <2>5, <2>6, <2>7, <2>8 DEF Redis!Next
<1>2. QueueInv /\ [Redis!Next]_(Redis!queueVars) => [Untaken]_(Redis!queueVars)
    BY <1>1
<1> QED
    BY <1>2, QueueInvariant, StreamAssumed, PTL DEF Redis!Spec, Redis!UndeliveredStays

-------------------------------------------------------------------------------
(* What a worker remembers.                                                *)

Working == {"run", "upload", "publish", "complete"}
Holding == {"lease", "ack", "deadletter"} \union Working

WorkerRow ==
    [pc : {"recover", "dispatch", "enqueue", "commit", "claim"} \union Holding,
     within : {"none", "publish", "handle", "except"},
     msg : Nat, number : 0 .. MaxAttempts,
     outcome : {"failed", "needs_review", "canceled", "timed_out"}, retryable : BOOLEAN,
     row : Nat, of : Builds \union {NoBuild}, delivered : BOOLEAN,
     tried : SUBSET (Builds \X Nat), cancelSeen : BOOLEAN, lost : BOOLEAN]

\* A worker that settles or runs something holds a message, and one that runs
\* an attempt has its number.
Shape(l) ==
    /\ l \in WorkerRow
    /\ l.pc \in Holding => l.msg # 0
    /\ l.within # "none" => l.number # 0 /\ l.pc \in Working \union {"ack", "deadletter"}
    /\ l.pc \in Working => l.within # "none"
    /\ l.pc \in {"enqueue", "commit"} => l.of # NoBuild
    /\ l.delivered => l.pc = "commit"

\* Between two iterations of the loop.
Free(l) == l.pc \in {"recover", "dispatch", "claim"} /\ l.within = "none"

\* In the hands of a worker: a receipt that was issued.
Held(w) == worker[w].msg <= Len(sent)

\* The row of an open transaction keeps its build from being deleted.
RowHeld(w) ==
    Dispatching(w) =>
        /\ build[worker[w].of].status \notin Store!NoRow
        /\ worker[w].row <= build[worker[w].of].version

\* Only builds that were submitted are ever enqueued.
SentKnown == \A i \in 1 .. Len(sent) : build[sent[i]].status # "absent"

StreamFacts == StreamTyped /\ SentTyped /\ Issued

WorkerFacts ==
    /\ worker \in [Workers -> WorkerRow]
    /\ \A w \in Workers : Shape(worker[w]) /\ Held(w) /\ RowHeld(w)
    /\ SentKnown

Base == Store!GuardInv /\ StreamFacts /\ WorkerFacts

-------------------------------------------------------------------------------
(* The helpers that change a worker's record. *)

LEMMA IdleShape == Shape(Idle) /\ Free(Idle)
BY ServiceAssumption DEF Idle, Shape, Free, WorkerRow, Holding, Working

LEMMA IdleFields ==
    /\ Idle \in WorkerRow /\ Idle.within = "none" /\ Idle.msg = 0 /\ Idle.number = 0
    /\ ~Idle.delivered /\ Idle.of = NoBuild
BY ServiceAssumption DEF Idle, WorkerRow

LEMMA IdleAt ==
    ASSUME NEW pc \in {"recover", "dispatch", "claim"}
    PROVE  LET m == [Idle EXCEPT !.pc = pc] IN Shape(m) /\ Free(m) /\ m.msg = 0
<1> DEFINE m == [Idle EXCEPT !.pc = pc]
<1>1. m \in WorkerRow /\ m.pc = pc
    BY IdleFields DEF WorkerRow
<1>2. m.within = "none" /\ m.msg = 0 /\ m.number = 0 /\ ~m.delivered
    BY IdleFields DEF WorkerRow
<1> HIDE DEF m
<1>3. Shape(m) /\ Free(m) /\ m.msg = 0
    BY <1>1, <1>2 DEF Shape, Free, Holding, Working
<1> QED
    BY <1>3 DEF m

\* A decided completion of the attempt.
LEMMA CompletingShape ==
    ASSUME NEW l, Shape(l), l.within # "none", ~l.delivered,
           NEW outcome \in {"failed", "needs_review", "canceled", "timed_out"},
           NEW retryable \in BOOLEAN
    PROVE  LET m == Completing(l, outcome, retryable) IN
           /\ Shape(m) /\ m.pc = "complete" /\ m.within = l.within
           /\ m.msg = l.msg /\ m.number = l.number
<1> DEFINE m == Completing(l, outcome, retryable)
<1>0. l \in WorkerRow /\ l.msg # 0
    BY DEF Shape, Holding, Working
<1>1. m \in WorkerRow
    BY <1>0 DEF Completing, WorkerRow, Holding, Working
<1>2. /\ m.pc = "complete" /\ m.within = l.within /\ m.msg = l.msg
      /\ m.number = l.number /\ m.delivered = l.delivered
    BY <1>0 DEF Completing, WorkerRow
<1> HIDE DEF m
<1>3. Shape(m)
    BY <1>0, <1>1, <1>2 DEF Shape, Holding, Working
<1> QED
    BY <1>2, <1>3 DEF m

LEMMA WithinShape ==
    ASSUME NEW l, Shape(l), l.within # "none", NEW x \in {"publish", "handle", "except"}
    PROVE  LET m == [l EXCEPT !.within = x] IN
           /\ Shape(m) /\ m.pc = l.pc /\ m.within = x
           /\ m.msg = l.msg /\ m.number = l.number
BY DEF Shape, WorkerRow, Holding, Working

LEMMA RaisedShape ==
    ASSUME NEW l, Shape(l)
    PROVE  /\ Shape(Raised(l))
           /\ \/ Free(Raised(l))
              \/ /\ l.within # "none" /\ Raised(l).within # "none"
                 /\ Raised(l).pc = "complete"
                 /\ Raised(l).msg = l.msg /\ Raised(l).number = l.number
<1> DEFINE c == Completing(l, "failed", TRUE)
<1>1. CASE l.within \in {"publish", "handle"}
  <2>1. ~l.delivered /\ l.within # "none"
      BY <1>1 DEF Shape, Holding, Working
  <2>2. /\ Shape(c) /\ c.pc = "complete" /\ c.within = l.within
        /\ c.msg = l.msg /\ c.number = l.number
      BY <2>1, CompletingShape
  <2>3. l.within \in DOMAIN Outer
      BY <1>1 DEF Outer
  <2>4. Raised(l) = [c EXCEPT !.within = Outer[c.within]]
      BY <2>3 DEF Raised
  <2> HIDE DEF c
  <2>5. Outer[c.within] \in {"publish", "handle", "except"}
      BY <1>1, <2>2 DEF Outer
  <2>6. LET m == [c EXCEPT !.within = Outer[c.within]] IN
        /\ Shape(m) /\ m.pc = c.pc /\ m.within = Outer[c.within]
        /\ m.msg = c.msg /\ m.number = c.number
      BY <2>1, <2>2, <2>5, WithinShape
  <2> QED
      BY <2>1, <2>2, <2>4, <2>5, <2>6
<1>2. CASE l.within \notin {"publish", "handle"}
  <2>1. Raised(l) = Idle
      BY <1>2 DEF Raised, Outer
  <2> QED
      BY <2>1, IdleShape
<1> QED
    BY <1>1, <1>2

LEMMA SettlingShape ==
    ASSUME NEW l, Shape(l), l.pc \in Holding, NEW pc \in {"ack", "deadletter"}
    PROVE  LET m == Settling(l, pc) IN
           /\ Shape(m) /\ m.pc = pc /\ m.within = l.within
           /\ m.msg = l.msg /\ m.number = l.number
<1> DEFINE m == Settling(l, pc)
<1>0. l \in WorkerRow /\ ~l.delivered
    BY DEF Shape, Holding, Working
<1>1. m \in WorkerRow
    BY <1>0 DEF Settling, WorkerRow, Holding
<1>2. /\ m.pc = pc /\ m.within = l.within /\ m.msg = l.msg /\ m.number = l.number
      /\ m.delivered = l.delivered
    BY <1>0 DEF Settling, WorkerRow
<1> HIDE DEF m
<1>3. Shape(m)
    BY <1>0, <1>1, <1>2 DEF Shape, Holding, Working
<1> QED
    BY <1>2, <1>3 DEF m
-------------------------------------------------------------------------------
(* What one call of a worker does to its record.                           *)

Selects(m) ==
    /\ m.pc = "enqueue" /\ m.within = "none" /\ build[m.of].status = "queued"
    /\ \E row \in outbox[m.of] : row.version = m.row
    /\ UNCHANGED build

Sends(l, m) ==
    /\ l.pc = "enqueue" /\ m.pc = "commit" /\ m.within = "none"
    /\ m.of = l.of /\ m.row = l.row
    /\ m.delivered => \E e \in stream' : e.id = Len(sent) + 1 /\ e.build = l.of

Takes(m) == m.pc = "lease" /\ m.within = "none" /\ m.msg <= Len(sent)

\* lease_build succeeds: the attempt is a new one.
Starts(l, m) ==
    /\ l.pc = "lease" /\ m.pc = "run" /\ m.within # "none" /\ m.msg = l.msg
    /\ build[sent[l.msg]].status = "queued"
    /\ attempt[sent[l.msg]][m.number].status = "none"
    /\ attempt'[sent[l.msg]][m.number].status # "none"

\* lease_build finds the build in another state.
Declines(l, m) ==
    /\ l.pc = "lease" /\ m.pc \in {"ack", "deadletter"} /\ m.within = "none"
    /\ m.msg = l.msg /\ build[sent[l.msg]].status # "queued"
    /\ m.pc = "deadletter" => build[sent[l.msg]].status \in Store!NoRow
    /\ UNCHANGED build

SameJob(l, m) == /\ l.within # "none" /\ m.within # "none"
                 /\ m.msg = l.msg /\ m.number = l.number

Works(l, m) ==
    /\ SameJob(l, m) /\ m.pc \in Working
    /\ m.pc \in {"run", "upload"} => l.pc \in {"run", "upload"}

\* The end of the attempt is recorded, and its message is settled next.
Concludes(l, m) ==
    /\ SameJob(l, m) /\ m.pc \in {"ack", "deadletter"}
    /\ build[sent[l.msg]].status = "running"
    /\ m.pc = "deadletter" => build'[sent[l.msg]].status \in {"failed", "needs_review"}

\* A heartbeat changes flags only.
Renews(l, m) == SameJob(l, m) /\ m.pc = l.pc

Turn(l, m) ==
    \/ Free(m) /\ m.msg \in {0, l.msg}
    \/ Selects(m) /\ m.msg = l.msg
    \/ Sends(l, m) /\ m.msg = l.msg
    \/ Takes(m) \/ Starts(l, m) \/ Declines(l, m)
    \/ Works(l, m) \/ Concludes(l, m) \/ Renews(l, m)

\* The record of w turns, the others stay.
Turns(w) == \E m : /\ Shape(m) /\ Turn(worker[w], m)
                   /\ worker' = [worker EXCEPT ![w] = m]

LEMMA IdleTurns ==
    ASSUME NEW w, Becomes(w, Idle) PROVE Turns(w)
<1>1. Free(Idle) /\ Idle.msg = 0
    BY IdleShape DEF Idle
<1> QED
    BY <1>1, IdleShape DEF Becomes, Turns, Turn

LEMMA RaisedTurns ==
    ASSUME NEW w \in Workers, Shape(worker[w]), Becomes(w, Raised(worker[w]))
    PROVE  Turns(w)
<1>1. Free(Raised(worker[w])) => Raised(worker[w]).msg \in {0, worker[w].msg}
    BY DEF Raised, Free, Completing, Idle
<1> QED
    BY <1>1, RaisedShape DEF Becomes, Turns, Turn, Works, SameJob, Working

LEMMA TurnsRecover ==
    ASSUME Base, NEW w \in Workers, Recover(w)
    PROVE  Turns(w)
<1> DEFINE m == [Idle EXCEPT !.pc = "dispatch"]
<1>1. Shape(m) /\ Free(m) /\ m.msg = 0
    BY IdleAt
<1>2. Becomes(w, m) \/ Becomes(w, Idle)
    BY DEF Recover, Replies
<1> HIDE DEF m
<1>3. CASE Becomes(w, m)
    BY <1>1, <1>3 DEF Becomes, Turns, Turn
<1> QED
    BY <1>2, <1>3, IdleTurns

\* A record as the model types it.
LEMMA RecordTyped ==
    ASSUME Base, NEW w \in Workers
    PROVE  /\ Shape(worker[w]) /\ worker[w] \in WorkerRow
           /\ Held(w) /\ RowHeld(w)
           /\ worker[w].pc \in Holding => /\ worker[w].msg \in 1 .. Len(sent)
                                          /\ Mine(w) \in Builds
           /\ worker[w].within # "none" => /\ worker[w].pc \in Holding
                                           /\ Number(w) \in 1 .. MaxAttempts
           /\ Dispatching(w) => worker[w].of \in Builds
<1>1. Shape(worker[w]) /\ Held(w) /\ RowHeld(w)
    BY DEF Base, WorkerFacts
<1>2. worker[w] \in WorkerRow /\ sent \in Seq(Builds)
    BY <1>1 DEF Shape, Base, StreamFacts, SentTyped
<1>3. ASSUME worker[w].pc \in Holding
      PROVE  worker[w].msg \in 1 .. Len(sent) /\ Mine(w) \in Builds
  <2>1. worker[w].msg # 0 /\ worker[w].msg \in Nat /\ Len(sent) \in Nat
      BY <1>1, <1>2, <1>3 DEF Shape, WorkerRow
  <2>2. worker[w].msg \in 1 .. Len(sent)
      BY <1>1, <2>1 DEF Held
  <2> QED
      BY <1>2, <2>2 DEF Mine
<1>4. worker[w].within # "none" => worker[w].pc \in Holding /\ Number(w) \in 1 .. MaxAttempts
    BY <1>1, <1>2, ServiceAssumption DEF Shape, WorkerRow, Holding, Number
<1>5. Dispatching(w) => worker[w].of \in Builds
    BY <1>1, <1>2 DEF Shape, WorkerRow, Dispatching
<1> QED
    BY <1>1, <1>2, <1>3, <1>4, <1>5

LEMMA TurnsDispatchSkips ==
    ASSUME Base, NEW w \in Workers, DispatchSkips(w)
    PROVE  Turns(w)
<1>0. Shape(worker[w]) /\ worker[w] \in WorkerRow /\ worker[w].pc = "dispatch"
    BY RecordTyped DEF DispatchSkips, At
<1>1. PICK b \in Builds : \E row \in outbox[b] : Replies(w, Tried(worker[w], b, row.version), Idle)
    BY DEF DispatchSkips
<1>2. PICK row \in outbox[b] : Replies(w, Tried(worker[w], b, row.version), Idle)
    BY <1>1
<1>3. row.version \in Nat
    BY <1>1 DEF Base, Store!GuardInv, Store!StoreInv, Store!TypeOK, Store!OutboxRow
<1> DEFINE m == Tried(worker[w], b, row.version)
<1>4. Shape(m) /\ Free(m) /\ m.msg = worker[w].msg
    BY <1>0, <1>1, <1>3 DEF Tried, Shape, Free, WorkerRow, Holding, Working
<1>5. Becomes(w, m) \/ Becomes(w, Idle)
    BY <1>2 DEF Replies
<1> HIDE DEF m
<1>6. CASE Becomes(w, m)
    BY <1>4, <1>6 DEF Becomes, Turns, Turn
<1> QED
    BY <1>5, <1>6, IdleTurns

LEMMA TurnsDispatchSelects ==
    ASSUME Base, NEW w \in Workers, DispatchSelects(w)
    PROVE  Turns(w)
<1>0. Shape(worker[w]) /\ worker[w] \in WorkerRow /\ worker[w].pc = "dispatch"
    BY RecordTyped DEF DispatchSelects, At
<1>1. PICK b \in Builds : \E row \in outbox[b] :
        /\ build[b].status = "queued"
        /\ Becomes(w, [worker[w] EXCEPT !.pc = "enqueue", !.of = b, !.row = row.version])
    BY DEF DispatchSelects
<1>2. PICK row \in outbox[b] :
        /\ build[b].status = "queued"
        /\ Becomes(w, [worker[w] EXCEPT !.pc = "enqueue", !.of = b, !.row = row.version])
    BY <1>1
<1>3. row.version \in Nat /\ UNCHANGED build
    BY <1>1 DEF Base, Store!GuardInv, Store!StoreInv, Store!TypeOK, Store!OutboxRow, DispatchSelects, repoVars
<1> DEFINE m == [worker[w] EXCEPT !.pc = "enqueue", !.of = b, !.row = row.version]
<1>4. /\ Shape(m) /\ m.pc = "enqueue" /\ m.within = "none" /\ m.of = b
      /\ m.row = row.version /\ m.msg = worker[w].msg
    BY <1>0, <1>1, <1>3, ServiceAssumption DEF Shape, WorkerRow, Holding, Working
<1>5. Becomes(w, m)
    BY <1>2
<1> HIDE DEF m
<1>6. Selects(m)
    BY <1>2, <1>3, <1>4 DEF Selects
<1> QED
    BY <1>4, <1>5, <1>6 DEF Becomes, Turns, Turn

LEMMA TurnsDispatchEnqueues ==
    ASSUME Base, NEW w \in Workers, DispatchEnqueues(w)
    PROVE  Turns(w)
<1> DEFINE l == worker[w]
           m(x) == [l EXCEPT !.pc = "commit", !.delivered = x]
<1>0. Shape(l) /\ l \in WorkerRow /\ l.pc = "enqueue"
    BY RecordTyped DEF DispatchEnqueues, At
<1>1. l.within = "none" /\ ~l.delivered
    BY <1>0 DEF Shape, WorkerRow, Holding, Working
<1>2. ASSUME NEW x \in BOOLEAN
      PROVE  /\ Shape(m(x)) /\ m(x).pc = "commit" /\ m(x).within = "none"
             /\ m(x).of = l.of /\ m(x).row = l.row /\ m(x).delivered = x /\ m(x).msg = l.msg
    BY <1>0, <1>1 DEF Shape, WorkerRow, Holding, Working
<1>3. [l EXCEPT !.pc = "commit"] = m(FALSE)
    BY <1>0, <1>1 DEF WorkerRow
<1>4. [[l EXCEPT !.pc = "commit"] EXCEPT !.delivered = TRUE] = m(TRUE)
    BY <1>0 DEF WorkerRow
<1>5. [l EXCEPT !.pc = "commit"].of = l.of
    BY <1>0 DEF WorkerRow
<1>6. \/ Redis!Enqueue(l.of) /\ Becomes(w, m(TRUE))
      \/ Becomes(w, m(FALSE))
  <2> DEFINE n == [l EXCEPT !.pc = "commit"]
  <2>1. \/ Redis!Enqueue(n.of) /\ Replies(w, [n EXCEPT !.delivered = TRUE], n)
        \/ Becomes(w, n)
      BY DEF DispatchEnqueues
  <2> QED
      BY <1>3, <1>4, <1>5, <2>1, Zenon DEF Replies
<1> HIDE DEF m
<1>7. ASSUME Redis!Enqueue(l.of)
      PROVE  \E e \in stream' : e.id = Len(sent) + 1 /\ e.build = l.of
  <2>1. Redis!Fresh(l.of) \in stream'
      BY <1>7 DEF Redis!Enqueue
  <2>2. Redis!Fresh(l.of).id = Len(sent) + 1 /\ Redis!Fresh(l.of).build = l.of
      BY DEF Redis!Fresh
  <2> QED
      BY <2>1, <2>2
<1>8. CASE Redis!Enqueue(l.of) /\ Becomes(w, m(TRUE))
    BY <1>0, <1>2, <1>7, <1>8 DEF Becomes, Turns, Turn, Sends
<1>9. CASE Becomes(w, m(FALSE))
    BY <1>0, <1>2, <1>9 DEF Becomes, Turns, Turn, Sends
<1> QED
    BY <1>6, <1>8, <1>9

LEMMA TurnsDispatchCommits ==
    ASSUME Base, NEW w \in Workers, DispatchCommits(w)
    PROVE  Turns(w)
<1> DEFINE l == worker[w]
           m == [Tried(l, l.of, l.row) EXCEPT !.pc = "dispatch", !.of = NoBuild,
                                              !.row = 0, !.delivered = FALSE]
<1>0. Shape(l) /\ l \in WorkerRow /\ l.pc = "commit" /\ l.of \in Builds
    BY RecordTyped DEF DispatchCommits, At, Dispatching
<1>1. Shape(m) /\ Free(m) /\ m.msg = l.msg
  <2> DEFINE t == Tried(l, l.of, l.row)
  <2>1. /\ t \in WorkerRow /\ t.msg = l.msg /\ t.within = l.within
        /\ t.number = l.number
      BY <1>0 DEF Tried, WorkerRow
  <2>2. l.within = "none"
      BY <1>0 DEF Shape, Holding, Working
  <2> HIDE DEF t
  <2>3. LET n == [t EXCEPT !.pc = "dispatch", !.of = NoBuild, !.row = 0, !.delivered = FALSE]
        IN  Shape(n) /\ Free(n) /\ n.msg = t.msg
      BY <2>1, <2>2 DEF Shape, Free, WorkerRow, Holding, Working
  <2> QED
      BY <2>1, <2>3 DEF t
<1>2. Becomes(w, m) \/ Becomes(w, Idle)
    BY DEF DispatchCommits, Replies
<1> HIDE DEF m
<1>3. CASE Becomes(w, m)
    BY <1>1, <1>3 DEF Becomes, Turns, Turn
<1> QED
    BY <1>2, <1>3, IdleTurns

LEMMA TurnsDispatchEnds ==
    ASSUME Base, NEW w \in Workers, DispatchEnds(w)
    PROVE  Turns(w)
<1> DEFINE m == [Idle EXCEPT !.pc = "claim"]
<1>1. Shape(m) /\ Free(m) /\ m.msg = 0
    BY IdleAt
<1>2. Becomes(w, m)
    BY DEF DispatchEnds
<1> HIDE DEF m
<1> QED
    BY <1>1, <1>2 DEF Becomes, Turns, Turn

LEMMA TurnsClaim ==
    ASSUME Base, NEW w \in Workers, Claim(w)
    PROVE  Turns(w)
<1>1. \/ Becomes(w, Idle)
      \/ \E e \in stream : Becomes(w, [Idle EXCEPT !.pc = "lease", !.msg = e.id])
    BY DEF Claim, Replies
<1>2. ASSUME NEW e \in stream, Becomes(w, [Idle EXCEPT !.pc = "lease", !.msg = e.id])
      PROVE  Turns(w)
  <2> DEFINE m == [Idle EXCEPT !.pc = "lease", !.msg = e.id]
  <2>1. e.id \in Nat /\ e.id # 0 /\ e.id <= Len(sent)
    <3>1. e \in Redis!Entry /\ e.id <= Len(sent)
        BY DEF Base, StreamFacts, StreamTyped, Issued
    <3> QED
        BY <3>1, StreamAssumed DEF Redis!QueueConstants, Redis!Entry, Redis!Receipts
  <2>2. Shape(m) /\ m.pc = "lease" /\ m.within = "none" /\ m.msg = e.id
      BY <2>1, IdleFields DEF Shape, WorkerRow, Holding, Working
  <2> HIDE DEF m
  <2>3. Becomes(w, m)
      BY <1>2 DEF m
  <2> QED
      BY <2>1, <2>2, <2>3 DEF Becomes, Turns, Turn, Takes
<1> QED
    BY <1>1, <1>2, IdleTurns

LEMMA AttemptTyped ==
    ASSUME Base
    PROVE  attempt \in [Builds -> [1 .. MaxAttempts -> Store!AttemptRow]]
BY DEF Base, Store!GuardInv, Store!StoreInv, Store!TypeOK, Store!Numbers

\* A lease gives the build's next attempt to w.
LEMMA LeasedAttempt ==
    ASSUME Base, NEW b \in Builds, NEW w \in Workers, Repo!LeaseBuild(b, w),
           NEW k \in 1 .. MaxAttempts, attempt'[b][k] # attempt[b][k]
    PROVE  attempt[b][k].status = "none" /\ attempt'[b][k].status = "running"
<1>1. PICK j \in 1 .. MaxAttempts :
        /\ Repo!NextNumber(b, j)
        /\ attempt' = Repo!WithAttempt(b, j, [status |-> "running", token |-> w,
                                              lease |-> LeaseTicks])
    BY DEF Repo!LeaseBuild, Repo!Numbers
<1>2. attempt[b][j].status = "none"
    BY <1>1, ServiceAssumption DEF Repo!NextNumber, Repo!Numbers
<1>3. attempt'[b][k] = IF k = j THEN [status |-> "running", token |-> w, lease |-> LeaseTicks]
                       ELSE attempt[b][k]
    BY <1>1, AttemptTyped DEF Repo!WithAttempt
<1> QED
    BY <1>2, <1>3

LEMMA TurnsLease ==
    ASSUME Base, NEW w \in Workers, Lease(w)
    PROVE  Turns(w)
<1> DEFINE l == worker[w]
<1>0. Shape(l) /\ l \in WorkerRow /\ l.pc = "lease" /\ Mine(w) \in Builds
    BY RecordTyped DEF Lease, At, Holding
<1>1. ASSUME Repo!LeaseBuild(Mine(w), w), NEW k \in 1 .. MaxAttempts,
             attempt'[Mine(w)][k] # attempt[Mine(w)][k],
             Becomes(w, [l EXCEPT !.pc = "run", !.within = "handle", !.number = k])
      PROVE  Turns(w)
  <2> DEFINE m == [l EXCEPT !.pc = "run", !.within = "handle", !.number = k]
  <2>0. k \in 0 .. MaxAttempts /\ k # 0
      BY <1>1, ServiceAssumption
  <2>1. /\ Shape(m) /\ m.pc = "run" /\ m.within # "none" /\ m.msg = l.msg /\ m.number = k
      BY <1>0, <2>0 DEF Shape, WorkerRow, Holding, Working
  <2>2. attempt[Mine(w)][k].status = "none" /\ attempt'[Mine(w)][k].status = "running"
      BY <1>0, <1>1, LeasedAttempt
  <2>3. build[Mine(w)].status = "queued"
      BY <1>1 DEF Repo!LeaseBuild
  <2>4. Becomes(w, m)
      BY <1>1
  <2> HIDE DEF m
  <2>5. Starts(l, m)
      BY <1>0, <2>1, <2>2, <2>3 DEF Starts, Mine
  <2> QED
      BY <2>1, <2>4, <2>5 DEF Becomes, Turns, Turn
<1>2. ASSUME build[Mine(w)].status # "queued", UNCHANGED repoVars,
             Becomes(w, Settling(l, IF build[Mine(w)].status \in Repo!NoRow
                                    THEN "deadletter" ELSE "ack"))
      PROVE  Turns(w)
  <2> DEFINE pc == IF build[Mine(w)].status \in Repo!NoRow THEN "deadletter" ELSE "ack"
             m == Settling(l, pc)
  <2>1. pc \in {"ack", "deadletter"} /\ l.pc \in Holding /\ l.within = "none"
      BY <1>0 DEF Shape, Holding, Working
  <2>2. pc = "deadletter" => build[Mine(w)].status \in Store!NoRow
      BY DEF Repo!NoRow, Store!NoRow
  <2>3. Becomes(w, m)
      BY <1>2
  <2> HIDE DEF pc
  <2>4. Shape(m) /\ m.pc = pc /\ m.within = l.within /\ m.msg = l.msg
      BY <1>0, <2>1, SettlingShape
  <2> HIDE DEF m
  <2>5. Declines(l, m)
      BY <1>0, <1>2, <2>1, <2>2, <2>4 DEF Declines, Mine, repoVars
  <2> QED
      BY <2>3, <2>4, <2>5 DEF Becomes, Turns, Turn
<1>3. \/ /\ Repo!LeaseBuild(Mine(w), w)
         /\ \E k \in 1 .. MaxAttempts :
              /\ attempt'[Mine(w)][k] # attempt[Mine(w)][k]
              /\ \/ Becomes(w, [l EXCEPT !.pc = "run", !.within = "handle", !.number = k])
                 \/ Becomes(w, Idle)
      \/ /\ build[Mine(w)].status # "queued" /\ UNCHANGED repoVars
         /\ Becomes(w, Settling(l, IF build[Mine(w)].status \in Repo!NoRow
                                    THEN "deadletter" ELSE "ack"))
    BY DEF Lease, Replies
<1> QED
    BY <1>1, <1>2, <1>3, IdleTurns

LEMMA TurnsHeartbeat ==
    ASSUME Base, NEW w \in Workers, Heartbeat(w)
    PROVE  Turns(w)
<1> DEFINE l == worker[w]
<1>0. Shape(l) /\ l \in WorkerRow /\ l.within # "none"
    BY RecordTyped DEF Heartbeat
<1>1. ASSUME NEW x \in BOOLEAN, NEW y \in BOOLEAN,
             Becomes(w, [l EXCEPT !.cancelSeen = x, !.lost = y])
      PROVE  Turns(w)
  <2> DEFINE m == [l EXCEPT !.cancelSeen = x, !.lost = y]
  <2>1. Shape(m) /\ m.pc = l.pc /\ m.within = l.within /\ m.msg = l.msg /\ m.number = l.number
    <3>1. m \in WorkerRow
        BY <1>0 DEF WorkerRow
    <3>2. /\ m.pc = l.pc /\ m.within = l.within /\ m.msg = l.msg /\ m.number = l.number
          /\ m.of = l.of /\ m.delivered = l.delivered
        BY <1>0 DEF WorkerRow
    <3> HIDE DEF m
    <3> QED
        BY <1>0, <3>1, <3>2 DEF Shape
  <2>2. Becomes(w, m)
      BY <1>1
  <2> HIDE DEF m
  <2>3. Renews(l, m)
      BY <1>0, <2>1 DEF Renews, SameJob
  <2> QED
      BY <2>1, <2>2, <2>3 DEF Becomes, Turns, Turn
<1>2. ASSUME NEW x \in BOOLEAN
      PROVE  /\ [l EXCEPT !.cancelSeen = x] = [l EXCEPT !.cancelSeen = x, !.lost = l.lost]
             /\ [l EXCEPT !.lost = TRUE] = [l EXCEPT !.cancelSeen = l.cancelSeen, !.lost = TRUE]
    BY <1>0 DEF WorkerRow
<1>3. l.lost \in BOOLEAN /\ l.cancelSeen \in BOOLEAN
    BY <1>0 DEF WorkerRow
<1>4. \/ \E x \in BOOLEAN : Becomes(w, [l EXCEPT !.cancelSeen = x])
      \/ Becomes(w, [l EXCEPT !.lost = TRUE])
  <2> DEFINE x == l.cancelSeen \/ (Probed(w) /\ build[Mine(w)].cancel)
  <2>1. \/ Becomes(w, [l EXCEPT !.cancelSeen = x])
        \/ Becomes(w, [l EXCEPT !.lost = TRUE])
      BY DEF Heartbeat
  <2>2. x \in BOOLEAN
      OBVIOUS
  <2> QED
      BY <2>1, <2>2
<1> QED
    BY <1>1, <1>2, <1>3, <1>4

\* A completion decided while the attempt runs.
LEMMA CompletingTurns ==
    ASSUME NEW w \in Workers, Shape(worker[w]), worker[w].within # "none",
           worker[w].pc \in Working,
           NEW outcome \in {"failed", "needs_review", "canceled", "timed_out"},
           NEW retryable \in BOOLEAN,
           Becomes(w, Completing(worker[w], outcome, retryable))
    PROVE  Turns(w)
<1> DEFINE m == Completing(worker[w], outcome, retryable)
<1>1. ~worker[w].delivered
    BY DEF Shape, Working
<1>2. /\ Shape(m) /\ m.pc = "complete" /\ m.within = worker[w].within
      /\ m.msg = worker[w].msg /\ m.number = worker[w].number
    BY <1>1, CompletingShape
<1> HIDE DEF m
<1>3. Works(worker[w], m)
    BY <1>2 DEF Works, SameJob, Working
<1> QED
    BY <1>2, <1>3 DEF m, Becomes, Turns, Turn

LEMMA TurnsLaunchEnds ==
    ASSUME Base, NEW w \in Workers, LaunchEnds(w)
    PROVE  Turns(w)
<1> DEFINE l == worker[w]
<1>0. Shape(l) /\ l \in WorkerRow /\ l.pc = "run" /\ l.within # "none"
    BY RecordTyped DEF LaunchEnds, At, Shape, Working
<1>1. l.pc \in Working
    BY <1>0 DEF Working
<1>2. CASE Becomes(w, [l EXCEPT !.pc = "upload", !.within = "publish"])
  <2> DEFINE m == [l EXCEPT !.pc = "upload", !.within = "publish"]
  <2>1. Shape(m) /\ m.pc = "upload" /\ m.within = "publish" /\ m.msg = l.msg /\ m.number = l.number
      BY <1>0 DEF Shape, WorkerRow, Holding, Working
  <2>2. Becomes(w, m)
      BY <1>2
  <2> HIDE DEF m
  <2>3. Works(l, m)
      BY <1>0, <2>1 DEF Works, SameJob, Working
  <2> QED
      BY <2>1, <2>2, <2>3 DEF Becomes, Turns, Turn
<1>3. \/ Becomes(w, Idle) \/ Becomes(w, Raised(l))
      \/ \E o \in {"failed", "needs_review", "canceled", "timed_out"}, r \in BOOLEAN :
            Becomes(w, Completing(l, o, r))
      \/ Becomes(w, [l EXCEPT !.pc = "upload", !.within = "publish"])
  <2>1. ASSUME NEW p \in ExitPolicies, Becomes(w, Completing(l, p[1], p[2]))
        PROVE  \E o \in {"failed", "needs_review", "canceled", "timed_out"}, r \in BOOLEAN :
                  Becomes(w, Completing(l, o, r))
    <3>1. /\ p[1] \in {"failed", "needs_review", "canceled", "timed_out"}
          /\ p[2] \in BOOLEAN
      <4>1. /\ <<"failed", TRUE>>[1] = "failed" /\ <<"failed", TRUE>>[2] = TRUE
            /\ <<"failed", FALSE>>[1] = "failed" /\ <<"failed", FALSE>>[2] = FALSE
            /\ <<"needs_review", FALSE>>[1] = "needs_review"
            /\ <<"needs_review", FALSE>>[2] = FALSE
            /\ <<"timed_out", TRUE>>[1] = "timed_out" /\ <<"timed_out", TRUE>>[2] = TRUE
          OBVIOUS
      <4>2. \/ p = <<"failed", TRUE>> \/ p = <<"failed", FALSE>>
            \/ p = <<"needs_review", FALSE>> \/ p = <<"timed_out", TRUE>>
          BY <2>1, Zenon DEF ExitPolicies
      <4> QED
          BY <4>1, <4>2, Zenon
    <3> QED
        BY <2>1, <3>1
  <2>2. \/ Becomes(w, Idle) \/ Becomes(w, Raised(l))
        \/ Becomes(w, Completing(l, "canceled", FALSE))
        \/ Becomes(w, Completing(l, "timed_out", TRUE))
        \/ \E p \in ExitPolicies : Becomes(w, Completing(l, p[1], p[2]))
        \/ Becomes(w, [l EXCEPT !.pc = "upload", !.within = "publish"])
      BY Zenon DEF LaunchEnds
  <2> QED
      BY <2>1, <2>2
<1> QED
    BY <1>0, <1>1, <1>2, <1>3, IdleTurns, RaisedTurns, CompletingTurns

LEMMA SameTurns ==
    ASSUME NEW w \in Workers, Shape(worker[w]), worker[w].pc \in Working,
           Becomes(w, worker[w])
    PROVE  Turns(w)
<1>1. Works(worker[w], worker[w])
    BY DEF Works, SameJob, Shape
<1> QED
    BY <1>1 DEF Becomes, Turns, Turn

LEMMA TurnsUpload ==
    ASSUME Base, NEW w \in Workers, Upload(w)
    PROVE  Turns(w)
<1> DEFINE l == worker[w]
<1>0. Shape(l) /\ l \in WorkerRow /\ l.pc = "upload" /\ l.within # "none" /\ l.pc \in Working
    BY RecordTyped DEF Upload, At, Shape, Working
<1>1. CASE Becomes(w, [l EXCEPT !.pc = "publish"])
  <2> DEFINE m == [l EXCEPT !.pc = "publish"]
  <2>1. Shape(m) /\ m.pc = "publish" /\ m.within = l.within /\ m.msg = l.msg /\ m.number = l.number
      BY <1>0 DEF Shape, WorkerRow, Holding, Working
  <2>2. Becomes(w, m)
      BY <1>1
  <2> HIDE DEF m
  <2>3. Works(l, m)
      BY <1>0, <2>1 DEF Works, SameJob, Working
  <2> QED
      BY <2>1, <2>2, <2>3 DEF Becomes, Turns, Turn
<1>2. \/ Becomes(w, Raised(l)) \/ Becomes(w, l)
      \/ Becomes(w, Completing(l, "canceled", FALSE))
      \/ Becomes(w, [l EXCEPT !.pc = "publish"])
    BY Zenon DEF Upload, Replies
<1> QED
    BY <1>0, <1>1, <1>2, SameTurns, RaisedTurns, CompletingTurns

LEMMA RefusedTurns ==
    ASSUME NEW w \in Workers, Shape(worker[w]), Becomes(w, Refused(w))
    PROVE  Turns(w)
<1>1. Becomes(w, Idle) \/ Becomes(w, Raised(worker[w]))
    BY DEF Refused
<1> QED
    BY <1>1, IdleTurns, RaisedTurns

LEMMA TurnsPublish ==
    ASSUME Base, NEW w \in Workers, Publish(w)
    PROVE  Turns(w)
<1> DEFINE l == worker[w]
<1>0. /\ Shape(l) /\ l \in WorkerRow /\ l.pc = "publish" /\ l.within # "none"
      /\ l.pc \in Holding /\ ~l.delivered
    BY RecordTyped DEF Publish, At, Shape, Working, Holding
<1>1. ASSUME Repo!PublishAttemptSuccess(Mine(w), Number(w), w, Uploaded(w)),
             Becomes(w, [Settling(l, "ack") EXCEPT !.within = "handle"])
      PROVE  Turns(w)
  <2> DEFINE s == Settling(l, "ack")
             m == [s EXCEPT !.within = "handle"]
  <2>1. Shape(s) /\ s.pc = "ack" /\ s.within = l.within /\ s.msg = l.msg /\ s.number = l.number
      BY <1>0, SettlingShape
  <2>2. Becomes(w, m)
      BY <1>1
  <2> HIDE DEF s
  <2>3. Shape(m) /\ m.pc = "ack" /\ m.within = "handle" /\ m.msg = l.msg /\ m.number = l.number
      BY <1>0, <2>1, WithinShape
  <2> HIDE DEF m
  <2>4. build[Mine(w)].status = "running"
      BY <1>1 DEF Repo!PublishAttemptSuccess, Repo!CanPublish
  <2>5. Concludes(l, m)
      BY <1>0, <2>3, <2>4 DEF Concludes, SameJob, Mine
  <2> QED
      BY <2>2, <2>3, <2>5 DEF Becomes, Turns, Turn
<1>2. ASSUME Becomes(w, [Completing(l, "canceled", FALSE) EXCEPT !.within = "handle"])
      PROVE  Turns(w)
  <2> DEFINE c == Completing(l, "canceled", FALSE)
             m == [c EXCEPT !.within = "handle"]
  <2>1. Shape(c) /\ c.pc = "complete" /\ c.within = l.within /\ c.msg = l.msg /\ c.number = l.number
      BY <1>0, CompletingShape
  <2>2. Becomes(w, m)
      BY <1>2
  <2> HIDE DEF c
  <2>3. Shape(m) /\ m.pc = "complete" /\ m.within = "handle" /\ m.msg = l.msg /\ m.number = l.number
      BY <1>0, <2>1, WithinShape
  <2> HIDE DEF m
  <2>4. Works(l, m)
      BY <1>0, <2>3 DEF Works, SameJob, Working
  <2> QED
      BY <2>2, <2>3, <2>4 DEF Becomes, Turns, Turn
<1>3. \/ /\ Repo!PublishAttemptSuccess(Mine(w), Number(w), w, Uploaded(w))
         /\ Becomes(w, [Settling(l, "ack") EXCEPT !.within = "handle"])
      \/ Becomes(w, Raised(l))
      \/ Becomes(w, [Completing(l, "canceled", FALSE) EXCEPT !.within = "handle"])
      \/ Becomes(w, Refused(w))
    BY Zenon DEF Publish, Replies
<1> QED
    BY <1>0, <1>1, <1>2, <1>3, RaisedTurns, RefusedTurns

LEMMA TurnsComplete ==
    ASSUME Base, NEW w \in Workers, Complete(w)
    PROVE  Turns(w)
<1> DEFINE l == worker[w]
<1>0. /\ Shape(l) /\ l \in WorkerRow /\ l.pc = "complete" /\ l.within # "none"
      /\ l.pc \in Holding
    BY RecordTyped DEF Complete, At, Shape, Working, Holding
<1>1. ASSUME Repo!CompleteAttempt(Mine(w), l.number, w, l.outcome, l.retryable),
             Becomes(w, Settles(l, build'[Mine(w)].status))
      PROVE  Turns(w)
  <2> DEFINE pc == IF build'[Mine(w)].status \in {"failed", "needs_review"}
                   THEN "deadletter" ELSE "ack"
             m == Settling(l, pc)
  <2>1. /\ pc \in {"ack", "deadletter"}
        /\ pc = "deadletter" => build'[Mine(w)].status \in {"failed", "needs_review"}
      OBVIOUS
  <2>2. Becomes(w, m)
      BY <1>1 DEF Settles
  <2> HIDE DEF pc
  <2>3. Shape(m) /\ m.pc = pc /\ m.within = l.within /\ m.msg = l.msg /\ m.number = l.number
      BY <1>0, <2>1, SettlingShape
  <2> HIDE DEF m
  <2>4. build[Mine(w)].status = "running"
      BY <1>1 DEF Repo!CompleteAttempt, Repo!CanComplete
  <2>5. Concludes(l, m)
      BY <1>0, <2>1, <2>3, <2>4 DEF Concludes, SameJob, Mine
  <2> QED
      BY <2>2, <2>3, <2>5 DEF Becomes, Turns, Turn
<1>2. \/ /\ Repo!CompleteAttempt(Mine(w), l.number, w, l.outcome, l.retryable)
         /\ Becomes(w, Settles(l, build'[Mine(w)].status))
      \/ Becomes(w, Raised(l))
      \/ Becomes(w, Refused(w))
    BY Zenon DEF Complete, Replies
<1> QED
    BY <1>0, <1>1, <1>2, RaisedTurns, RefusedTurns

LEMMA TurnsSettle ==
    ASSUME Base, NEW w \in Workers, Settle(w)
    PROVE  Turns(w)
<1>1. Becomes(w, Idle) \/ Becomes(w, Raised(worker[w]))
    BY DEF Settle, Replies
<1> QED
    BY <1>1, RecordTyped, IdleTurns, RaisedTurns

LEMMA TurnsStep ==
    ASSUME Base, NEW w \in Workers, WorkerStep(w) \/ Heartbeat(w) \/ CallFails(w) \/ Crash(w)
    PROVE  Turns(w)
<1>1. CASE CallFails(w)
    BY <1>1, RecordTyped, RaisedTurns DEF CallFails
<1>2. CASE Crash(w)
    BY <1>2, IdleTurns DEF Crash
<1> QED
    BY <1>1, <1>2, TurnsRecover, TurnsDispatchSkips, TurnsDispatchSelects, TurnsDispatchEnqueues,
       TurnsDispatchCommits, TurnsDispatchEnds, TurnsClaim, TurnsLease, TurnsHeartbeat,
       TurnsLaunchEnds, TurnsUpload, TurnsPublish, TurnsComplete, TurnsSettle DEF WorkerStep

-------------------------------------------------------------------------------
(* Every step is a call of the store, or leaves it alone. *)

LEMMA SameStore == Repo!Init = Store!Init /\ Repo!Next = Store!Next
BY DEF Repo!Init, Store!Init, Repo!Next, Store!Next,
  Repo!Submit, Store!Submit, Repo!RequestCancel, Store!RequestCancel,
  Repo!LeaseBuild, Store!LeaseBuild, Repo!Holder, Store!Holder,
  Repo!HeartbeatAttempt, Store!HeartbeatAttempt, Repo!CompleteAttempt, Store!CompleteAttempt,
  Repo!PublishAttemptSuccess, Store!PublishAttemptSuccess,
  Repo!RecoverExpiredAttempts, Store!RecoverExpiredAttempts,
  Repo!Dispatches, Store!Dispatches, Repo!MarkDispatched, Store!MarkDispatched,
  Repo!DeferDispatch, Store!DeferDispatch, Repo!DeleteBuilds, Store!DeleteBuilds,
  Repo!Tick, Store!Tick, Repo!Advance, Store!Advance, Repo!TimerRuns, Store!TimerRuns,
  Repo!Missing, Store!Missing, Repo!NoAttempts, Store!NoAttempts,
  Repo!NoAttempt, Store!NoAttempt, Repo!Numbers, Store!Numbers,
  Repo!Moved, Store!Moved, Repo!Logged, Store!Logged, Repo!NewRow, Store!NewRow,
  Repo!Finished, Store!Finished, Repo!WithAttempt, Store!WithAttempt,
  Repo!LeaseHeld, Store!LeaseHeld, Repo!Expired, Store!Expired,
  Repo!NextNumber, Store!NextNumber, Repo!CanComplete, Store!CanComplete,
  Repo!CanPublish, Store!CanPublish, Repo!RecoveryTarget, Store!RecoveryTarget,
  Repo!Due, Store!Due, Repo!KeysWithout, Store!KeysWithout, Repo!Less, Store!Less,
  Repo!Outcomes, Store!Outcomes, Repo!Terminal, Store!Terminal, Repo!NoRow, Store!NoRow,
  Repo!Active, Store!Active

\* Time passes although no timer of the store runs: nothing changes there.
LEMMA TimeStandsStill ==
    ASSUME Base, Repo!Advance, ~Repo!TimerRuns
    PROVE  UNCHANGED repoVars
<1> USE DEF Repo!Numbers
<1>1. \A b \in Builds : \A k \in 1 .. MaxAttempts :
         /\ attempt[b][k] \in Store!AttemptRow
         /\ attempt[b][k].lease = 0
  <2>1. \A b \in Builds : \A k \in 1 .. MaxAttempts : attempt[b][k] \in Store!AttemptRow
      BY AttemptTyped
  <2>2. \A b \in Builds : \A k \in 1 .. MaxAttempts : attempt[b][k].lease \in Nat
      BY <2>1, ServiceAssumption DEF Store!AttemptRow
  <2> QED
      BY <2>1, <2>2 DEF Repo!TimerRuns
<1>2. \A b \in Builds : \A row \in outbox[b] :
         /\ row \in Store!OutboxRow
         /\ row.wait = 0
  <2>1. \A b \in Builds : \A row \in outbox[b] : row \in Store!OutboxRow
      BY DEF Base, Store!GuardInv, Store!StoreInv, Store!TypeOK
  <2>2. \A b \in Builds : \A row \in outbox[b] : row.wait \in Nat
      BY <2>1, ServiceAssumption DEF Store!OutboxRow
  <2> QED
      BY <2>1, <2>2 DEF Repo!TimerRuns
<1>3. attempt' = attempt
  <2>1. \A b \in Builds : \A k \in 1 .. MaxAttempts :
           [status |-> attempt[b][k].status, token |-> attempt[b][k].token,
            lease |-> Repo!Less(attempt[b][k].lease)] = attempt[b][k]
      BY <1>1 DEF Repo!Less, Store!AttemptRow
  <2>2. attempt' = [b \in Builds |-> [k \in 1 .. MaxAttempts |->
                      [status |-> attempt[b][k].status, token |-> attempt[b][k].token,
                       lease |-> Repo!Less(attempt[b][k].lease)]]]
      BY DEF Repo!Advance
  <2>3. \A b \in Builds : attempt[b] = [k \in 1 .. MaxAttempts |-> attempt[b][k]]
      BY AttemptTyped
  <2>4. attempt = [b \in Builds |-> attempt[b]]
      BY AttemptTyped
  <2>5. \A b \in Builds : attempt'[b] = attempt[b]
      BY <2>1, <2>2, <2>3
  <2> QED
      BY <2>2, <2>4, <2>5
<1>4. outbox' = outbox
  <2>1. \A b \in Builds : \A row \in outbox[b] :
           [version |-> row.version, dispatched |-> row.dispatched,
            wait |-> Repo!Less(row.wait)] = row
      BY <1>2 DEF Repo!Less, Store!OutboxRow
  <2>2. outbox' = [b \in Builds |->
                      {[version |-> row.version, dispatched |-> row.dispatched,
                        wait |-> Repo!Less(row.wait)] : row \in outbox[b]}]
      BY DEF Repo!Advance
  <2>3. outbox = [b \in Builds |-> outbox[b]]
      BY DEF Base, Store!GuardInv, Store!StoreInv, Store!TypeOK
  <2>4. \A b \in Builds : outbox'[b] = outbox[b]
      BY <2>1, <2>2
  <2> QED
      BY <2>2, <2>3, <2>4
<1> QED
    BY <1>3, <1>4 DEF Repo!Advance, repoVars

LEMMA WorkerCallsStore ==
    ASSUME Base, NEW w \in Workers, WorkerStep(w) \/ Heartbeat(w) \/ CallFails(w) \/ Crash(w)
    PROVE  Repo!Next \/ UNCHANGED repoVars
<1> USE RecordTyped DEF Holding, Working, At
<1>1. CASE Recover(w)
  <2>1. ExpiredAttempts \in SUBSET (Builds \X Repo!Numbers)
      BY DEF ExpiredAttempts, Repo!Numbers
  <2> QED
      BY <1>1, <2>1 DEF Recover, Repo!Next
<1>2. CASE DispatchSkips(w)
    BY <1>2 DEF DispatchSkips, Repo!Next, Repo!Dispatches
<1>3. CASE DispatchCommits(w)
  <2>1. worker[w].of \in Builds
      BY <1>3 DEF DispatchCommits, Dispatching
  <2>2. PICK row \in outbox[worker[w].of] : CommitsRow(worker[w], row)
      BY <1>3 DEF DispatchCommits
  <2> QED
      BY <2>1, <2>2 DEF CommitsRow, Repo!Next, Repo!Dispatches
<1>4. CASE Lease(w)
    BY <1>4 DEF Lease, Repo!Next
<1>5. CASE Heartbeat(w)
    BY <1>5 DEF Heartbeat, Repo!Next, Repo!Holder, Repo!Numbers
<1>6. CASE Publish(w)
  <2>1. Mine(w) \in Builds /\ Number(w) \in Repo!Numbers
      BY <1>6 DEF Publish, Shape, Repo!Numbers
  <2>2. Repo!PublishAttemptSuccess(Mine(w), Number(w), w, Uploaded(w)) =>
           Uploaded(w) \in SUBSET (Repo!Numbers \X Artifacts)
      BY <2>1 DEF Repo!PublishAttemptSuccess, Repo!CanPublish
  <2>3. Repo!PublishAttemptSuccess(Mine(w), Number(w), w, Uploaded(w)) \/ UNCHANGED repoVars
      BY <1>6 DEF Publish
  <2> QED
      BY <2>1, <2>2, <2>3 DEF Repo!Next, Repo!Holder
<1>7. CASE Complete(w)
  <2>1. Mine(w) \in Builds /\ worker[w].number \in Repo!Numbers
      BY <1>7 DEF Complete, Shape, Repo!Numbers, Number
  <2>2. worker[w].outcome \in Repo!Outcomes /\ worker[w].retryable \in BOOLEAN
      BY DEF WorkerRow, Repo!Outcomes
  <2>3. \/ Repo!CompleteAttempt(Mine(w), worker[w].number, w, worker[w].outcome,
                                worker[w].retryable)
        \/ UNCHANGED repoVars
      BY <1>7 DEF Complete
  <2> QED
      BY <2>1, <2>2, <2>3 DEF Repo!Next, Repo!Holder
<1>8. CASE DispatchSelects(w) \/ DispatchEnqueues(w) \/ DispatchEnds(w) \/ Claim(w)
           \/ LaunchEnds(w) \/ Upload(w) \/ Settle(w) \/ CallFails(w) \/ Crash(w)
    BY <1>8 DEF DispatchSelects, DispatchEnqueues, DispatchEnds, Claim, LaunchEnds, Upload,
       Settle, CallFails, Crash
<1> QED
    BY <1>1, <1>2, <1>3, <1>4, <1>5, <1>6, <1>7, <1>8 DEF WorkerStep

\* The API, the retention command and time, which leave the workers alone.
Outside == ClientSubmits \/ ClientCancels \/ RetentionDeletes \/ Tick

LEMMA OutsideCallsStore ==
    ASSUME Base, Outside
    PROVE  Repo!Next \/ UNCHANGED repoVars
<1>1. CASE ClientSubmits
    BY <1>1 DEF ClientSubmits, Repo!Next
<1>2. CASE ClientCancels
    BY <1>2 DEF ClientCancels, Repo!Next
<1>3. CASE RetentionDeletes
  <2>1. PICK b \in Builds : Repo!DeleteBuilds({b})
      BY <1>3 DEF RetentionDeletes
  <2>2. {b} \in SUBSET Builds
      OBVIOUS
  <2> QED
      BY <2>1, <2>2 DEF Repo!Next
<1>4. CASE Tick
  <2>1. CASE Repo!TimerRuns
      BY <1>4, <2>1 DEF Tick, Repo!Tick, Repo!Next
  <2>2. CASE ~Repo!TimerRuns
      BY <1>4, <2>2, TimeStandsStill DEF Tick
  <2> QED
      BY <2>1, <2>2
<1> QED
    BY <1>1, <1>2, <1>3, <1>4 DEF Outside

LEMMA CallsStore ==
    ASSUME Base, [Next]_vars
    PROVE  [Store!Next]_Store!repoVars
<1>1. Repo!Next \/ UNCHANGED repoVars
    BY OutsideCallsStore, WorkerCallsStore DEF Next, Outside, vars
<1>2. UNCHANGED repoVars => UNCHANGED Store!repoVars
    BY DEF repoVars, Store!repoVars
<1>3. Repo!Next <=> Store!Next
    BY SameStore
<1> QED
    BY <1>1, <1>2, <1>3

-------------------------------------------------------------------------------
(* Every step is a call of the queue, or leaves it alone. *)

\* The message of an entry is still in the stream after the step.
Stays(e) == \E d \in stream' : d.id = e.id /\ d.build = e.build

SentGrows ==
    /\ Len(sent) <= Len(sent')
    /\ \A i \in 1 .. Len(sent) : sent'[i] = sent[i]

LEMMA StreamTypes ==
    ASSUME StreamFacts
    PROVE  /\ sent \in Seq(Builds) /\ Len(sent) \in Nat /\ Len(sent) <= MaxEntries
           /\ \A e \in stream : /\ e \in Redis!Entry /\ e.id \in 1 .. Len(sent)
                                /\ e.build = sent[e.id] /\ e.build \in Builds
<1>1. sent \in Seq(Builds) /\ Len(sent) \in Nat /\ Len(sent) <= MaxEntries
    BY DEF StreamFacts, SentTyped
<1>2. ASSUME NEW e \in stream
      PROVE  /\ e \in Redis!Entry /\ e.id \in 1 .. Len(sent)
             /\ e.build = sent[e.id] /\ e.build \in Builds
  <2>1. e \in Redis!Entry
      BY <1>2 DEF StreamFacts, StreamTyped
  <2>2. e.id \in Nat /\ e.id >= 1 /\ e.build \in Builds
      BY <2>1, StreamAssumed DEF Redis!Entry, Redis!Receipts, Redis!QueueConstants
  <2> QED
      BY <1>1, <1>2, <2>1, <2>2 DEF StreamFacts, Issued
<1> QED
    BY <1>1, <1>2

LEMMA EnqueueStep ==
    ASSUME StreamFacts, NEW b \in Builds, Redis!Enqueue(b)
    PROVE  /\ StreamFacts' /\ SentGrows /\ \A e \in stream : Stays(e)
           /\ Len(sent') = Len(sent) + 1 /\ sent'[Len(sent) + 1] = b
<1>1. /\ stream' = stream \union {Redis!Fresh(b)} /\ sent' = Append(sent, b)
      /\ Len(sent) < MaxEntries
    BY DEF Redis!Enqueue
<1>2. /\ sent' \in Seq(Builds) /\ Len(sent') = Len(sent) + 1 /\ sent'[Len(sent) + 1] = b
      /\ \A i \in 1 .. Len(sent) : sent'[i] = sent[i]
    BY <1>1, StreamTypes
<1>3. /\ Redis!Fresh(b) \in Redis!Entry
      /\ Redis!Fresh(b).id = Len(sent) + 1 /\ Redis!Fresh(b).build = b
    BY <1>1, StreamTypes, StreamAssumed DEF Redis!Fresh, Redis!Entry, Redis!Receipts, Redis!QueueConstants
<1>4. SentGrows
    BY <1>2, StreamTypes DEF SentGrows
<1>5. Len(sent') <= MaxEntries
    BY <1>1, <1>2, StreamTypes, StreamAssumed DEF Redis!QueueConstants
<1>6. ASSUME NEW e \in stream' PROVE e \in Redis!Entry /\ e.id <= Len(sent') /\ sent'[e.id] = e.build
  <2>1. CASE e \in stream
      BY <1>2, <2>1, StreamTypes
  <2>2. CASE e = Redis!Fresh(b)
      BY <1>2, <1>3, <2>2, StreamTypes
  <2> QED
      BY <1>1, <1>6, <2>1, <2>2
<1>7. StreamFacts'
    BY <1>2, <1>5, <1>6 DEF StreamFacts, StreamTyped, SentTyped, Issued
<1>8. \A e \in stream : Stays(e)
    BY <1>1 DEF Stays
<1> QED
    BY <1>2, <1>4, <1>7, <1>8

\* Entries go, or change in their delivery only.
LEMMA StreamKept ==
    ASSUME StreamFacts, sent' = sent,
           \A d \in stream' : /\ d \in Redis!Entry
                              /\ \E e \in stream : d.id = e.id /\ d.build = e.build
    PROVE  StreamFacts' /\ SentGrows
<1>1. \A d \in stream' : d.id <= Len(sent) /\ sent[d.id] = d.build
    BY StreamTypes
<1>2. SentGrows
    BY StreamTypes DEF SentGrows
<1> QED
    BY <1>1, <1>2, StreamTypes DEF StreamFacts, StreamTyped, SentTyped, Issued

LEMMA UnchangedStep ==
    ASSUME StreamFacts, UNCHANGED <<stream, sent>>
    PROVE  StreamFacts' /\ SentGrows /\ \A e \in stream : Stays(e)
BY StreamTypes, StreamKept DEF Stays

LEMMA ClaimStep ==
    ASSUME StreamFacts, NEW w \in Workers, NEW e \in stream, Redis!Claim(w, e)
    PROVE  StreamFacts' /\ SentGrows /\ \A d \in stream : Stays(d)
<1> DEFINE taken == [e EXCEPT !.owner = w, !.idle = 0]
<1>1. e \in Redis!Entry
    BY StreamTypes
<1>2. taken \in Redis!Entry /\ taken.id = e.id /\ taken.build = e.build
    BY <1>1, StreamAssumed, ClaimedEntry
<1>3. stream' = (stream \ {e}) \union {taken} /\ sent' = sent
    BY DEF Redis!Claim
<1> HIDE DEF taken
<1>4. StreamFacts' /\ SentGrows
    BY <1>2, <1>3, StreamTypes, StreamKept
<1>5. \A d \in stream : Stays(d)
    BY <1>2, <1>3 DEF Stays
<1> QED
    BY <1>4, <1>5

LEMMA SettleStep ==
    ASSUME StreamFacts, NEW id, Redis!Acknowledge(id) \/ Redis!DeadLetter(id)
    PROVE  StreamFacts' /\ SentGrows /\ \A e \in stream : e.id = id \/ Stays(e)
<1>1. stream' = stream \ Redis!PendingEntry(id) /\ sent' = sent
    BY DEF Redis!Acknowledge, Redis!DeadLetter
<1>2. \A e \in stream : e.id = id \/ e \in stream'
    BY <1>1 DEF Redis!PendingEntry
<1>3. StreamFacts' /\ SentGrows
    BY <1>1, StreamTypes, StreamKept
<1> QED
    BY <1>2, <1>3 DEF Stays

LEMMA AdvanceStep ==
    ASSUME StreamFacts, Redis!Advance
    PROVE  StreamFacts' /\ SentGrows /\ \A e \in stream : Stays(e)
<1> DEFINE aged(e) == IF Redis!Pending(e) /\ e.idle < StaleTicks
                      THEN [e EXCEPT !.idle = @ + 1] ELSE e
<1>1. stream' = {aged(e) : e \in stream} /\ sent' = sent
    BY DEF Redis!Advance
<1>2. ASSUME NEW e \in stream
      PROVE  aged(e) \in Redis!Entry /\ aged(e).id = e.id /\ aged(e).build = e.build
  <2>1. e \in Redis!Entry
      BY <1>2, StreamTypes
  <2>2. CASE e.idle < StaleTicks
      BY <2>1, <2>2, StreamAssumed, OlderEntry
  <2> QED
      BY <2>1, <2>2
<1> HIDE DEF aged
<1>3. StreamFacts' /\ SentGrows
    BY <1>1, <1>2, StreamKept
<1> QED
    BY <1>1, <1>2, <1>3 DEF Stays

\* In the queue too, time may pass without a timer that runs.
LEMMA StreamStandsStill ==
    ASSUME Redis!Advance, ~Redis!TimerRuns
    PROVE  UNCHANGED Redis!queueVars
<1>1. \A e \in stream : ~(Redis!Pending(e) /\ e.idle < StaleTicks)
    BY DEF Redis!TimerRuns
<1>2. stream' = {e : e \in stream}
    BY <1>1 DEF Redis!Advance
<1> QED
    BY <1>2 DEF Redis!Advance, Redis!queueVars

\* What a worker does to the queue.
LEMMA WorkerQueue ==
    ASSUME Base, NEW w \in Workers, WorkerStep(w) \/ Heartbeat(w) \/ CallFails(w) \/ Crash(w)
    PROVE  \/ /\ At(w, "enqueue") /\ worker[w].of \in Builds /\ Redis!Enqueue(worker[w].of)
           \/ At(w, "claim") /\ \E e \in stream : Redis!Claim(w, e)
           \/ /\ worker[w].pc \in {"ack", "deadletter"} /\ worker[w].msg \in 1 .. Len(sent)
              /\ \/ Redis!Acknowledge(worker[w].msg)
                 \/ At(w, "deadletter") /\ Redis!DeadLetter(worker[w].msg)
           \/ UNCHANGED redisVars
<1>1. CASE DispatchEnqueues(w)
  <2>1. /\ worker[w] \in WorkerRow /\ worker[w].of \in Builds /\ At(w, "enqueue")
      BY <1>1, RecordTyped DEF DispatchEnqueues, Dispatching, At
  <2>2. [worker[w] EXCEPT !.pc = "commit"].of = worker[w].of
      BY <2>1 DEF WorkerRow
  <2>3. Redis!Enqueue([worker[w] EXCEPT !.pc = "commit"].of) \/ UNCHANGED redisVars
      BY <1>1 DEF DispatchEnqueues
  <2> QED
      BY <2>1, <2>2, <2>3
<1>2. CASE Claim(w)
    BY <1>2 DEF Claim, redisVars
<1>3. CASE Settle(w)
    BY <1>3, RecordTyped DEF Settle, At, Holding
<1> QED
    BY <1>1, <1>2, <1>3 DEF WorkerStep, Recover, DispatchSkips, DispatchSelects, DispatchCommits,
       DispatchEnds, Lease, LaunchEnds, Upload, Publish, Complete, Heartbeat, CallFails, Crash

LEMMA OutsideQueue ==
    ASSUME Outside
    PROVE  Redis!Advance \/ UNCHANGED redisVars
BY DEF Outside, ClientSubmits, ClientCancels, RetentionDeletes, Tick

LEMMA CallsQueue ==
    ASSUME Base, [Next]_vars
    PROVE  [Redis!Next]_Redis!queueVars
<1>1. ASSUME NEW w \in Workers, WorkerStep(w) \/ Heartbeat(w) \/ CallFails(w) \/ Crash(w)
      PROVE  [Redis!Next]_Redis!queueVars
  <2>1. \/ \E b \in Builds : Redis!Enqueue(b)
        \/ \E c \in Workers, e \in stream : Redis!Claim(c, e)
        \/ \E id \in 1 .. Len(sent) : Redis!Acknowledge(id) \/ Redis!DeadLetter(id)
        \/ UNCHANGED redisVars
      BY <1>1, WorkerQueue
  <2> QED
      BY <2>1 DEF Redis!Next, Redis!queueVars, redisVars
<1>2. ASSUME Outside PROVE [Redis!Next]_Redis!queueVars
    BY <1>2, OutsideQueue, StreamStandsStill DEF Redis!Next, Redis!queueVars, redisVars
<1>3. Redis!Next \/ UNCHANGED redisVars
    BY <1>1, <1>2 DEF Next, Outside, vars, Redis!queueVars, redisVars
<1> QED
    BY <1>3 DEF redisVars, Redis!queueVars

-------------------------------------------------------------------------------
(* What any step does to a build, as far as the workers care. *)

NewWakeup(b) == \E row \in outbox[b] : row.version = build[b].version /\ ~row.dispatched

\* The builds whose messages may be dead-lettered.
GivenUp == {"failed", "needs_review", "deleted"}

BuildMoves(b) ==
    /\ build[b].status # "absent" => build'[b].status # "absent"
    /\ build[b].status \in GivenUp => build'[b].status \in GivenUp
    /\ build[b].status = "deleted" => build'[b].status = "deleted"
    /\ build'[b].status = "deleted" => build[b].status \in Store!Terminal \union {"deleted"}
    /\ build'[b].status # "deleted" => build[b].version <= build'[b].version
    /\ build'[b].status = "queued" =>
          \/ build'[b] = build[b]
          \/ build[b].version < build'[b].version /\ NewWakeup(b)'
    /\ \A k \in 1 .. MaxAttempts :
          attempt[b][k].status # "none" =>
             attempt'[b][k].status # "none" \/ build'[b].status = "deleted"

LEMMA BuildTyped ==
    ASSUME Base, NEW b \in Builds
    PROVE  /\ build[b].status \in Store!Statuses /\ build[b].version \in Nat
           /\ build[b].status = "absent" => build[b].version = 0
BY DEF Base, Store!GuardInv, Store!Fresh, Store!StoreInv, Store!TypeOK, Store!BuildRow

LEMMA BuildMovesAlways ==
    ASSUME Base, [Next]_vars, NEW b \in Builds
    PROVE  BuildMoves(b)
<1>0. Store!BuildStep(b)
    BY StoreAssumed, CallsStore, Store!Steps DEF Base, Store!GuardInv
<1> USE BuildTyped DEF BuildMoves, GivenUp, Store!Terminal, Store!NoRow, Store!Active
<1>1. CASE Store!Same(b)
    BY <1>1 DEF Store!Same
<1>2. CASE Store!TimersOnly(b)
    BY <1>2 DEF Store!TimersOnly, Store!Numbers
<1>3. CASE Store!Submitted(b)
  <2>1. NewWakeup(b)'
    <3>1. Store!NewRow(1, 0) \in outbox'[b] /\ build'[b].version = 1
        BY <1>3 DEF Store!Submitted
    <3>2. Store!NewRow(1, 0).version = 1 /\ ~Store!NewRow(1, 0).dispatched
        BY DEF Store!NewRow
    <3> QED
        BY <3>1, <3>2 DEF NewWakeup
  <2> QED
      BY <1>3, <2>1 DEF Store!Submitted
<1>4. CASE Store!CancelAsked(b)
    BY <1>4 DEF Store!CancelAsked, Store!Moved
<1>5. CASE Store!Started(b)
  <2>1. /\ build'[b].status = "running" /\ build'[b].version = build[b].version + 1
        /\ \A k \in 1 .. MaxAttempts :
              attempt[b][k].status # "none" => attempt'[b][k].status # "none"
      BY <1>5 DEF Store!Started, Store!Moved, Store!Numbers
  <2> QED
      BY <1>5, <2>1 DEF Store!Started
<1>6. CASE Store!Ended(b)
  <2>1. PICK k \in 1 .. MaxAttempts, final \in Store!AttemptStatuses, target \in Store!Statuses :
           Store!Closed(b, k, final, target)
      BY <1>6 DEF Store!Ended, Store!Numbers
  <2>2. build'[b].status = target /\ build'[b].version = build[b].version + 1
      BY <2>1 DEF Store!Closed, Store!Moved
  <2>3. \A j \in 1 .. MaxAttempts :
           attempt[b][j].status # "none" => attempt'[b][j].status # "none"
      BY <2>1 DEF Store!Closed, Store!Numbers
  <2>4. build[b].status = "running" /\ target \in {"queued"} \union Store!Terminal
      BY <2>1 DEF Store!Closed
  <2>5. ASSUME target = "queued" PROVE NewWakeup(b)'
    <3> DEFINE row == Store!NewRow(build[b].version + 1, RetryTicks)
    <3>1. row \in outbox'[b]
        BY <2>1, <2>5 DEF Store!Closed
    <3>2. row.version = build[b].version + 1 /\ ~row.dispatched
        BY DEF Store!NewRow
    <3> HIDE DEF row
    <3> QED
        BY <2>2, <3>1, <3>2 DEF NewWakeup
  <2> QED
      BY <2>2, <2>3, <2>4, <2>5
<1>7. CASE Store!Deleted(b)
    BY <1>7 DEF Store!Deleted, Store!Missing
<1> QED
    BY <1>0, <1>1, <1>2, <1>3, <1>4, <1>5, <1>6, <1>7 DEF Store!BuildStep

\* Rows of builds are deleted by the retention command alone.
LEMMA WorkersDeleteNothing ==
    ASSUME Base, NEW w \in Workers, WorkerStep(w) \/ Heartbeat(w) \/ CallFails(w) \/ Crash(w),
           NEW b \in Builds, build'[b].status = "deleted"
    PROVE  build[b].status = "deleted"
<1> DEFINE c == Mine(w)
<1>0. build \in [Builds -> Store!BuildRow]
    BY DEF Base, Store!GuardInv, Store!StoreInv, Store!TypeOK
<1>1. CASE Recover(w)
  <2>1. CASE UNCHANGED repoVars
      BY <2>1 DEF repoVars
  <2>2. CASE Repo!RecoverExpiredAttempts(ExpiredAttempts)
    <3> DEFINE k == CHOOSE k \in Repo!Numbers : <<b, k>> \in ExpiredAttempts
    <3>1. build'[b] = build[b] \/ build'[b] = Repo!Moved(b, Repo!RecoveryTarget(b, k), build[b].cancel)
        BY <2>2 DEF Repo!RecoverExpiredAttempts
    <3>2. Repo!RecoveryTarget(b, k) \in {"canceled", "queued", "failed"}
        BY DEF Repo!RecoveryTarget
    <3> HIDE DEF k
    <3> QED
        BY <3>1, <3>2 DEF Repo!Moved
  <2> QED
      BY <1>1, <2>1, <2>2 DEF Recover
<1>2. CASE Repo!LeaseBuild(c, w)
    BY <1>0, <1>2 DEF Repo!LeaseBuild, Repo!Moved
<1>3. CASE Complete(w)
  <2>1. worker[w].outcome # "deleted"
      BY RecordTyped DEF WorkerRow
  <2> QED
      BY <1>0, <1>3, <2>1 DEF Complete, Repo!CompleteAttempt, Repo!Moved, repoVars
<1>4. CASE Publish(w)
    BY <1>0, <1>4 DEF Publish, Repo!PublishAttemptSuccess, Repo!Moved, repoVars
<1>5. CASE Lease(w)
    BY <1>2, <1>5 DEF Lease, repoVars
<1>6. CASE DispatchSkips(w) \/ DispatchCommits(w)
    BY <1>6 DEF DispatchSkips, DispatchCommits, CommitsRow, Repo!MarkDispatched, Repo!DeferDispatch
<1>7. CASE Heartbeat(w)
    BY <1>7 DEF Heartbeat, Repo!HeartbeatAttempt, repoVars
<1>8. CASE DispatchSelects(w) \/ DispatchEnqueues(w) \/ DispatchEnds(w) \/ Claim(w)
           \/ LaunchEnds(w) \/ Upload(w) \/ Settle(w) \/ CallFails(w) \/ Crash(w)
    BY <1>8 DEF DispatchSelects, DispatchEnqueues, DispatchEnds, Claim, LaunchEnds, Upload,
       Settle, CallFails, Crash, repoVars
<1> QED
    BY <1>1, <1>3, <1>4, <1>5, <1>6, <1>7, <1>8 DEF WorkerStep

LEMMA OutsideDeletes ==
    ASSUME Base, Outside, NEW b \in Builds,
           build'[b].status = "deleted", build[b].status # "deleted"
    PROVE  \A w \in Workers : Dispatching(w) => worker[w].of # b
<1>0. build \in [Builds -> Store!BuildRow]
    BY DEF Base, Store!GuardInv, Store!StoreInv, Store!TypeOK
<1>1. ~ClientSubmits
    BY <1>0 DEF ClientSubmits, Repo!Submit
<1>2. ASSUME ClientCancels PROVE FALSE
  <2>1. PICK c \in Builds : Repo!RequestCancel(c, build[c].version)
      BY <1>2 DEF ClientCancels
  <2> QED
      BY <1>0, <2>1 DEF Repo!RequestCancel, Repo!Moved
<1>3. ~Tick
    BY DEF Tick, Repo!Advance
<1>4. PICK c \in Builds : /\ \A w \in Workers : Dispatching(w) => worker[w].of # c
                          /\ Repo!DeleteBuilds({c})
    BY <1>1, <1>2, <1>3 DEF Outside, RetentionDeletes
<1>5. b = c
    BY <1>0, <1>4 DEF Repo!DeleteBuilds
<1> QED
    BY <1>4, <1>5

\* Retention waits for the open transaction that holds a row of the build.
LEMMA RowHeldBuild ==
    ASSUME Base, [Next]_vars, NEW w \in Workers, Dispatching(w)
    PROVE  /\ worker[w].of \in Builds
           /\ build[worker[w].of].status \notin {"absent", "deleted"}
           /\ build'[worker[w].of].status # "deleted"
<1> DEFINE b == worker[w].of
<1>1. b \in Builds /\ build[b].status \notin {"absent", "deleted"}
    BY RecordTyped DEF RowHeld, Store!NoRow
<1>2. CASE UNCHANGED vars
    BY <1>1, <1>2 DEF vars, repoVars
<1> QED
    BY <1>1, <1>2, WorkersDeleteNothing, OutsideDeletes DEF Next, Outside

-------------------------------------------------------------------------------
(* The facts that everything else rests on are inductive. *)

LEMMA StreamFactsKept ==
    ASSUME Base, [Next]_vars
    PROVE  StreamFacts' /\ SentGrows
<1>0. StreamFacts
    BY DEF Base
<1>1. ASSUME NEW w \in Workers, WorkerStep(w) \/ Heartbeat(w) \/ CallFails(w) \/ Crash(w)
      PROVE  StreamFacts' /\ SentGrows
    BY <1>0, <1>1, WorkerQueue, EnqueueStep, ClaimStep, SettleStep, UnchangedStep DEF redisVars
<1>2. ASSUME Outside PROVE StreamFacts' /\ SentGrows
    BY <1>0, <1>2, OutsideQueue, AdvanceStep, UnchangedStep DEF redisVars
<1>3. CASE UNCHANGED vars
    BY <1>0, <1>3, UnchangedStep DEF vars, redisVars
<1> QED
    BY <1>1, <1>2, <1>3 DEF Next, Outside

LEMMA SentKnownKept ==
    ASSUME Base, [Next]_vars
    PROVE  SentKnown'
<1>0. /\ StreamFacts /\ SentKnown
      /\ sent \in Seq(Builds) /\ Len(sent) \in Nat
    BY StreamTypes DEF Base, WorkerFacts
<1>1. ASSUME NEW i \in 1 .. Len(sent) PROVE build'[sent[i]].status # "absent"
  <2>1. sent[i] \in Builds /\ build[sent[i]].status # "absent"
      BY <1>0, <1>1 DEF SentKnown
  <2> QED
      BY <2>1, BuildMovesAlways DEF BuildMoves
<1>2. CASE sent' = sent
    BY <1>1, <1>2 DEF SentKnown
<1>3. ASSUME NEW w \in Workers, At(w, "enqueue"), Redis!Enqueue(worker[w].of)
      PROVE  SentKnown'
  <2>1. worker[w].of \in Builds /\ build[worker[w].of].status # "absent"
      BY <1>3, RowHeldBuild DEF At, Dispatching
  <2>2. build'[worker[w].of].status # "absent"
      BY <2>1, BuildMovesAlways DEF BuildMoves
  <2>3. /\ SentGrows /\ Len(sent') = Len(sent) + 1 /\ sent'[Len(sent) + 1] = worker[w].of
      BY <1>0, <1>3, <2>1, EnqueueStep
  <2>4. ASSUME NEW i \in 1 .. Len(sent') PROVE build'[sent'[i]].status # "absent"
    <3>1. CASE i \in 1 .. Len(sent)
        BY <1>1, <2>3, <3>1 DEF SentGrows
    <3>2. CASE i = Len(sent) + 1
        BY <2>2, <2>3, <3>2
    <3> QED
        BY <1>0, <2>3, <2>4, <3>1, <3>2
  <2> QED
      BY <2>4 DEF SentKnown
<1>4. \/ sent' = sent
      \/ \E w \in Workers : At(w, "enqueue") /\ Redis!Enqueue(worker[w].of)
  <2>1. ASSUME NEW w \in Workers, WorkerStep(w) \/ Heartbeat(w) \/ CallFails(w) \/ Crash(w)
        PROVE  sent' = sent \/ (At(w, "enqueue") /\ Redis!Enqueue(worker[w].of))
      BY <2>1, WorkerQueue DEF Redis!Claim, Redis!Acknowledge, Redis!DeadLetter, redisVars
  <2>2. ASSUME Outside PROVE sent' = sent
      BY <2>2, OutsideQueue DEF Redis!Advance, redisVars
  <2>3. UNCHANGED vars => sent' = sent
      BY DEF vars, redisVars
  <2> QED
      BY <2>1, <2>2, <2>3 DEF Next, Outside
<1> QED
    BY <1>2, <1>3, <1>4

\* The open transaction of a worker that stays where it is, or sends.
LEMMA RowHeldStays ==
    ASSUME Base, [Next]_vars, NEW w \in Workers, Dispatching(w),
           worker'[w].of = worker[w].of, worker'[w].row = worker[w].row
    PROVE  RowHeld(w)'
<1> DEFINE b == worker[w].of
<1>1. /\ b \in Builds /\ build[b].status \notin {"absent", "deleted"}
      /\ build'[b].status # "deleted"
    BY RowHeldBuild
<1>2. BuildMoves(b)
    BY <1>1, BuildMovesAlways
<1>3. build'[b].status \notin Store!NoRow /\ build[b].version <= build'[b].version
    BY <1>1, <1>2 DEF BuildMoves, Store!NoRow
<1>4. worker[w].row <= build[b].version
    BY RecordTyped DEF RowHeld
<1>5. worker[w].row \in Nat /\ build[b].version \in Nat
    BY <1>1, RecordTyped, BuildTyped DEF WorkerRow
<1>6. build'[b].version \in Nat
  <2>1. Store!GuardInv'
      BY StoreAssumed, CallsStore, Store!GuardInductive DEF Base
  <2> QED
      BY <1>1, <2>1 DEF Store!GuardInv, Store!StoreInv, Store!TypeOK, Store!BuildRow
<1> QED
    BY <1>3, <1>4, <1>5, <1>6 DEF RowHeld

LEMMA FactsOfTurn ==
    ASSUME Base, [Next]_vars, NEW w \in Workers, Turns(w)
    PROVE  WorkerFacts'
<1>0. /\ worker \in [Workers -> WorkerRow]
      /\ \A v \in Workers : Shape(worker[v]) /\ Held(v) /\ RowHeld(v)
      /\ Len(sent) \in Nat /\ Len(sent') \in Nat /\ Len(sent) <= Len(sent')
  <2>1. StreamFacts' /\ SentGrows /\ StreamFacts
      BY StreamFactsKept DEF Base
  <2>2. Len(sent') \in Nat
      BY <2>1 DEF StreamFacts, SentTyped
  <2> QED
      BY <2>1, <2>2, StreamTypes DEF SentGrows, Base, WorkerFacts
<1>1. PICK m : Shape(m) /\ Turn(worker[w], m) /\ worker' = [worker EXCEPT ![w] = m]
    BY DEF Turns
<1>2. worker'[w] = m /\ \A v \in Workers \ {w} : worker'[v] = worker[v]
    BY <1>0, <1>1
<1>3. worker' \in [Workers -> WorkerRow] /\ \A v \in Workers : Shape(worker'[v])
  <2>1. m \in WorkerRow
      BY <1>1 DEF Shape
  <2> QED
      BY <1>0, <1>1, <1>2, <2>1
<1>4. ASSUME NEW v \in Workers PROVE Held(v)'
  <2>1. worker[v].msg \in Nat /\ worker[v].msg <= Len(sent)
      BY <1>0 DEF Held, WorkerRow
  <2>2. CASE v # w
      BY <1>0, <1>2, <2>1, <2>2 DEF Held
  <2>3. CASE v = w
    <3>1. m.msg \in {0, worker[w].msg} \/ m.msg <= Len(sent)
        BY <1>1 DEF Turn, Takes, Starts, Declines, Works, Concludes, Renews, SameJob
    <3>2. m.msg \in Nat
        BY <1>1 DEF Shape, WorkerRow
    <3> QED
        BY <1>0, <1>2, <2>1, <2>3, <3>1, <3>2 DEF Held
  <2> QED
      BY <2>2, <2>3
<1>5. ASSUME NEW v \in Workers, v # w PROVE RowHeld(v)'
  <2>1. CASE Dispatching(v)
      BY <1>2, <1>5, <2>1, RowHeldStays
  <2>2. CASE ~Dispatching(v)
      BY <1>2, <1>5, <2>2 DEF RowHeld, Dispatching
  <2> QED
      BY <2>1, <2>2
<1>6. RowHeld(w)'
  <2>1. CASE Selects(m)
    <3>1. m.of \in Builds
        BY <1>1, <2>1 DEF Selects, Shape, WorkerRow
    <3>2. PICK row \in outbox[m.of] : row.version = m.row
        BY <2>1 DEF Selects
    <3>3. row.version <= build[m.of].version
        BY <3>1, <3>2 DEF Base, Store!GuardInv, Store!StoreInv, Store!BuildInv, Store!HasRow
    <3> QED
        BY <1>2, <2>1, <3>2, <3>3 DEF Selects, RowHeld, Store!NoRow
  <2>2. CASE Sends(worker[w], m)
    <3>1. Dispatching(w) /\ m.of = worker[w].of /\ m.row = worker[w].row
        BY <2>2 DEF Sends, Dispatching
    <3> QED
        BY <1>2, <3>1, RowHeldStays
  <2>3. CASE ~Selects(m) /\ ~Sends(worker[w], m)
    <3>1. Free(m) \/ Takes(m) \/ m.pc \in Working \union {"ack", "deadletter"}
        BY <1>1, <2>3 DEF Turn, Starts, Declines, Works, Concludes, Renews, SameJob, Shape, Working
    <3>2. m.pc \notin {"enqueue", "commit"}
        BY <3>1 DEF Free, Takes, Working
    <3> QED
        BY <1>2, <3>2 DEF RowHeld, Dispatching
  <2> QED
      BY <2>1, <2>2, <2>3
<1> QED
    BY <1>3, <1>4, <1>5, <1>6, SentKnownKept DEF WorkerFacts

LEMMA FactsOfRest ==
    ASSUME Base, [Next]_vars, UNCHANGED worker
    PROVE  WorkerFacts'
<1>0. /\ worker \in [Workers -> WorkerRow]
      /\ \A v \in Workers : Shape(worker[v]) /\ Held(v) /\ RowHeld(v)
    BY DEF Base, WorkerFacts
<1>1. StreamFacts' /\ SentGrows /\ StreamFacts
    BY StreamFactsKept DEF Base
<1>2. Len(sent') \in Nat /\ Len(sent) \in Nat
    BY <1>1 DEF StreamFacts, SentTyped
<1>3. ASSUME NEW v \in Workers PROVE Held(v)' /\ RowHeld(v)'
  <2>1. Held(v)'
      BY <1>0, <1>1, <1>2 DEF Held, SentGrows, WorkerRow
  <2>2. RowHeld(v)'
      BY RowHeldStays DEF RowHeld, Dispatching
  <2> QED
      BY <2>1, <2>2
<1> QED
    BY <1>0, <1>3, SentKnownKept DEF WorkerFacts

LEMMA BaseKept ==
    ASSUME Base, [Next]_vars
    PROVE  Base'
<1>1. Store!GuardInv'
    BY StoreAssumed, CallsStore, Store!GuardInductive DEF Base
<1>2. UNCHANGED worker \/ \E w \in Workers : Turns(w)
    BY TurnsStep DEF Next, vars, ClientSubmits, ClientCancels, RetentionDeletes, Tick
<1> QED
    BY <1>1, <1>2, StreamFactsKept, FactsOfTurn, FactsOfRest DEF Base

LEMMA BaseInitially == Init => Base
<1> SUFFICES ASSUME Init PROVE Base
    OBVIOUS
<1>1. Store!Init /\ Redis!Init /\ worker = [w \in Workers |-> Idle]
    BY SameStore DEF Init
<1>2. Store!GuardInv
    BY <1>1, StoreAssumed, Store!GuardInitially
<1>3. StreamFacts /\ Len(sent) = 0
    BY <1>1, StreamAssumed DEF Redis!Init, StreamFacts, StreamTyped, SentTyped,
       Issued, Redis!QueueConstants
<1>4. \A w \in Workers : worker[w] = Idle
    BY <1>1
<1>5. \A w \in Workers : Held(w) /\ RowHeld(w)
    BY <1>3, <1>4, IdleFields, IdleShape DEF Held, RowHeld, Dispatching, Free
<1> QED
    BY <1>1, <1>2, <1>3, <1>4, <1>5, IdleFields, IdleShape DEF Base, WorkerFacts, SentKnown

LEMMA BaseInvariant == Spec => []Base
    BY BaseInitially, BaseKept, PTL DEF Spec

-------------------------------------------------------------------------------
(* The service uses its store and its queue as any caller may. *)

\* Whatever workers, clients, retention and faults do, PostgreSQL only sees
\* calls of PostgresRepository: all that is proved of it holds in the service.
THEOREM ServiceCallsStore == Spec => Repo!Spec
<1>1. Init => Repo!Init
    BY DEF Init
<1>2. Base /\ [Next]_vars => [Repo!Next]_Repo!repoVars
    BY CallsStore, SameStore DEF Store!repoVars, Repo!repoVars
<1> QED
    BY <1>1, <1>2, BaseInvariant, PTL DEF Spec, Repo!Spec

\* Redis only sees calls of RedisStreamsQueue.
THEOREM ServiceCallsQueue == Spec => Redis!Spec
<1>1. Init => Redis!Init
    BY DEF Init
<1>2. Base /\ [Next]_vars => [Redis!Next]_Redis!queueVars
    BY CallsQueue DEF Redis!queueVars
<1> QED
    BY <1>1, <1>2, BaseInvariant, PTL DEF Spec, Redis!Spec

-------------------------------------------------------------------------------
(* NoLostWakeup                                                            *)
(*                                                                         *)
(* A queued build loses its outbox row only to a transaction whose enqueue *)
(* was answered; so the invariant also says that the message of such a     *)
(* transaction is still there, unless the build has moved on.              *)

Wakeful(b) == \E e \in stream : e.build = b /\ ~AboutToSettle(e)

Promised(w, b) ==
    At(w, "commit") /\ worker[w].delivered /\ worker[w].of = b
        /\ worker[w].row = build[b].version
        => Wakeful(b)

WakeInv(b) ==
    build[b].status = "queued" =>
        /\ NewWakeup(b) \/ Wakeful(b)
        /\ \A w \in Workers : Promised(w, b)

\* Nobody starts to settle a message of a build that stays queued.
LEMMA SettlersWere ==
    ASSUME Base, [Next]_vars, NEW w \in Workers, worker'[w].pc \in {"ack", "deadletter"},
           NEW e \in stream, worker'[w].msg = e.id,
           build[e.build].status = "queued", build'[e.build] = build[e.build]
    PROVE  worker[w].pc \in {"ack", "deadletter"} /\ worker[w].msg = e.id
<1>0. worker \in [Workers -> WorkerRow] /\ e.id \in 1 .. Len(sent) /\ sent[e.id] = e.build
    BY StreamTypes DEF Base, WorkerFacts
<1>1. CASE worker' = worker
    BY <1>1
<1>2. ASSUME NEW v \in Workers, Turns(v)
      PROVE  worker[w].pc \in {"ack", "deadletter"} /\ worker[w].msg = e.id
  <2>1. PICK m : Turn(worker[v], m) /\ Shape(m) /\ worker' = [worker EXCEPT ![v] = m]
      BY <1>2 DEF Turns
  <2>2. CASE v # w
      BY <1>0, <2>1, <2>2
  <2>3. CASE v = w
    <3>1. m = worker'[w]
        BY <1>0, <2>1, <2>3
    <3>2. Declines(worker[w], m) \/ Concludes(worker[w], m) \/ Renews(worker[w], m)
        BY <2>1, <2>3, <3>1 DEF Turn, Free, Selects, Sends, Takes, Starts, Works, Working
    <3>3. CASE Declines(worker[w], m)
        BY <1>0, <3>1, <3>3 DEF Declines
    <3>4. CASE Concludes(worker[w], m)
        BY <1>0, <3>1, <3>4 DEF Concludes, SameJob
    <3>5. CASE Renews(worker[w], m)
        BY <3>1, <3>5 DEF Renews, SameJob
    <3> QED
        BY <3>2, <3>3, <3>4, <3>5
  <2> QED
      BY <2>2, <2>3
<1>3. UNCHANGED worker \/ \E v \in Workers : Turns(v)
    BY TurnsStep DEF Next, vars, ClientSubmits, ClientCancels, RetentionDeletes, Tick
<1> QED
    BY <1>1, <1>2, <1>3

\* Messages leave the stream only when they are settled.
LEMMA StaysUnlessSettled ==
    ASSUME Base, [Next]_vars, NEW e \in stream, ~AboutToSettle(e)
    PROVE  Stays(e)
<1>0. StreamFacts
    BY DEF Base
<1>1. ASSUME NEW w \in Workers, WorkerStep(w) \/ Heartbeat(w) \/ CallFails(w) \/ Crash(w)
      PROVE  Stays(e)
  <2>1. CASE At(w, "enqueue") /\ worker[w].of \in Builds /\ Redis!Enqueue(worker[w].of)
      BY <1>0, <2>1, EnqueueStep
  <2>2. CASE \E d \in stream : Redis!Claim(w, d)
      BY <1>0, <2>2, ClaimStep
  <2>3. CASE /\ worker[w].pc \in {"ack", "deadletter"}
             /\ Redis!Acknowledge(worker[w].msg) \/ Redis!DeadLetter(worker[w].msg)
      BY <1>0, <2>3, SettleStep DEF AboutToSettle
  <2>4. CASE UNCHANGED redisVars
      BY <1>0, <2>4, UnchangedStep DEF redisVars
  <2> QED
      BY <1>1, <2>1, <2>2, <2>3, <2>4, WorkerQueue
<1>2. ASSUME Outside PROVE Stays(e)
    BY <1>0, <1>2, OutsideQueue, AdvanceStep, UnchangedStep DEF redisVars
<1>3. CASE UNCHANGED vars
    BY <1>0, <1>3, UnchangedStep DEF vars, redisVars
<1> QED
    BY <1>1, <1>2, <1>3 DEF Next, Outside

LEMMA StaysWakeful ==
    ASSUME Base, [Next]_vars, NEW b \in Builds, build[b].status = "queued",
           build'[b] = build[b], Wakeful(b)
    PROVE  Wakeful(b)'
<1>1. PICK e \in stream : e.build = b /\ ~AboutToSettle(e)
    BY DEF Wakeful
<1>2. PICK d \in stream' : d.id = e.id /\ d.build = b
    BY <1>1, StaysUnlessSettled DEF Stays
<1>3. ~(\E w \in Workers : worker'[w].pc \in {"ack", "deadletter"} /\ worker'[w].msg = d.id)
    BY <1>1, <1>2, SettlersWere DEF AboutToSettle
<1> QED
    BY <1>2, <1>3 DEF Wakeful, AboutToSettle

\* The rows of a build that stays queued.
RowsKept(b) ==
    \A row \in outbox[b] : ~row.dispatched =>
        \E r \in outbox'[b] : r.version = row.version /\ ~r.dispatched

LEMMA MarkedRow ==
    ASSUME Base, NEW b \in Builds, NEW row \in outbox[b], NEW c \in Builds,
           Repo!MarkDispatched(b, row)
    PROVE  \A r \in outbox[c] : (c = b /\ r = row) \/ r \in outbox'[c]
BY DEF Repo!MarkDispatched, Base, Store!GuardInv, Store!StoreInv, Store!TypeOK

LEMMA RowsGrow ==
    ASSUME NEW b, outbox[b] \subseteq outbox'[b]
    PROVE  RowsKept(b)
BY DEF RowsKept

LEMMA WorkerRows ==
    ASSUME Base, NEW w \in Workers, WorkerStep(w) \/ Heartbeat(w) \/ CallFails(w) \/ Crash(w),
           NEW b \in Builds, build[b].status = "queued"
    PROVE  \/ RowsKept(b)
           \/ /\ At(w, "commit") /\ worker[w].delivered /\ worker[w].of = b
              /\ \A r \in outbox[b] : r.version = worker[w].row \/ r \in outbox'[b]
<1>0. outbox \in [Builds -> SUBSET Store!OutboxRow]
    BY DEF Base, Store!GuardInv, Store!StoreInv, Store!TypeOK
<1>1. CASE Recover(w)
  <2>1. outbox[b] \subseteq outbox'[b]
      BY <1>0, <1>1 DEF Recover, Repo!RecoverExpiredAttempts, repoVars
  <2> QED
      BY <2>1, RowsGrow
<1>2. CASE DispatchSkips(w)
  <2>1. PICK c \in Builds : \E row \in outbox[c] :
           build[c].status # "queued" /\ Repo!MarkDispatched(c, row)
      BY <1>2 DEF DispatchSkips
  <2>2. PICK row \in outbox[c] : Repo!MarkDispatched(c, row)
      BY <2>1
  <2>3. c # b
      BY <2>1
  <2>4. outbox[b] \subseteq outbox'[b]
      BY <2>2, <2>3, MarkedRow
  <2> QED
      BY <2>4, RowsGrow
<1>3. CASE DispatchCommits(w)
  <2>1. worker[w].of \in Builds /\ At(w, "commit")
      BY <1>3, RecordTyped DEF DispatchCommits, Dispatching, At
  <2>2. PICK row \in outbox[worker[w].of] : row.version = worker[w].row /\ CommitsRow(worker[w], row)
      BY <1>3 DEF DispatchCommits
  <2>3. CASE worker[w].delivered
    <3>1. Repo!MarkDispatched(worker[w].of, row)
        BY <2>2, <2>3 DEF CommitsRow
    <3>2. \A r \in outbox[b] : (b = worker[w].of /\ r = row) \/ r \in outbox'[b]
        BY <2>1, <3>1, MarkedRow
    <3>3. CASE b = worker[w].of
        BY <2>1, <2>2, <2>3, <3>2, <3>3
    <3>4. CASE b # worker[w].of
      <4>1. outbox[b] \subseteq outbox'[b]
          BY <3>2, <3>4
      <4> QED
          BY <4>1, RowsGrow
    <3> QED
        BY <3>3, <3>4
  <2>4. CASE ~worker[w].delivered
    <3> DEFINE new == [version |-> row.version, dispatched |-> FALSE, wait |-> RetryTicks]
    <3>1. /\ row \in outbox[worker[w].of]
          /\ outbox' = [outbox EXCEPT ![worker[w].of] = (@ \ {row}) \union {new}]
        BY <2>2, <2>4 DEF CommitsRow, Repo!DeferDispatch
    <3>2. new.version = row.version /\ ~new.dispatched
        OBVIOUS
    <3> HIDE DEF new
    <3>3. outbox'[b] = IF b = worker[w].of THEN (outbox[b] \ {row}) \union {new} ELSE outbox[b]
        BY <1>0, <2>1, <3>1
    <3>4. RowsKept(b)
        BY <3>2, <3>3 DEF RowsKept
    <3> QED
        BY <3>4
  <2> QED
      BY <2>3, <2>4
<1>4. CASE Complete(w)
  <2>1. outbox[b] \subseteq outbox'[b]
      BY <1>0, <1>4 DEF Complete, Repo!CompleteAttempt, repoVars
  <2> QED
      BY <2>1, RowsGrow
<1>5. CASE ~(Recover(w) \/ DispatchSkips(w) \/ DispatchCommits(w) \/ Complete(w))
  <2>1. outbox' = outbox
      BY <1>5 DEF WorkerStep, DispatchSelects, DispatchEnqueues, DispatchEnds, Claim, Lease, LaunchEnds,
         Upload, Publish, Settle, CallFails, Crash, Heartbeat, Repo!LeaseBuild,
         Repo!PublishAttemptSuccess, Repo!HeartbeatAttempt, repoVars
  <2> QED
      BY <2>1, RowsGrow
<1> QED
    BY <1>1, <1>2, <1>3, <1>4, <1>5

LEMMA OutsideRows ==
    ASSUME Base, Outside, NEW b \in Builds, build[b].status = "queued"
    PROVE  RowsKept(b)
<1>0. outbox \in [Builds -> SUBSET Store!OutboxRow]
    BY DEF Base, Store!GuardInv, Store!StoreInv, Store!TypeOK
<1>1. CASE ClientSubmits
  <2>1. outbox[b] \subseteq outbox'[b]
      BY <1>0, <1>1 DEF ClientSubmits, Repo!Submit
  <2> QED
      BY <2>1, RowsGrow
<1>2. CASE ClientCancels
  <2>1. outbox' = outbox
      BY <1>2 DEF ClientCancels, Repo!RequestCancel
  <2> QED
      BY <2>1, RowsGrow
<1>3. CASE RetentionDeletes
  <2>1. PICK c \in Builds : Repo!DeleteBuilds({c})
      BY <1>3 DEF RetentionDeletes
  <2>2. b # c
      BY <2>1 DEF Repo!DeleteBuilds, Repo!Terminal
  <2>3. outbox'[b] = outbox[b]
      BY <2>1, <2>2 DEF Repo!DeleteBuilds
  <2> QED
      BY <2>3, RowsGrow
<1>4. CASE Tick
  <2>1. outbox'[b] = {[version |-> row.version, dispatched |-> row.dispatched,
                       wait |-> Repo!Less(row.wait)] : row \in outbox[b]}
      BY <1>4 DEF Tick, Repo!Advance
  <2>2. ASSUME NEW row \in outbox[b]
        PROVE  \E r \in outbox'[b] : r.version = row.version /\ r.dispatched = row.dispatched
    <3> DEFINE r == [version |-> row.version, dispatched |-> row.dispatched,
                     wait |-> Repo!Less(row.wait)]
    <3>1. r \in outbox'[b]
        BY <2>1
    <3>2. r.version = row.version /\ r.dispatched = row.dispatched
        OBVIOUS
    <3> HIDE DEF r
    <3> QED
        BY <3>1, <3>2
  <2> QED
      BY <2>2 DEF RowsKept
<1> QED
    BY <1>1, <1>2, <1>3, <1>4 DEF Outside

\* An open transaction was open before, or was opened by this step's enqueue.
LEMMA CommitWas ==
    ASSUME Base, [Next]_vars, NEW w \in Workers, worker'[w].pc = "commit"
    PROVE  /\ Dispatching(w) /\ worker'[w].of = worker[w].of /\ worker'[w].row = worker[w].row
           /\ \/ worker' = worker
              \/ \E v \in Workers \ {w} : worker'[w] = worker[w] /\ Turns(v)
              \/ Sends(worker[w], worker'[w]) /\ Turns(w)
<1>0. worker \in [Workers -> WorkerRow]
    BY DEF Base, WorkerFacts
<1>1. CASE worker' = worker
    BY <1>1 DEF Dispatching
<1>2. ASSUME NEW v \in Workers, Turns(v), v # w
      PROVE  Dispatching(w) /\ worker'[w] = worker[w]
    BY <1>0, <1>2 DEF Turns, Dispatching
<1>3. ASSUME Turns(w)
      PROVE  Sends(worker[w], worker'[w])
  <2>1. PICK m : Turn(worker[w], m) /\ Shape(m) /\ worker' = [worker EXCEPT ![w] = m]
      BY <1>3 DEF Turns
  <2>2. m = worker'[w]
      BY <1>0, <2>1
  <2>3. m.pc \notin Working \union {"ack", "deadletter", "lease", "run", "enqueue"} /\ ~Free(m)
      BY <2>2 DEF Free, Working
  <2>4. m.within = "none"
      BY <2>1, <2>2 DEF Shape, Working
  <2>5. Sends(worker[w], m)
      BY <2>1, <2>3, <2>4 DEF Turn, Selects, Takes, Starts, Declines, Works, Concludes, Renews, SameJob
  <2> QED
      BY <2>2, <2>5
<1>4. UNCHANGED worker \/ \E v \in Workers : Turns(v)
    BY TurnsStep DEF Next, vars, ClientSubmits, ClientCancels, RetentionDeletes, Tick
<1>5. Sends(worker[w], worker'[w]) =>
         Dispatching(w) /\ worker'[w].of = worker[w].of /\ worker'[w].row = worker[w].row
    BY DEF Sends, Dispatching
<1> QED
    BY <1>1, <1>2, <1>3, <1>4, <1>5

\* A message that was just added is in nobody's hands.
LEMMA SentIsWakeful ==
    ASSUME Base, [Next]_vars, NEW w \in Workers, Turns(w), Sends(worker[w], worker'[w]),
           worker'[w].delivered
    PROVE  Wakeful(worker[w].of)'
<1>0. worker \in [Workers -> WorkerRow] /\ Len(sent) \in Nat
    BY StreamTypes DEF Base, WorkerFacts
<1>1. PICK e \in stream' : e.id = Len(sent) + 1 /\ e.build = worker[w].of
    BY DEF Sends
<1>2. worker'[w].pc = "commit" /\ worker'[w].of = worker[w].of
    BY DEF Sends
<1>3. ASSUME NEW v \in Workers, worker'[v].pc \in {"ack", "deadletter"}
      PROVE  worker'[v].msg # e.id
  <2>1. worker'[v] = worker[v]
      BY <1>0, <1>2, <1>3 DEF Turns
  <2>2. worker[v].msg <= Len(sent) /\ worker[v].msg \in Nat
      BY <1>0, RecordTyped DEF Held, WorkerRow
  <2> QED
      BY <1>0, <1>1, <2>1, <2>2
<1> QED
    BY <1>1, <1>2, <1>3 DEF Wakeful, AboutToSettle

LEMMA PromiseKept ==
    ASSUME Base, [Next]_vars, NEW b \in Builds, WakeInv(b), build'[b].status = "queued",
           NEW w \in Workers
    PROVE  Promised(w, b)'
<1> SUFFICES ASSUME worker'[w].pc = "commit", worker'[w].delivered, worker'[w].of = b,
                    worker'[w].row = build'[b].version
             PROVE  Wakeful(b)'
    BY DEF Promised, At
<1>1. Dispatching(w) /\ worker[w].of = b /\ worker[w].row = build'[b].version
    BY CommitWas
<1>2. worker[w].row <= build[b].version /\ worker[w].row \in Nat /\ build[b].version \in Nat
    BY <1>1, RecordTyped, BuildTyped DEF RowHeld, WorkerRow
<1>3. build'[b] = build[b]
    BY <1>1, <1>2, BuildMovesAlways DEF BuildMoves
<1>4. CASE Sends(worker[w], worker'[w]) /\ Turns(w)
    BY <1>1, <1>4, SentIsWakeful
<1>5. CASE worker'[w] = worker[w]
  <2>1. Wakeful(b)
      BY <1>1, <1>3, <1>5 DEF WakeInv, Promised, At
  <2> QED
      BY <1>3, <2>1, StaysWakeful
<1> QED
    BY <1>4, <1>5, CommitWas

LEMMA WakeKept ==
    ASSUME Base, [Next]_vars, NEW b \in Builds, WakeInv(b)
    PROVE  WakeInv(b)'
<1> SUFFICES ASSUME build'[b].status = "queued" PROVE (NewWakeup(b) \/ Wakeful(b))'
    BY PromiseKept DEF WakeInv
<1>1. CASE NewWakeup(b)'
    BY <1>1
<1>2. CASE build'[b] = build[b]
  <2>1. CASE Wakeful(b)
      BY <1>2, <2>1, StaysWakeful
  <2>2. CASE NewWakeup(b)
    <3>1. PICK row \in outbox[b] : row.version = build[b].version /\ ~row.dispatched
        BY <2>2 DEF NewWakeup
    <3>2. CASE RowsKept(b)
        BY <1>2, <3>1, <3>2 DEF RowsKept, NewWakeup
    <3>3. ASSUME NEW w \in Workers, At(w, "commit"), worker[w].delivered, worker[w].of = b,
                 \A r \in outbox[b] : r.version = worker[w].row \/ r \in outbox'[b]
          PROVE  (NewWakeup(b) \/ Wakeful(b))'
      <4>1. CASE row \in outbox'[b]
          BY <1>2, <3>1, <4>1 DEF NewWakeup
      <4>2. CASE row.version = worker[w].row
        <5>1. Wakeful(b)
            BY <1>2, <3>1, <3>3, <4>2 DEF WakeInv, Promised
        <5> QED
            BY <1>2, <5>1, StaysWakeful
      <4> QED
          BY <3>1, <3>3, <4>1, <4>2
    <3>4. CASE UNCHANGED vars
        BY <3>1, <3>4 DEF vars, repoVars, NewWakeup
    <3> QED
        BY <1>2, <3>2, <3>3, <3>4, WorkerRows, OutsideRows DEF Next, Outside
  <2> QED
      BY <1>2, <2>1, <2>2 DEF WakeInv
<1> QED
    BY <1>1, <1>2, BuildMovesAlways DEF BuildMoves

LEMMA WakeInitially == Init => \A b \in Builds : WakeInv(b)
<1>1. Init => \A b \in Builds : build[b] = Repo!Missing("absent")
    BY DEF Init, Repo!Init
<1>2. Repo!Missing("absent").status = "absent"
    BY DEF Repo!Missing
<1> QED
    BY <1>1, <1>2 DEF WakeInv

\* A queued build always has a wake-up: the row of its current version in the
\* outbox, or a message that no worker is about to settle, whatever replies
\* were lost, whichever workers died, and however late an acknowledgement is.
THEOREM NoWakeupIsLost == Spec => []NoLostWakeup
<1> DEFINE Inv == \A b \in Builds : WakeInv(b)
<1>1. Init => Inv
    BY WakeInitially
<1>2. Base /\ Inv /\ [Next]_vars => Inv'
    BY WakeKept
<1>3. Inv => NoLostWakeup
    BY DEF WakeInv, NewWakeup, Wakeful, NoLostWakeup
<1> QED
    BY <1>1, <1>2, <1>3, BaseInvariant, PTL DEF Spec

-------------------------------------------------------------------------------
(* DeadLettersEnded                                                        *)
(*                                                                         *)
(* A worker that is about to dead-letter a message knows that its build    *)
(* has been given up, and that is never taken back.                        *)

DeadInv ==
    /\ DeadTyped
    /\ \A i \in 1 .. Len(dead) : build[dead[i].build].status \in GivenUp
    /\ \A w \in Workers : At(w, "deadletter") => build[Mine(w)].status \in GivenUp

LEMMA DeadTypes ==
    ASSUME DeadTyped
    PROVE  /\ dead \in Seq(DeadEntry) /\ Len(dead) \in Nat
           /\ \A i \in 1 .. Len(dead) : dead[i].build \in Builds
<1>1. dead \in Seq(DeadEntry) /\ Len(dead) \in Nat
    BY DEF DeadTyped
<1>2. \A i \in 1 .. Len(dead) : dead[i] \in DeadEntry
    BY <1>1
<1>3. \A x \in DeadEntry : x.build \in Builds
    BY DEF DeadEntry
<1> QED
    BY <1>1, <1>2, <1>3

\* What the dead-letter stream holds after a step was there or comes from a
\* worker that dead-letters.
LEMMA DeadMoves ==
    ASSUME Base, DeadTyped, [Next]_vars
    PROVE  /\ DeadTyped'
           /\ \A i \in 1 .. Len(dead') :
                 \/ \E j \in 1 .. Len(dead) : dead'[i] = dead[j]
                 \/ \E w \in Workers : At(w, "deadletter") /\ dead'[i].build = Mine(w)
<1>1. CASE dead' = dead
    BY <1>1 DEF DeadTyped
<1>2. ASSUME NEW w \in Workers, At(w, "deadletter"), worker[w].msg \in 1 .. Len(sent),
             Redis!DeadLetter(worker[w].msg)
      PROVE  /\ DeadTyped'
             /\ \A i \in 1 .. Len(dead') :
                   \/ \E j \in 1 .. Len(dead) : dead'[i] = dead[j]
                   \/ dead'[i].build = Mine(w)
  <2> DEFINE id == worker[w].msg
             new == [build |-> sent[id], receipt |-> id]
             all == Append(dead, new)
  <2>1. CASE Redis!PendingEntry(id) = {}
      BY <2>1, <1>1, <1>2 DEF Redis!DeadLetter
  <2>2. CASE Redis!PendingEntry(id) # {}
    <3>1. dead' = Redis!Newest(all, DeadLimit)
        BY <1>2, <2>2 DEF Redis!DeadLetter, Redis!Newest
    <3>2. new \in DeadEntry /\ new.build = Mine(w)
      <4>1. id \in Redis!Receipts /\ sent[id] \in Builds
          BY <1>2, StreamTypes, StreamAssumed DEF Redis!Receipts, Base, Redis!QueueConstants
      <4> QED
          BY <4>1 DEF DeadEntry, Mine
    <3> HIDE DEF new
    <3>3. /\ all \in Seq(DeadEntry) /\ Len(all) = Len(dead) + 1
          /\ all[Len(dead) + 1] = new
          /\ \A j \in 1 .. Len(dead) : all[j] = dead[j]
        BY <3>2, DeadTypes
    <3> HIDE DEF all
    <3>4. DeadLimit \in Nat
        BY StreamAssumed DEF Redis!QueueConstants
    <3>5. /\ dead' \in Seq(DeadEntry) /\ Len(dead') <= DeadLimit
          /\ \E n \in Nat : /\ Len(dead') + n = Len(all)
                            /\ \A j \in 1 .. Len(dead') : dead'[j] = all[j + n]
      <4> DEFINE s == Redis!Newest(all, DeadLimit)
      <4>1. /\ s \in Seq(DeadEntry) /\ Len(s) <= DeadLimit
            /\ \E n \in Nat : /\ Len(s) + n = Len(all)
                              /\ \A j \in 1 .. Len(s) : s[j] = all[j + n]
          BY <3>3, <3>4, NewestSuffix
      <4> HIDE DEF s
      <4>2. dead' = s
          BY <3>1 DEF s
      <4> QED
          BY <4>1, <4>2
    <3>6. PICK n \in Nat : /\ Len(dead') + n = Len(all)
                           /\ \A j \in 1 .. Len(dead') : dead'[j] = all[j + n]
        BY <3>5
    <3>7. ASSUME NEW i \in 1 .. Len(dead')
          PROVE  \/ \E j \in 1 .. Len(dead) : dead'[i] = dead[j]
                 \/ dead'[i].build = Mine(w)
      <4>1. i + n \in 1 .. Len(dead) \/ i + n = Len(dead) + 1
        <5>1. Len(dead') \in Nat /\ Len(dead) \in Nat
            BY <3>5, DeadTypes
        <5> QED
            BY <3>3, <3>6, <5>1
      <4>2. dead'[i] = all[i + n]
          BY <3>6
      <4>3. CASE i + n \in 1 .. Len(dead)
          BY <3>3, <4>2, <4>3
      <4>4. CASE i + n = Len(dead) + 1
        <5>1. dead'[i] = new
            BY <3>3, <4>2, <4>4
        <5> QED
            BY <3>2, <5>1
      <4> QED
          BY <4>1, <4>3, <4>4
    <3> QED
        BY <3>5, <3>7 DEF DeadTyped
  <2> QED
      BY <2>1, <2>2
<1>3. \/ dead' = dead
      \/ \E w \in Workers : /\ At(w, "deadletter") /\ worker[w].msg \in 1 .. Len(sent)
                            /\ Redis!DeadLetter(worker[w].msg)
  <2>1. ASSUME NEW w \in Workers, WorkerStep(w) \/ Heartbeat(w) \/ CallFails(w) \/ Crash(w)
        PROVE  \/ dead' = dead
               \/ /\ At(w, "deadletter") /\ worker[w].msg \in 1 .. Len(sent)
                  /\ Redis!DeadLetter(worker[w].msg)
      BY <2>1, WorkerQueue DEF Redis!Enqueue, Redis!Claim, Redis!Acknowledge, redisVars
  <2>2. ASSUME Outside PROVE dead' = dead
      BY <2>2, OutsideQueue DEF Redis!Advance, redisVars
  <2>3. UNCHANGED vars => dead' = dead
      BY DEF vars, redisVars
  <2> QED
      BY <2>1, <2>2, <2>3 DEF Next, Outside
<1> QED
    BY <1>1, <1>2, <1>3

LEMMA GivenUpStays ==
    ASSUME Base, [Next]_vars, NEW b \in Builds, build[b].status \in GivenUp
    PROVE  build'[b].status \in GivenUp
BY BuildMovesAlways DEF BuildMoves

\* What a worker holds stays what it was.
LEMMA MineStays ==
    ASSUME Base, [Next]_vars, NEW w \in Workers, worker[w].pc \in Holding,
           worker'[w].msg = worker[w].msg
    PROVE  Mine(w)' = Mine(w) /\ Mine(w) \in Builds
<1>1. worker[w].msg \in 1 .. Len(sent) /\ Mine(w) \in Builds
    BY RecordTyped
<1>2. SentGrows
    BY StreamFactsKept
<1> QED
    BY <1>1, <1>2 DEF Mine, SentGrows

\* A step of the service is a turn of one worker, or leaves them all alone.
LEMMA OneTurn ==
    ASSUME Base, [Next]_vars
    PROVE  UNCHANGED worker \/ \E w \in Workers : Turns(w)
BY TurnsStep DEF Next, vars, ClientSubmits, ClientCancels, RetentionDeletes, Tick

LEMMA DeadletterWas ==
    ASSUME Base, DeadInv, [Next]_vars, NEW w \in Workers, worker'[w].pc = "deadletter"
    PROVE  build'[Mine(w)'].status \in GivenUp
<1>0. worker \in [Workers -> WorkerRow] /\ SentKnown
    BY DEF Base, WorkerFacts
<1>1. CASE worker'[w] = worker[w]
  <2>1. Mine(w)' = Mine(w) /\ Mine(w) \in Builds
      BY <1>1, MineStays DEF Holding
  <2> QED
      BY <1>1, <2>1, GivenUpStays DEF DeadInv, At
<1>2. ASSUME Turns(w) PROVE build'[Mine(w)'].status \in GivenUp
  <2>1. PICK m : Turn(worker[w], m) /\ Shape(m) /\ worker' = [worker EXCEPT ![w] = m]
      BY <1>2 DEF Turns
  <2>2. m = worker'[w]
      BY <1>0, <2>1
  <2>3. \/ Declines(worker[w], m) \/ Concludes(worker[w], m) \/ Renews(worker[w], m)
      BY <2>1, <2>2 DEF Turn, Free, Selects, Sends, Takes, Starts, Works, Working
  <2>4. worker[w].pc \in Holding /\ worker'[w].msg = worker[w].msg
      BY <2>2, <2>3, RecordTyped DEF Declines, Concludes, Renews, SameJob, Holding
  <2>5. Mine(w)' = Mine(w) /\ Mine(w) \in Builds /\ worker[w].msg \in 1 .. Len(sent)
      BY <2>4, MineStays, RecordTyped
  <2>6. CASE Declines(worker[w], m)
      BY <1>0, <2>2, <2>5, <2>6 DEF Declines, Mine, SentKnown, Store!NoRow, GivenUp
  <2>7. CASE Concludes(worker[w], m)
      BY <2>2, <2>5, <2>7 DEF Concludes, Mine, GivenUp
  <2>8. CASE Renews(worker[w], m)
      BY <2>2, <2>5, <2>8, GivenUpStays DEF Renews, DeadInv, At
  <2> QED
      BY <2>3, <2>6, <2>7, <2>8
<1>3. ASSUME NEW v \in Workers \ {w}, Turns(v) PROVE worker'[w] = worker[w]
    BY <1>0, <1>3 DEF Turns
<1> QED
    BY <1>1, <1>2, <1>3, OneTurn

LEMMA DeadKept ==
    ASSUME Base, DeadInv, [Next]_vars
    PROVE  DeadInv'
<1>1. ASSUME NEW i \in 1 .. Len(dead') PROVE build'[dead'[i].build].status \in GivenUp
  <2>1. CASE \E j \in 1 .. Len(dead) : dead'[i] = dead[j]
      BY <2>1, DeadTypes, GivenUpStays DEF DeadInv
  <2>2. ASSUME NEW w \in Workers, At(w, "deadletter"), dead'[i].build = Mine(w)
        PROVE  build'[dead'[i].build].status \in GivenUp
    <3>1. Mine(w) \in Builds
        BY <2>2, RecordTyped DEF At, Holding
    <3> QED
        BY <2>2, <3>1, GivenUpStays DEF DeadInv
  <2> QED
      BY <1>1, <2>1, <2>2, DeadMoves DEF DeadInv
<1>2. DeadTyped'
    BY DeadMoves DEF DeadInv
<1> QED
    BY <1>1, <1>2, DeadletterWas DEF DeadInv, At

LEMMA DeadInitially == Init => DeadInv
<1> SUFFICES ASSUME Init PROVE DeadInv
    OBVIOUS
<1>1. dead = <<>> /\ worker = [w \in Workers |-> Idle]
    BY DEF Init, Redis!Init
<1>2. DeadTyped
    BY <1>1, StreamAssumed DEF DeadTyped, Redis!QueueConstants
<1> QED
    BY <1>1, <1>2, IdleFields, IdleShape DEF DeadInv, At, Free

\* Only messages of builds that ended unsuccessfully, or were deleted since,
\* reach the dead-letter stream: no build that could still run loses its
\* message there.
THEOREM DeadLettersHaveEnded == Spec => []DeadLettersEnded
<1>1. Init => DeadInv
    BY DeadInitially
<1>2. Base /\ DeadInv /\ [Next]_vars => DeadInv'
    BY DeadKept
<1>3. DeadInv => DeadLettersEnded
    BY DEF DeadInv, DeadLettersEnded, GivenUp, Repo!NoRow
<1> QED
    BY <1>1, <1>2, <1>3, BaseInvariant, PTL DEF Spec

-------------------------------------------------------------------------------
(* PublishedIsStored and OwnAttempt *)

Files(k) == {k} \X Artifacts

StoredInv ==
    /\ stored \in [Builds -> SUBSET ((1 .. MaxAttempts) \X Artifacts)]
    /\ PublishedIsStored

\* The object store only grows, by the next artifact of an upload.
StoredMoves(w) ==
    \/ stored' = stored
    \/ /\ At(w, "upload")
       /\ \E a \in Artifacts :
             /\ NextArtifact(w, a)
             /\ stored' = [stored EXCEPT ![Mine(w)] = @ \union {<<Number(w), a>>}]

\* Artifact rows appear when a worker publishes, and are what it uploaded.
PublishesAt(w, b) ==
    /\ At(w, "publish") /\ b = Mine(w)
    /\ artifact'[b] = Files(Number(w)) /\ artifact'[b] \subseteq stored[b]

LEMMA WorkerArtifacts ==
    ASSUME Base, NEW w \in Workers, WorkerStep(w) \/ Heartbeat(w) \/ CallFails(w) \/ Crash(w)
    PROVE  /\ StoredMoves(w)
           /\ artifact' = artifact \/ stored' = stored
           /\ \A b \in Builds : artifact'[b] = artifact[b] \/ PublishesAt(w, b)
<1>0. artifact \in [Builds -> SUBSET (Store!Numbers \X Artifacts)]
    BY DEF Base, Store!GuardInv, Store!StoreInv, Store!TypeOK
<1>1. CASE Upload(w)
  <2>1. StoredMoves(w)
      BY <1>1, Zenon DEF Upload, StoredMoves
  <2> QED
      BY <1>1, <2>1 DEF Upload, repoVars
<1>2. CASE Publish(w)
  <2>1. stored' = stored
      BY <1>2 DEF Publish
  <2>2. CASE UNCHANGED repoVars
      BY <2>1, <2>2 DEF repoVars, StoredMoves
  <2>3. CASE Repo!PublishAttemptSuccess(Mine(w), Number(w), w, Uploaded(w))
    <3>1. /\ artifact' = [artifact EXCEPT ![Mine(w)] = Uploaded(w)]
          /\ Uploaded(w) = Files(Number(w))
        BY <2>3 DEF Repo!PublishAttemptSuccess, Repo!CanPublish, Files
    <3>2. Uploaded(w) \subseteq stored[Mine(w)] /\ At(w, "publish")
        BY <1>2 DEF Uploaded, Publish
    <3>3. \A b \in Builds : artifact'[b] = artifact[b] \/ PublishesAt(w, b)
        BY <1>0, <3>1, <3>2 DEF PublishesAt
    <3> QED
        BY <2>1, <3>3 DEF StoredMoves
  <2> QED
      BY <1>2, <2>2, <2>3 DEF Publish
<1>3. CASE ~Upload(w) /\ ~Publish(w)
  <2>1. stored' = stored
      BY <1>3 DEF WorkerStep, Recover, DispatchSkips, DispatchSelects, DispatchEnqueues,
         DispatchCommits, DispatchEnds, Claim, Lease, LaunchEnds, Complete, Settle, CallFails,
         Crash, Heartbeat
  <2>2. artifact' = artifact
      BY <1>3 DEF WorkerStep, Recover, DispatchSkips, DispatchSelects, DispatchEnqueues,
         DispatchCommits, DispatchEnds, Claim, Lease, LaunchEnds, Complete, Settle, CallFails,
         Crash, Heartbeat, CommitsRow, repoVars, Repo!RecoverExpiredAttempts,
         Repo!MarkDispatched, Repo!DeferDispatch, Repo!LeaseBuild, Repo!CompleteAttempt,
         Repo!HeartbeatAttempt
  <2> QED
      BY <2>1, <2>2 DEF StoredMoves
<1> QED
    BY <1>1, <1>2, <1>3

LEMMA OutsideArtifacts ==
    ASSUME Base, Outside
    PROVE  /\ stored' = stored
           /\ \A b \in Builds : artifact'[b] \subseteq artifact[b]
<1>1. stored' = stored
    BY DEF Outside, ClientSubmits, ClientCancels, RetentionDeletes, Tick
<1>2. CASE RetentionDeletes
    BY <1>1, <1>2 DEF RetentionDeletes, Repo!DeleteBuilds
<1>3. CASE ~RetentionDeletes
  <2>1. artifact' = artifact
      BY <1>3 DEF Outside, ClientSubmits, ClientCancels, Tick, Repo!Submit, Repo!RequestCancel,
         Repo!Advance
  <2> QED
      BY <1>1, <2>1
<1> QED
    BY <1>2, <1>3

LEMMA StoredKept ==
    ASSUME Base, StoredInv, [Next]_vars
    PROVE  StoredInv'
<1>0. /\ stored \in [Builds -> SUBSET ((1 .. MaxAttempts) \X Artifacts)]
      /\ \A b \in Builds : artifact[b] \subseteq stored[b]
      /\ \A b \in Builds : \A k \in 1 .. MaxAttempts :
            <<k, Manifest>> \in stored[b] => Files(k) \subseteq stored[b]
    BY DEF StoredInv, PublishedIsStored, Files
<1>1. CASE stored' = stored /\ \A b \in Builds : artifact'[b] \subseteq stored[b]
    BY <1>0, <1>1 DEF StoredInv, PublishedIsStored
<1>2. ASSUME NEW w \in Workers, artifact' = artifact, StoredMoves(w), stored' # stored
      PROVE  StoredInv'
  <2>0. Mine(w) \in Builds /\ Number(w) \in 1 .. MaxAttempts /\ At(w, "upload")
      BY <1>2, RecordTyped DEF StoredMoves, At, Holding, Working, Shape
  <2>1. PICK a \in Artifacts :
           /\ NextArtifact(w, a)
           /\ stored' = [stored EXCEPT ![Mine(w)] = @ \union {<<Number(w), a>>}]
      BY <1>2 DEF StoredMoves
  <2>2. \A b \in Builds : stored'[b] = IF b = Mine(w) THEN stored[b] \union {<<Number(w), a>>}
                                       ELSE stored[b]
      BY <1>0, <2>1
  <2>3. stored' \in [Builds -> SUBSET ((1 .. MaxAttempts) \X Artifacts)]
      BY <1>0, <2>0, <2>1
  <2>4. \A b \in Builds : artifact'[b] \subseteq stored'[b]
      BY <1>0, <1>2, <2>2
  <2>5. ASSUME NEW b \in Builds, NEW k \in 1 .. MaxAttempts, <<k, Manifest>> \in stored'[b]
        PROVE  {k} \X Artifacts \subseteq stored'[b]
    <3>1. CASE <<k, Manifest>> \in stored[b]
        BY <1>0, <2>2, <3>1 DEF Files
    <3>2. CASE <<k, Manifest>> \notin stored[b]
      <4>0. b = Mine(w) /\ <<k, Manifest>> \in stored[b] \union {<<Number(w), a>>}
          BY <2>2, <2>5, <3>2
      <4>1. b = Mine(w) /\ k = Number(w) /\ a = Manifest
        <5>1. <<k, Manifest>> = <<Number(w), a>>
            BY <3>2, <4>0
        <5> QED
            BY <4>0, <5>1
      <4>2. \A x \in Artifacts \ {Manifest} : <<k, x>> \in stored[b]
          BY <2>1, <4>1 DEF NextArtifact, Uploaded
      <4>3. \A x \in Artifacts : <<k, x>> \in stored'[b]
          BY <2>2, <2>5, <4>1, <4>2
      <4> QED
          BY <4>3
    <3> QED
        BY <3>1, <3>2
  <2> QED
      BY <2>3, <2>4, <2>5 DEF StoredInv, PublishedIsStored
<1>3. ASSUME NEW w \in Workers, WorkerStep(w) \/ Heartbeat(w) \/ CallFails(w) \/ Crash(w)
      PROVE  StoredInv'
  <2>1. CASE stored' = stored
    <3>1. \A b \in Builds : artifact'[b] \subseteq stored[b]
        BY <1>0, <1>3, WorkerArtifacts DEF PublishesAt
    <3> QED
        BY <1>1, <2>1, <3>1
  <2>2. CASE stored' # stored
      BY <1>2, <1>3, <2>2, WorkerArtifacts
  <2> QED
      BY <2>1, <2>2
<1>4. ASSUME Outside PROVE StoredInv'
    BY <1>0, <1>1, <1>4, OutsideArtifacts
<1>5. CASE UNCHANGED vars
    BY <1>0, <1>1, <1>5 DEF vars, repoVars
<1> QED
    BY <1>3, <1>4, <1>5 DEF Next, Outside

LEMMA StoredInitially == Init => StoredInv
BY DEF Init, Repo!Init, StoredInv, PublishedIsStored

\* Every artifact row points to a stored object, and a manifest is stored only
\* together with all that it lists.
THEOREM PublishedIsAlwaysStored == Spec => []PublishedIsStored
<1>1. Init => StoredInv
    BY StoredInitially
<1>2. Base /\ StoredInv /\ [Next]_vars => StoredInv'
    BY StoredKept
<1>3. StoredInv => PublishedIsStored
    BY DEF StoredInv
<1> QED
    BY <1>1, <1>2, <1>3, BaseInvariant, PTL DEF Spec

\* An attempt that a worker runs was started, unless its build was deleted
\* since, and has published nothing while it runs or uploads.
Owns(w) ==
    worker[w].within # "none" =>
        /\ build[Mine(w)].status = "deleted" \/ attempt[Mine(w)][Number(w)].status # "none"
        /\ worker[w].pc \in {"run", "upload"} =>
              artifact[Mine(w)] \intersect Files(Number(w)) = {}

Apart(v, w) ==
    worker[v].within # "none" /\ worker[w].within # "none" /\ Mine(v) = Mine(w)
        => Number(v) # Number(w)

OwnInv ==
    /\ \A w \in Workers : Owns(w)
    /\ \A v, w \in Workers : v # w => Apart(v, w)

\* A worker that runs an attempt after a step ran it before, or just leased it.
LEMMA WithinWas ==
    ASSUME Base, [Next]_vars, NEW w \in Workers, Turns(w), worker'[w].within # "none"
    PROVE  /\ Mine(w)' = Mine(w) /\ Mine(w) \in Builds
           /\ \/ /\ worker[w].within # "none" /\ Number(w)' = Number(w)
                 /\ worker'[w].pc \in {"run", "upload"} => worker[w].pc \in {"run", "upload"}
              \/ Starts(worker[w], worker'[w])
<1>0. worker \in [Workers -> WorkerRow]
    BY DEF Base, WorkerFacts
<1>1. PICK m : Turn(worker[w], m) /\ Shape(m) /\ worker' = [worker EXCEPT ![w] = m]
    BY DEF Turns
<1>2. m = worker'[w]
    BY <1>0, <1>1
<1>3. \/ Starts(worker[w], m)
      \/ Works(worker[w], m) \/ Concludes(worker[w], m) \/ Renews(worker[w], m)
    BY <1>1, <1>2 DEF Turn, Free, Selects, Sends, Takes, Declines
<1>4. worker[w].pc \in Holding /\ worker'[w].msg = worker[w].msg
    BY <1>2, <1>3, RecordTyped DEF Starts, Works, Concludes, Renews, SameJob, Holding
<1>5. Mine(w)' = Mine(w) /\ Mine(w) \in Builds
    BY <1>4, MineStays
<1>6. ASSUME Works(worker[w], m) \/ Concludes(worker[w], m) \/ Renews(worker[w], m)
      PROVE  /\ worker[w].within # "none" /\ Number(w)' = Number(w)
             /\ m.pc \in {"run", "upload"} => worker[w].pc \in {"run", "upload"}
    BY <1>2, <1>6 DEF Works, Concludes, Renews, SameJob, Number
<1> QED
    BY <1>2, <1>3, <1>5, <1>6

LEMMA NothingPublished ==
    ASSUME Base, NEW b \in Builds, build[b].status # "succeeded"
    PROVE  artifact[b] = {}
BY DEF Base, Store!GuardInv, Store!StoreInv, Store!BuildInv, Store!WholeSet

\* What another worker's attempt, or one that goes on, keeps.
LEMMA OwnsStays ==
    ASSUME Base, [Next]_vars, NEW w \in Workers, Owns(w),
           worker[w].within # "none", Mine(w)' = Mine(w), Mine(w) \in Builds,
           Number(w)' = Number(w),
           worker'[w].pc \in {"run", "upload"} => worker[w].pc \in {"run", "upload"},
           worker'[w].pc \in {"run", "upload"} =>
               artifact'[Mine(w)] \intersect Files(Number(w)) \subseteq artifact[Mine(w)]
    PROVE  Owns(w)'
<1> DEFINE b == Mine(w)
           k == Number(w)
<1>1. k \in 1 .. MaxAttempts /\ BuildMoves(b)
    BY RecordTyped, BuildMovesAlways
<1>2. build'[b].status = "deleted" \/ attempt'[b][k].status # "none"
    BY <1>1 DEF Owns, BuildMoves
<1>3. worker'[w].pc \in {"run", "upload"} => artifact'[b] \intersect Files(k) = {}
    BY DEF Owns
<1> HIDE DEF b, k
<1>4. Files(Number(w))' = Files(Number(w)')
    BY DEF Files
<1> QED
    BY <1>2, <1>3, <1>4 DEF Owns, b, k, Files

LEMMA OwnTurn ==
    ASSUME Base, OwnInv, [Next]_vars, NEW w \in Workers, Turns(w),
           \A b \in Builds : artifact'[b] = artifact[b] \/ PublishesAt(w, b)
    PROVE  OwnInv'
<1>0. worker \in [Workers -> WorkerRow] /\ \A v \in Workers \ {w} : worker'[v] = worker[v]
    BY DEF Base, WorkerFacts, Turns
<1>1. ASSUME NEW v \in Workers, v # w, worker'[v].within # "none"
      PROVE  /\ worker[v].within # "none" /\ Mine(v)' = Mine(v) /\ Mine(v) \in Builds
             /\ Number(v)' = Number(v) /\ worker'[v].pc = worker[v].pc
  <2>1. worker'[v] = worker[v] /\ worker[v].pc \in Holding
      BY <1>0, <1>1, RecordTyped
  <2> QED
      BY <1>1, <2>1, MineStays DEF Number
<1>2. ASSUME NEW v \in Workers, v # w PROVE Owns(v)'
  <2>1. CASE worker'[v].within = "none"
      BY <2>1 DEF Owns
  <2>2. CASE worker'[v].within # "none"
    <3>1. /\ worker[v].within # "none" /\ Mine(v)' = Mine(v) /\ Mine(v) \in Builds
          /\ Number(v)' = Number(v) /\ worker'[v].pc = worker[v].pc /\ Owns(v)
        BY <1>1, <1>2, <2>2 DEF OwnInv
    <3>2. artifact'[Mine(v)] \intersect Files(Number(v)) \subseteq artifact[Mine(v)]
      <4>1. CASE PublishesAt(w, Mine(v))
        <5>1. Mine(w) = Mine(v) /\ worker[w].within # "none"
            BY <4>1, RecordTyped DEF PublishesAt, At, Shape, Working
        <5>2. Number(w) # Number(v)
            BY <1>2, <3>1, <5>1 DEF OwnInv, Apart
        <5> QED
            BY <4>1, <5>2 DEF PublishesAt, Files
      <4> QED
          BY <3>1, <4>1
    <3> QED
        BY <3>1, <3>2, OwnsStays
  <2> QED
      BY <2>1, <2>2
<1>3. CASE worker'[w].within = "none"
  <2>1. Owns(w)' /\ \A v \in Workers : v # w => Apart(v, w)' /\ Apart(w, v)'
      BY <1>3 DEF Owns, Apart
  <2>2. ASSUME NEW u \in Workers, NEW v \in Workers, u # v, u # w, v # w PROVE Apart(u, v)'
      BY <1>1, <2>2 DEF Apart, OwnInv
  <2> QED
      BY <1>2, <2>1, <2>2 DEF OwnInv
<1>4. ASSUME worker'[w].within # "none", worker[w].within # "none", Number(w)' = Number(w),
             worker'[w].pc \in {"run", "upload"} => worker[w].pc \in {"run", "upload"}
      PROVE  OwnInv'
  <2>1. Mine(w)' = Mine(w) /\ Mine(w) \in Builds
      BY <1>4, WithinWas
  <2>2. worker[w].pc \in {"run", "upload"} => artifact'[Mine(w)] = artifact[Mine(w)]
      BY <2>1 DEF PublishesAt, At
  <2>3. Owns(w)'
      BY <1>4, <2>1, <2>2, OwnsStays DEF OwnInv
  <2>4. ASSUME NEW u \in Workers, NEW v \in Workers, u # v PROVE Apart(u, v)'
      BY <1>1, <1>4, <2>1, <2>4 DEF Apart, OwnInv
  <2> QED
      BY <1>2, <2>3, <2>4 DEF OwnInv
<1>5. CASE worker'[w].within # "none" /\ Starts(worker[w], worker'[w])
  <2>1. Mine(w)' = Mine(w) /\ Mine(w) \in Builds
      BY <1>5, WithinWas
  <2>2. /\ build[Mine(w)].status = "queued" /\ worker[w].pc = "lease"
        /\ attempt[Mine(w)][Number(w)'].status = "none"
        /\ attempt'[Mine(w)][Number(w)'].status # "none"
      BY <1>5 DEF Starts, Mine, Number
  <2>3. artifact'[Mine(w)] = {}
      BY <2>1, <2>2, NothingPublished DEF PublishesAt, At
  <2>4. Owns(w)'
      BY <2>1, <2>2, <2>3 DEF Owns, Files
  <2>5. ASSUME NEW v \in Workers, v # w, worker'[v].within # "none", Mine(v)' = Mine(w)'
        PROVE  Number(v)' # Number(w)'
    <3>1. /\ worker[v].within # "none" /\ Mine(v) = Mine(w) /\ Number(v)' = Number(v)
          /\ Owns(v)
        BY <1>1, <2>1, <2>5 DEF OwnInv
    <3>2. attempt[Mine(w)][Number(v)].status # "none"
        BY <2>2, <3>1 DEF Owns
    <3> QED
        BY <2>2, <3>1, <3>2
  <2>6. ASSUME NEW u \in Workers, NEW v \in Workers, u # v PROVE Apart(u, v)'
    <3>1. CASE u # w /\ v # w
        BY <1>1, <2>6, <3>1 DEF Apart, OwnInv
    <3>2. CASE u = w \/ v = w
        BY <2>5, <2>6, <3>2 DEF Apart
    <3> QED
        BY <3>1, <3>2
  <2> QED
      BY <1>2, <2>4, <2>6 DEF OwnInv
<1> QED
    BY <1>3, <1>4, <1>5, WithinWas

LEMMA OwnRest ==
    ASSUME Base, OwnInv, [Next]_vars, UNCHANGED worker,
           \A b \in Builds : artifact'[b] \subseteq artifact[b]
    PROVE  OwnInv'
<1>1. ASSUME NEW v \in Workers, worker'[v].within # "none"
      PROVE  /\ worker[v].within # "none" /\ Mine(v)' = Mine(v) /\ Mine(v) \in Builds
             /\ Number(v)' = Number(v) /\ worker'[v].pc = worker[v].pc
    BY <1>1, RecordTyped, MineStays DEF Number
<1>2. ASSUME NEW v \in Workers PROVE Owns(v)'
  <2>1. CASE worker'[v].within = "none"
      BY <2>1 DEF Owns
  <2>2. CASE worker'[v].within # "none"
      BY <1>1, <2>2, OwnsStays DEF OwnInv
  <2> QED
      BY <2>1, <2>2
<1>3. ASSUME NEW u \in Workers, NEW v \in Workers, u # v PROVE Apart(u, v)'
    BY <1>1, <1>3 DEF Apart, OwnInv
<1> QED
    BY <1>2, <1>3 DEF OwnInv

LEMMA OwnKept ==
    ASSUME Base, OwnInv, [Next]_vars
    PROVE  OwnInv'
<1>1. ASSUME NEW w \in Workers, WorkerStep(w) \/ Heartbeat(w) \/ CallFails(w) \/ Crash(w)
      PROVE  OwnInv'
    BY <1>1, TurnsStep, WorkerArtifacts, OwnTurn
<1>2. ASSUME Outside PROVE OwnInv'
  <2>1. UNCHANGED worker
      BY <1>2 DEF Outside, ClientSubmits, ClientCancels, RetentionDeletes, Tick
  <2> QED
      BY <1>2, <2>1, OutsideArtifacts, OwnRest
<1>3. CASE UNCHANGED vars
    BY <1>3, OwnRest DEF vars, repoVars
<1> QED
    BY <1>1, <1>2, <1>3 DEF Next, Outside

LEMMA OwnInitially == Init => OwnInv
BY IdleFields DEF Init, OwnInv, Owns, Apart

\* Workers never run the same attempt, also not with a lease that was lost, and
\* an upload never touches an object that was published.
THEOREM AttemptsAreOwned == Spec => []OwnAttempt
<1>1. Init => OwnInv
    BY OwnInitially
<1>2. Base /\ OwnInv /\ [Next]_vars => OwnInv'
    BY OwnKept
<1>3. OwnInv => OwnAttempt
    BY DEF OwnInv, Owns, Apart, OwnAttempt, At, Files
<1> QED
    BY <1>1, <1>2, <1>3, BaseInvariant, PTL DEF Spec

-------------------------------------------------------------------------------
(* ReconstructionSuffices                                                  *)
(*                                                                         *)
(* With a Redis that loses data a queued build may be without a wake-up,   *)
(* but only after a loss, and not once a reconstruction that no loss has   *)
(* overtaken either passed the build over, because it was not queued, or   *)
(* has enqueued it.                                                        *)

Excused(b) ==
    lost /\ ~(operator.pc = "enqueue" /\ operator.current /\ b \notin operator.ids)

OperatorFacts ==
    /\ operator \in [pc : {"idle", "enqueue"}, ids : SUBSET Builds, current : BOOLEAN]
    /\ \A b \in operator.ids : build[b].status # "absent"

RecoveryInv ==
    /\ Base
    /\ OperatorFacts
    /\ \A b \in Builds : Excused(b) \/ WakeInv(b)

\* A call that raises, and leaves PostgreSQL and Redis alone.
LEMMA RaisingKeeps ==
    ASSUME Base, NEW w \in Workers, Becomes(w, Raised(worker[w])),
           UNCHANGED repoVars, UNCHANGED redisVars
    PROVE  Base' /\ \A b \in Builds : WakeInv(b) => WakeInv(b)'
<1> DEFINE m == Raised(worker[w])
<1>0. /\ worker \in [Workers -> WorkerRow] /\ Shape(worker[w]) /\ Held(w)
      /\ worker' = [worker EXCEPT ![w] = m]
    BY DEF Base, WorkerFacts, Becomes
<1>1. /\ Shape(m) /\ m.pc \notin {"ack", "deadletter", "enqueue", "commit"}
      /\ m.msg \in {0, worker[w].msg}
  <2>1. Free(m) => m.msg \in {0, worker[w].msg}
      BY DEF Raised, Free, Completing, Idle
  <2> HIDE DEF m
  <2>2. /\ Shape(m)
        /\ Free(m) \/ (m.pc = "complete" /\ m.msg = worker[w].msg)
      BY <1>0, RaisedShape DEF m
  <2> QED
      BY <2>1, <2>2 DEF Free
<1> HIDE DEF m
<1>2. \A v \in Workers : worker'[v] = IF v = w THEN m ELSE worker[v]
    BY <1>0
<1>3. /\ build' = build /\ outbox' = outbox /\ stream' = stream /\ sent' = sent
    BY DEF repoVars, redisVars
<1>4. Store!GuardInv'
  <2>1. UNCHANGED Store!repoVars
      BY DEF repoVars, Store!repoVars
  <2> QED
      BY <2>1, StoreAssumed, Store!GuardInductive DEF Base
<1>5. StreamFacts'
    BY <1>3 DEF Base, StreamFacts, StreamTyped, SentTyped, Issued
<1>6. ASSUME NEW v \in Workers PROVE (Shape(worker[v]) /\ Held(v) /\ RowHeld(v))'
  <2>1. CASE v = w
      BY <1>0, <1>1, <1>2, <1>3, <2>1, StreamTypes DEF Held, RowHeld, Dispatching, Base
  <2>2. CASE v # w
      BY <1>2, <1>3, <2>2 DEF Base, WorkerFacts, Held, RowHeld, Dispatching
  <2> QED
      BY <2>1, <2>2
<1>7. WorkerFacts'
    BY <1>0, <1>1, <1>3, <1>6 DEF Base, WorkerFacts, SentKnown, Shape
<1>8. ASSUME NEW b \in Builds, Wakeful(b) PROVE Wakeful(b)'
    BY <1>1, <1>2, <1>3, <1>8 DEF Wakeful, AboutToSettle
<1>9. ASSUME NEW b \in Builds, WakeInv(b) PROVE WakeInv(b)'
  <2>1. NewWakeup(b) => NewWakeup(b)'
      BY <1>3 DEF NewWakeup
  <2>2. \A v \in Workers : Promised(v, b) => Promised(v, b)'
      BY <1>1, <1>2, <1>3, <1>8 DEF Promised, At
  <2> QED
      BY <1>3, <1>8, <1>9, <2>1, <2>2 DEF WakeInv
<1> QED
    BY <1>4, <1>5, <1>7, <1>9 DEF Base

\* What happens in Redis alone: receipts stay as they were issued.
LEMMA RedisAlone ==
    ASSUME Base, StreamFacts', SentGrows, UNCHANGED repoVars, UNCHANGED worker,
           \A i \in 1 .. Len(sent') : i > Len(sent) => build[sent'[i]].status # "absent"
    PROVE  Base'
<1>0. Len(sent) \in Nat /\ Len(sent') \in Nat /\ Len(sent) <= Len(sent')
    BY DEF Base, StreamFacts, SentTyped, SentGrows
<1>1. Store!GuardInv'
  <2>1. UNCHANGED Store!repoVars
      BY DEF repoVars, Store!repoVars
  <2> QED
      BY <2>1, StoreAssumed, Store!GuardInductive DEF Base
<1>2. build' = build
    BY DEF repoVars
<1>3. SentKnown'
  <2>1. ASSUME NEW i \in 1 .. Len(sent') PROVE build[sent'[i]].status # "absent"
    <3>1. CASE i <= Len(sent)
        BY <1>0, <3>1 DEF Base, WorkerFacts, SentKnown, SentGrows
    <3>2. CASE i > Len(sent)
        BY <3>2
    <3> QED
        BY <1>0, <3>1, <3>2
  <2> QED
      BY <1>2, <2>1 DEF SentKnown
<1>4. ASSUME NEW w \in Workers PROVE (Shape(worker[w]) /\ Held(w) /\ RowHeld(w))'
  <2>1. worker[w].msg \in Nat
      BY DEF Base, WorkerFacts, WorkerRow
  <2> QED
      BY <1>0, <1>2, <2>1 DEF Base, WorkerFacts, Held, RowHeld, Dispatching
<1> QED
    BY <1>1, <1>3, <1>4 DEF Base, WorkerFacts

LEMMA LosingKeeps ==
    ASSUME RecoveryInv, LoseEverything \/ LoseEnqueue \/ LoseSettling
    PROVE  RecoveryInv'
<1>1. /\ lost' = TRUE /\ operator' = [operator EXCEPT !.current = (operator.pc = "idle")]
      /\ UNCHANGED repoVars /\ UNCHANGED worker /\ sent' = sent
    BY DEF LoseEverything, LoseEnqueue, LoseSettling, Lose
<1>2. /\ operator \in [pc : {"idle", "enqueue"}, ids : SUBSET Builds, current : BOOLEAN]
      /\ Base /\ build' = build
    BY <1>1 DEF RecoveryInv, OperatorFacts, repoVars
<1>3. /\ operator' \in [pc : {"idle", "enqueue"}, ids : SUBSET Builds, current : BOOLEAN]
      /\ operator'.pc = operator.pc /\ operator'.ids = operator.ids
      /\ operator'.current => operator'.pc = "idle"
    BY <1>1, <1>2
<1>4. \A b \in Builds : Excused(b)'
    BY <1>1, <1>3 DEF Excused
<1>5. ASSUME NEW e \in stream'
      PROVE  e \in Redis!Entry /\ e.id <= Len(sent) /\ sent[e.id] = e.build
  <2>1. CASE e \in stream
      BY <1>2, <2>1, StreamTypes DEF Base
  <2>2. CASE e \notin stream
    <3>1. PICK id \in 1 .. Len(sent), w \in Workers :
             e = [id |-> id, build |-> sent[id], owner |-> w, idle |-> 0]
        BY <1>5, <2>2 DEF LoseEverything, LoseEnqueue, LoseSettling
    <3>2. id \in Redis!Receipts /\ sent[id] \in Builds /\ 0 \in 0 .. StaleTicks
        BY <1>2, StreamTypes, StreamAssumed DEF Base, Redis!Receipts, Redis!QueueConstants
    <3>3. e \in Redis!Entry
        BY <3>1, <3>2 DEF Redis!Entry
    <3> QED
        BY <1>2, <3>1, <3>3, StreamTypes DEF Base
  <2> QED
      BY <2>1, <2>2
<1>6. StreamFacts'
    BY <1>1, <1>2, <1>5 DEF Base, StreamFacts, StreamTyped, SentTyped,
       Issued
<1>7. Base'
    BY <1>1, <1>2, <1>6, RedisAlone, StreamTypes DEF Base, SentGrows
<1> QED
    BY <1>2, <1>3, <1>4, <1>7 DEF RecoveryInv, OperatorFacts

\* A step that leaves the operator alone.
LEMMA ServiceKeeps ==
    ASSUME RecoveryInv, UNCHANGED <<lost, operator>>,
           \/ [Next]_vars
           \/ \E w \in Workers : GroupMissing(w)
    PROVE  RecoveryInv'
<1>0. Base /\ \A b \in operator.ids : b \in Builds /\ build[b].status # "absent"
    BY DEF RecoveryInv, OperatorFacts
<1>1. /\ Base'
      /\ \A b \in Builds : WakeInv(b) => WakeInv(b)'
      /\ \A b \in operator.ids : build'[b].status # "absent"
  <2>1. CASE [Next]_vars
    <3>1. \A b \in operator.ids : build'[b].status # "absent"
        BY <1>0, <2>1, BuildMovesAlways DEF BuildMoves
    <3> QED
        BY <1>0, <2>1, <3>1, BaseKept, WakeKept
  <2>2. ASSUME NEW w \in Workers, GroupMissing(w)
        PROVE  /\ Base'
               /\ \A b \in Builds : WakeInv(b) => WakeInv(b)'
               /\ \A b \in operator.ids : build'[b].status # "absent"
    <3>1. Becomes(w, Raised(worker[w])) /\ UNCHANGED repoVars /\ UNCHANGED redisVars
        BY <2>2 DEF GroupMissing
    <3>2. build' = build
        BY <3>1 DEF repoVars
    <3> QED
        BY <1>0, <3>1, <3>2, RaisingKeeps
  <2> QED
      BY <2>1, <2>2
<1>2. OperatorFacts'
    BY <1>1 DEF RecoveryInv, OperatorFacts
<1> QED
    BY <1>1, <1>2 DEF RecoveryInv, Excused

LEMMA EnqueueKeeps ==
    ASSUME RecoveryInv, EnqueueNext
    PROVE  RecoveryInv'
<1>1. PICK b \in operator.ids :
         Redis!Enqueue(b) /\ operator' = [operator EXCEPT !.ids = @ \ {b}]
    BY DEF EnqueueNext
<1>2. /\ UNCHANGED repoVars /\ UNCHANGED worker /\ lost' = lost
      /\ build' = build /\ outbox' = outbox
    BY DEF EnqueueNext, repoVars
<1>3. /\ operator \in [pc : {"idle", "enqueue"}, ids : SUBSET Builds, current : BOOLEAN]
      /\ Base /\ StreamFacts /\ b \in Builds /\ build[b].status # "absent"
    BY <1>1 DEF RecoveryInv, OperatorFacts, Base
<1>4. /\ operator' \in [pc : {"idle", "enqueue"}, ids : SUBSET Builds, current : BOOLEAN]
      /\ operator'.pc = operator.pc /\ operator'.ids = operator.ids \ {b}
      /\ operator'.current = operator.current
    BY <1>1, <1>3
<1>5. /\ StreamFacts' /\ SentGrows /\ Len(sent') = Len(sent) + 1 /\ sent'[Len(sent) + 1] = b
      /\ stream' = stream \union {Redis!Fresh(b)}
    BY <1>1, <1>3, EnqueueStep DEF Redis!Enqueue
<1>6. Base'
  <2>1. Len(sent) \in Nat
      BY <1>3, StreamTypes
  <2> QED
      BY <1>2, <1>3, <1>5, <2>1, RedisAlone
<1>7. Wakeful(b)'
  <2>1. Redis!Fresh(b).id = Len(sent) + 1 /\ Redis!Fresh(b).build = b /\ Len(sent) \in Nat
      BY <1>3, StreamTypes DEF Redis!Fresh
  <2>2. \A w \in Workers : worker'[w].msg # Redis!Fresh(b).id
      BY <1>2, <1>3, <2>1 DEF Base, WorkerFacts, Held, WorkerRow
  <2> QED
      BY <1>5, <2>1, <2>2 DEF Wakeful, AboutToSettle
<1>8. ASSUME NEW c \in Builds, Wakeful(c) PROVE Wakeful(c)'
    BY <1>2, <1>5, <1>8 DEF Wakeful, AboutToSettle
<1>9. ASSUME NEW c \in Builds PROVE (Excused(c) \/ WakeInv(c))'
  <2>1. CASE c = b
      BY <1>7, <2>1 DEF WakeInv, Promised
  <2>2. CASE c # b /\ Excused(c)
      BY <1>2, <1>4, <2>2 DEF Excused
  <2>3. CASE c # b /\ WakeInv(c)
      BY <1>2, <1>8, <2>3 DEF WakeInv, Promised, NewWakeup, At
  <2> QED
      BY <2>1, <2>2, <2>3 DEF RecoveryInv
<1>10. OperatorFacts'
    BY <1>2, <1>4 DEF RecoveryInv, OperatorFacts
<1> QED
    BY <1>6, <1>9, <1>10 DEF RecoveryInv

\* The other steps of the command touch neither PostgreSQL nor Redis.
LEMMA OperatorKeeps ==
    ASSUME RecoveryInv, ReadQueued \/ Reconstructed \/ ReconstructionFails
    PROVE  RecoveryInv'
<1>1. UNCHANGED <<repoVars, redisVars, stored, worker>>
    BY DEF ReadQueued, Reconstructed, ReconstructionFails, vars
<1>2. /\ build' = build /\ outbox' = outbox /\ stream' = stream /\ sent' = sent
      /\ worker' = worker
    BY <1>1 DEF repoVars, redisVars
<1>3. Base /\ \A b \in Builds : build[b].status \in Store!Statuses
    BY BuildTyped DEF RecoveryInv
<1>4. Base'
  <2>1. StreamFacts'
      BY <1>2, <1>3 DEF Base, StreamFacts, StreamTyped, SentTyped, Issued
  <2> QED
      BY <1>1, <1>2, <1>3, <2>1, RedisAlone, StreamTypes DEF Base, SentGrows
<1>5. \A b \in Builds : WakeInv(b) => WakeInv(b)'
    BY <1>2 DEF WakeInv, NewWakeup, Wakeful, AboutToSettle, Promised, At
<1>6. operator \in [pc : {"idle", "enqueue"}, ids : SUBSET Builds, current : BOOLEAN]
    BY DEF RecoveryInv, OperatorFacts
<1>7. CASE ReadQueued
  <2>1. /\ operator'.pc = "enqueue" /\ operator'.ids = {b \in Builds : build[b].status = "queued"}
        /\ operator'.current = TRUE /\ lost' = lost
        /\ operator' \in [pc : {"idle", "enqueue"}, ids : SUBSET Builds, current : BOOLEAN]
      BY <1>7 DEF ReadQueued, Derived
  <2>2. OperatorFacts'
      BY <1>2, <2>1 DEF OperatorFacts
  <2>3. ASSUME NEW b \in Builds PROVE (Excused(b) \/ WakeInv(b))'
    <3>1. CASE ~lost
        BY <1>5, <3>1 DEF RecoveryInv, Excused
    <3>2. CASE lost /\ build[b].status = "queued"
        BY <2>1, <3>2 DEF Excused
    <3>3. CASE build[b].status # "queued"
        BY <1>2, <3>3 DEF WakeInv
    <3> QED
        BY <3>1, <3>2, <3>3
  <2> QED
      BY <1>4, <2>2, <2>3 DEF RecoveryInv
<1>8. CASE Reconstructed
  <2>1. /\ operator.pc = "enqueue" /\ operator.ids = {}
        /\ lost' = (lost /\ ~operator.current)
        /\ operator' = [operator EXCEPT !.pc = "idle", !.current = TRUE]
      BY <1>8 DEF Reconstructed
  <2>2. /\ operator' \in [pc : {"idle", "enqueue"}, ids : SUBSET Builds, current : BOOLEAN]
        /\ operator'.pc = "idle" /\ operator'.ids = {}
      BY <1>6, <2>1
  <2>3. \A b \in Builds : Excused(b) => Excused(b)'
      BY <2>1, <2>2 DEF Excused
  <2> QED
      BY <1>4, <1>5, <2>2, <2>3 DEF RecoveryInv, OperatorFacts
<1>9. CASE ReconstructionFails
  <2>1. /\ lost' = lost
        /\ operator' = [operator EXCEPT !.pc = "idle", !.ids = {}, !.current = TRUE]
      BY <1>9 DEF ReconstructionFails
  <2>2. /\ operator' \in [pc : {"idle", "enqueue"}, ids : SUBSET Builds, current : BOOLEAN]
        /\ operator'.pc = "idle" /\ operator'.ids = {}
      BY <1>6, <2>1
  <2>3. \A b \in Builds : Excused(b) => Excused(b)'
      BY <2>1, <2>2 DEF Excused
  <2> QED
      BY <1>4, <1>5, <2>2, <2>3 DEF RecoveryInv, OperatorFacts
<1> QED
    BY <1>7, <1>8, <1>9

LEMMA RecoveryInitially == RecoveryInit => RecoveryInv
BY BaseInitially, WakeInitially DEF RecoveryInit, RecoveryInv, OperatorFacts, Excused

LEMMA RecoveryKept ==
    ASSUME RecoveryInv, [RecoveryNext]_allVars
    PROVE  RecoveryInv'
<1>1. CASE LoseEverything \/ LoseEnqueue \/ LoseSettling
    BY <1>1, LosingKeeps
<1>2. ASSUME NEW w \in Workers, WorkerRuns(w) PROVE RecoveryInv'
  <2>1. UNCHANGED <<lost, operator>> /\ (Next \/ GroupMissing(w))
      BY <1>2 DEF WorkerRuns, recoveryVars, Next
  <2> QED
      BY <2>1, ServiceKeeps
<1>3. CASE ServiceRuns \/ WorkerRestarts
  <2>1. UNCHANGED <<lost, operator>> /\ Next
      BY <1>3 DEF ServiceRuns, WorkerRestarts, recoveryVars, Next
  <2> QED
      BY <2>1, ServiceKeeps
<1>4. CASE Readiness \/ UNCHANGED allVars
  <2>1. UNCHANGED <<lost, operator>> /\ UNCHANGED vars
      BY <1>4 DEF Readiness, allVars, recoveryVars
  <2> QED
      BY <2>1, ServiceKeeps
<1>5. CASE EnqueueNext
    BY <1>5, EnqueueKeeps
<1>6. CASE ReadQueued \/ Reconstructed \/ ReconstructionFails
    BY <1>6, OperatorKeeps
<1> QED
    BY <1>1, <1>2, <1>3, <1>4, <1>5, <1>6 DEF RecoveryNext, Reconstruct

\* Once no loss is left to make up for, every queued build has its wake-up,
\* whatever Redis lost before and whatever ran during the reconstruction.
THEOREM ReconstructionIsEnough == RecoverySpec => []ReconstructionSuffices
<1>1. RecoveryInv /\ [RecoveryNext]_allVars => RecoveryInv'
    BY RecoveryKept
<1>2. RecoveryInv => ReconstructionSuffices
    BY DEF RecoveryInv, Excused, WakeInv, NewWakeup, Wakeful, ReconstructionSuffices, NoLostWakeup
<1> QED
    BY <1>1, <1>2, RecoveryInitially, PTL DEF RecoverySpec

-------------------------------------------------------------------------------
(* What a loss of Redis does not harm                                      *)
(*                                                                         *)
(* A loss, a missing group and the operator's command touch neither        *)
(* PostgreSQL nor the object store; Redis keeps or forgets its dead        *)
(* letters and issues receipts on; a worker does not notice, or raises.    *)

Interference ==
    /\ UNCHANGED repoVars /\ stored' = stored
    /\ SentGrows /\ dead' \in {dead, <<>>}
    /\ UNCHANGED worker \/ \E w \in Workers : Becomes(w, Raised(worker[w]))

LEMMA RecoverySteps ==
    ASSUME Base, [RecoveryNext]_allVars
    PROVE  [Next]_vars \/ Interference
<1>0. /\ StreamFacts
      /\ sent' = sent => SentGrows
    BY StreamTypes DEF Base, SentGrows
<1>1. CASE LoseEverything \/ LoseEnqueue \/ LoseSettling
    BY <1>0, <1>1 DEF LoseEverything, LoseEnqueue, LoseSettling, Lose, Interference
<1>2. ASSUME NEW w \in Workers, GroupMissing(w) PROVE Interference
    BY <1>0, <1>2 DEF GroupMissing, Interference, redisVars
<1>3. CASE EnqueueNext
  <2>1. PICK b \in operator.ids : Redis!Enqueue(b)
      BY <1>3 DEF EnqueueNext
  <2>2. sent' = Append(sent, b) /\ dead' = dead /\ Len(sent) \in Nat /\ sent \in Seq(Builds)
      BY <1>0, <2>1, StreamTypes DEF Redis!Enqueue
  <2>3. SentGrows
      BY <2>2 DEF SentGrows
  <2> QED
      BY <1>3, <2>2, <2>3 DEF EnqueueNext, Interference
<1>4. CASE ReadQueued \/ ReconstructionFails \/ Reconstructed
    BY <1>0, <1>4 DEF ReadQueued, ReconstructionFails, Reconstructed, Interference, vars, redisVars
<1>5. CASE Readiness \/ UNCHANGED allVars
    BY <1>5 DEF Readiness, allVars
<1>6. ASSUME NEW w \in Workers, WorkerRuns(w) PROVE [Next]_vars \/ Interference
    BY <1>2, <1>6 DEF WorkerRuns, Next
<1>7. CASE ServiceRuns \/ WorkerRestarts
    BY <1>7 DEF ServiceRuns, WorkerRestarts, Next
<1> QED
    BY <1>1, <1>3, <1>4, <1>5, <1>6, <1>7 DEF RecoveryNext, Reconstruct

\* A worker that is still busy after an interference was as busy before, with
\* the same message and attempt, or now completes that attempt.
LEMMA InterferenceTurns ==
    ASSUME Base, Interference, NEW w \in Workers
    PROVE  /\ worker'[w].pc \in Holding =>
                /\ Mine(w)' = Mine(w) /\ Mine(w) \in Builds
                /\ worker'[w].pc \in {worker[w].pc, "complete"}
           /\ worker'[w].within # "none" =>
                /\ worker[w].within # "none" /\ Number(w)' = Number(w)
                /\ worker'[w].pc \in Holding
<1>0. worker \in [Workers -> WorkerRow] /\ Shape(worker[w])
    BY DEF Base, WorkerFacts
<1>1. \/ worker'[w] = worker[w]
      \/ worker'[w] = Raised(worker[w])
    BY <1>0 DEF Interference, Becomes
<1>2. CASE worker'[w] = worker[w]
  <2>1. worker[w].pc \in Holding => Mine(w)' = Mine(w) /\ Mine(w) \in Builds
      BY <1>2, RecordTyped DEF Mine, Interference, SentGrows
  <2> QED
      BY <1>2, <2>1, RecordTyped DEF Number
<1>3. CASE worker'[w] = Raised(worker[w]) /\ ~Free(worker'[w])
  <2>1. /\ worker[w].within # "none" /\ worker'[w].within # "none" /\ worker'[w].pc = "complete"
        /\ worker'[w].msg = worker[w].msg /\ worker'[w].number = worker[w].number
      BY <1>0, <1>3, RaisedShape
  <2>2. Mine(w)' = Mine(w) /\ Mine(w) \in Builds
      BY <2>1, RecordTyped DEF Mine, Interference, SentGrows
  <2> QED
      BY <2>1, <2>2 DEF Number, Holding, Working
<1>4. CASE Free(worker'[w])
    BY <1>4 DEF Free, Holding, Working
<1> QED
    BY <1>1, <1>2, <1>3, <1>4

LEMMA InterferenceKeeps ==
    ASSUME Base, Interference, DeadInv, StoredInv, OwnInv
    PROVE  DeadInv' /\ StoredInv' /\ OwnInv'
<1>0. build' = build /\ attempt' = attempt /\ artifact' = artifact /\ stored' = stored
    BY DEF Interference, repoVars
<1>1. StoredInv'
    BY <1>0 DEF StoredInv, PublishedIsStored
<1>2. DeadInv'
  <2>1. DeadTyped' /\ \A i \in 1 .. Len(dead') : build'[dead'[i].build].status \in GivenUp
    <3>1. CASE dead' = dead
        BY <1>0, <3>1 DEF DeadInv, DeadTyped
    <3>2. CASE dead' = <<>>
        BY <3>2, StreamAssumed DEF DeadTyped, Redis!QueueConstants
    <3> QED
        BY <3>1, <3>2 DEF Interference
  <2>2. ASSUME NEW w \in Workers, worker'[w].pc = "deadletter"
        PROVE  build'[Mine(w)'].status \in GivenUp
      BY <1>0, <2>2, InterferenceTurns DEF DeadInv, At, Holding
  <2> QED
      BY <2>1, <2>2 DEF DeadInv, At
<1>3. ASSUME NEW w \in Workers, worker'[w].within # "none"
      PROVE  /\ worker[w].within # "none" /\ Mine(w)' = Mine(w) /\ Number(w)' = Number(w)
             /\ worker'[w].pc \in {"run", "upload"} => worker[w].pc \in {"run", "upload"}
    BY <1>3, InterferenceTurns
<1>4. ASSUME NEW w \in Workers PROVE Owns(w)'
    BY <1>0, <1>3 DEF OwnInv, Owns, Files
<1>5. ASSUME NEW u \in Workers, NEW v \in Workers, u # v PROVE Apart(u, v)'
    BY <1>3, <1>5 DEF OwnInv, Apart
<1> QED
    BY <1>1, <1>2, <1>4, <1>5 DEF OwnInv

SafeInv == RecoveryInv /\ DeadInv /\ StoredInv /\ OwnInv

LEMMA SafeInvariant == RecoverySpec => []SafeInv
<1>1. RecoveryInit => SafeInv
    BY RecoveryInitially, DeadInitially, StoredInitially, OwnInitially DEF RecoveryInit, SafeInv
<1>2. SafeInv /\ [RecoveryNext]_allVars => SafeInv'
    BY RecoveryKept, RecoverySteps, InterferenceKeeps, DeadKept, StoredKept, OwnKept
    DEF SafeInv, RecoveryInv
<1> QED
    BY <1>1, <1>2, PTL DEF RecoverySpec

\* A Redis that loses everything, or the last commands, and the operator's
\* reconstruct_redis lead PostgreSQL to nothing that its callers could not do to
\* it with an intact Redis: "Redis contains wake-ups. It does not contain
\* authoritative build state" (docs/deployment.md).
THEOREM RecoveryCallsStore == RecoverySpec => Repo!Spec
<1>1. RecoveryInit => Repo!Init
    BY DEF RecoveryInit, Init
<1>2. SafeInv /\ [RecoveryNext]_allVars => [Repo!Next]_Repo!repoVars
  <2> SUFFICES ASSUME SafeInv, [RecoveryNext]_allVars PROVE [Repo!Next]_Repo!repoVars
      OBVIOUS
  <2>1. CASE [Next]_vars
      BY <2>1, CallsStore, SameStore DEF SafeInv, RecoveryInv, Store!repoVars, Repo!repoVars
  <2>2. CASE Interference
      BY <2>2 DEF Interference, repoVars, Repo!repoVars
  <2> QED
      BY <2>1, <2>2, RecoverySteps DEF SafeInv, RecoveryInv
<1> QED
    BY <1>1, <1>2, SafeInvariant, PTL DEF RecoverySpec, Repo!Spec

\* With such a Redis, too, every artifact row points to a stored object, and a
\* manifest is stored only together with what it lists.
THEOREM PublishedIsStoredAfterLoss == RecoverySpec => []PublishedIsStored
<1>1. SafeInv => PublishedIsStored
    BY DEF SafeInv, StoredInv
<1> QED
    BY <1>1, SafeInvariant, PTL

\* A message that was settled may then be delivered again (LoseSettling), and one
\* build have many (reconstruct_redis): still no two workers run the same
\* attempt, since lease_build hands out each number once.
THEOREM AttemptsAreOwnedAfterLoss == RecoverySpec => []OwnAttempt
<1>1. SafeInv => OwnAttempt
    BY DEF SafeInv, OwnInv, Owns, Apart, OwnAttempt, At, Files
<1> QED
    BY <1>1, SafeInvariant, PTL

\* Nor is a build that could still run dead-lettered for a message that came back:
\* a worker looks the build up in PostgreSQL before it settles a message.
THEOREM DeadLettersHaveEndedAfterLoss == RecoverySpec => []DeadLettersEnded
<1>1. SafeInv => DeadLettersEnded
    BY DEF SafeInv, DeadInv, DeadLettersEnded, GivenUp, Repo!NoRow
<1> QED
    BY <1>1, SafeInvariant, PTL

LEMMA SpecOfStore == Repo!Spec => Store!Spec
<1>1. [Repo!Next]_Repo!repoVars => [Store!Next]_Store!repoVars
    BY SameStore DEF Repo!repoVars, Store!repoVars
<1>2. Repo!Init => Store!Init
    BY SameStore
<1> QED
    BY <1>1, <1>2, PTL DEF Repo!Spec, Store!Spec

\* So all that was proved of PostgreSQL for any caller holds in the service, with
\* a Redis that loses data and with one that does not: its invariants ...
THEOREM StoreStaysCorrect ==
    RecoverySpec => [](/\ Store!RunningUnderOneLease /\ Store!CancelWins
                       /\ Store!QueuedHasAttemptLeft /\ Store!PublishedWhole
                       /\ Store!QueuedHasRow /\ Store!LogReplays)
    BY RecoveryCallsStore, SpecOfStore, StoreAssumed, Store!OneLeasePerBuild,
       Store!CancellationWins, Store!QueuedCanStart, Store!PublicationIsWhole,
       Store!QueuedIsRecorded, Store!LogIsFaithful, PTL

\* ... and what PostgresRepository promises to clients about each build: whatever
\* Redis loses, it follows the public life cycle.
THEOREM ServiceImplementsLifecycle == RecoverySpec => Store!ImplementsLifecycle
    BY RecoveryCallsStore, SpecOfStore, StoreAssumed, Store!StoreImplementsLifecycle, PTL
=============================================================================
