-------------------------------- MODULE Queue --------------------------------
(***************************************************************************)
(* RedisStreamsQueue: one stream with one consumer group, and a bounded    *)
(* dead-letter stream.  Every method runs one Redis command or one Lua     *)
(* script, so every method is one action.  A settled entry is acknowledged *)
(* and deleted by the same script, so an entry of the main stream is       *)
(* either not delivered yet or pending for the consumer that claimed it    *)
(* last.                                                                   *)
(*                                                                         *)
(* An operator named X_Something is X with a plausible mistake in it; it   *)
(* is used only to see that the properties notice the mistake.             *)
(***************************************************************************)
EXTENDS Naturals, Sequences

CONSTANTS
    Builds,        \* the only payload is a build identifier
    Consumers,     \* worker identities
    MaxEntries,    \* bound: entries ever added to the main stream
    StaleTicks,    \* STALE_CLAIM_IDLE_MS
    DeadLimit,     \* dead_letter_max_entries
    NoConsumer

QueueConstants ==
    /\ MaxEntries \in Nat
    /\ StaleTicks \in Nat \ {0}
    /\ DeadLimit \in Nat \ {0}
    /\ NoConsumer \notin Consumers

VARIABLES
    stream,    \* entries of the main stream
    sent,      \* the payload of every receipt the main stream issued
    dead       \* the dead-letter stream, oldest entry first

queueVars == <<stream, sent, dead>>

Receipts == 1 .. MaxEntries
Entry == [id : Receipts, build : Builds,
          owner : Consumers \union {NoConsumer}, idle : 0 .. StaleTicks]

Init == stream = {} /\ sent = <<>> /\ dead = <<>>

Pending(e) == e.owner # NoConsumer
Stale(e)   == Pending(e) /\ e.idle = StaleTicks

\* XADD: a new entry that no consumer has seen.
Fresh(b) == [id |-> Len(sent) + 1, build |-> b, owner |-> NoConsumer, idle |-> 0]

Enqueue(b) ==
    /\ Len(sent) < MaxEntries
    /\ stream' = stream \union {Fresh(b)}
    /\ sent' = Append(sent, b)
    /\ UNCHANGED dead

\* The oldest entry of a set of entries.
Oldest(e, S) == e \in S /\ \A f \in S : e.id <= f.id

Claimable_NewOnly(e) == Oldest(e, {f \in stream : ~Pending(f)})

\* claim: XAUTOCLAIM takes the oldest stale entry over from whoever holds it;
\* only when there is none does XREADGROUP deliver the oldest new entry.
Claimable(e) ==
    IF \E f \in stream : Stale(f)
    THEN Oldest(e, {f \in stream : Stale(f)})
    ELSE Oldest(e, {f \in stream : ~Pending(f)})

Claim(c, e) ==
    /\ e \in stream
    /\ Claimable(e)
    /\ stream' = (stream \ {e}) \union {[e EXCEPT !.owner = c, !.idle = 0]}
    /\ UNCHANGED <<sent, dead>>

\* The pending entry with this receipt, as a set: it is empty when another
\* consumer settled it first.
PendingEntry(id) == {e \in stream : e.id = id /\ Pending(e)}

\* acknowledge: XACK, and XDEL only when XACK found the receipt pending.
Acknowledge(id) ==
    /\ stream' = stream \ PendingEntry(id)
    /\ UNCHANGED <<sent, dead>>

\* XADD with MAXLEN = limit keeps the newest entries.
Newest(s, limit) ==
    IF Len(s) > limit THEN SubSeq(s, Len(s) - limit + 1, Len(s)) ELSE s

\* dead_letter: the move script does nothing unless the receipt is pending.
DeadLetter(id) ==
    /\ stream' = stream \ PendingEntry(id)
    /\ dead' = IF PendingEntry(id) = {} THEN dead
               ELSE Newest(Append(dead, [build |-> sent[id], receipt |-> id]), DeadLimit)
    /\ UNCHANGED sent

\* requeue: the same script with the main stream as its target.
Requeue(id) ==
    IF PendingEntry(id) = {}
    THEN UNCHANGED queueVars
    ELSE /\ Len(sent) < MaxEntries
         /\ stream' = (stream \ PendingEntry(id)) \union {Fresh(sent[id])}
         /\ sent' = Append(sent, sent[id])
         /\ UNCHANGED dead

\* The idle time of pending entries grows.
TimerRuns == \E e \in stream : Pending(e) /\ e.idle < StaleTicks

Advance ==
    /\ stream' = {IF Pending(e) /\ e.idle < StaleTicks
                  THEN [e EXCEPT !.idle = @ + 1] ELSE e : e \in stream}
    /\ UNCHANGED <<sent, dead>>

\* Consumers may present any receipt that was ever issued, as often as they
\* like: a slow consumer settles entries that others have taken over.
Next ==
    \/ \E b \in Builds : Enqueue(b)
    \/ \E c \in Consumers, e \in stream : Claim(c, e)
    \/ \E id \in 1 .. Len(sent) : Acknowledge(id) \/ DeadLetter(id) \/ Requeue(id)
    \/ TimerRuns /\ Advance

Spec == Init /\ [][Next]_queueVars

-------------------------------------------------------------------------------

TypeOK ==
    /\ stream \subseteq Entry
    /\ sent \in Seq(Builds)
    /\ Len(sent) <= MaxEntries
    /\ dead \in Seq([build : Builds, receipt : Receipts])
    /\ Len(dead) <= DeadLimit

\* A receipt is in one place only: it names at most one entry of the stream,
\* it is dead-lettered at most once, and a dead-lettered receipt has left the
\* stream (the move script adds, acknowledges, deletes and trims as one step).
ReceiptInOnePlace ==
    /\ Len(dead) <= DeadLimit
    /\ \A e, f \in stream : e.id = f.id => e = f
    /\ \A e \in stream : e.id <= Len(sent) /\ sent[e.id] = e.build
    /\ \A i, j \in 1 .. Len(dead) : dead[i].receipt = dead[j].receipt => i = j
    /\ \A e \in stream : \A i \in 1 .. Len(dead) : dead[i].receipt # e.id

\* "A forged/stale receipt cannot delete a live entry which is no longer
\* pending in this group": an entry that was not delivered stays in the stream
\* until a consumer claims it.
UndeliveredStays ==
    [][\A e \in stream : ~Pending(e) =>
          \E f \in stream' : f.id = e.id /\ f.build = e.build]_queueVars

===============================================================================
