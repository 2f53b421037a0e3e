------------------------------ MODULE Journal ------------------------------
(***************************************************************************)
(* The journal of one conversation (journal.go), the store it commits to   *)
(* (storage.go) and the hosts that have the conversation open.             *)
(*                                                                         *)
(* A host numbers an event, keeps it in `pending' and publishes it at      *)
(* once; one flush goroutine per host commits pending events in batches.   *)
(* A batch is one atomic storage request: the conversation record, whose   *)
(* version is the compare-and-swap anchor, and the events, whose keys must *)
(* not exist.  The request also names the revision of the whole scope.     *)
(* Callers that may not act before an event is durable wait for it.        *)
(*                                                                         *)
(* Requests and replies can be lost or delayed, a host may crash at any    *)
(* moment and come back, and several hosts may have the conversation open. *)
(*                                                                         *)
(* An event's content is abstracted to the incarnation of the host that    *)
(* numbered it: two events with the same number and incarnation are the    *)
(* same event.                                                             *)
(***************************************************************************)
EXTENDS Integers, Sequences, FiniteSets

CONSTANTS
    Hosts,              \* hosts that share the storage scope
    MaxEvents,          \* events one conversation may hold (broker.go)
    MaxBatchEvents,     \* maxBatchEvents: events in one storage request
    MaxPendingEvents,   \* maxPendingEvents: a native client is held back here
    MaxBufferedEvents,  \* maxBufferedEvents: the journal stops here
    Urgencies,          \* values of durableKind among the events appended
    MaxBoots,           \* bound: how often each host opens the conversation
    MaxScopeWrites      \* bound: writes of other conversations in the scope

ASSUME BoundsAssumption ==
    /\ MaxEvents \in Nat
    /\ MaxBatchEvents \in Nat \ {0}
    /\ MaxPendingEvents \in Nat \ {0}
    /\ MaxBufferedEvents \in Nat \ {0}
    /\ Urgencies \subseteq BOOLEAN
    /\ MaxBoots \in Nat
    /\ MaxScopeWrites \in Nat

VARIABLES
    \* The storage service.
    revision,   \* the scope revision: every accepted batch increments it
    record,     \* the stored conversation record
    stored,     \* the event rows, by sequence number
    wire,       \* batch requests not yet forgotten, with their outcome
    scopeWrites,\* how many writes of other conversations happened
    \* The liveSession of each host.
    up,         \* the conversation is loaded in a running host
    boot,       \* incarnation of the host
    lastSeq,    \* s.info.LastSeq
    durable,    \* s.durable
    version,    \* s.version
    token,      \* s.store.token, NoToken for nil
    pending,    \* s.pending
    storageErr, \* s.storageErr # nil
    persistErr, \* s.persistErr # nil
    flush,      \* where the flush goroutine is
    batch,      \* how many pending events the flush has taken
    attempt,    \* commitEvents's attempt
    flushNow,   \* s.flushNow
    wake,       \* s.wake holds a token
    waiting,    \* callers inside waitDurable(seq)
    held,       \* the native client inside waitCapacity
    \* History.
    acked       \* events some caller was told are durable

storageVars == <<revision, record, stored, wire, scopeWrites>>
sessionVars == <<boot, lastSeq, durable, version, pending>>
vars == <<revision, record, stored, wire, scopeWrites, up, boot, lastSeq,
          durable, version, token, pending, storageErr, persistErr, flush,
          batch, attempt, flushNow, wake, waiting, held, acked>>

Seqs == 1..MaxEvents
NoToken == 0

\* The content of an event: the incarnation that numbered it.
Event == [host: Hosts, boot: Nat]
PendingEvent == [seq: Seqs, urgent: BOOLEAN]
Record == [lastSeq: 0..MaxEvents, version: Nat]

\* The states of the flush goroutine.  From "begin" to "recheck" it is inside
\* commitEvents and holds the writer slot of its store.
InCommit == {"begin", "sent", "lookup", "recheck"}
FlushState == {"none", "loop", "sleep", "expired"} \cup InCommit

Waiter == {"none", "check", "wait"}

\* One call of StorageClient.Batch.  `outcome' is what storage did with it.
Request == [host: Hosts, boot: Nat, token: Nat, version: Nat,
            first: Seqs, last: Seqs, outcome: {"none", "ok", "conflict"}]

Init ==
    /\ revision = 1
    /\ record = [lastSeq |-> 0, version |-> 1]
    /\ stored = [s \in {} |-> 0]
    /\ wire = {}
    /\ scopeWrites = 0
    /\ up = [h \in Hosts |-> FALSE]
    /\ boot = [h \in Hosts |-> 0]
    /\ lastSeq = [h \in Hosts |-> 0]
    /\ durable = [h \in Hosts |-> 0]
    /\ version = [h \in Hosts |-> 0]
    /\ token = [h \in Hosts |-> NoToken]
    /\ pending = [h \in Hosts |-> <<>>]
    /\ storageErr = [h \in Hosts |-> FALSE]
    /\ persistErr = [h \in Hosts |-> FALSE]
    /\ flush = [h \in Hosts |-> "none"]
    /\ batch = [h \in Hosts |-> 0]
    /\ attempt = [h \in Hosts |-> 0]
    /\ flushNow = [h \in Hosts |-> FALSE]
    /\ wake = [h \in Hosts |-> FALSE]
    /\ waiting = [h \in Hosts |-> [s \in Seqs |-> "none"]]
    /\ held = [h \in Hosts |-> "none"]
    /\ acked = {}

-----------------------------------------------------------------------------
(* Opening and losing the conversation                                     *)

\* The request the running incarnation of a host has on the wire.
Mine(h, r) == r \in wire /\ r.host = h /\ r.boot = boot[h]

\* The host stops waiting for its request.  One that storage has not processed
\* stays on the wire; the outcome of one it has is dropped.
Abandon(h) == wire' = {r \in wire: Mine(h, r) => r.outcome = "none"}

\* NewBroker loads the record: everything up to its LastSeq is durable and its
\* version is the anchor of the next batch.  Nothing else survives a restart.
Open(h) ==
    /\ ~up[h]
    /\ boot[h] < MaxBoots
    /\ up' = [up EXCEPT ![h] = TRUE]
    /\ boot' = [boot EXCEPT ![h] = @ + 1]
    /\ lastSeq' = [lastSeq EXCEPT ![h] = record.lastSeq]
    /\ durable' = [durable EXCEPT ![h] = record.lastSeq]
    /\ version' = [version EXCEPT ![h] = record.version]
    /\ UNCHANGED <<storageVars, token, pending, storageErr, persistErr, flush,
                   batch, attempt, flushNow, wake, waiting, held, acked>>

\* The host dies: pending events, waiting callers and an unfinished commit are
\* gone, but a request that is already on the wire may still be applied.
Crash(h) ==
    /\ up[h]
    /\ up' = [up EXCEPT ![h] = FALSE]
    /\ token' = [token EXCEPT ![h] = NoToken]
    /\ pending' = [pending EXCEPT ![h] = <<>>]
    /\ lastSeq' = [lastSeq EXCEPT ![h] = 0]
    /\ durable' = [durable EXCEPT ![h] = 0]
    /\ version' = [version EXCEPT ![h] = 0]
    /\ storageErr' = [storageErr EXCEPT ![h] = FALSE]
    /\ persistErr' = [persistErr EXCEPT ![h] = FALSE]
    /\ flush' = [flush EXCEPT ![h] = "none"]
    /\ batch' = [batch EXCEPT ![h] = 0]
    /\ attempt' = [attempt EXCEPT ![h] = 0]
    /\ flushNow' = [flushNow EXCEPT ![h] = FALSE]
    /\ wake' = [wake EXCEPT ![h] = FALSE]
    /\ waiting' = [waiting EXCEPT ![h] = [s \in Seqs |-> "none"]]
    /\ held' = [held EXCEPT ![h] = "none"]
    /\ Abandon(h)
    /\ UNCHANGED <<revision, record, stored, scopeWrites, boot, acked>>

-----------------------------------------------------------------------------
(* Appending                                                               *)

\* Mutant of Schedule: a running flush is not woken by urgent work.
ScheduleSilently(h, events, urgent) ==
    IF persistErr[h] \/ events = <<>>
    THEN UNCHANGED <<flush, flushNow, wake>>
    ELSE /\ flushNow' = [flushNow EXCEPT ![h] = @ \/ urgent]
         /\ flush' = [flush EXCEPT ![h] = IF @ = "none" THEN "loop" ELSE @]
         /\ UNCHANGED wake

\* scheduleLocked, given what the pending list is after the caller's step: a
\* flush is started unless one runs, and a running one is woken when urgent.
Schedule(h, events, urgent) ==
    IF persistErr[h] \/ events = <<>>
    THEN UNCHANGED <<flush, flushNow, wake>>
    ELSE /\ flushNow' = [flushNow EXCEPT ![h] = @ \/ urgent]
         /\ flush' = [flush EXCEPT ![h] = IF @ = "none" THEN "loop" ELSE @]
         /\ wake' = [wake EXCEPT ![h] = @ \/ (urgent /\ flush[h] # "none")]

\* Mutant of Fits: off by one at the end of the conversation.
FitsOneMore(h) ==
    /\ lastSeq[h] <= MaxEvents
    /\ Len(pending[h]) + 1 <= MaxBufferedEvents

\* appendLocked's limits on the conversation and on its uncommitted events.
\* The limits in bytes are left out: they stop the journal the same way.
Fits(h) ==
    /\ lastSeq[h] + 1 <= MaxEvents
    /\ Len(pending[h]) + 1 <= MaxBufferedEvents

\* appendLocked accepts an event.
Append1(h, urgent) ==
    /\ up[h]
    /\ ~storageErr[h]
    /\ Fits(h)
    /\ lastSeq' = [lastSeq EXCEPT ![h] = @ + 1]
    /\ pending' = [pending EXCEPT ![h] =
                     Append(@, [seq |-> lastSeq[h] + 1, urgent |-> urgent])]
    /\ Schedule(h, pending'[h], urgent)
    /\ UNCHANGED <<storageVars, up, boot, durable, version, token, storageErr,
                   persistErr, batch, attempt, waiting, held, acked>>

\* appendLocked runs into a limit and stopLocked stops the journal.  Events
\* already pending are still committed.
AppendStops(h) ==
    /\ up[h]
    /\ ~storageErr[h]
    /\ ~Fits(h)
    /\ storageErr' = [storageErr EXCEPT ![h] = TRUE]
    /\ UNCHANGED <<storageVars, sessionVars, up, token, persistErr, flush,
                   batch, attempt, flushNow, wake, waiting, held, acked>>

-----------------------------------------------------------------------------
(* The flush goroutine                                                     *)

\* dueLocked: nothing justifies waiting for company.
Due(h) ==
    \/ flushNow[h]
    \/ Len(pending[h]) >= MaxBatchEvents
    \/ \E i \in 1..Len(pending[h]): pending[h][i].urgent

\* The top of flush's loop finds nothing to do and the goroutine ends.
FlushEnds(h) ==
    /\ flush[h] \in {"loop", "expired"}
    /\ pending[h] = <<>> \/ persistErr[h]
    /\ flush' = [flush EXCEPT ![h] = "none"]
    /\ flushNow' = [flushNow EXCEPT ![h] = FALSE]
    /\ UNCHANGED <<storageVars, sessionVars, up, token, storageErr, persistErr,
                   batch, attempt, wake, waiting, held, acked>>

\* The oldest pending event may still wait for company.
FlushSleeps(h) ==
    /\ flush[h] = "loop"
    /\ pending[h] # <<>> /\ ~persistErr[h]
    /\ ~Due(h)
    /\ flush' = [flush EXCEPT ![h] = "sleep"]
    /\ UNCHANGED <<storageVars, sessionVars, up, token, storageErr, persistErr,
                   batch, attempt, flushNow, wake, waiting, held, acked>>

\* Mutant of FlushWakes: the sleep has no timer.
FlushWakesOnToken(h) ==
    /\ flush[h] = "sleep"
    /\ wake[h]
    /\ flush' = [flush EXCEPT ![h] = "loop"]
    /\ wake' = [wake EXCEPT ![h] = FALSE]
    /\ UNCHANGED <<storageVars, sessionVars, up, token, storageErr, persistErr,
                   batch, attempt, flushNow, waiting, held, acked>>

\* The sleep ends: the timer fires and the oldest event is due, or the wake
\* channel delivers its token and the loop starts over.
FlushWakes(h) ==
    /\ flush[h] = "sleep"
    /\ \/ /\ flush' = [flush EXCEPT ![h] = "expired"]
          /\ UNCHANGED wake
       \/ /\ wake[h]
          /\ flush' = [flush EXCEPT ![h] = "loop"]
          /\ wake' = [wake EXCEPT ![h] = FALSE]
    /\ UNCHANGED <<storageVars, sessionVars, up, token, storageErr, persistErr,
                   batch, attempt, flushNow, waiting, held, acked>>

\* takeLocked copies a prefix of the pending list, as many events as the
\* request's event, byte and operation limits allow but at least one, and
\* commitEvents begins.  An event that does not satisfy Due may be taken as
\* well: its delay ran out.
FlushTakes(h) ==
    /\ flush[h] \in {"loop", "expired"}
    /\ pending[h] # <<>> /\ ~persistErr[h]
    /\ \E n \in 1..Len(pending[h]):
          /\ n <= MaxBatchEvents
          /\ batch' = [batch EXCEPT ![h] = n]
    /\ flush' = [flush EXCEPT ![h] = "begin"]
    /\ flushNow' = [flushNow EXCEPT ![h] = FALSE]
    /\ UNCHANGED <<storageVars, sessionVars, up, token, storageErr, persistErr,
                   attempt, wake, waiting, held, acked>>

\* close(s.flushed): every goroutine waiting on the channel looks again.
WakeWaiters(h) ==
    /\ waiting' = [waiting EXCEPT ![h] =
                     [s \in Seqs |-> IF @[s] = "wait" THEN "check" ELSE @[s]]]
    /\ held' = [held EXCEPT ![h] = IF @ = "wait" THEN "check" ELSE @]

\* Mutant of FlushFails: the waiting goroutines are not woken.
FlushFailsSilently(h) ==
    /\ flush' = [flush EXCEPT ![h] = "none"]
    /\ persistErr' = [persistErr EXCEPT ![h] = TRUE]
    /\ storageErr' = [storageErr EXCEPT ![h] = TRUE]
    /\ batch' = [batch EXCEPT ![h] = 0]
    /\ attempt' = [attempt EXCEPT ![h] = 0]
    /\ UNCHANGED <<revision, record, stored, scopeWrites, sessionVars, up,
                   flushNow, wake, waiting, held, acked>>

\* commitEvents returned an error: the journal stops for good.  The pending
\* events stay where they are and are never sent again.
FlushFails(h) ==
    /\ flush' = [flush EXCEPT ![h] = "none"]
    /\ persistErr' = [persistErr EXCEPT ![h] = TRUE]
    /\ storageErr' = [storageErr EXCEPT ![h] = TRUE]
    /\ batch' = [batch EXCEPT ![h] = 0]
    /\ WakeWaiters(h)
    /\ attempt' = [attempt EXCEPT ![h] = 0]
    /\ UNCHANGED <<revision, record, stored, scopeWrites, sessionVars, up,
                   flushNow, wake, acked>>

\* Mutant of FlushConfirms: everything numbered so far counts as durable.
FlushConfirmsAll(h, r) ==
    /\ flush' = [flush EXCEPT ![h] = "loop"]
    /\ version' = [version EXCEPT ![h] = r.token + 1]
    /\ token' = [token EXCEPT ![h] = r.token + 1]
    /\ durable' = [durable EXCEPT ![h] = lastSeq[h]]
    /\ pending' = [pending EXCEPT ![h] =
                     SubSeq(@, batch[h] + 1, Len(@))]
    /\ batch' = [batch EXCEPT ![h] = 0]
    /\ attempt' = [attempt EXCEPT ![h] = 0]
    /\ WakeWaiters(h)
    /\ wire' = wire \ {r}
    /\ UNCHANGED <<revision, record, stored, scopeWrites, up, boot, lastSeq,
                   storageErr, persistErr, flushNow, wake, acked>>

\* commitEvents returned the new version of the record.
FlushConfirms(h, r) ==
    /\ flush' = [flush EXCEPT ![h] = "loop"]
    /\ version' = [version EXCEPT ![h] = r.token + 1]
    /\ token' = [token EXCEPT ![h] = r.token + 1]
    /\ durable' = [durable EXCEPT ![h] = pending[h][batch[h]].seq]
    /\ pending' = [pending EXCEPT ![h] =
                     SubSeq(@, batch[h] + 1, Len(@))]
    /\ batch' = [batch EXCEPT ![h] = 0]
    /\ attempt' = [attempt EXCEPT ![h] = 0]
    /\ WakeWaiters(h)
    /\ wire' = wire \ {r}
    /\ UNCHANGED <<revision, record, stored, scopeWrites, up, boot, lastSeq,
                   storageErr, persistErr, flushNow, wake, acked>>

-----------------------------------------------------------------------------
(* commitEvents                                                            *)

\* Without a cached token the scope revision is read first.
ReadToken(h) ==
    /\ flush[h] = "begin"
    /\ token[h] = NoToken
    /\ token' = [token EXCEPT ![h] = revision]
    /\ UNCHANGED <<storageVars, sessionVars, up, storageErr, persistErr, flush,
                   batch, attempt, flushNow, wake, waiting, held, acked>>

\* The batch is sent.
Send(h) ==
    /\ flush[h] = "begin"
    /\ token[h] # NoToken
    /\ wire' = wire \cup
         {[host |-> h, boot |-> boot[h], token |-> token[h],
           version |-> version[h], first |-> pending[h][1].seq,
           last |-> pending[h][batch[h]].seq, outcome |-> "none"]}
    /\ flush' = [flush EXCEPT ![h] = "sent"]
    /\ UNCHANGED <<revision, record, stored, scopeWrites, sessionVars, up,
                   token, storageErr, persistErr, batch, attempt, flushNow,
                   wake, waiting, held, acked>>

\* The writer slot or the snapshot timed out: nothing was sent.
BeginFails(h) ==
    /\ flush[h] = "begin"
    /\ FlushFails(h)
    /\ UNCHANGED <<wire, token>>

\* The service answers that it wrote the batch.
ReplyOk(h) ==
    /\ flush[h] = "sent"
    /\ \E r \in wire: Mine(h, r) /\ r.outcome = "ok" /\ FlushConfirms(h, r)

\* A definite refusal that is not a conflict: the service wrote nothing.
ReplyRefused(h) ==
    /\ flush[h] = "sent"
    /\ \E r \in wire: Mine(h, r) /\ r.outcome = "none" /\ wire' = wire \ {r}
    /\ token' = [token EXCEPT ![h] = NoToken]
    /\ FlushFails(h)

\* The service answers conflict.  The first time, the conversation is looked
\* up to see whether only the scope moved; the second time it is an error.
ReplyConflict(h) ==
    /\ flush[h] = "sent"
    /\ \E r \in wire: Mine(h, r) /\ r.outcome = "conflict" /\ wire' = wire \ {r}
    /\ token' = [token EXCEPT ![h] = NoToken]
    /\ \/ /\ attempt[h] > 0
          /\ FlushFails(h)
       \/ /\ attempt[h] = 0
          /\ flush' = [flush EXCEPT ![h] = "recheck"]
          /\ UNCHANGED <<revision, record, stored, scopeWrites, sessionVars,
                         up, storageErr, persistErr, batch, attempt, flushNow,
                         wake, waiting, held, acked>>

\* The conversation is exactly as this host left it.
Untouched(h) == record.version = version[h]

Recheck(h) ==
    /\ flush[h] = "recheck"
    /\ Untouched(h)
    /\ token' = [token EXCEPT ![h] = revision]
    /\ attempt' = [attempt EXCEPT ![h] = @ + 1]
    /\ flush' = [flush EXCEPT ![h] = "begin"]
    /\ UNCHANGED <<storageVars, sessionVars, up, storageErr, persistErr, batch,
                   flushNow, wake, waiting, held, acked>>

\* Another host wrote the conversation, or it could not be read.
RecheckFails(h) ==
    /\ flush[h] = "recheck"
    /\ FlushFails(h)
    /\ UNCHANGED <<wire, token>>

\* No answer: the outcome is unknown and its receipt is looked up.
ReplyUnknown(h) ==
    /\ flush[h] = "sent"
    /\ flush' = [flush EXCEPT ![h] = "lookup"]
    /\ UNCHANGED <<storageVars, sessionVars, up, token, storageErr, persistErr,
                   batch, attempt, flushNow, wake, waiting, held, acked>>

\* There is a receipt: the batch was written.
ReceiptFound(h) ==
    /\ flush[h] = "lookup"
    /\ \E r \in wire: Mine(h, r) /\ r.outcome = "ok" /\ FlushConfirms(h, r)

\* Mutant of ReceiptAbsent: the batch is sent again.
ReceiptAbsentRetries(h) ==
    /\ flush[h] = "lookup"
    /\ token' = [token EXCEPT ![h] = NoToken]
    /\ flush' = [flush EXCEPT ![h] = "begin"]
    /\ UNCHANGED <<storageVars, sessionVars, up, storageErr, persistErr, batch,
                   attempt, flushNow, wake, waiting, held, acked>>

\* No receipt, or the lookup failed as well.  The batch is not sent again: the
\* request may still be on its way.
ReceiptAbsent(h) ==
    /\ flush[h] = "lookup"
    /\ token' = [token EXCEPT ![h] = NoToken]
    /\ FlushFails(h)
    /\ Abandon(h)

-----------------------------------------------------------------------------
(* The storage service (external): atomic batches with preconditions       *)

\* What a request requires: the scope revision, the record version and that
\* none of its event keys exists.
Accepts(r) ==
    /\ r.token = revision
    /\ r.version = record.version
    /\ \A s \in r.first..r.last: s \notin DOMAIN stored

\* The event rows after the batch.
Written(r) ==
    [s \in DOMAIN stored \cup (r.first..r.last) |->
        IF s \in r.first..r.last THEN [host |-> r.host, boot |-> r.boot]
        ELSE stored[s]]

\* The service finishes a request; its outcome matters only to a host that
\* still waits for it.
Finish(r, outcome) ==
    wire' = (wire \ {r}) \cup
              IF boot[r.host] = r.boot /\ flush[r.host] \in {"sent", "lookup"}
              THEN {[r EXCEPT !.outcome = outcome]} ELSE {}

\* Mutant of Process: the batch carries the live record instead of the one
\* its last event left behind.
ProcessLiveRecord(r) ==
    /\ r.outcome = "none"
    /\ \/ /\ Accepts(r)
          /\ revision' = revision + 1
          /\ record' = [lastSeq |-> lastSeq[r.host], version |-> revision + 1]
          /\ stored' = Written(r)
          /\ Finish(r, "ok")
       \/ /\ ~Accepts(r)
          /\ Finish(r, "conflict")
          /\ UNCHANGED <<revision, record, stored>>
    /\ UNCHANGED <<scopeWrites, sessionVars, up, token, storageErr, persistErr,
                   flush, batch, attempt, flushNow, wake, waiting, held, acked>>

Process(r) ==
    /\ r.outcome = "none"
    /\ \/ /\ Accepts(r)
          /\ revision' = revision + 1
          /\ record' = [lastSeq |-> r.last, version |-> revision + 1]
          /\ stored' = Written(r)
          /\ Finish(r, "ok")
       \/ /\ ~Accepts(r)
          /\ Finish(r, "conflict")
          /\ UNCHANGED <<revision, record, stored>>
    /\ UNCHANGED <<scopeWrites, sessionVars, up, token, storageErr, persistErr,
                   flush, batch, attempt, flushNow, wake, waiting, held, acked>>

\* Another conversation or the settings of the scope are written through the
\* store of host h.  The store keeps the new revision, or drops its token when
\* the write was not confirmed.
ScopeWrite(h) ==
    /\ up[h]
    /\ flush[h] \notin InCommit
    /\ scopeWrites < MaxScopeWrites
    /\ scopeWrites' = scopeWrites + 1
    /\ revision' = revision + 1
    /\ token' \in {[token EXCEPT ![h] = t]: t \in {NoToken, revision + 1}}
    /\ UNCHANGED <<record, stored, wire, sessionVars, up, storageErr,
                   persistErr, flush, batch, attempt, flushNow, wake, waiting,
                   held, acked>>

\* A store that is none of these hosts' writes in the scope; their tokens are
\* stale now.
ForeignWrite ==
    /\ scopeWrites < MaxScopeWrites
    /\ scopeWrites' = scopeWrites + 1
    /\ revision' = revision + 1
    /\ UNCHANGED <<record, stored, wire, sessionVars, up, token, storageErr,
                   persistErr, flush, batch, attempt, flushNow, wake, waiting,
                   held, acked>>

-----------------------------------------------------------------------------
(* Waiting                                                                 *)

\* A caller that appended event s calls waitDurable(s), which finds it pending,
\* asks for a flush and waits for it.
CallWait(h, s) ==
    /\ up[h]
    /\ waiting[h][s] = "none"
    /\ ~persistErr[h]
    /\ \E i \in 1..Len(pending[h]): pending[h][i].seq = s
    /\ waiting' = [waiting EXCEPT ![h][s] = "wait"]
    /\ Schedule(h, pending[h], TRUE)
    /\ UNCHANGED <<storageVars, sessionVars, up, token, storageErr, persistErr,
                   batch, attempt, held, acked>>

\* Woken, it sees that the event is durable and its caller acts on it.
WaitAcks(h, s) ==
    /\ waiting[h][s] = "check"
    /\ durable[h] >= s
    /\ acked' = acked \cup {[seq |-> s, event |-> [host |-> h, boot |-> boot[h]]]}
    /\ waiting' = [waiting EXCEPT ![h][s] = "none"]
    /\ UNCHANGED <<storageVars, sessionVars, up, token, storageErr, persistErr,
                   flush, batch, attempt, flushNow, wake, held>>

\* Woken, it returns the error that stopped the journal.
WaitErrs(h, s) ==
    /\ waiting[h][s] = "check"
    /\ durable[h] < s
    /\ persistErr[h]
    /\ waiting' = [waiting EXCEPT ![h][s] = "none"]
    /\ UNCHANGED <<storageVars, sessionVars, up, token, storageErr, persistErr,
                   flush, batch, attempt, flushNow, wake, held, acked>>

\* Woken by a batch that did not reach its event, it asks for another flush.
WaitAgain(h, s) ==
    /\ waiting[h][s] = "check"
    /\ durable[h] < s
    /\ ~persistErr[h]
    /\ waiting' = [waiting EXCEPT ![h][s] = "wait"]
    /\ Schedule(h, pending[h], TRUE)
    /\ UNCHANGED <<storageVars, sessionVars, up, token, storageErr, persistErr,
                   batch, attempt, held, acked>>

\* The context of a waiting caller ends.
WaitCancelled(h, s) ==
    /\ waiting[h][s] = "wait"
    /\ waiting' = [waiting EXCEPT ![h][s] = "none"]
    /\ UNCHANGED <<storageVars, sessionVars, up, token, storageErr, persistErr,
                   flush, batch, attempt, flushNow, wake, held, acked>>

\* The native client has too many uncommitted events.
Crowded(h) ==
    /\ ~persistErr[h] /\ ~storageErr[h]
    /\ Len(pending[h]) >= MaxPendingEvents

\* receive calls waitCapacity before it takes the next native event, and
\* waitCapacity looks again after every batch.
CapacityBlocks(h) ==
    /\ up[h]
    /\ held[h] \in {"none", "check"}
    /\ Crowded(h)
    /\ held' = [held EXCEPT ![h] = "wait"]
    /\ Schedule(h, pending[h], TRUE)
    /\ UNCHANGED <<storageVars, sessionVars, up, token, storageErr, persistErr,
                   batch, attempt, waiting, acked>>

CapacityReturns(h) ==
    /\ held[h] = "check"
    /\ ~Crowded(h)
    /\ held' = [held EXCEPT ![h] = "none"]
    /\ UNCHANGED <<storageVars, sessionVars, up, token, storageErr, persistErr,
                   flush, batch, attempt, flushNow, wake, waiting, acked>>

-----------------------------------------------------------------------------

Flush(h) ==
    \/ FlushEnds(h) \/ FlushSleeps(h) \/ FlushWakes(h) \/ FlushTakes(h)
    \/ ReadToken(h) \/ Send(h) \/ BeginFails(h)
    \/ ReplyOk(h) \/ ReplyRefused(h) \/ ReplyConflict(h) \/ ReplyUnknown(h)
    \/ Recheck(h) \/ RecheckFails(h) \/ ReceiptFound(h) \/ ReceiptAbsent(h)

WaitLooks(h, s) == WaitAcks(h, s) \/ WaitErrs(h, s) \/ WaitAgain(h, s)
Wait(h, s) == CallWait(h, s) \/ WaitLooks(h, s) \/ WaitCancelled(h, s)

Next ==
    \/ \E h \in Hosts:
          \/ Open(h) \/ Crash(h)
          \/ \E urgent \in Urgencies: Append1(h, urgent)
          \/ AppendStops(h)
          \/ Flush(h)
          \/ \E s \in Seqs: Wait(h, s)
          \/ CapacityBlocks(h) \/ CapacityReturns(h)
          \/ ScopeWrite(h)
    \/ \E r \in wire: Process(r)
    \/ ForeignWrite

\* Goroutines that can run do run, timers fire and storage calls time out.
\* Nothing is assumed of the storage service, of callers or of crashed hosts.
Fairness ==
    \A h \in Hosts:
       /\ WF_vars(Flush(h))
       /\ WF_vars(held[h] = "check" /\ (CapacityBlocks(h) \/ CapacityReturns(h)))
       /\ \A s \in Seqs: WF_vars(WaitLooks(h, s))

Spec == Init /\ [][Next]_vars /\ Fairness

-----------------------------------------------------------------------------
(* Properties                                                              *)

StorageTypeOK ==
    /\ revision \in Nat
    /\ record \in Record
    /\ DOMAIN stored \subseteq Seqs
    /\ stored \in [DOMAIN stored -> Event]
    /\ wire \subseteq Request
    /\ scopeWrites \in Nat

SessionTypeOK ==
    /\ up \in [Hosts -> BOOLEAN]
    /\ boot \in [Hosts -> Nat]
    /\ lastSeq \in [Hosts -> 0..MaxEvents]
    /\ durable \in [Hosts -> 0..MaxEvents]
    /\ version \in [Hosts -> Nat]
    /\ token \in [Hosts -> Nat]
    /\ pending \in [Hosts -> Seq(PendingEvent)]

FlushTypeOK ==
    /\ storageErr \in [Hosts -> BOOLEAN]
    /\ persistErr \in [Hosts -> BOOLEAN]
    /\ flush \in [Hosts -> FlushState]
    /\ batch \in [Hosts -> Nat]
    /\ attempt \in [Hosts -> 0..1]
    /\ flushNow \in [Hosts -> BOOLEAN]
    /\ wake \in [Hosts -> BOOLEAN]

WaitTypeOK ==
    /\ waiting \in [Hosts -> [Seqs -> Waiter]]
    /\ held \in [Hosts -> Waiter]
    /\ acked \subseteq [seq: Seqs, event: Event]

\* Every variable has its type; in particular the stored rows and the pending
\* events are numbered within MaxEvents.
TypeOK == StorageTypeOK /\ SessionTypeOK /\ FlushTypeOK /\ WaitTypeOK

\* The record and the event rows never disagree: rows exist for exactly the
\* numbers up to the record's LastSeq.  NewBroker relies on it (it takes
\* LastSeq for durable) and so does every reader (decodeEventRows fails on a
\* gap).
RowsMatchRecord == DOMAIN stored = 1..record.lastSeq

\* What a caller was told is durable stays stored, as that caller's event and
\* under its number, whatever hosts, crashes and lost replies do afterwards.
AckedIsStored ==
    \A a \in acked: a.seq \in DOMAIN stored /\ stored[a.seq] = a.event

\* No urgent work is left to the journal delay: while the flush sleeps on its
\* timer, an urgent event, a requested flush or a caller blocked on the next
\* commit has left a token in the wake channel.
UrgentIsWoken ==
    \A h \in Hosts: flush[h] = "sleep" /\ ~wake[h] =>
        /\ ~flushNow[h]
        /\ \A i \in 1..Len(pending[h]): ~pending[h][i].urgent
        /\ held[h] # "wait"
        /\ \A s \in Seqs: waiting[h][s] # "wait"

\* "An absent receipt never authorizes resubmission": events whose commit has
\* an unknown outcome are never put on the wire a second time, not even after
\* a restart under the same numbers by the same incarnation.
NeverResubmitted ==
    \A q, r \in wire: q.host = r.host /\ q.boot = r.boot => q = r

\* Every event a host numbers is eventually committed, unless the journal
\* fails or the host crashes: nothing is left pending for want of a flush.
PendingSettles ==
    \A h \in Hosts: \A s \in Seqs:
        (up[h] /\ lastSeq[h] >= s) ~> (durable[h] >= s \/ persistErr[h] \/ ~up[h])

\* Every caller of waitDurable and every held native client is released.
WaitersReturn ==
    \A h \in Hosts:
        /\ \A s \in Seqs: waiting[h][s] # "none" ~> waiting[h][s] = "none"
        /\ held[h] # "none" ~> held[h] = "none"

\* The journal implements an append-only log: the abstract log is what the
\* stored record covers, and callers are told only of what is in it.
Log == INSTANCE DurableLog WITH
          log <- [s \in 1..record.lastSeq |-> stored[s]],
          acked <- acked
ImplementsLog == Log!Spec
=============================================================================
