---------------------------- MODULE Conversation ----------------------------
(***************************************************************************)
(* One conversation of a Broker: its turns, its queue of prompts, Stop,    *)
(* close, archive and resume, the goroutines that carry them out, and host *)
(* restarts (broker.go, prompt_queue.go, conversations.go).                *)
(*                                                                         *)
(* The conversation in memory is the record `s'.  Every operation runs     *)
(* under the session lock, so it is one function from `s' to `s'; what the *)
(* code does outside the lock (waiting for a commit, calling the native    *)
(* client, connecting) is a program counter of its own.  Appended events   *)
(* are applied to `s' at once and put in s.pend with the record they leave *)
(* behind; a commit moves the stored record forward by a prefix of s.pend. *)
(* The Journal module shows why commits can be taken as atomic here.       *)
(*                                                                         *)
(* The native client is external: once it has a prompt it may end the turn *)
(* or not, and its Prompt call may return with or without an error.        *)
(***************************************************************************)
EXTENDS Integers, Sequences, FiniteSets

CONSTANTS
    Turns,        \* turn identities: what a prompt's idempotency key names
    NoTurn,       \* the empty turn identity
    MaxEvents,    \* MaxEvents: the journal stops at this sequence number
    MaxQueued,    \* maxQueuedPrompts
    MaxRuntimes,  \* bound: workers started for the conversation
    MaxRestarts,  \* bound: host restarts
    MaxPending,   \* bound: uncommitted events before another operation runs
    Operations    \* client operations and storage faults of this instance

ASSUME ConversationAssumption ==
    /\ NoTurn \notin Turns
    /\ MaxEvents \in Nat /\ MaxQueued \in Nat
    /\ MaxRuntimes \in Nat \ {0} /\ MaxRestarts \in Nat
    /\ MaxPending \in Nat

SequencesExt == INSTANCE SequencesExt

Runtimes == 1..MaxRuntimes
None == 0   \* a nil Driver, a nil opening

VARIABLES
    s,          \* the liveSession
    asked,      \* turns some request looked up in storage and did not find
    work,       \* runTurn of each turn
    connecting, \* connect (and the end of Reconnect) of each runtime
    stop,       \* the turn of a Cancel that is calling the native client
    alive,      \* runtimes whose native client runs
    disk,       \* the stored conversation record
    prompts,    \* the stored prompt identities
    restarts,   \* restarts so far
    sent,       \* history: how often each turn was sent to a native client
    kept,       \* history: queued prompts whose enqueue was acknowledged
    hold        \* history: a Stop holds the queue

volatile == <<s, asked, work, connecting, stop, alive>>
vars == <<s, asked, work, connecting, stop, alive, disk, prompts, restarts,
          sent, kept, hold>>

Idle == {"closed", "disconnected"}

-----------------------------------------------------------------------------
(* Appending events                                                        *)

\* record(): what a commit that ends at this point leaves in storage.
RecordOf(c) ==
    [state |-> c.state, runtime |-> c.runtime, archived |-> c.archived,
     seq |-> c.seq, paused |-> c.paused, count |-> Len(c.items),
     queued |-> c.queued, submitted |-> c.submitted]

\* stopLocked.  The native client is closed by a detached goroutine.
Stopped(c) == [c EXCEPT !.failed = TRUE, !.state = "disconnected",
                        !.stopClose = IF @ = None THEN c.driver ELSE @]

\* appendLocked: `applied' is the conversation with the event applied, `prompt'
\* the identity it commits, `ack' the enqueue that waits for it.
Appended(c, applied, prompt, ack, reserved) ==
    IF c.failed THEN c
    ELSE IF c.seq + 1 + reserved > MaxEvents THEN Stopped(c)
    ELSE LET n == [applied EXCEPT !.seq = @ + 1] IN
         [n EXCEPT !.pend = Append(@, [record |-> RecordOf(n),
                                       prompt |-> prompt, ack |-> ack])]

AppendState(c, state) ==
    Appended(c, [c EXCEPT !.state = state], NoTurn, NoTurn, 0)

AppendRuntime(c, runtime) ==
    Appended(c, [c EXCEPT !.runtime = runtime], NoTurn, NoTurn, 0)

\* A notice changes nothing but the number of events.
AppendNotice(c) == Appended(c, c, NoTurn, NoTurn, 0)

AppendTurnEnd(c, status) ==
    Appended(c, [c EXCEPT !.last = status], NoTurn, NoTurn, 0)

\* writeQueueLocked and applyQueueEventLocked of a prompt.queue event.
AppendQueue(c, items, paused, ack) ==
    Appended(c, [c EXCEPT !.items = items, !.paused = paused,
                          !.queued = items, !.submitted = {}],
             NoTurn, ack, 0)

\* The prompts of a queue that are not among these, in their order.
Left(items, gone) ==
    LET left[n \in 0..Len(items)] ==
            IF n = 0 THEN <<>>
            ELSE IF items[n] \in gone THEN left[n - 1]
            ELSE Append(left[n - 1], items[n])
    IN left[Len(items)]

InQueue(c, t) == \E i \in 1..Len(c.items): c.items[i] = t

\* Mutant of AppendUser: the record forgets that the prompt left the queue.
AppendUserForgets(c, t) ==
    Appended(c, [c EXCEPT !.items = Left(@, {t})], t, NoTurn, 1)

\* The user message of a turn: it takes the turn out of the queue, and the
\* record remembers that until the next prompt.queue event.  One more event
\* is reserved for the running state.
AppendUser(c, t) ==
    Appended(c, [c EXCEPT !.items = Left(@, {t}),
                          !.submitted = @ \cup {q \in {t}: InQueue(c, t)}],
             t, NoTurn, 1)

-----------------------------------------------------------------------------
(* What operations are made of                                             *)

\* pauseQueueLocked
Pause(c) == IF c.items # <<>> /\ ~c.paused
            THEN AppendQueue(c, c.items, TRUE, NoTurn) ELSE c

\* releaseHistoryLocked forgets the accepted turns of an idle conversation.
Release(c) == IF c.current = NoTurn /\ c.opening = None /\ c.state \in Idle
              THEN [c EXCEPT !.turns = {}] ELSE c

\* startPromptLocked.  It succeeded when the turn is current afterwards.
StartPrompt(c, t) ==
    LET begun == AppendUser([c EXCEPT !.current = t, !.ended = FALSE,
                                      !.last = ""], t)
    IN IF c.failed THEN c
       ELSE IF begun.failed THEN [begun EXCEPT !.current = NoTurn]
       ELSE AppendState([begun EXCEPT !.turns = @ \cup {t}], "running")

\* drainQueueLocked
Drain(c) ==
    IF c.paused \/ c.items = <<>> \/ c.current # NoTurn \/ c.state # "ready"
          \/ c.archived \/ c.driver = None
    THEN c
    ELSE LET started == StartPrompt(c, Head(c.items)) IN
         IF started.current = NoTurn THEN Pause(started)
         ELSE AppendQueue(started, started.items, started.paused, NoTurn)

\* The goroutine runTurn of a turn that an operation started, next to the
\* workers `others'.
Launched(others, c) ==
    IF c.current \in {NoTurn, s.current} THEN others
    ELSE [others EXCEPT ![c.current] = [pc |-> "commit", driver |-> c.driver]]

\* waitDurable waits until the events its caller is about are none of these.
\* After a failed commit pending events stay pending and the wait returns the
\* error.
Uncommitted == {s.pend[i]: i \in 1..Len(s.pend)}
Durable(t) == \A e \in Uncommitted: e.prompt # t
Started(r) == \A e \in Uncommitted: ~(e.record.runtime = r
                                       /\ e.record.state = "starting")

-----------------------------------------------------------------------------

Fresh == [state |-> "starting", runtime |-> 1, driver |-> None,
          current |-> NoTurn, stopped |-> NoTurn, ended |-> FALSE, last |-> "",
          items |-> <<>>, paused |-> FALSE, queued |-> <<>>, submitted |-> {},
          turns |-> {}, opening |-> None, closing |-> FALSE,
          closes |-> None, archived |-> FALSE, failed |-> FALSE,
          persist |-> FALSE, stopClose |-> None, seq |-> 0, pend |-> <<>>]

NoWork == [pc |-> "none", driver |-> None]

\* Create stored the conversation and starts its first worker.
Init ==
    /\ s = Fresh
    /\ asked = {}
    /\ work = [t \in Turns |-> NoWork]
    /\ connecting = [r \in Runtimes |-> IF r = 1 THEN "start" ELSE "none"]
    /\ stop = NoTurn
    /\ alive = {}
    /\ disk = RecordOf(Fresh)
    /\ prompts = {}
    /\ restarts = 0
    /\ sent = [t \in Turns |-> 0]
    /\ kept = {}
    /\ hold = FALSE

-----------------------------------------------------------------------------
(* The journal and host restarts                                           *)

\* Mutant of Commit: an existing prompt key is overwritten.
CommitOverwrites(n) ==
    /\ ~s.persist
    /\ n \in 1..Len(s.pend)
    /\ disk' = s.pend[n].record
    /\ prompts' = prompts \cup ({s.pend[i].prompt: i \in 1..n} \ {NoTurn})
    /\ kept' = kept \cup ({s.pend[i].ack: i \in 1..n} \ {NoTurn})
    /\ s' = [s EXCEPT !.pend = SubSeq(@, n + 1, Len(@))]
    /\ UNCHANGED <<asked, work, connecting, stop, alive, restarts, sent, hold>>

\* A batch of pending events is committed.
Commit(n) ==
    /\ ~s.persist
    /\ n \in 1..Len(s.pend)
    /\ LET written == SubSeq(s.pend, 1, n)
           keys == {written[i].prompt: i \in 1..n} \ {NoTurn}
       IN IF keys \cap prompts # {}
          THEN \* The prompt key exists: storage refuses the whole batch.
               /\ s' = [Stopped(s) EXCEPT !.persist = TRUE]
               /\ UNCHANGED <<disk, prompts, kept>>
          ELSE /\ disk' = s.pend[n].record
               /\ prompts' = prompts \cup keys
               /\ kept' = kept \cup ({written[i].ack: i \in 1..n} \ {NoTurn})
               /\ s' = [s EXCEPT !.pend = SubSeq(@, n + 1, Len(@))]
    /\ UNCHANGED <<asked, work, connecting, stop, alive, restarts, sent, hold>>

\* A commit fails, and unless it was refused the batch may be stored anyway.
CommitFails(n) ==
    /\ "fault" \in Operations
    /\ ~s.persist
    /\ n \in 1..Len(s.pend)
    /\ s' = [Stopped(s) EXCEPT !.persist = TRUE]
    /\ LET keys == {s.pend[i].prompt: i \in 1..n} \ {NoTurn} IN
       \/ UNCHANGED <<disk, prompts>>
       \/ /\ keys \cap prompts = {}
          /\ disk' = s.pend[n].record
          /\ prompts' = prompts \cup keys
    /\ UNCHANGED <<asked, work, connecting, stop, alive, restarts, sent, kept,
                   hold>>

\* The detached goroutine of stopLocked closes the native client.
StopCloses ==
    /\ s.stopClose \in alive
    /\ alive' = alive \ {s.stopClose}
    /\ UNCHANGED <<s, asked, work, connecting, stop, disk, prompts, restarts,
                   sent, kept, hold>>

\* The queue NewBroker rebuilds: the last stored prompt.queue event without the
\* prompts submitted since.
StoredQueue(d) ==
    IF d.count = 0 THEN <<>> ELSE Left(d.queued, d.submitted)

\* What NewBroker makes of the stored record.
Restored(d) ==
    LET items == StoredQueue(d) IN
    [Fresh EXCEPT !.state = IF d.state = "closed" THEN "closed" ELSE "disconnected",
                  !.runtime = d.runtime, !.archived = d.archived,
                  !.seq = d.seq, !.items = items, !.queued = d.queued,
                  !.submitted = d.submitted,
                  !.paused = d.paused \/ items # <<>>]

\* The host dies, with its native clients, and another one starts.
Restart ==
    /\ restarts < MaxRestarts
    /\ restarts' = restarts + 1
    /\ s' = Restored(disk)
    /\ asked' = {}
    /\ work' = [t \in Turns |-> NoWork]
    /\ connecting' = [r \in Runtimes |-> "none"]
    /\ stop' = NoTurn
    /\ alive' = {}
    /\ hold' = (hold /\ s'.items # <<>>)
    /\ UNCHANGED <<disk, prompts, sent, kept>>

-----------------------------------------------------------------------------
(* Prompt and the worker of a turn                                         *)

\* replayedTurn finds the turn neither in memory nor in storage.  No lock is
\* held from here to the admission.
Look(t) ==
    /\ t \notin s.turns
    /\ t \notin prompts
    /\ asked' = asked \cup {t}
    /\ UNCHANGED <<s, work, connecting, stop, alive, disk, prompts, restarts,
                   sent, kept, hold>>

\* Prompt admits the turn.  Another request with the same key may still be
\* between its look and its admission.
Prompt(t) ==
    /\ "prompt" \in Operations
    /\ t \in asked
    /\ t \notin s.turns
    /\ s.state = "ready" /\ s.driver # None /\ s.current = NoTurn
    /\ ~s.failed
    /\ s' = StartPrompt(s, t)
    /\ work' = Launched(work, s')
    /\ asked' \in {asked, asked \ {t}}
    /\ UNCHANGED <<connecting, stop, alive, disk, prompts, restarts, sent,
                   kept, hold>>

\* runTurn: the user message is durable and the prompt goes to the client.
Send(t) ==
    /\ work[t].pc = "commit"
    /\ Durable(t)
    /\ work' = [work EXCEPT ![t].pc = "native"]
    /\ sent' = [sent EXCEPT ![t] = @ + 1]
    /\ UNCHANGED <<s, asked, connecting, stop, alive, disk, prompts, restarts,
                   kept, hold>>

\* Mutant of SendFails: the worker gives up only on a closed conversation.
SendFailsOnClose(t) ==
    /\ work[t].pc = "commit"
    /\ s.state = "closed"
    /\ s.persist /\ ~Durable(t)
    /\ s' = IF s.current = t
            THEN [s EXCEPT !.current = NoTurn, !.stopped = NoTurn] ELSE s
    /\ work' = [work EXCEPT ![t] = NoWork]
    /\ hold' = (hold /\ s.items # <<>>)
    /\ UNCHANGED <<asked, connecting, stop, alive, disk, prompts, restarts,
                   sent, kept>>

\* runTurn: the user message could not be committed; nothing was sent.
SendFails(t) ==
    /\ work[t].pc = "commit"
    /\ s.persist /\ ~Durable(t)
    /\ s' = IF s.current = t
            THEN [s EXCEPT !.current = NoTurn, !.stopped = NoTurn] ELSE s
    /\ work' = [work EXCEPT ![t] = NoWork]
    /\ hold' = (hold /\ s.items # <<>>)
    /\ UNCHANGED <<asked, connecting, stop, alive, disk, prompts, restarts,
                   sent, kept>>

\* receive takes the turn.end of the native client.
TurnEnds(t, status) ==
    /\ work[t].pc = "native"
    /\ work[t].driver \in alive
    /\ s.state # "closed" /\ ~s.archived
    /\ work[t].driver = s.runtime
    /\ s.current = t /\ ~s.ended
    /\ s' = AppendTurnEnd([s EXCEPT !.ended = TRUE], status)
    /\ UNCHANGED <<asked, work, connecting, stop, alive, disk, prompts,
                   restarts, sent, kept, hold>>

\* Mutant of FinishTurn: a turn that completed despite a Stop keeps the queue
\* going.
FinishTurnIgnoresStop(c, t, err) ==
    LET lost == err \/ ~c.ended
        u == IF c.ended THEN c ELSE AppendTurnEnd(c, "unknown")
        a == IF err THEN AppendNotice(u) ELSE u
        b == IF lost \/ a.last # "completed" THEN Pause(a) ELSE a
        d == [b EXCEPT !.current = NoTurn, !.stopped = NoTurn]
        e == IF d.state = "closed" THEN d
             ELSE AppendState(d, IF lost THEN "disconnected" ELSE "ready")
    IN Release(e)

\* The end of a turn, under the lock, after the client's Prompt returned.
FinishTurn(c, t, err) ==
    LET lost == err \/ ~c.ended
        u == IF c.ended THEN c ELSE AppendTurnEnd(c, "unknown")
        a == IF err THEN AppendNotice(u) ELSE u
        b == IF lost \/ a.last # "completed" \/ a.stopped = t
             THEN Pause(a) ELSE a
        d == [b EXCEPT !.current = NoTurn, !.stopped = NoTurn]
        e == IF d.state = "closed" THEN d
             ELSE AppendState(d, IF lost THEN "disconnected" ELSE "ready")
    IN Release(e)

PromptReturns(t, err) ==
    /\ work[t].pc = "native"
    /\ s' = FinishTurn(s, t, err)
    /\ work' = [work EXCEPT ![t].pc = IF err \/ ~s.ended THEN "close" ELSE "drain"]
    /\ hold' = (hold /\ s.items # <<>>)
    /\ UNCHANGED <<asked, connecting, stop, alive, disk, prompts, restarts,
                   sent, kept>>

\* The lost client is closed.
TurnCloses(t) ==
    /\ work[t].pc = "close"
    /\ alive' = alive \ {work[t].driver}
    /\ work' = [work EXCEPT ![t].pc = "drain"]
    /\ UNCHANGED <<s, asked, connecting, stop, disk, prompts, restarts, sent,
                   kept, hold>>

\* The worker ends with drainQueue.
TurnDrains(t) ==
    /\ work[t].pc = "drain"
    /\ s' = Drain(s)
    /\ work' = Launched([work EXCEPT ![t] = NoWork], s')
    /\ UNCHANGED <<asked, connecting, stop, alive, disk, prompts, restarts,
                   sent, kept, hold>>

-----------------------------------------------------------------------------
(* The queue                                                               *)

\* applyQueue after its checks: the change is journaled, then the queue drains.
ApplyQueue(items, paused, ack) ==
    /\ ~s.failed
    /\ s' = Drain(AppendQueue(s, items, paused, ack))
    /\ work' = Launched(work, s')

Unattended == s.driver = None \/ s.state \in Idle

Enqueue(t) ==
    /\ "enqueue" \in Operations
    /\ t \in asked
    /\ ~s.archived
    /\ ~InQueue(s, t) /\ t \notin s.turns
    /\ Len(s.items) < MaxQueued
    /\ ApplyQueue(Append(s.items, t), s.paused \/ Unattended, t)
    /\ asked' \in {asked, asked \ {t}}
    /\ UNCHANGED <<connecting, stop, alive, disk, prompts, restarts, sent,
                   kept, hold>>

\* The client takes the prompt back: from here on it may be gone.
Remove(t) ==
    /\ "remove" \in Operations
    /\ ~s.archived
    /\ InQueue(s, t)
    /\ ~s.failed
    /\ LET forgot == [s EXCEPT !.pend = [i \in 1..Len(@) |->
                         IF @[i].ack = t THEN [@[i] EXCEPT !.ack = NoTurn] ELSE @[i]]]
       IN s' = Drain(AppendQueue(forgot, Left(s.items, {t}), s.paused, NoTurn))
    /\ work' = Launched(work, s')
    /\ kept' = kept \ {t}
    /\ UNCHANGED <<asked, connecting, stop, alive, disk, prompts, restarts,
                   sent, hold>>

\* edit rewrites a queued prompt and reorder permutes them.
Reorder ==
    /\ "reorder" \in Operations
    /\ ~s.archived
    /\ s.items # <<>>
    /\ \E items \in SequencesExt!SetToSeqs({s.items[i]: i \in 1..Len(s.items)}):
          ApplyQueue(items, s.paused, NoTurn)
    /\ UNCHANGED <<asked, connecting, stop, alive, disk, prompts, restarts,
                   sent, kept, hold>>

PauseQueue ==
    /\ "pause" \in Operations
    /\ ~s.archived
    /\ ApplyQueue(s.items, TRUE, NoTurn)
    /\ UNCHANGED <<asked, connecting, stop, alive, disk, prompts, restarts,
                   sent, kept, hold>>

ResumeQueue ==
    /\ "resume" \in Operations
    /\ ~s.archived
    /\ ~Unattended
    /\ ApplyQueue(s.items, FALSE, NoTurn)
    /\ hold' = FALSE
    /\ UNCHANGED <<asked, connecting, stop, alive, disk, prompts, restarts,
                   sent, kept>>

-----------------------------------------------------------------------------
(* Stop                                                                    *)

\* Cancel holds the queue and calls the native client.
Stop ==
    /\ "stop" \in Operations
    /\ stop = NoTurn
    /\ s.current # NoTurn /\ ~s.ended /\ s.driver # None
    /\ s' = Pause([s EXCEPT !.stopped = s.current])
    /\ stop' = s.current
    /\ hold' = TRUE
    /\ UNCHANGED <<asked, work, connecting, alive, disk, prompts, restarts,
                   sent, kept>>

\* The client refused the stop, or could not be reached.
StopRefused ==
    /\ stop # NoTurn
    /\ stop' = NoTurn
    /\ UNCHANGED <<s, asked, work, connecting, alive, disk, prompts, restarts,
                   sent, kept, hold>>

\* The client accepted it.
StopAccepted ==
    /\ stop # NoTurn
    /\ stop' = NoTurn
    /\ s' = IF s.current # stop \/ s.ended \/ s.state = "cancelling" THEN s
            ELSE AppendState(s, "cancelling")
    /\ UNCHANGED <<asked, work, connecting, alive, disk, prompts, restarts,
                   sent, kept, hold>>

-----------------------------------------------------------------------------
(* Close, archive and resume                                               *)

\* retireRuntimeLocked of a conversation that is not closed.
Retire(c) == AppendState([c EXCEPT !.closing = TRUE, !.closes = c.driver,
                                   !.driver = None], "closed")

CloseSession ==
    /\ "close" \in Operations
    /\ ~s.closing
    /\ s' = IF s.state = "closed" THEN Release(s) ELSE Retire(s)
    /\ UNCHANGED <<asked, work, connecting, stop, alive, disk, prompts,
                   restarts, sent, kept, hold>>

\* UpdateMetadata archives the conversation or brings it back.
Archive(archived) ==
    /\ "archive" \in Operations
    /\ ~s.closing
    /\ s.archived # archived
    /\ LET c == Appended(s, [s EXCEPT !.archived = archived], NoTurn, NoTurn, 0)
       IN s' = Release(IF c.archived /\ ~c.failed /\ c.state # "closed"
                       THEN Retire(c) ELSE c)
    /\ UNCHANGED <<asked, work, connecting, stop, alive, disk, prompts,
                   restarts, sent, kept, hold>>

\* The teardown ends: the context of an opening connection is cancelled, the
\* native client is closed and the fence is lifted.
CloseFinishes ==
    /\ s.closing
    /\ s' = Release([s EXCEPT !.closing = FALSE, !.closes = None])
    /\ connecting' = [r \in Runtimes |->
                        IF r = s.opening /\ connecting[r] = "prepare"
                        THEN "cut" ELSE connecting[r]]
    /\ alive' = alive \ {s.closes}
    /\ UNCHANGED <<asked, work, stop, disk, prompts, restarts, sent, kept, hold>>

\* Mutant of Reconnect: the teardown fence is ignored.
ReconnectUnfenced ==
    /\ s.state \in Idle
    /\ s.current = NoTurn /\ ~s.failed /\ s.opening = None
    /\ ~s.archived
    /\ s.runtime < MaxRuntimes
    /\ LET r == s.runtime + 1 IN
       /\ s' = AppendState(AppendRuntime(s, r), "starting")
       /\ connecting' = IF s'.failed THEN connecting
                        ELSE [connecting EXCEPT ![r] = "commit"]
    /\ UNCHANGED <<asked, work, stop, alive, disk, prompts, restarts, sent,
                   kept, hold>>

\* Reconnect records the new runtime before a worker starts under it.
Reconnect ==
    /\ s.state \in Idle
    /\ s.current = NoTurn /\ ~s.failed /\ s.opening = None
    /\ ~s.closing /\ ~s.archived
    /\ s.runtime < MaxRuntimes
    /\ LET r == s.runtime + 1 IN
       /\ s' = AppendState(AppendRuntime(s, r), "starting")
       /\ connecting' = IF s'.failed THEN connecting
                        ELSE [connecting EXCEPT ![r] = "commit"]
    /\ UNCHANGED <<asked, work, stop, alive, disk, prompts, restarts, sent,
                   kept, hold>>

\* Reconnect's events are durable and connect starts, or they are not.
ReconnectWaited(r) ==
    /\ connecting[r] = "commit"
    /\ \/ /\ Started(r)
          /\ connecting' = [connecting EXCEPT ![r] = "start"]
       \/ /\ s.persist /\ ~Started(r)
          /\ connecting' = [connecting EXCEPT ![r] = "none"]
    /\ UNCHANGED <<s, asked, work, stop, alive, disk, prompts, restarts, sent,
                   kept, hold>>

\* connect gives up when the conversation was closed, archived or resumed
\* again; otherwise it takes the old client out and closes it.
ConnectStarts(r) ==
    /\ connecting[r] = "start"
    /\ IF s.state = "closed" \/ s.archived \/ s.runtime # r
       THEN /\ connecting' = [connecting EXCEPT ![r] = "none"]
            /\ UNCHANGED <<s, alive>>
       ELSE /\ connecting' = [connecting EXCEPT ![r] = "prepare"]
            /\ s' = [s EXCEPT !.opening = r, !.driver = None]
            /\ alive' = alive \ {s.driver}
    /\ UNCHANGED <<asked, work, stop, disk, prompts, restarts, sent, kept, hold>>

\* The time allowed for the connection runs out while it is being prepared.
ConnectTimesOut(r) ==
    /\ connecting[r] = "prepare"
    /\ connecting' = [connecting EXCEPT ![r] = "cut"]
    /\ UNCHANGED <<s, asked, work, stop, alive, disk, prompts, restarts, sent,
                   kept, hold>>

\* The workspace is prepared and the client is made and published, unless the
\* conversation was closed meanwhile; then it is opened.
ConnectOpens(r) ==
    /\ connecting[r] \in {"prepare", "cut"}
    /\ IF s.state = "closed" \/ s.archived \/ connecting[r] = "cut"
       THEN /\ connecting' = [connecting EXCEPT ![r] = "none"]
            /\ s' = Release([s EXCEPT !.opening = None])
            /\ UNCHANGED alive
       ELSE /\ connecting' = [connecting EXCEPT ![r] = "open"]
            /\ s' = [s EXCEPT !.driver = r]
            /\ alive' = alive \cup {r}
    /\ UNCHANGED <<asked, work, stop, disk, prompts, restarts, sent, kept, hold>>

\* connect ends: the client is open, or preparing or opening it failed.  The
\* client of a failed or closed connection is closed after the lock is gone.
ConnectEnds(r, err) ==
    /\ \/ connecting[r] = "open"
       \/ connecting[r] \in {"prepare", "cut"} /\ err
    /\ LET c == IF s.state = "closed" THEN s
                ELSE IF err THEN AppendState(AppendNotice(s), "disconnected")
                ELSE AppendState(s, "ready")
       IN /\ s' = Release([c EXCEPT !.opening = None])
          /\ connecting' = [connecting EXCEPT ![r] =
                IF (err \/ c.failed \/ c.state = "closed") /\ @ = "open"
                THEN "close" ELSE "none"]
    /\ UNCHANGED <<asked, work, stop, alive, disk, prompts, restarts, sent,
                   kept, hold>>

ConnectCloses(r) ==
    /\ connecting[r] = "close"
    /\ connecting' = [connecting EXCEPT ![r] = "none"]
    /\ alive' = alive \ {r}
    /\ UNCHANGED <<s, asked, work, stop, disk, prompts, restarts, sent, kept,
                   hold>>

-----------------------------------------------------------------------------

Turn(t) ==
    \/ Send(t) \/ SendFails(t)
    \/ \E err \in BOOLEAN: PromptReturns(t, err)
    \/ TurnCloses(t) \/ TurnDrains(t)

Connect(r) ==
    \/ ReconnectWaited(r) \/ ConnectStarts(r) \/ ConnectOpens(r)
    \/ \E err \in BOOLEAN: ConnectEnds(r, err)
    \/ ConnectCloses(r)

\* Steps that may append events.
Operate ==
    \/ \E t \in Turns:
          \/ Prompt(t) \/ Enqueue(t) \/ Remove(t)
          \/ Turn(t)
          \/ \E status \in {"completed", "failed"}: TurnEnds(t, status)
    \/ Reorder \/ PauseQueue \/ ResumeQueue
    \/ Stop \/ StopRefused \/ StopAccepted
    \/ CloseSession \/ \E a \in BOOLEAN: Archive(a)
    \/ Reconnect
    \/ \E r \in Runtimes: Connect(r) \/ ConnectTimesOut(r)

Next ==
    \/ (s.persist \/ Len(s.pend) <= MaxPending) /\ Operate
    \/ \E t \in Turns: Look(t)
    \/ \E n \in 1..Len(s.pend): Commit(n) \/ CommitFails(n)
    \/ CloseFinishes \/ StopCloses \/ Restart

Spec == Init /\ [][Next]_vars

\* Goroutines run, pending events are flushed and storage answers or fails,
\* connections are bounded in time and drivers finish closing.  Nothing is
\* assumed of the native client's turns, of clients or of restarts.
Fairness ==
    /\ WF_vars(\E n \in 1..Len(s.pend): Commit(n) \/ CommitFails(n))
    /\ WF_vars(CloseFinishes)
    /\ \A t \in Turns: WF_vars(Send(t) \/ SendFails(t) \/ TurnCloses(t) \/ TurnDrains(t))
    /\ \A r \in Runtimes: WF_vars(Connect(r))

FairSpec == Spec /\ Fairness

-----------------------------------------------------------------------------
(* Properties                                                              *)

\* "Reconnecting a session, replaying a stream or retrying a call never sends
\* a prompt twice" and "A crash can lose a prompt that was never sent but can
\* never send one that was lost": over all retries of its key, queue dispatches,
\* failed or unknown commits and restarts, a turn reaches a native client at
\* most once, and what a client has seen is stored.
SentOnce == \A t \in Turns: sent[t] <= 1 /\ (sent[t] > 0 => t \in prompts)

\* Whatever prefix of the events a crash leaves, startup finds the queue it
\* expects ("persisted queue state mismatch" never happens).
QueueRestorable == Len(StoredQueue(disk)) = disk.count

\* A queued prompt whose enqueue was acknowledged is not lost: until the client
\* removes it, storage has it in the queue or as a submitted prompt.
QueuedIsKept ==
    \A t \in kept: \/ t \in prompts
                   \/ \E i \in 1..Len(StoredQueue(disk)): StoredQueue(disk)[i] = t

\* The queue survives a crash at any point (prompt_queue.go:56, NewBroker).
QueueSurvives == QueueRestorable /\ QueuedIsKept

\* "Stop holds pending messages ... That hold survives normal completion, a
\* refused Stop, reconnect and restart; only an explicit queue resume releases
\* it": between turns a held queue is paused, so nothing in it can start.
StopHolds == hold /\ s.current = NoTurn /\ s.items # <<>> => s.paused \/ s.failed

\* One prompt at a time is with a native client.
OneTurn == \A t, u \in Turns: work[t].pc = "native" /\ work[u].pc = "native" => t = u

\* While its journal works a conversation never has two native clients
\* running: "runtime teardown is fenced until Close has completed", and a
\* resume closes the client it finds.  (A connection that a failing journal
\* overtakes opens its client before it notices; it can publish nothing.)
OneClient == ~s.failed => Cardinality(alive) <= 1

\* However close, archive, resume and restart overlap, one prompt and one native
\* client run at a time (retireRuntimeLocked, Reconnect).
OneAtATime == OneTurn /\ OneClient

\* An accepted turn does not stay in limbo: its prompt is sent, or the failure
\* that kept it from being sent is reported.
TurnSettles == \A t \in Turns: work[t].pc = "commit" ~> work[t].pc # "commit"

\* A connection attempt ends, and the fence of a teardown is lifted, so that
\* an explicit resume is never refused forever.
ConnectSettles ==
    /\ \A r \in Runtimes: connecting[r] # "none" ~> connecting[r] = "none"
    /\ s.closing ~> ~s.closing

\* No goroutine of the conversation waits for ever (waitDurable, connect and
\* retireRuntimeLocked).
WorkSettles == TurnSettles /\ ConnectSettles
=============================================================================
