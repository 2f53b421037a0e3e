---------------------------- MODULE AgentStream ----------------------------
(***************************************************************************)
(* The event stream of a conversation, from the journal of the host to the *)
(* state a browser shows: Broker.replayContext and Broker.Subscribe on the *)
(* host, the XRPC event stream between them (a library, external), and the *)
(* hook useAgentStream with the sequence checks of applyEvent.             *)
(*                                                                         *)
(* An event is the record of its kind, the runtime it belongs to and the   *)
(* incarnation of the host that wrote it, so that two events with the same *)
(* sequence number, one lost by a crash and one written after it, differ.  *)
(* A state on display is the sequence of events it stands for.             *)
(***************************************************************************)
EXTENDS Naturals, Sequences, FiniteSets

CONSTANTS
    Sessions,      \* the conversations a page can open
    NoSession,     \* no conversation is open
    Earlier,       \* per conversation: its events in storage at the start
    MaxSeq,        \* bound: events of each conversation
    MaxEffects,    \* bound: runs of the hook's effect
    MaxFaults,     \* bound: crashes of the host, failed commits, lost and refused connections
    Page,          \* replayPage: events of one read
    QueueLimit,    \* events that force a flush before the next frame (256)
    LargeSeqs,     \* sequence numbers of events too large to join a queue (4 MiB)
    Window,        \* RECENT_FINGERPRINTS: events whose replay is verified (64)
    ResetLimit     \* resets one effect follows (2)

ASSUME StreamAssumption ==
    /\ NoSession \notin Sessions
    /\ {Earlier, MaxSeq} \subseteq [Sessions -> Nat]
    /\ {MaxEffects, Page, QueueLimit, Window} \subseteq Nat \ {0}
    /\ {MaxFaults, ResetLimit} \subseteq Nat
    /\ LargeSeqs \subseteq Nat

VARIABLES
    journal,    \* per conversation: its events, in storage and pending
    durable,    \* per conversation: how many of them are in storage
    storageErr, \* per conversation: the journal has stopped
    changed,    \* per conversation: the channel broadcastLocked replaces
    gen,        \* incarnation of the host
    faults,     \* faults so far
    session,    \* the conversation the page asks for
    effects,    \* number of effects started; the last one is the current one
    fx,         \* per effect: the closure of useEffect and its stream
    current,    \* current.current, the state on display
    connection  \* the status line

host == <<journal, durable, storageErr, changed, gen>>
vars == <<host, faults, session, effects, fx, current, connection>>

Kinds == {"item", "runtime"}
FirstRuntime == <<0, 0>>
FirstItem == [kind |-> "item", rt |-> FirstRuntime, gen |-> 0]
Reset == [seq |-> 0]
NoSub == [st |-> "none"]
NoReply == [st |-> "none"]
Effects == 1 .. MaxEffects

(* The runtime of a journal: the last session.runtime event names it. *)
RuntimeOf(j) ==
    LET runtimes == {i \in DOMAIN j : j[i].kind = "runtime"}
    IN  IF runtimes = {} THEN FirstRuntime ELSE j[CHOOSE i \in runtimes : \A k \in runtimes : k <= i].rt

---------------------------------------------------------------------------
(* The state on display *)

(* recentFrom follows the seed; host is the incarnation that served it, kept to state properties. *)
emptyStream(s) == [session |-> s, shown |-> <<>>, recentFrom |-> 1, rt |-> FirstRuntime, host |-> 0, ok |-> TRUE]
Cursor(state) == Len(state.shown)

(* Mutant of reduceEvent: the event that announces a runtime is refused as well. *)
reduceEventAnyKind(state, e) ==
    IF e.rt # state.rt THEN [state EXCEPT !.ok = FALSE]
    ELSE [state EXCEPT !.shown = Append(@, e)]

(* reduceEvent, as far as the order of events goes: an event of another runtime
   than the one on display is refused unless it announces that runtime. *)
reduceEvent(state, e) ==
    IF e.kind # "runtime" /\ e.rt # state.rt
    THEN [state EXCEPT !.ok = FALSE]
    ELSE [state EXCEPT !.shown = Append(@, e), !.rt = e.rt]

(* The verification window of a state: the events applied since its seed, at most Window. *)
Recent(state) ==
    {q \in DOMAIN state.shown : q >= state.recentFrom /\ q + Window > Cursor(state)}

(* applyEvent: a replayed event must be one that was applied, a new one the next. *)
applyEvent(state, m) ==
    IF ~ state.ok THEN state
    ELSE IF m.seq <= Cursor(state)
         THEN [state EXCEPT !.ok = m.seq \in Recent(state) /\ state.shown[m.seq] = m.event]
    ELSE IF m.seq # Cursor(state) + 1 THEN [state EXCEPT !.ok = FALSE]
    ELSE reduceEvent(state, m.event)

---------------------------------------------------------------------------
(* The host *)

Fault == faults < MaxFaults /\ faults' = faults + 1

Subscribed(s) == \E x \in Effects : fx[x].session = s /\ fx[x].sub.st # "none"

(* broadcastLocked: nobody subscribed, nothing to wake. *)
Broadcast(s) == IF Subscribed(s) THEN [changed EXCEPT ![s] = @ + 1] ELSE changed

CanReconnect(s) ==
    \/ journal[s] # <<>> /\ journal[s][Len(journal[s])].kind # "runtime"
    \/ gen > RuntimeOf(journal[s])[1]

(* appendLocked, publishing an event before it is in storage. It carries the
   runtime of the conversation. A session.runtime event names a new one: Reconnect
   appends it to a conversation that is closed or disconnected, so either an event of
   the last runtime says so, or the host that ran it is gone. *)
AppendEvent(s, kind) ==
    /\ Len(journal[s]) < MaxSeq[s]
    /\ ~ storageErr[s]
    /\ kind = "runtime" => CanReconnect(s)
    /\ LET rt == IF kind = "runtime" THEN <<gen, Len(journal[s]) + 1>> ELSE RuntimeOf(journal[s])
       IN  journal' = [journal EXCEPT ![s] = Append(@, [kind |-> kind, rt |-> rt, gen |-> gen])]
    /\ changed' = Broadcast(s)
    /\ UNCHANGED <<durable, storageErr, gen, faults, session, effects, fx, current, connection>>

(* flush: a batch of the pending events reaches storage; subscribers are not told. *)
Flush(s) ==
    /\ durable[s] < Len(journal[s])
    /\ ~ storageErr[s]
    /\ \E n \in (durable[s] + 1) .. Len(journal[s]) : durable' = [durable EXCEPT ![s] = n]
    /\ UNCHANGED <<journal, storageErr, changed, gen, faults, session, effects, fx, current, connection>>

(* stopLocked: a commit failed, the journal takes no more events. *)
FlushFails(s) ==
    /\ durable[s] < Len(journal[s])
    /\ ~ storageErr[s]
    /\ storageErr' = [storageErr EXCEPT ![s] = TRUE]
    /\ changed' = Broadcast(s)
    /\ Fault
    /\ UNCHANGED <<journal, durable, gen, session, effects, fx, current, connection>>

(* The host dies and another opens the same storage: the pending events, every
   channel and every subscription are gone. What is on the wire still arrives. *)
Crash ==
    /\ Fault
    /\ gen' = gen + 1
    /\ journal' = [s \in Sessions |-> SubSeq(journal[s], 1, durable[s])]
    /\ storageErr' = [s \in Sessions |-> FALSE]
    /\ changed' = [s \in Sessions |-> 0]
    /\ fx' = [x \in Effects |-> [fx[x] EXCEPT !.sub = NoSub]]
    /\ UNCHANGED <<durable, session, effects, current, connection>>

---------------------------------------------------------------------------
(* A subscription: Broker.Subscribe and one replayContext after another *)

(* Broker.Current answers with the state at the last sequence number, or refuses. *)
Current(x) ==
    /\ fx[x].phase = "seed"
    /\ fx[x].active
    /\ fx[x].reply = NoReply
    /\ LET j == journal[fx[x].session]
       IN  \E reply \in {[st |-> "seed", state |-> [emptyStream(fx[x].session) EXCEPT
                                !.shown = j, !.recentFrom = Len(j) + 1, !.rt = RuntimeOf(j), !.host = gen]],
                         [st |-> "exhausted"]} :
             fx' = [fx EXCEPT ![x].reply = reply]
    /\ UNCHANGED <<host, faults, session, effects, current, connection>>

(* The events of a journal after one number and up to another, as they are sent. *)
Numbered(j, after, end) == [i \in 1 .. (IF end > after THEN end - after ELSE 0) |-> [seq |-> after + i, event |-> j[after + i]]]

(* The byte limit of a page may cut a list of events, but never before its first. *)
Cut(events) == IF events = <<>> THEN {<<>>} ELSE {SubSeq(events, 1, n) : n \in DOMAIN events}

(* replayContext under the lock: the end of the page, what storage has, a copy
   of the pending tail and the channel the next append closes. *)
ReplayLocked(x) ==
    /\ fx[x].sub.st = "loop"
    /\ LET s == fx[x].session
           after == fx[x].sub.after
           last == Len(journal[s])
           end == IF last < after + Page THEN last ELSE after + Page
           from == IF after > durable[s] THEN after ELSE durable[s]
       IN  fx' = [fx EXCEPT ![x].sub =
                    [st |-> "read", after |-> after, durable |-> durable[s], end |-> end,
                     tailFrom |-> from, tail |-> Numbered(journal[s], from, end),
                     changed |-> changed[s], failure |-> storageErr[s]]]
    /\ UNCHANGED <<host, faults, session, effects, current, connection>>

(* A page of replayContext: rows of storage, then as much of the tail as follows
   them without a gap. *)
Pages(x) ==
    LET sub == fx[x].sub
        stored == Numbered(journal[fx[x].session], sub.after, IF sub.end < sub.durable THEN sub.end ELSE sub.durable)
    IN  {rows \o (IF sub.after + Len(rows) = sub.tailFrom THEN tail ELSE <<>>) :
            rows \in Cut(stored), tail \in Cut(sub.tail)}

(* Mutant of ReplayEmits: the channel is taken when the wait begins, not with the page. *)
ReplayEmitsLateChannel(x) ==
    /\ fx[x].sub.st = "read"
    /\ LET sub == fx[x].sub
       IN  \E page \in Pages(x) :
             fx' = [fx EXCEPT
               ![x].sub = IF page # <<>> THEN [st |-> "loop", after |-> sub.after + Len(page)]
                          ELSE IF sub.failure THEN NoSub
                          ELSE [st |-> "wait", after |-> sub.after, changed |-> changed[fx[x].session]],
               ![x].wire = @ \o page]
    /\ UNCHANGED <<host, faults, session, effects, current, connection>>

(* The rest of replayContext and of the loop of Subscribe: storage is read
   without a lock, the page is emitted, an empty one waits or reports the failure. *)
ReplayEmits(x) ==
    /\ fx[x].sub.st = "read"
    /\ LET sub == fx[x].sub
       IN  \E page \in Pages(x) :
             fx' = [fx EXCEPT
               ![x].sub = IF page # <<>> THEN [st |-> "loop", after |-> sub.after + Len(page)]
                          ELSE IF sub.failure THEN NoSub
                          ELSE [st |-> "wait", after |-> sub.after, changed |-> sub.changed],
               ![x].wire = @ \o page]
    /\ UNCHANGED <<host, faults, session, effects, current, connection>>

SubscriberWakes(x) ==
    /\ fx[x].sub.st = "wait"
    /\ changed[fx[x].session] # fx[x].sub.changed
    /\ fx' = [fx EXCEPT ![x].sub = [st |-> "loop", after |-> @.after]]
    /\ UNCHANGED <<host, faults, session, effects, current, connection>>

---------------------------------------------------------------------------
(* useAgentStream *)

Live(f) == f.active /\ ~ f.invalid

(* An abort ends the subscription; what the stream has read may still be delivered. *)
Aborted(f) == [f EXCEPT !.aborted = TRUE, !.sub = NoSub, !.queue = <<>>, !.frame = FALSE]

(* fail: the first failure of a live effect ends it and is shown. A frame still
   due would apply the empty queue. *)
Failed(f) == [Aborted(f) EXCEPT !.invalid = TRUE]

NoEffect == [session |-> NoSession, active |-> FALSE, invalid |-> FALSE, phase |-> "done", reply |-> NoReply,
             base |-> 0, lastId |-> 0, resets |-> 0, reset |-> FALSE, aborted |-> FALSE,
             queue |-> <<>>, frame |-> FALSE, conn |-> "down", wire |-> <<>>, sub |-> NoSub]

(* follow has returned: nothing of the effect is left but whether it failed. *)
Returned(f) == [NoEffect EXCEPT !.session = f.session, !.active = f.active, !.invalid = f.invalid]

(* flush: the queue goes through applyEvent as a whole or not at all. *)
Applied(state, queue) ==
    LET run[n \in 0 .. Len(queue)] == IF n = 0 THEN state ELSE applyEvent(run[n - 1], queue[n])
    IN  run[Len(queue)]
Flushed(f) == Applied(current, f.queue)
FlushTo(x, f) ==
    IF ~ f.active THEN fx' = [fx EXCEPT ![x] = [f EXCEPT !.frame = FALSE]] /\ UNCHANGED <<current, connection>>
    ELSE IF Flushed(f).ok
    THEN /\ current' = Flushed(f)
         /\ fx' = [fx EXCEPT ![x] = [f EXCEPT !.frame = FALSE, !.queue = <<>>]]
         /\ UNCHANGED connection
    ELSE /\ fx' = [fx EXCEPT ![x] = Failed(f)]
         /\ connection' = IF f.invalid THEN connection ELSE "invalid"
         /\ UNCHANGED current

FrameFires(x) ==
    /\ fx[x].frame
    /\ FlushTo(x, fx[x])
    /\ UNCHANGED <<host, faults, session, effects>>

(* Mutant of OnReset: the pending events of the old stream stay queued. *)
OnResetKeepsQueue(x, f) ==
    /\ IF Live(f)
       THEN /\ fx' = [fx EXCEPT ![x] = [f EXCEPT !.reset = TRUE, !.aborted = TRUE]]
            /\ connection' = "connecting"
       ELSE fx' = [fx EXCEPT ![x] = f] /\ UNCHANGED connection
    /\ UNCHANGED current

(* onReset: the queue is dropped and the child stream aborted; follow reads a new seed. *)
OnReset(x, f) ==
    /\ IF Live(f)
       THEN /\ fx' = [fx EXCEPT ![x] = [Aborted(f) EXCEPT !.reset = TRUE]]
            /\ connection' = "connecting"
       ELSE fx' = [fx EXCEPT ![x] = f] /\ UNCHANGED connection
    /\ UNCHANGED current

(* The cursor check of onEvent. *)
BelowSeed(f, m) == m.seq <= f.base

(* onEvent: a callback of an ended effect does nothing; an event at or below the
   seed is an error; the queue waits for a frame unless it is full. An event too
   large to join the queue flushes it first. *)
OnEvent(x, f, m) ==
    IF ~ Live(f) \/ f.aborted
    THEN fx' = [fx EXCEPT ![x] = f] /\ UNCHANGED <<current, connection>>
    ELSE IF BelowSeed(f, m)
    THEN fx' = [fx EXCEPT ![x] = Failed(f)] /\ connection' = "invalid" /\ UNCHANGED current
    ELSE LET full == m.seq \in LargeSeqs /\ f.queue # <<>>
             state == IF full THEN Flushed(f) ELSE current
             g == [f EXCEPT !.queue = IF full THEN <<m>> ELSE Append(@, m),
                            !.frame = IF full THEN FALSE ELSE @]
         IN  IF ~ state.ok
             THEN fx' = [fx EXCEPT ![x] = Failed(f)] /\ connection' = "invalid" /\ UNCHANGED current
             ELSE IF Len(g.queue) >= QueueLimit
             THEN FlushTo(x, g)
             ELSE /\ fx' = [fx EXCEPT ![x] = [g EXCEPT !.frame = TRUE]]
                  /\ current' = state
                  /\ UNCHANGED connection

(* The stream hands the next message to a callback. After an abort it may still
   deliver what it had read. *)
Deliver(x) ==
    /\ fx[x].conn = "open"
    /\ fx[x].wire # <<>>
    /\ LET m == Head(fx[x].wire)
           f == [fx[x] EXCEPT !.wire = Tail(@)]
       IN  IF m = Reset THEN OnReset(x, f)
           ELSE OnEvent(x, [f EXCEPT !.lastId = m.seq], m)
    /\ UNCHANGED <<host, faults, session, effects>>

(* The stream connects after its last event; it may have been handed an event
   whose receipt it does not resume from. A cursor beyond the journal is answered
   with a reset and nothing else. *)
Open(x) ==
    /\ fx[x].phase = "follow"
    /\ fx[x].conn = "down"
    /\ ~ fx[x].aborted
    /\ \E after \in {fx[x].lastId} \cup ({fx[x].lastId - 1} \cap fx[x].base .. fx[x].lastId) :
         LET known == after <= Len(journal[fx[x].session])
         IN  fx' = [fx EXCEPT ![x].conn = "open", ![x].wire = IF known THEN <<>> ELSE <<Reset>>,
                              ![x].sub = IF known THEN [st |-> "loop", after |-> after] ELSE NoSub]
    /\ connection' = IF Live(fx[x]) THEN "connected" ELSE connection
    /\ UNCHANGED <<host, faults, session, effects, current>>

(* The service refuses the stream: the conversation is gone or the readers are too many. *)
OpenRefused(x) ==
    /\ fx[x].phase = "follow"
    /\ fx[x].conn = "down"
    /\ ~ fx[x].aborted
    /\ Fault
    /\ fx' = [fx EXCEPT ![x] = Returned(Failed(fx[x]))]
    /\ connection' = "refused"
    /\ UNCHANGED <<host, session, effects, current>>

(* onError or onClosing: the connection is lost, or the service announced its end. *)
Disconnect(x, status) ==
    /\ fx[x].conn = "open"
    /\ ~ fx[x].aborted
    /\ fx' = [fx EXCEPT ![x].conn = "down", ![x].wire = <<>>, ![x].sub = NoSub]
    /\ connection' = IF Live(fx[x]) THEN status ELSE connection
    /\ UNCHANGED <<host, session, effects, current>>

Drop(x) == Fault /\ \E status \in {"interrupted", "draining"} : Disconnect(x, status)

(* The host ended the subscription: the stream notices once it has delivered everything. *)
EndNoticed(x) == ~ fx[x].aborted /\ fx[x].sub = NoSub /\ fx[x].wire = <<>> /\ Disconnect(x, "interrupted") /\ UNCHANGED faults

(* events() returns after an abort; follow stops, or takes a new seed after a reset. *)
StreamEnds(x) ==
    /\ fx[x].phase = "follow"
    /\ fx[x].aborted
    /\ LET f == [fx[x] EXCEPT !.conn = "down", !.wire = <<>>, !.sub = NoSub]
       IN  IF ~ f.reset \/ ~ Live(f)
           THEN fx' = [fx EXCEPT ![x] = Returned(f)] /\ UNCHANGED connection
           ELSE IF f.resets + 1 > ResetLimit
           THEN fx' = [fx EXCEPT ![x] = Returned(Failed(f))] /\ connection' = "refused"
           ELSE /\ fx' = [fx EXCEPT ![x] = [f EXCEPT !.phase = "seed", !.resets = @ + 1, !.reset = FALSE, !.aborted = FALSE]]
                /\ UNCHANGED connection
    /\ UNCHANGED <<host, faults, session, effects, current>>

(* Mutant of SeedArrives: the seed of an ended effect is used. *)
SeedArrivesAnyway(x) ==
    /\ fx[x].phase = "seed"
    /\ fx[x].reply # NoReply
    /\ fx[x].reply.st = "seed"
    /\ current' = fx[x].reply.state
    /\ fx' = [fx EXCEPT ![x].reply = NoReply, ![x].phase = "follow", ![x].base = Cursor(current'), ![x].lastId = Cursor(current')]
    /\ UNCHANGED <<host, faults, session, effects, connection>>

(* The answer to getNativeCurrent arrives, or the call was aborted. A seed is
   installed and followed from its exact cursor; a projection that is too large
   leaves an empty display and ends the effect. *)
SeedArrives(x) ==
    /\ fx[x].phase = "seed"
    /\ fx[x].reply # NoReply \/ fx[x].aborted
    /\ LET f == [fx[x] EXCEPT !.reply = NoReply]
       IN  IF ~ Live(f) THEN fx' = [fx EXCEPT ![x] = Returned(f)] /\ UNCHANGED <<current, connection>>
           ELSE IF fx[x].reply.st = "seed"
           THEN /\ current' = fx[x].reply.state
                /\ fx' = [fx EXCEPT ![x] = [f EXCEPT !.phase = "follow", !.base = Cursor(current'), !.lastId = Cursor(current')]]
                /\ UNCHANGED connection
           ELSE /\ current' = emptyStream(f.session)
                /\ fx' = [fx EXCEPT ![x] = Returned(Failed(f))]
                /\ connection' = "refused"
    /\ UNCHANGED <<host, faults, session, effects>>

Cleanup(f) == [Aborted(f) EXCEPT !.active = FALSE]

(* A render with another conversation, or with another reload, runs the cleanup
   of the last effect and then the new effect. *)
Render(s, reload) ==
    /\ s # session \/ (reload /\ s # NoSession)
    /\ effects < MaxEffects
    /\ session' = s
    /\ LET cleaned == IF effects = 0 THEN fx ELSE [fx EXCEPT ![effects] = Cleanup(@)]
       IN  IF s = NoSession
           THEN fx' = cleaned /\ UNCHANGED <<effects, current, connection>>
           ELSE /\ effects' = effects + 1
                /\ fx' = [cleaned EXCEPT ![effects'] = [NoEffect EXCEPT !.session = s, !.active = TRUE, !.phase = "seed"]]
                /\ current' = IF current.session # s \/ reload THEN emptyStream(s) ELSE current
                /\ connection' = "connecting"
    /\ UNCHANGED <<host, faults>>

---------------------------------------------------------------------------
Init ==
    /\ journal = [s \in Sessions |-> [i \in 1 .. Earlier[s] |-> FirstItem]]
    /\ durable = Earlier
    /\ storageErr = [s \in Sessions |-> FALSE]
    /\ changed = [s \in Sessions |-> 0]
    /\ gen = 0
    /\ faults = 0
    /\ session = NoSession
    /\ effects = 0
    /\ fx = [x \in Effects |-> NoEffect]
    /\ current = emptyStream(NoSession)
    /\ connection = "idle"

Next ==
    \/ \E s \in Sessions : (\E kind \in Kinds : AppendEvent(s, kind)) \/ Flush(s) \/ FlushFails(s)
    \/ Crash
    \/ \E s \in Sessions \cup {NoSession}, reload \in BOOLEAN : Render(s, reload)
    \/ \E x \in Effects :
          \/ Current(x) \/ SeedArrives(x)
          \/ Open(x) \/ OpenRefused(x) \/ ReplayLocked(x) \/ ReplayEmits(x) \/ SubscriberWakes(x)
          \/ Deliver(x) \/ FrameFires(x) \/ Drop(x) \/ EndNoticed(x) \/ StreamEnds(x)

Spec == Init /\ [][Next]_vars

(* A step of an effect, of its connection or of its subscription on the host. *)
StreamRuns(x) ==
    \/ Current(x) \/ ReplayLocked(x) \/ SubscriberWakes(x) \/ SeedArrives(x) \/ EndNoticed(x)
    \/ StreamEnds(x) \/ ReplayEmits(x) \/ Open(x) \/ Deliver(x)

(* The network delivers, the host serves its requests and the stream library
   reconnects: while an effect can go on, it does. The browser paints the frames it
   was asked for. Nothing is assumed of the agent, of the user or of the faults. *)
Fairness == \A x \in Effects : WF_vars(StreamRuns(x)) /\ WF_vars(FrameFires(x))

FairSpec == Spec /\ Fairness

---------------------------------------------------------------------------
(* The display stands for the journal: every event it shows is the event of the
   journal with that number, or one a crash of the host lost before storage had
   it, and nothing lost before the seed was read comes back after it. So there is
   no gap, no event twice and none of another conversation, whatever was reset,
   replayed, dropped or delivered late (useAgentStream, applyEvent, replayContext). *)
ShownIsJournal ==
    current.session # NoSession =>
        LET j == journal[current.session]
        IN  \A q \in DOMAIN current.shown :
                /\ \/ q \in DOMAIN j /\ current.shown[q] = j[q]
                   \/ /\ current.shown[q].gen < gen
                      /\ q \in DOMAIN j => j[q].gen > current.shown[q].gen
                /\ q >= current.recentFrom => current.shown[q].gen >= current.host

(* As long as the host has not crashed, nothing the stream delivers fails
   validation: a page joins storage and the pending tail without a gap although
   storage is read after the lock is released, and no connection, reset or replay
   makes a valid event look wrong (replayContext, onEvent, applyEvent). *)
ValidUnlessLost == gen = 0 => connection # "invalid"

(* Once the display has met an event of a runtime, it has met the event that
   announced the runtime: a client that resumed past a rewritten session.runtime
   event stops instead of mixing two runtimes (reduceEvent). *)
RuntimesAnnounced ==
    \A q \in DOMAIN current.shown :
        LET rt == current.shown[q].rt
        IN  rt = FirstRuntime \/ \E p \in 1 .. q : current.shown[p].kind = "runtime" /\ current.shown[p].rt = rt

(* What a client follows is a run of one journal, for every interleaving of
   appends, flushes, pages and connections (replayContext, useAgentStream). *)
ReplayIsConsistent == ValidUnlessLost /\ RuntimesAnnounced

(* An effect that was cleaned up or has failed touches neither the display nor
   the status: its late answers, callbacks and frames are ignored. *)
EndedEffectIsSilent ==
    [][ \A x \in Effects :
          (fx'[x] # fx[x] /\ ~ Live(fx[x]) /\ fx[x].session # NoSession /\ effects' = effects)
             => UNCHANGED <<current, connection>> ]_vars

(* While a conversation stays open and its stream has not failed, the display
   catches up with the journal again and again: an append between the read of a
   page and the wait for the next one is not missed, and neither is one made while
   the stream was down. *)
CatchesUp ==
    []<>( \/ session = NoSession
          \/ connection \in {"invalid", "refused"}
          \/ current.session = session /\ Cursor(current) >= Len(journal[session]) )
=============================================================================
