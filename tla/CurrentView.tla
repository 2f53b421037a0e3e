---------------------------- MODULE CurrentView ----------------------------
(***************************************************************************)
(* What a client sees that joins a conversation late. The broker keeps the *)
(* view of the latest turn (current.go) while its turns, requests and      *)
(* queue append events; Broker.Current answers with that view and the      *)
(* sequence number it stands at, decodeCurrentSeed rebuilds a state from   *)
(* it, and the client applies the events that follow. The state of a       *)
(* client that read every event is the reference.                          *)
(*                                                                         *)
(* One action is one critical section under the lock of the conversation.  *)
(***************************************************************************)
EXTENDS StreamState

CONSTANTS
    Turns,         \* identities of turns
    Items,         \* identities of the items an agent reports in a turn
    Requests,      \* identities of requests to the user
    CurrentItems,  \* maxCurrentItems: items of the view (256)
    MaxEvents      \* bound: events of the conversation

ASSUME ViewAssumption == CurrentItems \in Nat /\ MaxEvents \in Nat

VARIABLES
    complete,  \* the journal, as a client shows it that has read every event
    asked,     \* the identities of requests that were used
    state,     \* info.State
    turn,      \* s.current, the turn whose worker runs
    ended,     \* s.ended: the result the agent reported for that turn, or None
    stopped,   \* s.stopped, a Stop was asked for it
    driver,    \* s.driver is a client that is open
    started,   \* the turns that have been submitted
    inputs,    \* activeInputs: per request its turn, kind and receipt
    view,      \* s.currentView
    queue,     \* the queued prompts
    client     \* a state on display, or None

broker == <<complete, asked, state, turn, ended, stopped, driver, started, inputs, view, queue>>
vars == <<broker, client>>

---------------------------------------------------------------------------
(* current.go *)

IsSubmission(e) == e.kind = "item.snapshot" /\ e.role = "user" /\ e.item = "user" /\ e.status = "submitted"

NewView(t) == [turn |-> t, items |-> <<>>, unavailable |-> FALSE, result |-> None]
Unavailable(v) == [v EXCEPT !.unavailable = TRUE, !.items = <<>>]

(* Mutant of ViewItem: a completion without text empties the item. *)
ViewItemForgetsText(v, e) ==
    LET i == ItemIndex(v.items, e.turn, e.item)
        new == i > Len(v.items)
        old == IF new THEN [NewItem(e) EXCEPT !.status = None] ELSE v.items[i]
        item == [old EXCEPT !.text = IF e.kind = "item.delta" THEN @ \o e.text ELSE e.text, !.status = Or(e.status, @)]
    IN  IF (new /\ Len(v.items) >= CurrentItems) \/ old.role # e.role \/ Len(item.text) > TextLimit THEN Unavailable(v)
        ELSE [v EXCEPT !.items = IF new THEN Append(@, item) ELSE [@ EXCEPT ![i] = item]]

(* An item of the view: text as in the reducer, metadata replaced where the event
   has it. Too many items, a changed role or a long text give the view up. *)
ViewItem(v, e) ==
    LET i == ItemIndex(v.items, e.turn, e.item)
        new == i > Len(v.items)
        old == IF new THEN [NewItem(e) EXCEPT !.status = None] ELSE v.items[i]
        item == [old EXCEPT !.text = CASE e.kind = "item.snapshot" -> e.text
                                       [] e.kind = "item.delta" -> @ \o e.text
                                       [] OTHER -> @,
                            !.status = Or(e.status, @)]
    IN  IF (new /\ Len(v.items) >= CurrentItems) \/ old.role # e.role \/ Len(item.text) > TextLimit THEN Unavailable(v)
        ELSE [v EXCEPT !.items = IF new THEN Append(@, item) ELSE [@ EXCEPT ![i] = item]]

(* Mutant of applyCurrent: the view survives the start of the next turn. *)
applyCurrentKeepsView(v, e) ==
    LET w == IF IsSubmission(e) /\ v = None THEN NewView(e.turn) ELSE v
    IN  IF w = None \/ (w # None /\ (w.unavailable)) THEN w
        ELSE IF e.kind = "turn.end" THEN [w EXCEPT !.result = e]
        ELSE IF e.kind \in ItemKinds THEN ViewItem(w, e)
        ELSE w

(* applyCurrentLocked: a submitted user message starts a view. *)
applyCurrent(v, e) ==
    LET w == IF IsSubmission(e) THEN NewView(e.turn) ELSE v
    IN  IF w = None \/ (w # None /\ (w.turn # e.turn \/ w.unavailable)) THEN w
        ELSE IF e.kind = "turn.end" THEN [w EXCEPT !.result = e]
        ELSE IF e.kind \in ItemKinds THEN ViewItem(w, e)
        ELSE w

(* What Broker.Current finds: no answer while the view is missing or too large. *)
HasCurrent == IF view = None THEN turn = None ELSE ~ view.unavailable
Current ==
    [worker |-> state,
     activeTurnId |-> IF ended # None THEN None ELSE turn,
     items |-> IF view = None THEN <<>> ELSE view.items,
     result |-> IF view = None THEN None ELSE view.result,
     inputs |-> [q \in {q \in DOMAIN inputs : ended = None /\ state # "cancelling"} |-> inputs[q]],
     queue |-> IF queue.revision = 0 THEN None ELSE queue,
     metadata |-> Or(complete.metadata, 1), native |-> complete.native,
     lastSeq |-> complete.cursor]

---------------------------------------------------------------------------
(* decodeCurrentSeed *)

(* The conditions a seed must meet: one turn, no result while it runs, and no
   request without a turn. *)
SeedIsValid(seed) ==
    LET t == IF seed.activeTurnId # None \/ seed.items = <<>> THEN seed.activeTurnId ELSE seed.items[1].turn
    IN  /\ DOMAIN seed.inputs # {} => seed.activeTurnId # None
        /\ \A i \in DOMAIN seed.items : seed.items[i].turn = t
        /\ seed.result # None => seed.activeTurnId = None /\ t \in {None, seed.result.turn}

InputRequest(seed, q) == [Event("input.request") EXCEPT !.turn = seed.activeTurnId, !.item = q, !.request = seed.inputs[q].kind]

(* Mutant of InputEvents: the receipt of an answer is not replayed. *)
InputEventsForgetReceipt(seed, q) == <<InputRequest(seed, q)>>

(* A request of the seed, and its receipt if it was answered. *)
InputEvents(seed, q) ==
    <<InputRequest(seed, q)>> \o
    (IF seed.inputs[q].submitted
     THEN <<[InputRequest(seed, q) EXCEPT !.kind = "input.submitted", !.request = None, !.status = "submitted",
                                          !.decision = seed.inputs[q].decision]>>
     ELSE <<>>)

(* The seed as events: a snapshot of every item, the result, the requests. *)
SeedEvents(seed) ==
    [i \in DOMAIN seed.items |->
       [Event("item.snapshot") EXCEPT !.turn = seed.items[i].turn, !.item = seed.items[i].id, !.role = seed.items[i].role,
                                          !.text = seed.items[i].text, !.status = seed.items[i].status]]
    \o (IF seed.result = None THEN <<>> ELSE <<seed.result>>)
    \o FlattenSeq(SetToSeq({InputEvents(seed, q) : q \in DOMAIN seed.inputs}))

decodeCurrentSeed(seed) ==
    LET s == Replay(SeedEvents(seed))
    IN  [s EXCEPT !.ok = @ /\ SeedIsValid(seed), !.cursor = seed.lastSeq, !.worker = seed.worker,
                  !.activeTurnId = seed.activeTurnId, !.queue = seed.queue,
                  !.metadata = seed.metadata, !.native = seed.native]

---------------------------------------------------------------------------
(* The broker's critical sections *)

(* appendLocked, for each event in turn. A client does nothing but read, so it
   follows at once; when its events arrive is the subject of AgentStream. Nobody
   follows a journal with an event that cannot be decoded. *)
Emit(events) ==
    /\ complete.ok /\ complete.cursor + Len(events) <= MaxEvents
    /\ complete' = FoldLeft(reduceEvent, complete, events)
    /\ client' = IF client = None THEN None ELSE FoldLeft(reduceEvent, client, events)

(* releaseHistoryLocked forgets the view of a conversation that rests. *)
Released(v, st, t, ins) == IF t = None /\ st \in {"closed", "disconnected"} /\ DOMAIN ins = {} THEN None ELSE v

StateEvent(st, t) == [Event("session.state") EXCEPT !.status = st, !.turn = t]
Notice == [Event("notice") EXCEPT !.turn = turn]
QueueEvent(q) == [Event("prompt.queue") EXCEPT !.queue = q, !.turn = turn]
Held == [queue EXCEPT !.revision = @ + 1, !.paused = TRUE]
MustHold == queue.items # <<>> /\ ~ queue.paused

(* startPromptLocked: the user message and the running state; a queued prompt
   also leaves the queue, which is written again. *)
Start(t, queued) ==
    LET user == [Event("item.snapshot") EXCEPT !.turn = t, !.item = "user", !.role = "user", !.text = <<t>>, !.status = "submitted"]
        rest == [queue EXCEPT !.revision = @ + 1, !.items = Tail(@)]
        after == [Event("prompt.queue") EXCEPT !.queue = rest, !.turn = t]
    IN  /\ state = "ready" /\ turn = None /\ driver
        /\ Emit(<<user, StateEvent("running", t)>> \o (IF queued THEN <<after>> ELSE <<>>))
        /\ state' = "running" /\ turn' = t /\ ended' = None /\ stopped' = FALSE
        /\ started' = started \cup {t}
        /\ view' = applyCurrent(view, user)
        /\ queue' = IF queued THEN rest ELSE queue
        /\ UNCHANGED <<asked, driver, inputs>>

Queued(t) == \E i \in DOMAIN queue.items : queue.items[i] = t

Prompt(t) == t \notin started /\ ~ Queued(t) /\ Start(t, FALSE)

(* drainQueueLocked *)
Drain == queue.items # <<>> /\ ~ queue.paused /\ Start(queue.items[1], TRUE)

(* The enqueue command, while a turn runs. *)
Enqueue(t) ==
    LET q == [queue EXCEPT !.revision = @ + 1, !.items = Append(@, t)]
    IN  /\ turn # None /\ t \notin started /\ ~ Queued(t)
        /\ Emit(<<QueueEvent(q)>>)
        /\ queue' = q
        /\ UNCHANGED <<asked, state, turn, ended, stopped, driver, started, inputs, view>>

(* receive: the agent reports an item of the turn, even after its end. *)
ReceiveItem(i, role, kind, status) ==
    LET e == [Event(kind) EXCEPT !.turn = turn, !.item = i, !.role = role, !.status = status,
                                 !.text = IF kind = "item.patch" THEN <<>> ELSE <<kind>>]
    IN  /\ turn # None /\ state # "closed"
        /\ Emit(<<e>>)
        /\ view' = applyCurrent(view, e)
        /\ UNCHANGED <<asked, state, turn, ended, stopped, driver, started, inputs, queue>>

(* receive: the agent reports the end of the turn. *)
ReceiveEnd(status) ==
    LET e == [Event("turn.end") EXCEPT !.turn = turn, !.status = status]
    IN  /\ turn # None /\ ended = None /\ state # "closed"
        /\ Emit(<<e>>)
        /\ ended' = status
        /\ view' = applyCurrent(view, e)
        /\ UNCHANGED <<asked, state, turn, stopped, driver, started, inputs, queue>>

(* askRuntime, up to the wait for an answer. *)
Ask(q, kind) ==
    /\ turn # None /\ ended = None /\ state \notin {"closed", "cancelling"}
    /\ q \notin DOMAIN inputs /\ q \notin asked
    /\ asked' = asked \cup {q}
    /\ Emit(<<[Event("input.request") EXCEPT !.turn = turn, !.item = q, !.request = kind], StateEvent("awaiting-input", turn)>>)
    /\ inputs' = With(inputs, q, [turn |-> turn, kind |-> kind, submitted |-> FALSE, decision |-> None])
    /\ state' = "awaiting-input"
    /\ UNCHANGED <<turn, ended, stopped, driver, started, view, queue>>

(* Answer: the receipt of a decision; the event takes the turn that runs. *)
Answer(q) ==
    /\ q \in DOMAIN inputs /\ ~ inputs[q].submitted
    /\ ended = None /\ state \notin {"closed", "cancelling"}
    /\ \E decision \in {"allow", "deny"} :
         /\ Emit(<<[Event("input.submitted") EXCEPT !.turn = turn, !.item = q, !.status = "submitted", !.decision = decision]>>)
         /\ inputs' = [inputs EXCEPT ![q].submitted = TRUE, ![q].decision = decision]
    /\ UNCHANGED <<asked, state, turn, ended, stopped, driver, started, view, queue>>

(* askRuntime after the wait: answered, or cancelled by the end of the turn, a
   stop, a close or the agent. *)
Resolve(q) ==
    /\ q \in DOMAIN inputs
    /\ \E status \in (IF inputs[q].submitted THEN {"answered", "expired"} ELSE {"expired"}) :
         LET rest == Without(inputs, q)
             resumes == DOMAIN rest = {} /\ turn = inputs[q].turn /\ ended = None /\ state = "awaiting-input"
         IN  /\ Emit(<<[Event("input.resolved") EXCEPT !.turn = inputs[q].turn, !.item = q, !.status = status]>>
                     \o (IF resumes THEN <<StateEvent("running", turn)>> ELSE <<>>))
             /\ inputs' = rest
             /\ state' = IF resumes THEN "running" ELSE state
             /\ view' = Released(view, state, turn, rest)
    /\ UNCHANGED <<asked, turn, ended, stopped, driver, started, queue>>

(* Cancel: the queue is held; once the client took the stop it is recorded,
   even over a close. *)
Stop ==
    /\ turn # None /\ ended = None /\ ~ stopped /\ driver
    /\ stopped' = TRUE
    /\ Emit(IF MustHold THEN <<QueueEvent(Held)>> ELSE <<>>)
    /\ queue' = IF MustHold THEN Held ELSE queue
    /\ UNCHANGED <<asked, state, turn, ended, driver, started, inputs, view>>

StopAccepted ==
    /\ stopped /\ turn # None /\ ended = None /\ state # "cancelling"
    /\ Emit(<<StateEvent("cancelling", None)>>)
    /\ state' = "cancelling"
    /\ UNCHANGED <<asked, turn, ended, stopped, driver, started, inputs, view, queue>>

(* runTurn after the prompt returned: the end of the turn if the agent reported
   none, the queue held unless it completed, and the state of the conversation. *)
Finish(failed) ==
    LET end == [Event("turn.end") EXCEPT !.turn = turn, !.status = "unknown"]
        hold == MustHold /\ (failed \/ ended # "completed" \/ stopped)
        next == IF failed \/ ended = None THEN "disconnected" ELSE "ready"
        closed == state = "closed"
    IN  /\ turn # None
        /\ Emit((IF ended # None THEN <<>> ELSE <<end>>) \o (IF failed THEN <<Notice>> ELSE <<>>) \o (IF hold THEN <<QueueEvent(Held)>> ELSE <<>>)
                \o (IF closed THEN <<>> ELSE <<StateEvent(next, None)>>))
        /\ turn' = None /\ stopped' = FALSE
        /\ state' = IF closed THEN state ELSE next
        /\ queue' = IF hold THEN Held ELSE queue
        /\ view' = Released(IF ended # None THEN view ELSE applyCurrent(view, end), state', None, inputs)
        /\ UNCHANGED <<asked, ended, driver, started, inputs>>

(* UpdateMetadata, and the identity a driver reports once. *)
Rename ==
    /\ Emit(<<[Event("session.metadata") EXCEPT !.metadata = Or(complete.metadata, 1) + 1, !.turn = turn]>>)
    /\ UNCHANGED <<asked, state, turn, ended, stopped, driver, started, inputs, view, queue>>

ReceiveIdentity ==
    /\ state # "closed" /\ complete.native = None
    /\ Emit(<<[Event("session.identity") EXCEPT !.native = "native"]>>)
    /\ UNCHANGED <<asked, state, turn, ended, stopped, driver, started, inputs, view, queue>>

(* retireRuntimeLocked *)
Close ==
    /\ state # "closed"
    /\ Emit(<<StateEvent("closed", None)>>)
    /\ state' = "closed"
    /\ driver' = FALSE
    /\ view' = Released(view, "closed", turn, inputs)
    /\ UNCHANGED <<asked, turn, ended, stopped, started, inputs, queue>>

(* Reconnect and the end of connect. *)
Reconnect ==
    /\ state \in {"disconnected", "closed"} /\ turn = None
    /\ Emit(<<Event("session.runtime"), StateEvent("starting", None)>>)
    /\ state' = "starting"
    /\ UNCHANGED <<asked, turn, ended, stopped, driver, started, inputs, view, queue>>

Connected(ok) ==
    /\ state = "starting"
    /\ state' = IF ok THEN "ready" ELSE "disconnected"
    /\ driver' = ok
    /\ Emit((IF ok THEN <<>> ELSE <<Notice>>) \o <<StateEvent(state', None)>>)
    /\ view' = Released(view, state', turn, inputs)
    /\ UNCHANGED <<asked, turn, ended, stopped, started, inputs, queue>>

---------------------------------------------------------------------------
(* The client *)

(* The seed is installed; one that cannot be decoded is refused. *)
Seed ==
    /\ HasCurrent
    /\ decodeCurrentSeed(Current).ok
    /\ client' = decodeCurrentSeed(Current)
    /\ UNCHANGED broker

Init ==
    /\ complete = emptyStream /\ asked = {} /\ state = "starting" /\ turn = None /\ ended = None /\ stopped = FALSE /\ driver = FALSE
    /\ started = {} /\ inputs = <<>> /\ view = None /\ client = None
    /\ queue = [revision |-> 0, paused |-> FALSE, items |-> <<>>]

Next ==
    \/ \E t \in Turns : Prompt(t) \/ Enqueue(t)
    \/ Drain
    \/ \E i \in Items, kind \in ItemKinds, status \in {None, "completed"} : ReceiveItem(i, "tool", kind, status)
    \/ \E status \in {"completed", "failed", "cancelled"} : ReceiveEnd(status)
    \/ \E q \in Requests : (\E kind \in {"permission", "question"} : Ask(q, kind)) \/ Answer(q) \/ Resolve(q)
    \/ Stop \/ StopAccepted \/ Close \/ Reconnect \/ Rename \/ ReceiveIdentity
    \/ \E failed \in BOOLEAN : Finish(failed) \/ Connected(~ failed)
    \/ Seed

Spec == Init /\ [][Next]_vars

---------------------------------------------------------------------------
(* Every request the broker holds is of the turn that runs: no wait of an earlier
   turn has still to take the lock again and clean up after itself. *)
Settled == \A q \in DOMAIN inputs : inputs[q].turn = turn

(* The items of c are the last ones of r, and every item of the active turn is
   among them. An item first reported after the end of its turn is marked with the
   result by a seed and not by a replay. *)
ItemsAgree(c, r) ==
    LET skipped == Len(r.items) - Len(c.items)
    IN  /\ skipped >= 0
        /\ \A i \in DOMAIN c.items :
              LET full == r.items[skipped + i]
              IN  c.items[i] = [full EXCEPT !.turnStatus = Or(@, c.items[i].turnStatus)]
        /\ r.activeTurnId # None => \A i \in 1 .. skipped : r.items[i].turn # r.activeTurnId

(* A client that joined late shows what a client shows that was there from the
   start: the state of the worker, the queue, every item of the turn with its text
   and status and, while the turn can be answered, the active turn and what was
   decided (applyCurrentLocked, Broker.Current, decodeCurrentSeed, reduceEvent).
   It holds for the state seeded at any moment and after each event that follows. *)
JoinsLateSeesAll ==
    client # None /\ complete.ok =>
        LET r == complete
        IN  /\ client.ok /\ client.cursor = r.cursor
            /\ client.worker = r.worker /\ client.queue = r.queue /\ client.native = r.native
            /\ r.metadata # None => client.metadata = r.metadata
            /\ ItemsAgree(client, r)
            /\ r.worker \notin {"cancelling", "closed", "disconnected"} =>
                  /\ client.activeTurnId = r.activeTurnId
                  /\ \A q \in DOMAIN client.decisions : Settled =>
                        [client.decisions[q] EXCEPT !.turn = None] = [r.decisions[q] EXCEPT !.turn = None]

(* A client that has caught up offers an answer exactly where the broker takes one:
   every open request of the running turn is on display, so that the agent is not
   left waiting, and nothing is on display that the broker has let go (askRuntime,
   Answer, reduceInput, decodeCurrentSeed). *)
RequestsShown ==
    client # None /\ complete.ok =>
        /\ \A q \in DOMAIN client.pending : q \in DOMAIN inputs /\ client.pending[q].submitted = inputs[q].submitted
        /\ \A q \in DOMAIN inputs :
              inputs[q].turn = turn /\ ended = None /\ state \notin {"cancelling", "closed"} => q \in DOMAIN client.pending

(* Whatever Broker.Current answers while no wait of an earlier turn is left can be
   decoded, and so can every event a client follows from it: the view never mixes
   two turns, and has no result while a turn runs. *)
SettledSeedDecodes ==
    /\ HasCurrent /\ Settled => decodeCurrentSeed(Current).ok
    /\ Settled => complete.ok

(* Every current view the broker serves can be decoded: decodeCurrentSeed treats a
   view with requests and no turn as a protocol error ('Pending requests have no
   current turn.'). *)
ServedDecodes == HasCurrent => decodeCurrentSeed(Current).ok
=============================================================================
