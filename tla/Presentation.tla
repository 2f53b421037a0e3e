---------------------------- MODULE Presentation ----------------------------
(***************************************************************************)
(* From the state of a conversation to the rows on screen: the cached      *)
(* projection of agentPresentation.ts with the array tokens of state.ts,   *)
(* the retained view of AgentConversation.tsx, the outbox rows of          *)
(* optimisticMessages.ts and the merge of dated rows into the journal.     *)
(*                                                                         *)
(* JavaScript compares objects by identity. vers holds the identity of the *)
(* object of each item, array that of the array: an event makes a new      *)
(* array and new objects where it changes an item and keeps the others.    *)
(***************************************************************************)
EXTENDS StreamState, TLC

CONSTANTS
    Sessions,     \* conversations a page shows
    Turns,        \* identities of turns
    Items,        \* identities of the items an agent reports
    RoleOf,       \* the role of each item
    Titled,       \* the items that have a title of their own
    WithImages,   \* the tool items whose result has images
    Locales,      \* languages of the display
    Requests,     \* identities of requests
    Outboxes,     \* lists of outgoing messages the host may pass
    At,           \* createdAt of each row, or None
    MaxEvents     \* bound: arrays of items that are made

ASSUME PresentationAssumption ==
    /\ RoleOf \in [Items -> Roles]
    /\ Titled \subseteq Items
    /\ WithImages \subseteq {i \in Items : RoleOf[i] = "tool"}   \* only the call of a tool has a result
    /\ \A i \in Items : RoleOf[i] = "user" => i = "user"        \* drivers drop the agent's echo of a prompt
    /\ None \notin Nat \cup Turns                              \* no object and no turn is the absent one
    /\ Turns \cap {"optimistic", "decision", "failure"} = {}    \* the keys of rows have prefixes that differ
    /\ \A outbox \in Outboxes : \A i \in DOMAIN outbox : outbox[i].turn \in Turns \cup {None}
    /\ \A outbox \in Outboxes : Len(outbox) \in Nat /\ DOMAIN outbox = 1 .. Len(outbox)
    /\ \A id \in DOMAIN At : At[id] \in Nat \cup {None}

VARIABLES
    session,    \* state.sessionId
    stream,     \* the state of that conversation
    vers,       \* per item the identity of its object
    array,      \* the items array: identity, the array it was made from, the indices that changed
    pendingVer, \* identity of the pending record
    made,       \* identities handed out
    projector,  \* the caches of createNativeTimelineProjector
    retained,   \* what AgentConversation shows, or None
    shown       \* the rows on screen

vars == <<session, stream, vers, array, pendingVer, made, projector, retained, shown>>
data == <<session, stream, vers, array, pendingVer, made>>

---------------------------------------------------------------------------
(* The projection *)

Progress(item) == item.status \in {"running", "pending"}
Stalled(item, s) == Progress(item) /\ (item.turnStatus # None \/ s.activeTurnId # item.turn \/ s.worker \in {"disconnected", "closed"})
Interrupted(item) == Progress(item) /\ item.turnStatus = "cancelled"
Streaming(item, s) == s.worker = "running" /\ s.activeTurnId = item.turn /\ item.status = "running"

(* toolData: the labels of images are in the language of the display. *)
toolData(item, locale) == IF item.id \in WithImages THEN <<"images", locale>> ELSE <<"data">>

Title(item, locale) == IF item.id \in Titled THEN <<"title">> ELSE <<item.role, locale>>

(* timelineItem: the row of an item. Only a tool can be unconfirmed. *)
timelineItem(item, s, locale) ==
    LET id == <<item.turn, item.id>>
        unconfirmed == item.role = "tool" /\ Stalled(item, s) /\ ~ Interrupted(item)
        status == IF item.role = "tool" /\ Interrupted(item) THEN <<"interrupted", locale>>
                  ELSE IF unconfirmed THEN <<"unconfirmed", locale>>
                  ELSE IF item.role # "tool" /\ Progress(item) THEN None ELSE <<item.status>>
        tone == IF item.status = "failed" THEN "error" ELSE IF unconfirmed THEN "warning" ELSE item.role
    IN  CASE item.role \in {"user", "assistant"} ->
               [kind |-> "message", id |-> id, role |-> item.role, text |-> item.text, truncated |-> item.truncated,
                streaming |-> item.role = "assistant" /\ Streaming(item, s)]
          [] item.role = "plan" ->
               [kind |-> "plan", id |-> id, title |-> Title(item, locale), text |-> item.text, truncated |-> item.truncated]
          [] item.role \in {"tool", "activity"} ->
               [kind |-> "work", id |-> id, title |-> Title(item, locale), text |-> item.text, status |-> status,
                tone |-> tone, data |-> toolData(item, locale), truncated |-> item.truncated]

(* Mutant of timelineProjectionKey: the key ignores stalled tools. *)
ProjectionKeyWithoutStall(sessionId, item, s, locale) ==
    CASE item.role = "user" -> <<sessionId>>
      [] item.role = "assistant" -> <<sessionId, Streaming(item, s)>>
      [] item.role \in {"plan", "activity"} -> <<sessionId, IF item.id \in Titled THEN None ELSE locale>>
      [] item.role = "tool" -> <<sessionId, IF item.id \notin Titled \cup WithImages THEN locale ELSE None, Interrupted(item)>>

(* timelineProjectionKey: what else than the item a row depends on. *)
timelineProjectionKey(sessionId, item, s, locale) ==
    CASE item.role = "user" -> <<sessionId>>
      [] item.role = "assistant" -> <<sessionId, Streaming(item, s)>>
      [] item.role \in {"plan", "activity"} -> <<sessionId, IF item.id \in Titled THEN None ELSE locale>>
      [] item.role = "tool" ->
           LET localized == item.id \notin Titled \/ Stalled(item, s) \/ Interrupted(item) \/ item.id \in WithImages
           IN  <<sessionId, IF localized THEN locale ELSE None, Stalled(item, s), Interrupted(item)>>

(* A request as a card, in the language of the display, and all of them. *)
nativeRequestPresentation(s, q, locale) == <<q, s.pending[q], locale>>
projectPending(s, locale) == {nativeRequestPresentation(s, q, locale) : q \in DOMAIN s.pending}

LastTurn(s, locale) == [kind |-> "work", id |-> <<"last-turn">>, status |-> s.lastTurnStatus, title |-> locale]
ShowsLastTurn(s) == s.lastTurnStatus \notin {None, "completed"} /\ ~ (s.lastTurnStatus = "failed" /\ s.turnFailures # {})

(* nativeConversationModel without a projector: the reference. *)
DirectItems(s, locale) == [i \in DOMAIN s.items |-> timelineItem(s.items[i], s, locale)]
WithLastTurn(s, locale, rows, last) == IF ShowsLastTurn(s) THEN Append(rows, last) ELSE rows

---------------------------------------------------------------------------
(* createNativeTimelineProjector *)

newProjector == [array |-> None, vers |-> <<>>, output |-> <<>>, context |-> None, entries |-> <<>>,
                 pending |-> None, pendingLocale |-> None, pendingRows |-> {}, lastKey |-> None, last |-> None]

(* presentationItemChanges: the indices by which an array differs from the one
   it was made from, if that is the array projected last. *)
presentationItemChanges(previous, next) ==
    IF previous # None /\ next.previous = previous THEN next.indices ELSE None

(* items: nothing to do for the same array in the same context; otherwise the
   changed rows, or all of them, from the row projected last, the row cached with
   the object, or anew. *)
ProjectItems(p, v, locale) ==
    LET s == v.stream
        context == <<v.session, locale, s.worker, s.activeTurnId>>
        same == p.context = context
        changes == IF p.array # None /\ same THEN presentationItemChanges(p.array, v.array) ELSE None
        key(i) == timelineProjectionKey(v.session, s.items[i], s, locale)
        kept(i) == same /\ i \in DOMAIN p.vers /\ (i \in DOMAIN p.vers => p.vers[i] = v.vers[i])
        cached(i) == v.vers[i] \in DOMAIN p.entries /\ (v.vers[i] \in DOMAIN p.entries => p.entries[v.vers[i]].key = key(i))
        row(i) == IF kept(i) THEN p.output[i]
                  ELSE IF cached(i) THEN p.entries[v.vers[i]].value
                  ELSE timelineItem(s.items[i], s, locale)
        touched == IF changes = None THEN DOMAIN s.items ELSE changes
        output == [i \in DOMAIN s.items |-> IF i \in touched THEN row(i) ELSE p.output[i]]
        stored == {i \in touched : ~ kept(i)}
    IN  IF p.array = v.array.id /\ same THEN p
        ELSE IF changes # None /\ changes = {} /\ Len(p.output) = Len(s.items) THEN [p EXCEPT !.array = v.array.id, !.vers = v.vers]
        ELSE [p EXCEPT !.array = v.array.id, !.vers = v.vers, !.output = output, !.context = context,
                       !.entries = [o \in ToSet(v.vers) \cap (DOMAIN @ \cup {v.vers[i] : i \in stored}) |->
                                      IF \E i \in stored : v.vers[i] = o
                                      THEN LET i == CHOOSE i \in stored : v.vers[i] = o IN [key |-> key(i), value |-> row(i)]
                                      ELSE @[o]]]

(* pending and lastTurn, each with a cache of one entry. *)
ProjectPending(p, v, locale) ==
    IF p.pending = v.pendingVer /\ p.pendingLocale = locale THEN p
    ELSE [p EXCEPT !.pending = v.pendingVer, !.pendingLocale = locale, !.pendingRows = projectPending(v.stream, locale)]

ProjectLastTurn(p, v, locale) ==
    LET key == <<v.session, v.stream.lastTurnStatus, locale>>
    IN  IF ~ ShowsLastTurn(v.stream) \/ (p.last # None /\ p.lastKey = key) THEN p
        ELSE [p EXCEPT !.lastKey = key, !.last = LastTurn(v.stream, locale)]

nativeConversationModel(p, v, locale) == ProjectLastTurn(ProjectPending(ProjectItems(p, v, locale), v, locale), v, locale)

---------------------------------------------------------------------------
(* Rows that are not of the journal *)

RowId(m) == IF m.turn = None THEN <<"optimistic", m.id>> ELSE <<m.turn, "user">>

(* Mutant of optimisticTimelineItems: a message is shown until removed. *)
OptimisticUntilRemoved(sessionId, s, sent) ==
    [i \in DOMAIN sent |-> [kind |-> "message", id |-> RowId(sent[i]), optimistic |-> TRUE, state |-> sent[i].status]]

OptimisticRow(m) ==
    [kind |-> "message", id |-> RowId(m), optimistic |-> TRUE,
     state |-> IF m.status = "failed" THEN "failed" ELSE "sending", retry |-> m.status = "failed"]

(* optimisticTimelineItems: a message of the outbox until its turn is received,
   and one row for each identity. *)
optimisticTimelineItems(sessionId, s, sent) ==
    LET received == {s.items[i].turn : i \in {i \in DOMAIN s.items : s.items[i].role = "user"}}
        open == {k \in DOMAIN sent : sent[k].session \in {None, sessionId} /\ sent[k].turn \notin received}
        first == {k \in open : \A l \in open : l < k => RowId(sent[l]) # RowId(sent[k])}
        rows[k \in 0 .. Len(sent)] ==
            IF k = 0 THEN <<>> ELSE IF k \in first THEN Append(rows[k - 1], OptimisticRow(sent[k])) ELSE rows[k - 1]
    IN  rows[Len(sent)]

(* A request that was decided, and the state of its card (AgentDecisionHistory). *)
DecisionState(d) ==
    IF d.status = "expired" THEN "expired"
    ELSE IF d.decision = "allow" THEN "allowed" ELSE IF d.decision = "deny" THEN "denied"
    ELSE IF d.decision = "cancel" THEN "canceled" ELSE "resolved"

Decided(s) == {q \in DOMAIN s.decisions : s.decisions[q].status \in {"answered", "expired"}}
Decisions(s) ==
    SetToSeq({[kind |-> "custom", id |-> <<"decision", q>>, state |-> DecisionState(s.decisions[q])] : q \in Decided(s)})
Failures(s) == SetToSeq({[kind |-> "custom", id |-> <<"failure", t>>] : t \in s.turnFailures})

(* itemTime: only messages and custom rows have a time. *)
itemTime(row) == IF row.kind \in {"message", "custom"} /\ row.id \in DOMAIN At THEN At[row.id] ELSE None

(* sort: rows by time, undated ones last, equal ones as they came. *)
Sooner(rows, i, j) ==
    LET s == itemTime(rows[i])
        t == itemTime(rows[j])
    IN  (s # None /\ (t = None \/ s < t)) \/ (s = t /\ i < j)
Sorted(rows) ==
    LET rank == [i \in DOMAIN rows |-> Cardinality({j \in DOMAIN rows : Sooner(rows, j, i)}) + 1]
    IN  [k \in DOMAIN rows |-> rows[CHOOSE i \in DOMAIN rows : rank[i] = k]]

Due(row, other) == itemTime(row) # None /\ itemTime(other) # None /\ itemTime(row) <= itemTime(other)

(* mergeTimelineItems: each row of the journal goes behind the additional rows
   that are next and not younger; what is left comes last. *)
mergeTimelineItems(native, additional) ==
    LET dated == Sorted(additional)
        cursor[n \in 0 .. Len(native)] ==
            IF n = 0 THEN 0
            ELSE Min({k \in cursor[n - 1] .. Len(dated) : k = Len(dated) \/ ~ Due(dated[k + 1], native[n])})
        result[n \in 0 .. Len(native)] ==
            IF n = 0 THEN <<>>
            ELSE result[n - 1] \o SubSeq(dated, cursor[n - 1] + 1, cursor[n]) \o <<native[n]>>
    IN  result[Len(native)] \o SubSeq(dated, cursor[Len(native)] + 1, Len(dated))

---------------------------------------------------------------------------
(* AgentConversation *)

Rows(p, v) ==
    LET native == WithLastTurn(v.stream, v.locale, p.output, p.last)
    IN  [view |-> v, native |-> native, pending |-> p.pendingRows,
         items |-> mergeTimelineItems(native, Decisions(v.stream) \o Failures(v.stream) \o optimisticTimelineItems(v.session, v.stream, v.outbox))]

(* A render with the outbox the host passes. An inactive conversation keeps the view it had when it was last
   active, or shows an empty one; the projector lives as long as the conversation. *)
Render(active, locale, outbox) ==
    LET mine == retained # None /\ (retained # None => retained.session = session)
        now == [session |-> session, stream |-> stream, vers |-> vers, array |-> array, pendingVer |-> pendingVer,
                locale |-> locale, outbox |-> outbox]
        empty == [now EXCEPT !.stream = emptyStream, !.vers = <<>>, !.array = [id |-> 0, previous |-> None, indices |-> {}],
                             !.pendingVer = 0, !.outbox = <<>>]
        view == IF active THEN now ELSE IF mine THEN retained ELSE empty
        memo == IF projector.session = view.session THEN projector ELSE [session |-> view.session, cache |-> newProjector]
        cache == nativeConversationModel(memo.cache, view, view.locale)
    IN  /\ retained' = IF active \/ mine THEN view ELSE None
        /\ projector' = [memo EXCEPT !.cache = cache]
        /\ shown' = Rows(cache, view)
        /\ UNCHANGED data

---------------------------------------------------------------------------
(* The stream *)

(* reduceEvent with rememberItemChanges: the objects an event replaces. *)
Receive(e) ==
    LET next == reduceEvent(stream, e)
        indices == CASE e.kind \in ItemKinds -> {ItemIndex(stream.items, e.turn, e.item)}
                     [] e.kind = "turn.end" -> {i \in DOMAIN stream.items : stream.items[i].turn = e.turn}
                     [] OTHER -> {}
        newArray == e.kind \in ItemKinds \cup {"turn.end"}
        newPending == \/ e.kind \in {"input.request", "input.resolved", "turn.end", "session.runtime"}
                      \/ e.kind = "input.submitted" /\ e.item \in DOMAIN stream.pending
                      \/ e.kind = "session.state" /\ e.status \in {"closed", "disconnected"}
    IN  /\ made <= MaxEvents
        /\ next.ok
        /\ stream' = next
        /\ made' = made + 1
        /\ vers' = [i \in DOMAIN next.items |-> IF i \in indices THEN <<made', i>> ELSE vers[i]]
        /\ array' = IF newArray THEN [id |-> made', previous |-> array.id, indices |-> indices] ELSE array
        /\ pendingVer' = IF newPending THEN made' ELSE pendingVer
        /\ UNCHANGED <<session, projector, retained, shown>>

(* A state that was not reduced from the one before: a reset stream installs a new
   seed, which has the items of the last turn, the last of all, or the page shows another conversation. *)
Install(s, new) ==
    /\ made <= MaxEvents
    /\ session' = s
    /\ stream' = new
    /\ made' = made + 1
    /\ vers' = [i \in DOMAIN new.items |-> <<made', i>>]
    /\ array' = [id |-> made', previous |-> None, indices |-> {}]
    /\ pendingVer' = made'
    /\ UNCHANGED <<projector, retained, shown>>

Reseed ==
    /\ stream.items # <<>>
    /\ LET last == {i \in DOMAIN stream.items : stream.items[i].turn = stream.items[Len(stream.items)].turn}
           first == CHOOSE i \in last : \A k \in last : i <= k
       IN  Install(session, [stream EXCEPT !.items = SubSeq(@, first, Len(@))])

Switch(s) == s # session /\ Install(s, emptyStream)

(* What the broker may send next: a turn starts when none is active; its items,
   requests and result follow, items even after its end. *)
UserItem(t) == [Event("item.snapshot") EXCEPT !.turn = t, !.item = "user", !.role = "user", !.status = "submitted"]
Runs(t) == [Event("session.state") EXCEPT !.status = "running", !.turn = t]
Disconnected == [Event("session.state") EXCEPT !.status = "disconnected"]
ItemDelta(t, i, st) == [Event("item.delta") EXCEPT !.turn = t, !.item = i, !.role = RoleOf[i], !.status = st, !.text = <<"piece">>]
TurnEnd(t, st) == [Event("turn.end") EXCEPT !.turn = t, !.status = st]
Input(kind, t, q) == [Event(kind) EXCEPT !.turn = t, !.item = q, !.request = IF kind = "input.request" THEN "permission" ELSE None]

Current == IF stream.activeTurnId # None THEN {stream.activeTurnId}
           ELSE IF stream.items = <<>> THEN {} ELSE {stream.items[Len(stream.items)].turn}
Events ==
    {UserItem(t) : t \in {t \in Turns : stream.activeTurnId = None /\ \A i \in DOMAIN stream.items : stream.items[i].turn # t}}
    \cup {Runs(t) : t \in Current} \cup {Disconnected}
    \cup {ItemDelta(t, i, st) : t \in Current, i \in Items \ {"user"}, st \in {None, "completed"}}
    \cup {TurnEnd(t, st) : t \in Current, st \in {"failed", "cancelled"}}
    \cup {Input(kind, t, q) : kind \in {"input.request", "input.resolved"}, t \in Current, q \in Requests}

Init ==
    /\ session \in Sessions
    /\ stream = emptyStream /\ vers = <<>> /\ array = [id |-> 1, previous |-> None, indices |-> {}]
    /\ pendingVer = 1 /\ made = 1
    /\ projector = [session |-> None, cache |-> newProjector]
    /\ retained = None /\ shown = None

Next ==
    \/ \E e \in Events : Receive(e)
    \/ Reseed
    \/ \E s \in Sessions : Switch(s)
    \/ \E active \in BOOLEAN, locale \in Locales, outbox \in Outboxes : Render(active, locale, outbox)

Spec == Init /\ [][Next]_vars

---------------------------------------------------------------------------
(* The rows on screen are the rows the state gives, computed anew: no cache of the
   projector (the array, the delta between two arrays, the row kept with an object,
   the pending requests, the last turn) ever shows a row of an earlier state, of
   another language or of another conversation, however many events, seeds or
   renders came in between (createNativeTimelineProjector, presentationItemChanges). *)
ProjectionIsFresh ==
    shown # None =>
        LET v == shown.view
        IN  /\ shown.native = WithLastTurn(v.stream, v.locale, DirectItems(v.stream, v.locale), LastTurn(v.stream, v.locale))
            /\ shown.pending = projectPending(v.stream, v.locale)

(* Every row is on screen once: a message of the outbox whose turn the host
   knows as its own row until the stream has that turn, then as the row of the
   journal, one whose turn it does not know yet as its own row, so that nothing
   the user sent disappears or appears twice; a decision and a failed turn have
   theirs; and no two rows share the key React tells them apart by
   (optimisticTimelineItems, mergeTimelineItems). *)
EachRowOnce ==
    shown # None =>
        /\ \A i, j \in DOMAIN shown.items : shown.items[i].id = shown.items[j].id => i = j
        /\ \A k \in DOMAIN shown.view.outbox :
              LET m == shown.view.outbox[k]
              IN  m.session \in {None, shown.view.session} => \E i \in DOMAIN shown.items : shown.items[i].id = RowId(m)
        /\ \A q \in Decided(shown.view.stream) : \E i \in DOMAIN shown.items : shown.items[i].id = <<"decision", q>>
        /\ \A t \in shown.view.stream.turnFailures : \E i \in DOMAIN shown.items : shown.items[i].id = <<"failure", t>>

(* Merging never loses or reorders a row of the journal, and a dated row stands in
   front of a row of the journal exactly if that row or one before it is not
   older; undated rows come last (mergeTimelineItems). *)
MergeKeepsOrder ==
    shown # None =>
        LET place == [n \in DOMAIN shown.native |-> CHOOSE k \in DOMAIN shown.items : shown.items[k] = shown.native[n]]
            ids == {shown.native[n].id : n \in DOMAIN shown.native}
        IN  /\ \A n \in DOMAIN shown.native : \E k \in DOMAIN shown.items : shown.items[k] = shown.native[n]
            /\ \A m, n \in DOMAIN shown.native : m < n => place[m] < place[n]
            /\ \A k \in DOMAIN shown.items : shown.items[k].id \notin ids =>
                  \A n \in DOMAIN shown.native : k < place[n] <=> \E m \in 1 .. n : Due(shown.items[k], shown.native[m])

(* The timeline shows everything once and in its place. *)
TimelineIsWhole == EachRowOnce /\ MergeKeepsOrder
=============================================================================
