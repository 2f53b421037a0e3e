---------------------------- MODULE StreamState ----------------------------
(***************************************************************************)
(* The reducer of the web client (state.ts): what one event of the journal *)
(* does to the state on display. Events, items and requests keep the       *)
(* fields that decide what is shown; a text is the sequence of the pieces  *)
(* it was built from. An error of the reducer is the field ok.             *)
(***************************************************************************)
EXTENDS Naturals, Sequences, FiniteSets, SequencesExt

CONSTANTS
    None,        \* an absent field
    ItemLimit,   \* items a conversation shows (2048)
    TextLimit    \* ITEM_LIMIT: pieces of text an item keeps

ASSUME StateAssumption == ItemLimit \in Nat /\ TextLimit \in Nat

TurnStates == {"running", "awaiting-input", "cancelling"}
WorkerStates == TurnStates \cup {"starting", "ready", "disconnected", "closed"}
TurnResults == {"completed", "failed", "cancelled", "unknown", "incomplete", "refused", "blocked"}
ItemKinds == {"item.delta", "item.snapshot", "item.patch"}
InputKinds == {"input.request", "input.submitted", "input.resolved"}
Roles == {"user", "assistant", "tool", "plan", "activity"}

(* An event with every field absent; the broker fills in what its kind has. *)
Event(kind) == [kind |-> kind, turn |-> None, item |-> None, role |-> None, text |-> <<>>,
                status |-> None, request |-> None, decision |-> None, queue |-> None, metadata |-> None, native |-> None]

(* metadata is the revision of the metadata, native the identity of the agent's own session. *)

(* decodeEvent: the fields an event of each kind must have. The formats of
   identities, texts, numbers and details are checked by the decoders it calls. *)
decodeEvent(e) ==
    /\ e.kind \in ItemKinds => e.turn # None /\ e.item # None /\ e.role \in Roles
    /\ e.kind \in InputKinds => e.turn # None /\ e.item # None
    /\ e.kind = "input.request" => e.request # None
    /\ e.decision # None => e.kind \in {"input.submitted", "input.resolved"}
    /\ e.kind = "session.state" => e.status \in WorkerStates
    /\ e.kind = "turn.end" => e.turn # None /\ e.status \in TurnResults
    /\ e.kind = "prompt.queue" => e.queue # None
    /\ e.kind = "session.metadata" => e.metadata # None
    /\ e.kind = "session.identity" => e.native # None

emptyStream == [cursor |-> 0, worker |-> "starting", activeTurnId |-> None, items |-> <<>>,
                pending |-> <<>>, decisions |-> <<>>, queue |-> None, metadata |-> None, native |-> None, lastTurnStatus |-> None,
                turnFailures |-> {}, ok |-> TRUE]

Without(f, k) == [i \in DOMAIN f \ {k} |-> f[i]]
With(f, k, v) == [i \in DOMAIN f \cup {k} |-> IF i = k THEN v ELSE f[i]]

(* expireDecisions: what was still open can no longer be answered. *)
expireDecisions(decisions) ==
    [id \in DOMAIN decisions |-> IF decisions[id].status \in {"pending", "submitted"}
                                 THEN [decisions[id] EXCEPT !.status = "expired"] ELSE decisions[id]]

(* The position of an item of a turn, or one past the end. *)
ItemIndex(items, turn, id) ==
    LET found == {i \in DOMAIN items : items[i].turn = turn /\ items[i].id = id}
    IN  IF found = {} THEN Len(items) + 1 ELSE CHOOSE i \in found : TRUE

Or(new, old) == IF new = None THEN old ELSE new

(* An item after an event: a delta appends, a snapshot replaces, a patch keeps
   the text; a text over the limit is cut, and a delta on a full text is dropped. *)
UpdatedItem(old, e) ==
    LET content == CASE e.kind = "item.delta" -> (IF Len(old.text) = TextLimit THEN old.text ELSE old.text \o e.text)
                     [] e.kind = "item.snapshot" -> e.text
                     [] e.kind = "item.patch" -> old.text
        clipped == \/ Len(content) > TextLimit
                   \/ e.kind = "item.delta" /\ Len(old.text) = TextLimit /\ e.text # <<>>
    IN  [old EXCEPT !.text = IF Len(content) > TextLimit THEN SubSeq(content, 1, TextLimit) ELSE content,
                    !.status = Or(e.status, @),
                    !.truncated = clipped \/ (e.kind # "item.snapshot" /\ @)]

NewItem(e) == [turn |-> e.turn, id |-> e.item, role |-> e.role, text |-> <<>>, status |-> "running",
               turnStatus |-> None, truncated |-> FALSE]

reduceItem(state, e) ==
    LET i == ItemIndex(state.items, e.turn, e.item)
        new == i > Len(state.items)
        item == UpdatedItem(IF new THEN NewItem(e) ELSE state.items[i], e)
    IN  IF new THEN [state EXCEPT !.items = Append(@, item), !.ok = Len(state.items) < ItemLimit]
        ELSE [state EXCEPT !.items[i] = item, !.ok = state.items[i].role = e.role]

reduceInput(state, e) ==
    CASE e.kind = "input.request" ->
           [state EXCEPT !.pending = With(@, e.item, [kind |-> e.request, submitted |-> FALSE]),
                         !.decisions = IF e.request = "question" THEN @
                                       ELSE With(@, e.item, [turn |-> e.turn, status |-> "pending", decision |-> None])]
      [] e.kind = "input.submitted" ->
           [state EXCEPT !.pending = IF e.item \in DOMAIN @ THEN [@ EXCEPT ![e.item].submitted = TRUE] ELSE @,
                         !.decisions = IF e.item \in DOMAIN @
                                       THEN [@ EXCEPT ![e.item].status = "submitted", ![e.item].decision = e.decision] ELSE @]
      [] e.kind = "input.resolved" ->
           [state EXCEPT !.pending = Without(@, e.item),
                         !.decisions = IF e.item \in DOMAIN @
                                       THEN [@ EXCEPT ![e.item].status = IF e.status = "expired" THEN "expired" ELSE "answered",
                                                      ![e.item].decision = Or(e.decision, @)] ELSE @]

(* A state event names the active turn; a state that has none ends it. *)
reduceState(state, e) ==
    LET gone == e.status \in {"closed", "disconnected"}
    IN  [state EXCEPT !.worker = e.status,
                      !.activeTurnId = IF e.status \in TurnStates THEN Or(e.turn, @) ELSE None,
                      !.pending = IF gone THEN <<>> ELSE @,
                      !.decisions = IF gone THEN expireDecisions(@) ELSE @]

(* The end of a turn expires its requests and marks its items, but leaves the
   status of each item as it was last reported. *)
reduceTurnEnd(state, e) ==
    [state EXCEPT !.pending = <<>>,
                  !.decisions = expireDecisions(@),
                  !.lastTurnStatus = e.status,
                  !.turnFailures = IF e.status = "failed" THEN @ \cup {e.turn} ELSE @,
                  !.activeTurnId = IF @ = e.turn THEN None ELSE @,
                  !.items = [i \in DOMAIN @ |-> IF @[i].turn = e.turn THEN [@[i] EXCEPT !.turnStatus = e.status] ELSE @[i]]]

reduceEvent(state, e) ==
    LET next == CASE e.kind \in ItemKinds -> reduceItem(state, e)
                  [] e.kind \in InputKinds -> reduceInput(state, e)
                  [] e.kind = "session.state" -> reduceState(state, e)
                  [] e.kind = "turn.end" -> reduceTurnEnd(state, e)
                  [] e.kind = "session.runtime" ->
                       [state EXCEPT !.pending = <<>>, !.decisions = expireDecisions(@), !.activeTurnId = None]
                  [] e.kind = "prompt.queue" ->
                       [state EXCEPT !.queue = e.queue, !.ok = state.queue = None \/ e.queue.revision > state.queue.revision]
                  [] e.kind = "session.metadata" ->
                       [state EXCEPT !.metadata = e.metadata, !.ok = state.metadata = None \/ e.metadata > state.metadata]
                  [] e.kind = "session.identity" ->
                       [state EXCEPT !.native = e.native, !.ok = state.native \in {None, e.native}]
                  [] e.kind = "notice" -> state
    IN  IF state.ok /\ decodeEvent(e) THEN [next EXCEPT !.cursor = @ + 1] ELSE [state EXCEPT !.ok = FALSE]

(* The state a client has that was there from the first event on. *)
Replay(events) == FoldLeft(reduceEvent, emptyStream, events)
=============================================================================
