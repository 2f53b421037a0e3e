------------------------------ MODULE Requests ------------------------------
(***************************************************************************)
(* Answering requests in the browser: the approval cards and the question  *)
(* card of T3Conversation.tsx, the answer a question card builds           *)
(* (pendingUserInput.ts, ComposerPendingUserInputPanel.tsx), the check of  *)
(* an answer before it leaves (agentPresentation.ts), its call             *)
(* (client.ts), the notice of a stale approval and the composer whose      *)
(* draft receives the text an option displaces.                            *)
(*                                                                         *)
(* A click or a keystroke renders before the next event, so a handler      *)
(* reads the state the operator sees. An answer in flight, the reply to a  *)
(* send and the events of the stream come between any two of them.         *)
(***************************************************************************)
EXTENDS Naturals, Sequences, FiniteSets, SequencesExt

CONSTANTS
    Approvals,     \* identities of approval requests
    Question,      \* the identity of a request with questions
    Offered,       \* what approvals and questions offer
    Pages,         \* what a page may show: requests, surfaces, questions, and whether it has a composer
    Conversation,  \* the surface inside the conversation
    Notification,  \* the surface of AgentInput, outside it
    Words,         \* what the operator may answer, each once
    Prompts,       \* what the operator may write into the composer, each once
    Blank,         \* white space
    Empty,         \* no text
    Cancel,        \* the answer that cancels a request
    None,
    queueEnabled,  \* the host takes prompts while a turn runs
    MaxCalls       \* bound: calls on their way at a time

Surfaces == {Conversation, Notification}
Requests == Approvals \cup {Question}
Texts == Words \cup {Blank, Empty}

ASSUME RequestsAssumption ==
    /\ Question \notin Approvals
    /\ {Blank, Empty} \cap (Words \cup Offered) = {}   \* a choice without text is an invalid answer option
    /\ queueEnabled \in BOOLEAN
    /\ MaxCalls \in Nat \ {0}
    /\ \A page \in Pages : /\ page.form # <<>> /\ \A i \in DOMAIN page.form : page.form[i].options \subseteq Offered
                          /\ \A i, j \in DOMAIN page.form : page.form[i].id = page.form[j].id => i = j
                          /\ page.requests \subseteq Requests /\ page.surfaces \subseteq Surfaces
                          /\ page.composerEnabled \in BOOLEAN

VARIABLES
    page,      \* what the page was opened with
    service,   \* per request "waiting", "answered" or "gone" in the runtime
    pending,   \* per request "awaiting", "submitted" or None in the state of the stream
    usable,    \* the surfaces that are active and not disabled
    staleIds,  \* staleRequestIds: the requests the host knows are gone
    aged,      \* approvals older than APPROVAL_STALE_AFTER_MS
    refreshing,\* <<surface, request>> whose notice waits for onRefresh
    inFlight,  \* per surface the requests with an answer under way
    submitted, \* per surface the requests whose answer was acknowledged
    calls,     \* the answers on their way
    card,      \* the question card: answers, questionIndex, timer, collapsed
    draft,     \* the prompt of the composer
    sending,   \* what the composer waits for
    lag,       \* a render the editor has not followed yet
    running,   \* isRunning of the model
    owed       \* the answers an option displaced, not yet sent or erased

requestVars == <<service, pending, staleIds, aged, refreshing, running>>
callVars == <<inFlight, submitted, calls>>
composerVars == <<draft, sending, lag, owed>>
vars == <<page, requestVars, usable, callVars, card, composerVars>>

(* The questions of the request as they were decoded: no two have one identity. *)
form == page.form

---------------------------------------------------------------------------
(* pendingUserInput.ts: an answer is typed text or choices, never both. *)

(* The choices among these, in their order. *)
Within(choices, S) ==
    LET within[n \in 0..Len(choices)] ==
            IF n = 0 THEN <<>>
            ELSE IF choices[n] \in S THEN Append(within[n - 1], choices[n]) ELSE within[n - 1]
    IN within[Len(choices)]

EmptyAnswer == [selected |-> <<>>, custom |-> Empty]
normalizeDraftAnswer(text) == IF text \in Words THEN text ELSE None

(* Mutant of resolvePendingUserInputAnswer: blank text counts. *)
resolvePendingUserInputAnswerAnyText(q, answer) ==
    LET chosen == Within(answer.selected, q.options)
    IN IF answer.custom # Empty THEN <<answer.custom>>
       ELSE IF q.multiSelect \/ chosen = <<>> THEN chosen ELSE <<Head(chosen)>>

(* A custom answer outranks the choices; without one a question takes the  *)
(* choices it offers. The values an answer resolves to, or none.           *)
resolvePendingUserInputAnswer(q, answer) ==
    LET custom == IF q.allowCustomAnswer THEN normalizeDraftAnswer(answer.custom) ELSE None
        chosen == Within(answer.selected, q.options)
    IN IF custom # None THEN <<custom>>
       ELSE IF q.multiSelect \/ chosen = <<>> THEN chosen ELSE <<Head(chosen)>>

setPendingUserInputCustomAnswer(answer, text) ==
    [custom |-> text, selected |-> IF text \in Words THEN <<>> ELSE answer.selected]

togglePendingUserInputOptionSelection(q, answer, o) ==
    [custom |-> Empty,
     selected |-> IF ~q.multiSelect THEN <<o>>
                  ELSE IF o \in ToSet(answer.selected) THEN Within(answer.selected, ToSet(answer.selected) \ {o})
                  ELSE Append(answer.selected, o)]

carryDisplacedCustomAnswerIntoPrompt(prompt, text) ==
    IF normalizeDraftAnswer(text) = None THEN prompt ELSE Append(prompt, text)

NoAnswers == [q \in {form[i].id : i \in DOMAIN form} |-> EmptyAnswer]
Resolved(q, answers) == resolvePendingUserInputAnswer(q, answers[q.id])

(* buildPendingUserInputAnswers: nothing until every question is answered. *)
buildPendingUserInputAnswers(answers) ==
    IF \E i \in DOMAIN form : Resolved(form[i], answers) = <<>> THEN None
    ELSE [q \in DOMAIN answers |->
            Resolved(form[CHOOSE i \in DOMAIN form : form[i].id = q], answers)]

(* derivePendingUserInputProgress *)
ActiveQuestion == form[card.index]
CanAdvance == Resolved(ActiveQuestion, card.answers) # <<>>
IsLastQuestion == card.index = Len(form)
IsComplete == buildPendingUserInputAnswers(card.answers) # None

---------------------------------------------------------------------------
(* The answer as it leaves: agentPresentation.ts *)

pendingRequest(r) == pending[r] = "awaiting"
nativeApprovalAnswer(r, answer) == pendingRequest(r) /\ r # Question /\ answer \in Offered

nativeQuestionAnswer(answers) ==
    /\ pendingRequest(Question)
    /\ DOMAIN answers = {form[i].id : i \in DOMAIN form}
    /\ \A i \in DOMAIN form :
        LET q == form[i]
            values == answers[q.id]
        IN /\ values # <<>> /\ (q.multiSelect \/ Len(values) = 1)
           /\ Blank \notin ToSet(values) /\ Empty \notin ToSet(values)
           /\ Cardinality(ToSet(values)) = Len(values)
           /\ q.allowCustomAnswer \/ ToSet(values) \subseteq q.options

(* onApproval, onUserInput and onCancelRequest throw what does not pass. *)
Passes(r, answer) ==
    CASE answer = Cancel -> pendingRequest(r)
      [] r = Question /\ answer # Cancel -> nativeQuestionAnswer(answer)
      [] OTHER -> nativeApprovalAnswer(r, answer)

(* Mutant of Locked: the card opens between the reply and the event. *)
LockedUntilReply(s, r) ==
    \/ r \in staleIds /\ r # Question
    \/ s \notin usable
    \/ r \in inFlight[s]
    \/ pending[r] = "submitted"

(* What keeps a card from answering: the surface, an answer under way or   *)
(* acknowledged, the stream, and for an approval that the host knows it is *)
(* gone.                                                                   *)
Locked(s, r) ==
    \/ r \in staleIds /\ r # Question
    \/ s \notin usable
    \/ r \in inFlight[s] \/ r \in submitted[s]
    \/ pending[r] = "submitted"

Shown(s, r) == s \in page.surfaces /\ pending[r] # None

PanelActive == Shown(Conversation, Question) /\ ~Locked(Conversation, Question)

(* Mutant of Tidied: the next question does not clear the timer. *)
TidiedOnLock(c) == [c EXCEPT !.timer = IF PanelActive' = PanelActive THEN @ ELSE None]

(* The delayed advance is dropped whenever the active question or the      *)
(* activity of the panel changes.                                          *)
Tidied(c) == [c EXCEPT !.timer = IF PanelActive' = PanelActive /\ c.index = card.index THEN @ ELSE None]
FreshCard == [answers |-> NoAnswers, index |-> 1, timer |-> None, collapsed |-> None]

Init ==
    /\ page \in Pages
    /\ service = [r \in Requests |-> IF r \in page.requests THEN "waiting" ELSE "gone"]
    /\ pending = [r \in Requests |-> IF r \in page.requests THEN "awaiting" ELSE None]
    /\ usable = page.surfaces
    /\ staleIds = {} /\ aged = {} /\ refreshing = {}
    /\ inFlight = [s \in Surfaces |-> {}] /\ submitted = [s \in Surfaces |-> {}]
    /\ calls = {}
    /\ card = FreshCard
    /\ draft = <<>> /\ sending = [kind |-> None, text |-> <<>>] /\ lag = FALSE
    /\ running = TRUE /\ owed = {}

---------------------------------------------------------------------------
(* Answering: respond of PendingRequestsContent, submit of UserInputCard *)

(* A call, and whether its answer passed the check of the page. *)
Call(s, r, answer) ==
    [on |-> s, id |-> r, waiting |-> TRUE,
     status |-> IF Passes(r, answer) THEN "sent" ELSE "refused"]

Respond(s, r, answer) ==
    /\ Shown(s, r) /\ ~Locked(s, r)
    /\ Cardinality(calls) < MaxCalls
    /\ inFlight' = [inFlight EXCEPT ![s] = @ \cup {r}]
    /\ calls' = calls \cup {Call(s, r, answer)}
    /\ UNCHANGED <<page, requestVars, usable, submitted, composerVars>>
    /\ card' = Tidied(card)

Approve(s, r, option) == r # Question /\ Respond(s, r, option)
CancelRequest(s, r) == Respond(s, r, Cancel)
SubmitAnswers == IsLastQuestion /\ IsComplete /\ Respond(Conversation, Question, buildPendingUserInputAnswers(card.answers))

(* The runtime takes the first answer to a request that waits. *)
ServiceHandles(c) ==
    /\ c \in calls /\ c.status = "sent"
    /\ LET fresh == service[c.id] = "waiting"
           handled == [c EXCEPT !.status = IF fresh THEN "accepted" ELSE "stale"]
       IN /\ service' = IF fresh THEN [service EXCEPT ![c.id] = "answered"] ELSE service
          /\ calls' = (calls \ {c}) \cup IF c.waiting THEN {handled} ELSE {}
    /\ UNCHANGED <<page, pending, staleIds, aged, refreshing, running, usable, inFlight, submitted, card, composerVars>>

(* The reply: success acknowledges, a failure shows its message and frees  *)
(* the card. A host that recognises isStaleRequest may mark the request.   *)
Returns(c) ==
    /\ c \in calls /\ c.waiting /\ c.status \in {"accepted", "stale", "refused"}
    /\ calls' = calls \ {c}
    /\ inFlight' = [inFlight EXCEPT ![c.on] = @ \ {c.id}]
    /\ submitted' = [submitted EXCEPT ![c.on] = IF c.status = "accepted" THEN @ \cup {c.id} ELSE @]
    /\ staleIds' \in {staleIds} \cup (IF c.status = "stale" /\ c.id # Question THEN {staleIds \cup {c.id}} ELSE {})
    /\ UNCHANGED <<page, service, pending, aged, refreshing, running, usable, composerVars>>
    /\ card' = Tidied(card)

(* Mutant of Deadline: running out of time counts as an answer. *)
DeadlineAcknowledges(c) ==
    /\ c \in calls /\ c.waiting /\ c.status # "refused"
    /\ calls' = (calls \ {c}) \cup IF c.status = "sent" THEN {[c EXCEPT !.waiting = FALSE]} ELSE {}
    /\ inFlight' = [inFlight EXCEPT ![c.on] = @ \ {c.id}]
    /\ submitted' = [submitted EXCEPT ![c.on] = @ \cup {c.id}]
    /\ UNCHANGED <<page, requestVars, usable, composerVars>>
    /\ card' = Tidied(card)

(* Mutant of Deadline: the card stays busy. *)
DeadlineKeepsBusy(c) ==
    /\ c \in calls /\ c.waiting /\ c.status # "refused"
    /\ calls' = (calls \ {c}) \cup IF c.status = "sent" THEN {[c EXCEPT !.waiting = FALSE]} ELSE {}
    /\ UNCHANGED <<page, requestVars, usable, inFlight, submitted, card, composerVars>>

(* The deadline of the call passes: the runtime may still see the answer. *)
Deadline(c) ==
    /\ c \in calls /\ c.waiting /\ c.status # "refused"
    /\ calls' = (calls \ {c}) \cup IF c.status = "sent" THEN {[c EXCEPT !.waiting = FALSE]} ELSE {}
    /\ inFlight' = [inFlight EXCEPT ![c.on] = @ \ {c.id}]
    /\ UNCHANGED <<page, requestVars, usable, submitted, composerVars>>
    /\ card' = Tidied(card)

---------------------------------------------------------------------------
(* The stream and the host *)

(* A request the stream does not hold has no card: what the card held, and *)
(* who waited for its call, is gone with it.                               *)
Unmount(ids) ==
    /\ inFlight' = [s \in Surfaces |-> inFlight[s] \ ids]
    /\ submitted' = [s \in Surfaces |-> submitted[s] \ ids]
    /\ calls' = {IF c.id \in ids THEN [c EXCEPT !.waiting = FALSE] ELSE c : c \in
                   {c \in calls : c.id \notin ids \/ c.status = "sent"}}
    /\ refreshing' = {n \in refreshing : n[2] \notin ids}
    /\ card' = IF Question \in ids THEN FreshCard ELSE card

(* The runtime withdraws a request: resolved, expired, or its turn ended. *)
Withdraw(r) ==
    /\ service[r] # "gone"
    /\ service' = [service EXCEPT ![r] = "gone"]
    /\ UNCHANGED <<page, pending, staleIds, aged, refreshing, running, usable, callVars, card, composerVars>>

(* input.submitted and input.resolved reach the stream of the page. *)
SubmittedEvent(r) ==
    /\ pending[r] = "awaiting" /\ service[r] = "answered"
    /\ pending' = [pending EXCEPT ![r] = "submitted"]
    /\ UNCHANGED <<page, service, staleIds, aged, refreshing, running, usable, callVars, composerVars>>
    /\ card' = Tidied(card)
ResolvedEvent(r) ==
    /\ pending[r] # None /\ service[r] = "gone"
    /\ pending' = [pending EXCEPT ![r] = None]
    /\ running' = (\E other \in Requests \ {r} : pending[other] # None)
    /\ Unmount({r})
    /\ UNCHANGED <<page, service, staleIds, aged, usable, composerVars>>

(* A reset empties the state of the stream, its seed fills it again. *)
Reset ==
    /\ \E r \in Requests : pending[r] # None
    /\ pending' = [r \in Requests |-> None]
    /\ Unmount(Requests)
    /\ UNCHANGED <<page, service, staleIds, aged, running, usable, composerVars>>
Seeded == [r \in Requests |-> CASE service[r] = "waiting" -> "awaiting"
                                [] service[r] = "answered" -> "submitted"
                                [] OTHER -> None]
Reseed ==
    /\ \A r \in Requests : pending[r] = None
    /\ pending' = Seeded /\ pending' # pending
    /\ UNCHANGED <<page, service, staleIds, aged, refreshing, running, usable, callVars, composerVars>>
    /\ card' = Tidied(card)

(* The host makes a surface active, inactive or disabled. *)
SetSurface(s) ==
    /\ s \in page.surfaces
    /\ usable' = IF s \in usable THEN usable \ {s} ELSE usable \cup {s}
    /\ UNCHANGED <<page, requestVars, callVars, composerVars>>
    /\ card' = Tidied(card)

(* StaleApprovalNotice: advisory, offers a refresh of an approval that is  *)
(* missing or, while it awaits its answer, old.                            *)
isApprovalStale(s, r) ==
    r \in staleIds \/ (r \in aged /\ pending[r] = "awaiting" /\ r \notin submitted[s])
Age(r) ==
    /\ r \in Approvals \ aged /\ pending[r] # None
    /\ aged' = aged \cup {r}
    /\ UNCHANGED <<page, service, pending, staleIds, refreshing, running, usable, callVars, card, composerVars>>
Refresh(s, r) ==
    /\ Shown(s, r) /\ r \in Approvals /\ isApprovalStale(s, r) /\ <<s, r>> \notin refreshing
    /\ refreshing' = refreshing \cup {<<s, r>>}
    /\ UNCHANGED <<page, service, pending, staleIds, aged, running, usable, callVars, card, composerVars>>
RefreshEnds(s, r) ==
    /\ <<s, r>> \in refreshing
    /\ refreshing' = refreshing \ {<<s, r>>}
    /\ UNCHANGED <<page, service, pending, staleIds, aged, running, usable, callVars, card, composerVars>>

---------------------------------------------------------------------------
(* The question card *)

(* The buttons of the options, and the digits that stand for them, are on  *)
(* screen while the question is not collapsed.                             *)
OptionShown(o) == PanelActive /\ card.collapsed # ActiveQuestion.id /\ o \in ActiveQuestion.options

(* handleOptionSelection and onToggleOption: a typed answer the option     *)
(* replaces moves to the draft, unless it is secret; a question with one   *)
(* choice advances after a delay.                                          *)
PickOption(o) ==
    LET q == ActiveQuestion
        text == card.answers[q.id].custom
        displaced == normalizeDraftAnswer(text) # None /\ ~q.isSecret /\ page.composerEnabled
    IN /\ OptionShown(o)
       /\ card' = [card EXCEPT !.answers[q.id] = togglePendingUserInputOptionSelection(q, @, o),
                               !.timer = IF q.multiSelect THEN @ ELSE q.id]
       /\ draft' = IF displaced THEN carryDisplacedCustomAnswerIntoPrompt(draft, text) ELSE draft
       /\ lag' = (lag /\ ~displaced)
       /\ owed' = IF displaced THEN owed \cup {text} ELSE owed
       /\ UNCHANGED <<page, requestVars, usable, callVars, sending>>

(* What the operator wrote and has on screen: each word is written once. *)
Written == ToSet(draft) \cup {card.answers[q].custom : q \in DOMAIN card.answers} \cup ToSet(sending.text)

TypeAnswer(text) ==
    LET q == ActiveQuestion
    IN /\ PanelActive /\ q.allowCustomAnswer
       /\ text # card.answers[q.id].custom /\ (text \in Words => text \notin Written)
       /\ card' = [card EXCEPT !.answers[q.id] = setPendingUserInputCustomAnswer(@, text)]
       /\ UNCHANGED <<page, requestVars, usable, callVars, composerVars>>

(* advance moves between questions and never submits. *)
Advanced(c) == IF CanAdvance /\ ~IsLastQuestion THEN [c EXCEPT !.index = @ + 1] ELSE c

NextQuestion ==
    /\ PanelActive /\ ~IsLastQuestion /\ CanAdvance
    /\ UNCHANGED <<page, requestVars, usable, callVars, composerVars>>
    /\ card' = Tidied(Advanced(card))
PreviousQuestion ==
    /\ PanelActive /\ card.index > 1
    /\ UNCHANGED <<page, requestVars, usable, callVars, composerVars>>
    /\ card' = Tidied([card EXCEPT !.index = @ - 1])
AdvanceTimer ==
    /\ card.timer # None
    /\ card' = [(IF PanelActive THEN Advanced(card) ELSE card) EXCEPT !.timer = None]
    /\ UNCHANGED <<page, requestVars, usable, callVars, composerVars>>
Collapse ==
    /\ Shown(Conversation, Question)
    /\ card' = [card EXCEPT !.collapsed = IF @ = ActiveQuestion.id THEN None ELSE ActiveQuestion.id]
    /\ UNCHANGED <<page, requestVars, usable, callVars, composerVars>>

---------------------------------------------------------------------------
(* The composer: ConversationContent and ComposerPromptEditor *)

Idle == [kind |-> None, text |-> <<>>]
ComposerOpen == page.composerEnabled /\ Conversation \in usable

(* ControlledTextPlugin follows the value after a render. A keystroke into *)
(* a text it has not replaced yet goes with that text.                     *)
Keystroke(w) ==
    /\ ComposerOpen /\ w \notin Written
    /\ draft' = IF lag THEN draft ELSE Append(draft, w)
    /\ lag' = FALSE
    /\ UNCHANGED <<page, requestVars, usable, callVars, card, sending, owed>>
Erase ==
    /\ ComposerOpen /\ draft # <<>>
    /\ draft' = <<>> /\ owed' = {}
    /\ UNCHANGED <<page, requestVars, usable, callVars, card, sending, lag>>
EditorFollows ==
    /\ lag /\ lag' = FALSE
    /\ UNCHANGED <<page, requestVars, usable, callVars, card, draft, sending, owed>>

(* The button or Enter without Shift outside an input method's composition.*)
Send ==
    /\ ComposerOpen
    /\ queueEnabled \/ ~running
    /\ sending = Idle /\ draft # <<>>
    /\ sending' = [kind |-> "send", text |-> draft]
    /\ UNCHANGED <<page, requestVars, usable, callVars, card, draft, lag, owed>>

(* Mutant of SendReturns: the draft is cleared whatever it is by now. *)
SendReturnsClearing ==
    /\ sending.kind = "send" /\ sending' = Idle
    /\ owed' = owed \ ToSet(sending.text)
    /\ draft' = <<>> /\ lag' = TRUE
    /\ UNCHANGED <<page, requestVars, usable, callVars, card>>

(* Only the prompt that was sent is cleared. *)
SendReturns ==
    /\ sending.kind = "send" /\ sending' = Idle
    /\ owed' = owed \ ToSet(sending.text)
    /\ draft' = IF draft = sending.text THEN <<>> ELSE draft
    /\ lag' = (draft = sending.text)
    /\ UNCHANGED <<page, requestVars, usable, callVars, card>>
Interrupt ==
    /\ Conversation \in usable /\ running /\ sending = Idle
    /\ sending' = [kind |-> "interrupt", text |-> <<>>]
    /\ UNCHANGED <<page, requestVars, usable, callVars, card, draft, lag, owed>>
(* A failed send keeps the draft; an interrupt has nothing to clear. *)
ComposerFrees ==
    /\ sending.kind # None /\ sending' = Idle
    /\ UNCHANGED <<page, requestVars, usable, callVars, card, draft, lag, owed>>

---------------------------------------------------------------------------
Next ==
    \/ \E s \in Surfaces, r \in Requests :
        \/ CancelRequest(s, r) \/ Refresh(s, r) \/ RefreshEnds(s, r)
        \/ \E option \in Offered : Approve(s, r, option)
    \/ SubmitAnswers
    \/ \E c \in calls : ServiceHandles(c) \/ Returns(c) \/ Deadline(c)
    \/ \E r \in Requests : Withdraw(r) \/ SubmittedEvent(r) \/ ResolvedEvent(r) \/ Age(r)
    \/ Reset \/ Reseed
    \/ \E s \in Surfaces : SetSurface(s)
    \/ \E o \in Offered : PickOption(o)
    \/ \E text \in Texts : TypeAnswer(text)
    \/ NextQuestion \/ PreviousQuestion \/ AdvanceTimer \/ Collapse
    \/ \E w \in Prompts : Keystroke(w)
    \/ Erase \/ EditorFollows \/ Send \/ SendReturns \/ Interrupt \/ ComposerFrees

(* Every call has a deadline (client.ts), so each one returns. *)
Settles(s, r) == \E c \in calls : c.on = s /\ c.id = r /\ (Returns(c) \/ Deadline(c))
Spec == Init /\ [][Next]_vars /\ \A s \in Surfaces, r \in Requests : WF_vars(Settles(s, r))

---------------------------------------------------------------------------
(* An answer a card lets the operator submit is one the request offers:    *)
(* nativeApprovalAnswer and nativeQuestionAnswer never refuse it, and no   *)
(* other answer leaves.                                                    *)
OnlyOfferedAnswers == \A c \in calls : c.status # "refused"

(* A card waits for one answer at a time and asks for none once its answer *)
(* was acknowledged: the locks of respond and submit against a second      *)
(* click before the stream shows the first.                                *)
OneAnswerPerCard ==
    \A s \in Surfaces, r \in Requests :
        LET mine == {c \in calls : c.waiting /\ c.on = s /\ c.id = r}
        IN Cardinality(mine) <= 1 /\ (r \in submitted[s] => mine = {})

(* A card says its response is submitted only when the runtime took one.   *)
SubmittedIsAnswered ==
    \A s \in Surfaces, r \in Requests : r \in submitted[s] => service[r] # "waiting"

(* ComposerPendingUserInputPanel: a delayed answer only advances its own   *)
(* question, while the surface is active. A timer that is set belongs to   *)
(* the question on screen.                                                 *)
TimerKeepsItsQuestion == card.timer # None => PanelActive /\ card.timer = ActiveQuestion.id

(* Text an option displaced is in the draft until the operator sends or    *)
(* erases it, also when a send of an earlier draft returns meanwhile.      *)
DisplacedIsKept == owed \subseteq ToSet(draft)

(* A card whose answer is on its way is freed: by its reply, its deadline  *)
(* or with the card.                                                       *)
CardIsFreed == \A s \in Surfaces, r \in Requests : (r \in inFlight[s]) ~> (r \notin inFlight[s])
=============================================================================
