# A TLA+ model of the agent runtime

The agent runtime (Go package `agentruntime`, with a web client) runs coding
agents on behalf of operators. It keeps *conversations*: each has a durable
history of events, at most one native client process (Codex, an ACP agent or
Claude), at most one turn at a time, a queue of prompts that wait for their
turn, and approvals the native client asks for. A host may crash and restart, a
storage request may be lost, several operators may act at once, and a native
client answers when and how it likes.

This directory models the parts of the runtime and of its web client that are
hard to test, checks them with TLC on small instances, and proves most of their
safety properties with TLAPS for every value of the constants.

Source paths below are relative to `src/`.

## 1. The system

### Components

| Component | Source | State it keeps | Operations |
|---|---|---|---|
| Journal | `journal.go` | pending events, `durable`, `version`, flush goroutine, `flushNow`, `wake`, `flushed` channel, `storageErr`, `persistErr` | `appendLocked`, `scheduleLocked`, `flush`, `waitDurable`, `waitCapacity`, `stopLocked` |
| Store | `storage.go` | cached scope revision `token`, one writer slot | `create`, `commitEvents`, `commit`, `readReplay`, `readHistory`, `prompt`, profile reads and writes |
| Conversation lifecycle | `broker.go`, `conversations.go`, `storage_history.go` | `liveSession`: state, runtime number, driver, current turn, accepted turns, teardown fence, `opening` | `Create`, `Prompt`, `Cancel`, `CloseSession`, `Reconnect`, `UpdateMetadata`, `connect`, `runTurn`, `receive`, `NewBroker` |
| Prompt queue | `prompt_queue.go` | queued prompts, `paused`, the sequence of the last queue event and the prompts submitted since | `Queue` (enqueue, remove, edit, reorder, pause, resume), drain |
| Codex and ACP drivers | `driver.go`, `rpc.go` | remembered stop, `stopSent`, current and native turn, `promptSent`; waiting calls of the stream | `Open`, `PromptWithOptions`, `Cancel`, `deliverStop`, `codexEvent`, `Close`; `rpcPeer` |
| Claude driver | `claude.go`, `claude_options.go` | one process per turn | `Prompt`, `Cancel`, `Close` |
| Approvals | `broker.go`, `decisions.go`, `requests.go` | open inputs, answer channels, receipts | `askRuntime`, `Answer`, the decision evaluator |
| Replay and subscriptions | `broker.go`, `storage.go`, `journal.go` | the pending tail, change channels | `Replay`, `Subscribe`, `History` |
| Current turn view | `current.go` | a projection of the running turn's events | fold over events |
| Retention | `retention.go` | history byte accounting, deletion progress | deletion in batches, reservations |
| Catalog and attention | `conversations.go` | sorted views | `List`, metadata queries |
| Settings | `settings.go`, `options.go`, `acp_options.go`, `managedfiles/` | provider profiles, the cache of what clients advertise, the private defaults of a conversation, managed files | read, save, refresh, the selection of a turn, file writes |
| XRPC service | `xrpc_service.go`, `service.go` | none | decoding, authorisation hooks, error mapping |
| Event stream of the page | `web/src/useAgentStream.ts`, `client.ts` | effects of the hook, queued events, cursor, connection status | render, seed, open, event, reset, frame, failure, cleanup |
| Reducer and seed | `web/src/state.ts` | `StreamState`: items, requests, decisions, queue, worker, active turn | `applyEvent`, `reduceEvent`, `decodeCurrentSeed` |
| Timeline | `web/src/agentPresentation.ts`, `optimisticMessages.ts`, `AgentConversation.tsx` | cached rows and their keys, the retained view | `createNativeTimelineProjector`, `optimisticTimelineItems`, `mergeTimelineItems` |
| Requests and composer | `web/src/T3Conversation.tsx`, `upstream/t3/pendingUserInput.ts`, `ComposerPendingUserInputPanel.tsx`, ... | answers in flight and acknowledged, the question card and its timer, the draft | answer, cancel, pick, type, advance, send, refresh |
| Settings and model picker | `web/src/AgentProviderSettings.tsx`, `AgentComposerControls.tsx`, `upstream/t3/settings/`, `modelPickerSearch.ts`, ... | drafts with their revision, the selection of the composer | edit, save, discard, refresh, pick |
| Streaming Markdown | `web/src/upstream/t3/markdown-incremental.ts`, `ChatMarkdown.tsx` | the parsed prefix | render |
| Timeline view, queue panel, widgets | `web/src/upstream/t3/MessagesTimeline.tsx`, `ui/`, `AgentPromptQueue.tsx`, ... | scroll position, open details | markup |

### How they interact

Every operation on a conversation takes its session lock, appends events through
the journal and releases the lock. An appended event is visible to subscribers
at once and committed later by the flush goroutine of the conversation. Steps
that must not happen before an event is durable (sending a prompt, starting a
resumed worker, acknowledging an enqueue, handing an answer to the native
client) wait for it with `waitDurable`, outside the lock. Calls of the native
client (`PromptWithOptions`, `Cancel`, `Open`, `Close`) run outside the lock as
well, so the conversation may have changed when they return; the code looks again
under the lock each time. The store serialises the writes of one host with a
writer slot; writes of different hosts meet only in the storage service, which
compares the scope revision and the conversation's version.

A page follows a conversation through two calls: `Current` gives a seed (the
latest turn, its open requests, the queue and a sequence number) and `Subscribe`
every event after a number. The hook `useAgentStream` joins the two, checks that
numbers are consecutive, reconnects after its last event and takes a new seed
when the host says `reset`. The reducer turns seed and events into a state, the
projector turns the state into rows, and cards and forms act on what the state
shows: an answer, a prompt or a saved draft is a call that takes time, while
events keep arriving.

### What is hard here

* **Lost replies.** The outcome of a batch may be unknown; it may be applied
  after the host gave up on it, or after the host restarted.
* **Look, unlock, act.** Idempotency of `Prompt` and `Queue` is looked up without
  the lock; `Cancel` calls the driver without it; `connect` prepares and opens
  without it; `deliverStop` writes after it.
* **Prefix crashes.** Events are committed in batches of any length, so a crash
  leaves any prefix of what an operation appended.
* **Lost wakeups.** The flush sleeps to collect company, waiters block on a
  channel that is replaced after every batch, a native client is held back
  when too much is pending.
* **Stop against everything.** A Stop races the acknowledgment of its turn, the
  turn's own end, the queue's drain, a close and the next turn.
* **Two readers of one truth.** The host folds events into the current view, the
  client folds them into its state; storage and the pending tail are read one
  after the other. A late joiner must end where an early one is.
* **Late answers.** A seed, a frame, a reply or a timer of the page arrives when
  the conversation, the stream, the question or the draft it was for has changed.
* **Caches.** Rows, parsed Markdown and settings are kept while what they were
  made from changes.
* **Limits.** A conversation ends at `MaxEvents`, possibly in the middle of an
  operation that appends several events.

`PROJECT.json` lists these hazards at their lines, with the properties that
would catch each of them going wrong.

## 2. Modules

| Module | What it is |
|---|---|
| `Journal` | the journal of one conversation on several hosts, the store and the storage service |
| `DurableLog` | what the journal promises: an append-only log and a set of acknowledgments |
| `JournalProofs` | theorems about `Journal`: types, record, durability, resubmission, wakeups, and that it implements `DurableLog` |
| `Conversation` | lifecycle, prompt queue, turn workers, connections, Stop and restarts of one conversation |
| `StopDelivery` | the path of a Stop from `Broker.Cancel` through the driver and the stream to the native client |
| `Approvals` | requests of the native client, their answers by operators and the evaluator, and everything that ends their turn |
| `AgentStream` | the stream of events from the journal of a host (`replayContext`, `Subscribe`) to the display of a page (`useAgentStream`) |
| `StreamState` | the reducer of the web client: what an event does to the state |
| `CurrentView` | the current view of the broker, the seed a client makes of it, and the same client fed with every event |
| `Presentation` | from the state to the rows on screen, with the caches in between |
| `Requests` | approval cards, the question card, the calls of their answers and the composer's draft |
| `Settings` | drafts of provider settings, their save and refresh, and the model and effort a conversation is created with and goes on with |
| `ModelSearch` | the search of the model picker, with a reference definition |
| `Markdown` | the incremental Markdown parser beside the full one |
| `ConversationProofs` | theorems about `Conversation`: prompts sent once, queues that survive or are held, one worker and one client |
| `StopProofs` | the theorem about `StopDelivery` |
| `ApprovalsProofs` | theorems about `Approvals`: recorded answers, released inputs, no late grant |
| `StreamProofs` | theorems about `AgentStream`: what is shown, what is replayed, silent effects |
| `RequestsProofs` | theorems about `Requests`: cards, the answers they offer, timers, displaced words |
| `SettingsProofs` | theorems about `Settings`: no lost update, efforts of their model, kept drafts, conversations that keep their options, and that the model search finds what it should |
| `PresentationProofs` | theorems about `Presentation`: cached rows are those of the state, and the timeline is whole |
| `MC...` | instances for TLC: constants and symmetry sets only |

`CurrentView` and `Presentation` extend `StreamState`; `Settings` extends
`ModelSearch`, as the picker is part of it. `AgentStream` has a reducer of its own that keeps only the
order and the runtime of events: what an event means is `StreamState`'s business.

Operators whose comment starts with "Mutant of" are deliberately wrong variants
of the definition they name. No specification uses them: each stands for a
plausible bug that the property it belongs to would find.

### Journal

The variables are the fields of `liveSession` that `journal.go` uses, one
function of the host each, plus the storage service (`revision`, `record`,
`stored`, and `wire`, the requests it has not answered or whose outcome nobody
has seen). The content of an event is abstracted to the host incarnation that
numbered it: that is all that is needed to tell a host's own event from another
one stored under the same number.

* `Append1`/`AppendStops` are `appendLocked` with its limits; `Schedule` is
  `scheduleLocked`.
* `Flush...` are the steps of the `flush` loop. `FlushTakes` takes *any* prefix
  of up to `MaxBatchEvents`, which covers the byte and operation limits of
  `takeLocked`.
* `ReadToken` to `ReceiptAbsent` are `commitEvents` and `commit`: a token is read,
  the batch is sent; the reply is success, refusal, conflict or nothing. A first
  conflict is rechecked, a second is an error; an unknown outcome is settled by
  its receipt, and an absent receipt stops the journal.
* `Process` is the service (external): it applies a batch atomically or answers
  conflict, at any time, also after the sender crashed. `ScopeWrite` stands for
  writes of other conversations and of the settings through a host's own store,
  `ForeignWrite` for those of a store that is none of the hosts'.
* `CallWait`, `WaitLooks`, `WaitCancelled` are `waitDurable`; `CapacityBlocks` and
  `CapacityReturns` are `waitCapacity`.
* `Crash` drops what a host has in memory; `Open` is what `NewBroker` loads.

Byte limits are abstracted to event limits: they stop the journal in the same
way. A failure to encode an event is not modelled.

### Conversation

`s` is the `liveSession`. An operation that runs under the lock is a function
from `s` to `s` (`Pause`, `Release`, `StartPrompt`, `Drain`, `Retire`), so an
operation that appends several events, one of which may hit `MaxEvents`, is
written as the composition the code has. `Appended` stores with each pending
event the record a commit ending there would write, and a commit moves `disk`
to the record of *some* pending event: every prefix a crash can leave is
reachable. That commits are atomic and that nothing acknowledged is lost is what
the `Journal` module establishes.

What runs outside the lock has a program counter: `work[t]` is `runTurn` of turn
`t`, `connecting[r]` is `Reconnect` and `connect` of runtime `r`, `stop` is a
`Cancel` inside `driver.Cancel`, `asked` are the keys some `Prompt` or `Queue`
call has looked up without finding them. `alive` is the set of runtimes whose
native client runs. `sent`, `kept` and `hold` are history.

Texts, options, attachments, titles, approvals and the revision check of queue
commands are abstracted. The queue commands that keep the set of queued prompts
(edit, reorder) are one action.

The constant `Operations` selects the client operations of an instance; it only
restricts what clients do, never what the runtime does. `MaxPending` keeps an
operation from running while more events than that are uncommitted; the longest
operation appends three events, and commits are possible at every
point within them, so each prefix is reached.

### StopDelivery

`d` holds the fields of `rpcDriver`; `run` is where `PromptWithOptions` is,
`deliver[g]` where goroutine `g` is in `Cancel` and `deliverStop`. Up to three
kinds of goroutines may deliver a stop: callers of `Cancel`, the prompt, and the
one `codexEvent` spawns on `turn/started`. `Look` is what `deliverStop` does under
the lock and `Write` what it does after it. `toClient` and `toDriver` are the two
directions of the stream; `Read` is `rpcPeer.read`, which handles a notification
before it reads the next message. The native client is external: it may accept or
refuse a prompt, report `turn/started` and the response of `turn/start` in either
order, end a turn at any time, refuse to stop it, and exit.

### Approvals

`ask[r]` is the `pendingInput` of request `r` together with the goroutine inside
`askRuntime`: it waits (`AskSelects`), closes the input under the lock and appends
the resolution (`AskResolves`), waits until that is stored and returns to the
native client (`AskReturns`). `caller[c]` is a call of `Answer`: the first answer
appends a receipt and hands the answer over once the receipt is stored
(`AnswerTakes`, `AnswerReturns`), a repeated one waits for the same receipt
(`AnswerAgain`), another one is refused. The decision evaluator is a caller that
chose its request earlier (`Evaluate`). The turn, Stop, close and resume are
reduced to what these look at: `Conversation` has them in full. The journal is the
numbers of appended and of stored events. What is asked and answered, and its
validation, are abstracted; so is the runtime number, because a request of an old
client is refused without effect.

### AgentStream

`journal`, `durable` and `storageErr` are the conversation on the host, `changed`
the channel that `broadcastLocked` replaces, `gen` the incarnation of the host. An
event remembers the incarnation that wrote it, so an event a crash lost and the one
written later under its number differ. `Reconnect` may announce a runtime whenever the
conversation is closed or disconnected (`CanReconnect`): after an event of the runtime
before, one of which told so, or after a restart. `fx[x]` is one run of the hook's effect with
what it holds in closures: whether it is active, failed or aborted, the reply to
its seed request, its subscription, the events on the wire, queued, and the base
of its seed. `current` and `connection` are the React state, shared by all effects.

* `ReplayLocked` is `replayContext` under the lock: the end of the page, the number
  storage has, a copy of the pending tail. `ReplayEmits` reads storage after the
  lock is released, joins the two and goes on to the wait of `Subscribe`, or to a
  `reset`; `SubscriberWakes` is the end of that wait.
* `SeedArrives`, `Open`, `Deliver`, `FrameFires`, `StreamEnds`, `Render` are the
  effect: the seed, the connection, its callbacks (`OnEvent`, `OnReset`), the flush at
  the next frame or at a full queue, the end of the child stream, and a render
  with another conversation or another reload, which runs the cleanup first.
* `Drop`, `EndNoticed`, `OpenRefused` are the ways a connection ends. The XRPC library
  is external: it reconnects after the last event it delivered, and may deliver
  one message after an abort.

A state on display is the sequence of events it stands for, so a seed is the
journal up to its cursor; that the two are the same is what `CurrentView` checks.

### StreamState and CurrentView

`StreamState` is `reduceEvent` with `decodeEvent`'s conditions on the fields an event
must have. A text is the sequence of the pieces it was built from, so a lost,
doubled or misplaced delta shows. `CurrentView` has one action for each critical
section that appends events of a conversation (prompt, drain, enqueue, receive,
ask, answer, resolve, stop, finish, rename, close, reconnect, connect). `complete` is
the reducer over every event; `view` is `currentTurnView`; `client` is a client that
was seeded at some moment (`Seed`) and has read every event since. What the worker
does outside the lock is a set of flags (`stopped`, `ended`, `driver`).

### Presentation

JavaScript caches compare objects by identity, so every item and the array of items
carries a version that changes exactly when `reduceEvent` makes a new object
(`Receive`). A seed keeps the last items it has room for and numbers its objects anew
(`Reseed`). `ProjectItems` is the projector: it looks at the whole array when the
context changed, else at the indices that `presentationItemChanges` knows, and
reuses a row whose key, which names the session too, is unchanged. What arrives is one of
a few kinds of event, made by `UserItem`, `Runs`, `TurnEnd` and the others. `Render` has the host's choices: active or not,
the language, the outbox. `DirectItems` is `nativeConversationModel` without a
projector, the reference. `Sorted` puts each additional row at its rank, which is what
`sort` does with an order in which no two rows are equal; `cursor` in
`mergeTimelineItems` is the code's, after each row of the journal.

### Requests

`service[r]` is what the runtime holds, `pending[r]` what the page's stream shows;
`inFlight`, `submitted` are the sets of a surface, `calls` the answers on their way.
A call that ran out of time leaves `calls` only for the page: the runtime may still
take the answer. A card disappears with its request, and with it who waited. The
question card has its answers, its index, its delayed advance and whether it is
collapsed. `draft` is the composer's text as the words it holds, `lag` says that the editor
has not followed a render yet, `owed` are the words an option displaced that nobody
has sent or erased.

### Settings and ModelSearch

A revision is a place in the `history` of the settings document, and each version
remembers the version its author saw. A save is checked against the revision before the
client is inspected (`CheckRevision`) and again when it is written (`Commit`), with saves
of others in between. A save or refresh is a request of its own: the page may give up on
it (`Lose`), edit and save again, and the runtime still finishes it and may store it. A
restart drops requests and cache.

What a client advertises is any of `Catalogs`: each inspection may find another one, or a
version that cannot be verified. `inventory` is the cache of the process. The document
the page is given (`Served`) merges the stored defaults into the cached ones; a refresh
inspects with the defaults served before and replaces the cache, a save puts back what
it was checked against, and a save that only switches a provider off puts an empty
catalog there (`Preserved`), all as the code does.

The conversation is one `session`: `Create` merges catalog, stored defaults and the
composer's choice, and keeps the result as `snapshot`; `Prompt` starts from the snapshot
(`ProfileOf`), whatever the shared document says by then, and merges into it only what
the prompt brings. `ran` is what the last accepted turn was given; `promised` is what the
page showed at creation, if its document was the current one and had a catalog, and
later what the conversation ran with, where a prompt brings nothing and the snapshot
names model and effort.

`ModelSearch` is the ranking of `searchRanking.ts`, character by character because that
is what it is about; `Wanted` is its reference: every token is in some text, in order,
with gaps where the code allows them.

### Markdown

A source is a sequence of tokens (three backticks, newline, a definition, a reference).
`Parse` is the full parser (remark, external) for these blocks; `Root` and `Cache` are
the incremental one. A render may or may not happen between two tokens.

## 3. Runs

| Run | Configuration | Checks |
|---|---|---|
| `stream` | 2 conversations, one with an event in storage and 2 more, 2 effects, 1 fault, pages of 2, a queue of 2 | `ShownIsJournal`, `ReplayIsConsistent`; `EndedEffectIsSilent`, `CatchesUp` |
| `current_view` | 2 turns, 1 item, 1 request, 10 events | `JoinsLateSeesAll`, `RequestsShown`, `SettledSeedDecodes` |
| `seed_decodes` | the same with 7 events; violated, see section 6 | `ServedDecodes` |
| `presentation` | 2 conversations, 2 turns, 3 items, 1 request, 2 languages, an outbox of 3 messages, 4 events | `ProjectionIsFresh`, `TimelineIsWhole` |
| `requests` | a form of two questions beside a composer, a secret question, or an approval on two surfaces; 2 calls at a time | `OnlyOfferedAnswers`, `OneAnswerPerCard`, `SubmittedIsAnswered`, `TimerKeepsItsQuestion`, `DisplacedIsKept`; `CardIsFreed` |
| `settings` | 2 providers, 2 models, 2 efforts, 2 catalogs, 3 versions, 4 acts of the operator, of other processes or restarts, 1 conversation, 7 queries | `NoLostUpdate`, `EffortOfModel`, `ShownIsRun`, `ListedIsWanted`; `DraftIsKept` |
| `markdown` | 10 tokens (4 fences, 6 newlines, a definition, a reference), 1 replacement | `IncrementalIsFull`; `PrefixIsLongest` |
| `journal` | 1 host, 2 boots, 2 events, 1 scope write, urgent and other events | `TypeOK`, `RowsMatchRecord`, `AckedIsStored`, `NeverResubmitted`, `UrgentIsWoken`; `PendingSettles`, `WaitersReturn`, `ImplementsLog` |
| `conversation` | 2 turns, queue commands, Stop, close, resume, 1 restart, 8 events | `QueueSurvives`, `StopHolds`, `OneAtATime` |
| `conversation_replay` | 1 turn, prompts and enqueues, archive, resume, faults, 1 restart, 11 events | `SentOnce`; `WorkSettles` |
| `stop` | both protocols, 2 turns, 2 stops, refusals, exits | `StopIsExact`; `StopEndsTurn` |
| `approvals` | 2 requests, 1 operator, the evaluator, 2 turns, 9 events | `OneRecordedAnswer`, `InputsReleased`, `NoLateGrant` |

### What they show and why the bounds are enough

* **stream.** Two appended events are the least for which one is stored and one pending,
  a page ends between them (by its limit of bytes; two are also its limit of events),
  and a queue has a first and a last. The one before them
  is what an older host left in storage (`Earlier`), so the conversation can be resumed
  at once: the runtime changes before, between or after what the page reads, with and
  without a crash, and events of the new runtime follow. A second conversation, and
  a second effect of the same one, are what a late answer of the first can hurt.
  One fault is a lost connection, a failed commit or a crash with a rewritten
  number, after which the host may answer with a reset. One fault makes one reset, so
  the limit on resets is not met; and a resumed stream repeats at most one event, so
  `Window = 2` always holds what is repeated, as the 64 of the code do.
* **current_view.** Two turns let the view of the first meet the second; ten events
  are a turn with an item, a request, its answer and its end, and the start of the
  next with a queued prompt. One item is enough, because items of a turn do not
  look at each other except for the limit on their number, which `CurrentItems = 2`
  reaches (the user message is one).
* **presentation.** Four events reach a tool that runs, stalls and is stopped while the
  view is cached under another language or another conversation. The dates of the
  instance disagree with the order of the journal on purpose, and two messages of the
  outbox are of the same turn.
* **requests.** One single and one multiple question, so that the delayed advance has a
  question to go to and a last one to stay on; an approval on both surfaces, so
  that the same request can be answered from two cards. Two calls: the one the page
  gave up on and the one it makes afterwards.
* **settings.** A third version is one saved between the page's fetch and its save, or
  by a call the page gave up on (acts of others count among the four, answers and
  fetches do not). Of the two catalogs one has a model the other lacks,
  and the model both have has another effort in each: a refresh takes away a
  model, an effort and the native default. Four acts are a refresh or a restart between
  the creation of a conversation and a prompt, or an edit, a save that is lost, another
  edit and its save.
* **markdown.** Ten tokens hold a closed fence, the blank line behind it, and a second
  fence or a definition after it: cache, reuse, move and invalidation.
* **journal.** The interesting actors are the flush goroutine, appenders, waiting
  callers and a held native client; a second boot meets a request of the first one
  on the wire. Two events let a batch be a strict prefix of what is pending; one
  scope write through another store makes a conflict that is not a lost race, and so the recheck and the
  retry. The theorems of section 4 hold for any number of hosts. `UrgentIsWoken`
  says that no urgent event, requested flush or blocked caller is left to the journal
  delay although nobody tells the sleeping flush.
* **conversation.** Two turns: the stopped one and the queued one that must not start,
  or that could run beside the worker of the first. They are also the least for
  which order, partial submission and the difference between the queue event and
  the prompts submitted since it matter to a restart.
* **conversation_replay.** One key is prompted and enqueued by any number of retries,
  around failed and unknown commits, an archive (which closes as `CloseSession` does), a
  resume and a restart. Eleven events let the key's first turn end and be forgotten
  before a late retry is admitted.
  One turn is enough: the property is about one key, and other turns only make
  its conversation busy.
* **stop.** Two stops (a double click), and two turns where a late stop could meet the
  next turn. `StopEndsTurn` is stated for the first turn, see section 6.
* **approvals.** Two requests, so that one is open when the other is resolved, and
  two turns, so that a slow goroutine of the first meets the second; nine events
  let an answer be given and recorded in both, and the journal's end is reached in
  the middle of every operation. Two callers are enough for the race of answers: a
  third would compare with the same recorded one.

Deadlock is checked for `requests` and `markdown`. Elsewhere it is not: those
instances bound the number of turns, boots, restarts, stops, events or edits, and
a conversation whose clients do nothing is idle.

### Fairness

* `Journal`: weak fairness of the flush goroutine, of woken waiters and of a woken
  native client. The Go scheduler runs runnable goroutines, timers fire, and every
  storage call has a timeout (`BeginFails`, `ReplyUnknown`, `ReceiptAbsent`,
  `RecheckFails` are those timeouts). The storage service is assumed to do
  nothing: it need never answer.
* `Conversation`: weak fairness of the commit (or its failure), of the workers'
  own steps, of each connection attempt (bounded to 65 s by its context) and of a
  teardown. Nothing is assumed of the native client's turn: `PromptReturns` and
  `TurnEnds` are not fair, so `TurnSettles` speaks of the commit, not of the
  client.
* `AgentStream`: weak fairness, for each effect, of the steps of the effect, of its connection
  and of its subscription on the host taken together (`StreamRuns`), and of a frame
  that is due: while one can go on, one does; the network delivers, the host answers, the browser paints frames, and the
  XRPC library reconnects by itself. Nothing is assumed of the agent, the operator
  or the faults; a refused stream, or one that failed validation, does not catch up.
* `Requests`: each call returns or meets its deadline, because every call has one
  (`client.ts`).
* `StopDelivery`: weak fairness of the prompt's goroutine, of the read loop, of the
  goroutines that deliver, and of a client that reads its stream, answers and
  ends a turn it agreed to stop. It need not end any other turn.

## 4. Proofs

Each theorem holds for every value of the constants that satisfies the `ASSUME` of
its module: any number of hosts, turns, requests, conversations, effects, callers,
and any bounds. The assumptions say that bounds are naturals (positive where the
code divides or waits by them), that model values such as `NoTurn` are none of the
things they stand beside, and what is said below for `Settings`, `Requests` and
`Presentation`.
External parties (the storage service, native clients, the network) are assumed to
do what the actions of the module let them do and nothing else.

| Theorem | Statement |
|---|---|
| `JournalProofs!TypeCorrect` | `Spec => []TypeOK` |
| `JournalProofs!RecordCorrect` | `Spec => []RowsMatchRecord` |
| `JournalProofs!DurabilityCorrect` | `Spec => []AckedIsStored` |
| `JournalProofs!ResubmissionCorrect` | `Spec => []NeverResubmitted` |
| `JournalProofs!WakeCorrect` | `Spec => []UrgentIsWoken` |
| `JournalProofs!Refinement` | `Spec => ImplementsLog` |
| `ConversationProofs!SentCorrect` | `Spec => []SentOnce` |
| `ConversationProofs!HoldCorrect` | `Spec => []StopHolds` |
| `ConversationProofs!OneCorrect` | `Spec => []OneAtATime` |
| `ConversationProofs!QueueCorrect` | `Spec => []QueueSurvives` |
| `StopProofs!StopCorrect` | `Spec => []StopIsExact` |
| `ApprovalsProofs!AnswerCorrect` | `Spec => []OneRecordedAnswer` |
| `ApprovalsProofs!ReleaseCorrect` | `Spec => []InputsReleased` |
| `ApprovalsProofs!GrantCorrect` | `Spec => []NoLateGrant` |
| `StreamProofs!ShownCorrect` | `Spec => []ShownIsJournal` |
| `StreamProofs!ReplayCorrect` | `Spec => []ReplayIsConsistent` |
| `StreamProofs!SilentCorrect` | `Spec => EndedEffectIsSilent` (of every step) |
| `RequestsProofs!AnswersCorrect` | `Spec => []OneAnswerPerCard` |
| `RequestsProofs!SubmittedCorrect` | `Spec => []SubmittedIsAnswered` |
| `RequestsProofs!TimerCorrect` | `Spec => []TimerKeepsItsQuestion` |
| `RequestsProofs!DisplacedCorrect` | `Spec => []DisplacedIsKept` |
| `RequestsProofs!OfferedCorrect` | `Spec => []OnlyOfferedAnswers` |
| `SettingsProofs!UpdatesCorrect` | `Spec => []NoLostUpdate` |
| `SettingsProofs!EffortCorrect` | `Spec => []EffortOfModel` |
| `SettingsProofs!ShownCorrect` | `Spec => []ShownIsRun` |
| `SettingsProofs!DraftsCorrect` | `Spec => DraftIsKept` (of every step) |
| `SettingsProofs!ListedCorrect` | `Spec => []ListedIsWanted` |
| `PresentationProofs!FreshCorrect` | `Spec => []ProjectionIsFresh` |
| `PresentationProofs!TimelineCorrect` | `Spec => []TimelineIsWhole` |

Every one of these modules has an inductive invariant (`IInv`, in `JournalProofs`
`SafeInv` and `WakeInv`), one lemma per action or group of actions that says it is
kept, and the theorem `Inductive` or a lemma of its kind that combines them. Each
invariant begins with a `TypeOK` of its own: the types of the records, which the
provers need to know of every field.

### Journal

None of the properties is inductive alone. `SafeInv` is the conjunction of

* `TypeInv`: the types, and `CommitOK`: a flush inside `commitEvents` has taken a
  non-empty prefix of what is pending, and otherwise none;
* `SessionOK`: the pending events of a host are numbered consecutively from
  `durable + 1` to `lastSeq`, a flush inside `commitEvents` belongs to a running host
  whose journal works, and a host that is down has nothing pending and nobody
  waiting;
* `RecordOK`: the rows are those the record counts, the record's version never
  exceeds the revision, and a host that knows the record's present version has its
  `durable` equal to the record's `lastSeq`. This is what makes the version an
  anchor: a version identifies one state of the record;
* `WireOK`: what a request on the wire may claim. A request of the running
  incarnation describes the batch its flush has taken; one that was answered "ok"
  is stored as that incarnation's events; any request whose version is still the
  record's continues exactly where the record ends;
* `NeverResubmitted`: an incarnation has at most one request on the wire. It is
  needed for `WireOK`: the reply a host reads is the reply to *its* batch;
* `WaitOK`: once a number somebody waits for counts as durable, the row stored under
  it is this incarnation's;
* `AckedIsStored`.

Rows are only added by `Process`, and `Accepts` requires the
version, so by `WireOK` the batch starts at `lastSeq + 1`: rows stay exactly those
the record counts and none is overwritten, which gives `RowsMatchRecord` and the
step of the abstract log. A host advances `durable` only when its request is
"ok", so by `WireOK` what it calls durable is stored under its own name, and stays
so because rows never change; hence `AckedIsStored`. An absent receipt ends the
incarnation's writing (`persistErr`), so nothing can be sent beside the
unresolved request. Steps that touch none of the variables of `SafeInv` except the
flush's sleep, the flags or the waiters are handled by one lemma on *quiet* steps.

`UrgentIsWoken` needs `WakeInv` beside it: whoever waits, a caller of `waitDurable` or a
native client held by `waitCapacity`, has left something to commit and a request to
commit it, which stands until a commit begins; a failed journal has no flush; and
a sleeping flush without a token has neither a request nor an urgent event before it.

The refinement maps the abstract log to the stored rows up to the record's
`lastSeq`; every step of `Journal` is an append of one batch, an acknowledgment of
something stored, or a stutter.

### Conversation

`IInv` is the types and

* `Working`: the worker of a prompt that is not over yet is that of the current turn;
* `SentOnce` itself, and `Refused`: a worker waits for a user message that is stored or
  still to be committed, and if its prompt was sent before, for one that is *not*
  stored, which storage will refuse because the key exists. So a second admission of
  a key never comes to be sent;
* `Held`: a hold is visible as a paused queue, or will be when the stopped turn ends,
  or the journal has failed;
* `Clients`, while the journal works: every running client is the published one or the
  one being closed, not both (`Published`); only the connection of the present
  runtime goes on, and no turn runs beside it (`Connecting`).

Operations under the lock are functions on the session, so their lemmas are about
functions (`Appended`, `Pause`, `Drain`, `Retire` and the others) and are used by every
action that calls them.

*The queue.* `QueueSurvives` has an invariant of its own, `QueueInv`, because it is about
every moment a crash could come: whatever prefix of the uncommitted events is stored,
the record that goes with it must restore a queue of the size it names and hold every
prompt acknowledged by then (`Restorable`, for each event of `pend`; `Promised`). `Ledger`
adds that the queue in memory is the recorded one without the prompts submitted since,
so that an operation that records it again says the same. A commit of n events moves the
first n promises to storage and leaves the others as they were (`Cut`); an append adds
one promise after the others (`OneMore`). The prompts that are left of a queue are the
recursive function `Left`: `SelectSeq` of the library is defined with a RECURSIVE
operator, of which the provers know nothing. That it keeps the order and loses nobody
(`IsLeft`, `Leaves`) follows from the well-foundedness of the naturals, as below.

### StopDelivery

`TurnOK` ties `run`, the current turn and the driver's fields together. `WriteOK` is about a
goroutine between its look and its write: its turn is one `stopSent` already counts,
its prompt is on the wire, no stop of that turn is, and no second goroutine is there
for the same turn; so what it writes is the only stop and comes after the prompt. For
Codex, `NamedOK` says that the native turn the driver remembers, the one a goroutine
read and the one a stop names are the turn they were read for, and `WireOK` is what
makes it so: the stream is ordered, has at most one prompt, and the client owes
"started" only for the turn the driver is in.

### Approvals

`Recorded`: what an input holds as its answer is what its receipt says, and what its
goroutine received is that, once stored. `CallsAgree`: a call of `Answer` past the
comparison carries the recorded answer. `Released`: an input that waits and is not
done belongs to the present turn, which has not ended and waits for input. From
these follow `AnswerCorrect` and `ReleaseCorrect`. `GrantCorrect` needs one more
invariant, `LateOK`: a request that still waited in the step that made its turn be
over has its context ended from that step on (by `Released` after the step), no step
takes that back (`RequestGoesOn`), and a select that finds it never marks the request
as answered; so whatever `Answer` hands over later, `AskReturns` returns `Cancel`.

### AgentStream

`IInv` is the types and

* `JournalsOK`: storage has a prefix of a journal, no event is of a later host than the
  present one, each runtime was announced, and each event is of the runtime of the event
  before it or announces its own (`InRuntimes`);
* `DisplayOK`: the display stands for the journal (`StateOK`, where `Genuine` says: this
  number's event, or one lost by a crash and older than all that follows), its runtime
  is that of the last event it shows, and it is never one that failed validation;
* `OwnerOK`: only the last effect is active, for the conversation on display;
* `EffectOK`: nothing is under way outside "follow" or after an abort, an ended effect is
  aborted and has no frame due, and between two steps no queue is full;
* `ReplyOK`: an answer to `getNativeCurrent` stands for the journal, even if it is read
  after a crash;
* `FollowOK`, of a live effect: everything in the queue, on the wire and in the copied
  tail of a page is `Fresh`: genuine, after the seed, and of the seed's host or a later
  one. Before the first crash also `ChainOK`: the queue continues the display, the wire
  continues the last receipt (or repeats it once), and the subscription continues the
  wire, each without a gap.

A crash turns what was genuine and beyond storage into what is lost: `Onward` says that
genuine stays genuine and later stays later, for an append (which rewrites no number)
and for a crash. An effect's step changes one effect and, only if it is live, the
display (`EffectStep`). `ChainOK` is what makes a page that joins storage and tail, a
reconnect and a full queue end in a state `applyEvent` accepts: `ValidUnlessLost`. That
`reduceEvent` accepts the runtime of the next event is `InRuntimes` of the journal, read
at the event the display ends with; `RuntimeIsLast` says that a seed, whose runtime is
that of the last `session.runtime` event, starts there too.

*The queue.* `flush` folds a queue of any length through `applyEvent`. The library's
induction theorems take an operator as a parameter and cannot be used with the
provers at hand, but a *set* of numbers that is not empty has a least one (lemma `Least`,
from the well-foundedness of `<` on the naturals), and that is enough: `RunExists`
shows that the recursive function in `Applied` is what its definition says,
`AppliedStays` that whatever each event passes on holds after the queue.

### Requests

`Busy`: a call a card waits for has its card in flight, there is one for each card, and
what is submitted is not in flight. `Taken`: the runtime has taken an answer of what
was accepted or is shown as submitted. `TimerKeepsItsQuestion` and `DisplacedIsKept` are
inductive together with these. The assumption on `Pages` says what a page is: a form has
at least one question, its questions have different names, and its options are among
those offered.

`OnlyOfferedAnswers` is inductive only with what the card holds: `AnswersOK` says that
the answer to a question has a text or choices but not both, no choice twice and none
that is empty, and at most one where one is asked for; the choices are the recursive
function `Within`, as `Left` above. `nativeQuestionAnswer` refuses exactly what such an
answer cannot be (`Answers`), for a form of any length and options of any number. The
last assumption is the decoder's: an option has a text (`state.ts` refuses blank ones).

### Presentation

`ProjectionIsFresh` is about caches keyed by identity, so the proof says what each
identity stands for. `Known` has three ghosts, which no action reads: `object` maps the
identity of an item to the item, `content` that of an array to the identities in it, and
`records` that of a pending record to its requests. JavaScript never hands out an
identity twice, so a ghost is only ever extended (`Later`), and what was said of older
identities stands. `IInv` is: there are such ghosts, the property holds, and

* `Holds`: the stream on display, and the one retained for a return to the session,
  hold what their identities stand for, and an array that says which indices differ from
  the array before it (`presentationItemChanges`) is right about it (`Derived`);
* `Cached`: the rows of the projector's last array are those of *some* state with the
  cached context (`Projected`); a row kept with an object is its row in some state with
  the same key (`MadeFor`); and the same for pending requests and the last turn.

The heart are the lemmas that a key says all a row depends on (`KeyDecides`, of the five
branches of `timelineItem`), that an unchanged index may keep its row while the context
is the same (`KeptRows`, `FreshRows`), and that every event of the stream names all the
indices it changes (`EventReduced`). `LastTurnOnly`, for a seed that keeps only the last
turn, needs the least index of a set (`LeastNumber`).

The assumptions say that `None` is no object's number, and that only a tool has images
in its result: `decodeEvent` takes the details of a call only of that role (`state.ts:297`).

*The timeline.* `TimelineIsWhole` is about one render, but needs an invariant, because what
tells rows apart are the identities of items, turns and requests. `Steady` says of the
stream on display, of the retained one and of the one on screen that it is `Sound`: no two
items have the same turn and name, the prompt's item and only that one is called "user",
and decisions and failures are finitely many. `EventSound` and `ReseedSound` show that
events and seeds keep this. The rest is about operators, for lists of any length:

* `RankFacts`, `SortedFacts`, `SortedInOrder`: ranks are different and fill the places, so
  sorting loses and repeats nothing, and times ascend with undated rows last;
* `CursorFacts`, `CursorGrows`: what is behind the cursor after n rows of the journal is
  exactly what is due at one of them;
* `MergeFacts`, from `OutputNext` (one turn of the loop) and `OutputMerged` (the rest):
  the place of every row is its own number plus that of the rows of the other kind in
  front of it. From this `MergedOnce` (each row has one place) and `MergedInPlace` (it is
  the right one);
* `OptimisticFacts`: each open message has a row and each key is there once;
* `SetAsSequence`, `SetAsRows`: the decisions and failures as a list, each once;
* `RowsApart`: no row of the journal has the key of another row. A message leaves the
  outbox rows exactly when the journal has the prompt of its turn (`MessageShown`).

Recursive functions are unrolled with `AllNumbers`, as below for `Settings`. The further
assumptions are about identities: `None` is no turn, a turn is not called like one of the
prefixes of the other keys, a message of the outbox names a turn or none, what a clock
shows is a number, and an item that an agent reports has not the role "user", as the
drivers drop the agent's echo of a prompt (`driver.go:517`, `driver.go:601`) and the broker
writes the one user item of a turn itself (`broker.go:665`).

### Settings

`HistoryOK`: each version was made by an author who saw the one before. `PageOK`: what is
edited was begun at a version its author saw, and its effort was offered with its model;
`NewConfigFacts` goes through the fields, and holds for whatever document is on display,
so a refresh under the form takes nothing from it. `RequestsOK`: a save that is done is the
version after its draft's revision, and a request whose number the page waits for is the
one it sent; that is why an answer of a call it gave up on never passes for the answer of
the next. `SessionOK`: the conversation ran with what was promised, and with its snapshot
if that names model and effort.

`ShownIsRun` rests on two facts about the merges. `ShownRuns`: what the composer shows of
the current document is what `selection` gives for it, with the cached catalog, the
stored defaults and the choice. `CompleteRuns`: where snapshot and override name model and
effort, `selection` takes nothing from a client, whatever it reports by then; `Prompt`
with the shared profile in place of the snapshot (the mutant `SharedProfileOf`) breaks
that. The theorems assume nothing of what other processes save but its form, and nothing of
catalogs but theirs (`SettingsAssumption`).

`ListedIsWanted` compares two descriptions of the search, for names and queries of any
length. The code makes one greedy pass over a text for each token; the reference
(`Spread`) says what a subsequence is. `PassOK` is what the pass has found after any
number of characters, and `TakeAhead` that it is never behind an embedding of the token:
the first makes the pass sound, the second complete (`ScanFacts`, `SubsequenceFacts`).
`IndexOfFacts`, `BoundaryFacts`, `AtHolds` and `ShortIsAt` do the same for the exact, prefix
and word matches, `TokenFacts` and `ScoreFacts` for the least score of a token and the
sum over tokens. A pass is a recursive function; that it is what its definition says
for every length is unrolled by hand (`ScanExists`, `SumExists`, by `AllNumbers`: a set that
has 0 and every successor is Nat, because there is no least number outside it). The
assumptions say that names and queries are sequences of characters and that `NoMatch`,
the code's null, is not a number.

### Only model-checked

* Liveness (`PendingSettles`, `WaitersReturn`, `WorkSettles`, `StopEndsTurn`, `CatchesUp`,
  `CardIsFreed`): fairness and ENABLED are out of the prover's reach.
* `JoinsLateSeesAll`, `RequestsShown`, `SettledSeedDecodes`: both sides fold every event of a
  turn, and the view is flattened and sorted with RECURSIVE operators of the library.
* `IncrementalIsFull`, `PrefixIsLongest`: the parsers are folds over tokens, and the equality
  of two parses is an induction over the source.

The proofs found two places where `Conversation` was not the code, both around restarts
and drains, which no run had shown: a conversation stored as closed stays closed when
the host is opened again (`Restored`), and a drain that starts a turn whose old worker
has just ended gives it a new one (`TurnDrains`).

## 5. Properties and what they protect

* `SentOnce`: "Reconnecting a session, replaying a stream or retrying a call never
  sends a prompt twice" and "a crash can lose a prompt that was never sent but can
  never send one that was lost" (`service.go`, `broker.go`). What makes it true is that
  a prompt's key is written with its user message and must not exist: a second
  admission of the key, possible when two requests both looked before either was
  admitted, is refused by storage and stops the journal.
* `WorkSettles`: an accepted turn is sent or fails, and every connection attempt and
  teardown ends, also when the journal fails.
* `QueueSurvives`: `NewBroker` refuses a record whose count of queued prompts does not
  match its events; no prefix of a queue operation's events is such a record, and
  no acknowledged prompt is lost.
* `StopHolds`: a Stop's hold of the queue survives a normal completion, a refused
  Stop, reconnect and restart.
* `OneAtATime`: the teardown fence and the runtime number keep an old worker or client
  from running beside a new one. For clients it is stated while the journal works:
  a connection overtaken by a failing journal opens its client before it notices,
  and closes it then.
* `OneRecordedAnswer`: "The receipt is durable before the native client sees the
  answer", and whoever is told that an answer was taken gave the recorded one.
* `NoLateGrant`, `InputsReleased`: every way a turn can end (its own end, a lost
  client, Stop, close, a failed or full journal) cancels its open requests, so none is
  left waiting, and what still waited then is never granted: not by an answer that was
  on its way to storage, nor by one that lay in the channel already, when select may
  choose it although the context is done. `late` is a history variable, the requests
  that waited in the step that made their turn be over. There is no fairness in this
  module: with `InputsReleased` every waiting goroutine has something to wake it.
* `StopIsExact`, `StopEndsTurn`: the race of three goroutines in `deliverStop`.
* `ShownIsJournal`, `ReplayIsConsistent`: the display is the journal, and as long as no
  host crashed nothing the host serves is taken for an error, however often the
  conversation is closed and resumed under a new runtime. After a crash a page
  may show events that were published and then lost; it keeps them until a number is
  rewritten or a new seed comes, and stops rather than mix two runtimes.
* `EndedEffectIsSilent`, `CatchesUp`: late answers of an ended effect change nothing, and
  no append between a read and a wait is slept through.
* `JoinsLateSeesAll`, `RequestsShown`, `SettledSeedDecodes`: the view of the broker and the
  reducer of the client fold the same events in two languages; from any seed the
  client ends where one is that saw everything, and offers an answer exactly where
  the broker takes one. The status of the last turn is not compared: a seed of a
  reopened host has none.
* `ProjectionIsFresh`, `TimelineIsWhole`: no cache of the projector keeps a row the state
  no longer gives, and outbox, decisions and failures are merged without doubling
  or losing one of them and without reordering the journal.
* `OneAnswerPerCard`, `SubmittedIsAnswered`, `CardIsFreed`, `OnlyOfferedAnswers`,
  `TimerKeepsItsQuestion`, `DisplacedIsKept`: what a card does with a second click, a late
  reply, a deadline, an event that overtakes the reply, a timer and a draft.
  `OneAnswerPerCard` is about one card: after a remount the runtime's own check
  (`AnswerStands`) is what keeps a second answer out.
* `NoLostUpdate`, `DraftIsKept`, `EffortOfModel`, `ShownIsRun`, `ListedIsWanted`: settings are
  saved only over what their author saw, also by calls the page gave up on; conflicts
  keep the draft; no effort is saved with a model it was not offered with; a conversation
  runs with what was on screen when it was created and keeps it through saves, refreshes
  and restarts.
* `IncrementalIsFull`, `PrefixIsLongest`: parsing a message piece by piece shows what
  parsing it whole shows, and saves what it is there to save.

## 6. Findings and known limits

One run ends in a violation: the code does other than its documentation says.

* **seed_decodes.** When a driver's prompt returns without a terminal event, `runTurn`
  appends `turn.end` itself, only signals the open requests of the turn to cancel, and
  clears the current turn (`broker.go:721`). It does not set `s.ended`, which is what
  makes `Current` leave requests out. Until the goroutines of those requests have
  run, `Current` answers with requests and no turn; `decodeCurrentSeed` refuses that
  ("Pending requests have no current turn.", `web/src/state.ts:324`) and the page's stream is
  invalid until it is reloaded. `SettledSeedDecodes` shows that this window is the only
  case.

Further limits, visible in the models and kept out of the runs' properties:

* `Cancel` looks again after the driver accepted the stop, but not for the state
  `closed` (`broker.go:896`). A `CloseSession` in between is overwritten by `cancelling`;
  when the turn's worker finishes, the conversation is `ready` without a worker, and
  neither `Prompt` nor `Reconnect` accepts it, although "`CloseSession` followed by
  `Reconnect` recovers a stalled Stop" (`README.md:237`).
* `connect` publishes the driver before it opens it, so a prompt queued meanwhile is not
  paused (`prompt_queue.go:141`); when the conversation becomes ready nobody drains the
  queue, and the prompt waits for some other operation.
* `deliverStop` records that the stop went out before the client answers, and keeps that
  when the client refuses (`driver.go:378`): the next Stop of the turn reports success
  although nothing was asked.
* A request whose wait lingers after its turn appears in the seed of the next turn as
  one of that turn's, and an answer to it after the end of the turn is recorded
  with no turn, which `decodeEvent` refuses (`state.ts:303`).
* The editor replaces a keystroke typed between a render and the moment it follows
  the new value (`ComposerPromptEditor.tsx:162` says it never does); the window is one
  effect of React.
* Of two drafts of different providers begun at the same revision, the second conflicts
  once the first is saved, and has to be discarded.
* `fieldsFor` falls back to the provider's default model when the form's model is
  cleared (`AgentProviderSettings.tsx:31`), so the form offers an effort that
  `validateOptions` refuses without a model.

* `rpcDriver.Cancel` stores the turn to stop unconditionally (`driver.go:339`). With
  two turns and two stops, a delayed `Cancel` of the first turn replaces the
  remembered stop of the second, which is then not delivered when its turn is
  acknowledged. `StopEndsTurn` is therefore stated for the first turn.
* ACP's `session/cancel` names no turn and is written after the lock is released
  (`driver.go:382`). Written late, it cancels the next turn; `StopHitsItsTurn` is
  therefore stated for Codex (it is a conjunct of `StopIsExact`).
* `askRuntime` ignores the error of appending a resolution (`broker.go:809`) and then
  waits for the last number there is. At the end of the journal (its event or byte
  limit) that number is stored, and the client gets the answer although "its
  resolution is on disk" (`broker.go:817`) is not true. `OneRecordedAnswer` is stated for
  resolutions the journal took.
* `NoLateGrant` is about requests that still waited when their turn was over. An
  answer the goroutine had taken by then is not called back: between its last look at
  the context (`broker.go:797`) and its return (`broker.go:821`) it waits for the lock
  and for storage, the turn may end or be stopped there, and the native client still
  receives the answer afterwards. The event `input.resolved` says "answered" then, so
  journal and client agree.
* An input whose goroutine is slower than the end of its turn is still open when the
  next turn starts. If it goes last, the state of that turn is not set back from
  `awaiting-input` (`broker.go:812`). An answer given to it in that window is recorded
  and reported as taken, though the client gets `Cancel`.
* A conversation whose snapshot names no model, or a model without an effort, is not
  closed to later shared settings. `selection` merges the cached defaults into every turn
  (`settings.go:452`), and an inspection puts the stored defaults of its provider into
  them (`settings.go:621`, `claude_options.go:132`, `settings.go:132`). So a conversation
  created while nothing is stored, then a default model saved by another process and a
  refresh: the next prompt without options runs with that model. `README.md:148` says
  that "later shared settings changes do not silently change existing sessions", and the
  comment at `settings.go:450` that defaults are "not reread on each existing turn". In
  `Settings` this is a `Prompt(NoOptions)` with `session'.ran # session.ran`, five steps
  from the start; `ShownIsRun` promises it only where the snapshot names both.
* The other direction: after a restart `warmSelection` inspects with the private defaults
  of a conversation (`settings.go:428`), which then stand in the shared cache and in the
  document that is served, as if the client had reported them.
* A stored default that an inspection merged into the cache comes back when it is
  cleared: the document merges the cached defaults under the empty profile until
  another inspection or a restart. A refresh does not help, as it inspects with the
  defaults that are served (`settings.go:255`).
* A provider that is only switched off has an empty catalog in the cache afterwards
  (`settings.go:318`, `settings.go:371`). Until a refresh, prompts of its conversations
  that name a model are refused, and so is switching it on again with a default model.
* A save inspects or reads the cache without a lock and writes it back when it commits
  (`settings.go:371`): a refresh in between is undone.
* When the 65 s of a connection run out between preparing and opening it,
  `connect` returns without an event and the state stays `starting`; the
  conversation has to be closed and resumed.

## 7. Not modelled, and the plan

Simplifications inside the modules:

* **Web client.** Renders are atomic with the click or event that causes them, except
  that the editor follows its value later. Formats, lengths and unknown keys of
  decoded fields (`state.ts` 91 to 272) are left out: an input is one the decoder
  takes. Wording, images and titles are reduced to what they depend on. The
  highlight of an option just picked (`optimisticSingleSelect`) is left out; so are
  carriage returns and byte order marks in Markdown, for which the full parser is used.
* **Settings.** The CLI path and the permission are left out because no other field
  depends on them, so every profile of a provider has one entry of the cache; a client
  that was not found is like a provider not enabled. One page is modelled in full, other
  processes by the saves they make, and one conversation. Inspections follow Codex
  and Claude, which put the profile's defaults over the native ones; with ACP the
  client's current model takes their place. A queued prompt is not modelled: its options
  are resolved when it is queued (`prompt_queue.go:137`). `Create` reads profile, cache
  and capacity in one step; its idempotency is in the plan.
* **Secret questions** are refused by the runtime (`requests.go:87`); the card is modelled
  because its code handles them.
* After a restart a conversation is `disconnected` without an event that says so; only
  a new seed shows it.

Not modelled, in the order of the plan:

1. **Retention** (`retention.go`): deletion in several batches with crashes between
   them, and the accounting of reserved history bytes.
2. **Creation and admission**: idempotency of `Create` when the reply of storage is
   lost; the limits on workers and conversations.
3. **History** (`Broker.History`): older pages beside a stream that goes on.
4. **Claude driver**: a process per turn, control request then kill.
5. **Proofs**: what `StreamState` and `Markdown` compute, each with its folds as
   recursive functions first, as the passes of `ModelSearch` are.

Left out for good: managed files of the native clients (file I/O), the XRPC layer (no
state), native details and MCP launch (formatting), the scrolling and disclosure of
the timeline (they depend on the layout a browser computes), the queue panel (one
local edit over commands that `Conversation` has) and the styled widgets.
