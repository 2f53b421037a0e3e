----------------------------- MODULE Approvals ------------------------------
(***************************************************************************)
(* Approvals and questions: askRuntime and Answer (broker.go) and the      *)
(* host's decision evaluator (decisions.go), against everything that ends  *)
(* the turn that asks.                                                     *)
(*                                                                         *)
(* A native client's request blocks its goroutine in askRuntime until an   *)
(* operator or the evaluator answers or its context ends.  Answer appends  *)
(* a receipt, waits until it is stored and only then hands the answer to   *)
(* the goroutine, which appends the resolution, waits for that as well and *)
(* returns to the client.                                                  *)
(*                                                                         *)
(* The conversation is reduced to what these look at.  The journal is a    *)
(* number of appended and a number of stored events (the Journal module    *)
(* shows what that rests on); connecting again is one step.                *)
(***************************************************************************)
EXTENDS Integers, FiniteSets

CONSTANTS
    Requests,    \* what native clients ask: each request has a fresh identity
    Operators,   \* calls of Answer by operators
    Evaluators,  \* calls of Answer on behalf of the decision evaluator
    Answers,     \* answers other than Cancel
    NoAnswer, Cancel,
    MaxInputs,   \* requests that may be open at once (16)
    MaxEvents,   \* MaxEvents: the journal stops at this number
    MaxTurns     \* bound: turns

ASSUME ApprovalsAssumption ==
    /\ Operators \cap Evaluators = {}
    /\ {NoAnswer, Cancel} \cap Answers = {} /\ NoAnswer # Cancel
    /\ MaxInputs \in Nat /\ MaxEvents \in Nat /\ MaxTurns \in Nat

NoTurn == 0
Callers == Operators \cup Evaluators

VARIABLES
    s,       \* the liveSession: turn, state and journal
    ask,     \* the pendingInput of each request and its goroutine
    caller,  \* where each call of Answer is
    stop,    \* the turn of a Cancel that is calling the native client
    begun,   \* turns so far
    late     \* history: the requests that still waited when their turn was over

vars == <<s, ask, caller, stop, begun, late>>

\* pendingInput (known: it is in s.inputs; active: in s.activeInputs), the
\* goroutine that asked, and history: the number of the resolution event, 0 if
\* it could not be appended, and what the native client was told.
NoInput == [pc |-> "none", known |-> FALSE, active |-> FALSE, turn |-> NoTurn,
            answer |-> NoAnswer, seq |-> 0, value |-> NoAnswer,
            done |-> FALSE, status |-> "", waits |-> 0, resolved |-> 0,
            got |-> NoAnswer]

NoCall == [pc |-> "none", req |-> NoAnswer, answer |-> NoAnswer, first |-> FALSE]

Active(q) == {r \in Requests: q[r].active}

Init ==
    /\ s = [current |-> NoTurn, ended |-> FALSE, state |-> "ready",
            failed |-> FALSE, persist |-> FALSE, seq |-> 0, durable |-> 0,
            driver |-> TRUE]
    /\ ask = [r \in Requests |-> NoInput]
    /\ caller = [c \in Callers |-> NoCall]
    /\ stop = NoTurn
    /\ begun = 0
    /\ late = {}

-----------------------------------------------------------------------------
(* Appending and its consequences                                          *)

\* appendLocked; at its limit stopLocked ends the journal.
Appended(c) ==
    IF c.failed THEN c
    ELSE IF c.seq + 1 > MaxEvents
    THEN [c EXCEPT !.failed = TRUE, !.state = "disconnected"]
    ELSE [c EXCEPT !.seq = @ + 1]

AppendState(c, state) ==
    LET n == Appended(c) IN IF n.failed THEN n ELSE [n EXCEPT !.state = state]

\* p.cancel() of every open input.
Cancelled(q) == [r \in Requests |->
                   IF q[r].active THEN [q[r] EXCEPT !.done = TRUE] ELSE q[r]]

\* stopLocked cancels the open inputs when the step made the journal stop.
IfStopped(c, q) == IF c.failed /\ ~s.failed THEN Cancelled(q) ELSE q

\* releaseHistoryLocked forgets the inputs of an idle conversation.
Release(c, q) ==
    IF c.current = NoTurn /\ c.state \in {"closed", "disconnected"} /\ Active(q) = {}
    THEN [r \in Requests |-> [q[r] EXCEPT !.known = FALSE]] ELSE q

\* Turn t of the session c goes on: it did not end, is not being stopped, and its
\* session is neither closed nor disconnected.
Goes(c, t) ==
    /\ c.current = t /\ ~c.ended
    /\ c.state \notin {"cancelling", "closed", "disconnected"}

\* The step notes the requests that wait while it makes their turn be over.
NoteLate ==
    late' = late \cup {r \in Requests: /\ ask[r].pc = "wait"
                                      /\ Goes(s, ask[r].turn) /\ ~Goes(s', ask[r].turn)}

-----------------------------------------------------------------------------
(* askRuntime                                                              *)

\* A request is shown, unless its turn is over or being stopped.
Ask(r) ==
    /\ ask[r].pc = "none"
    /\ s.current # NoTurn /\ ~s.ended
    /\ s.state \notin {"closed", "cancelling"}
    /\ Cardinality(Active(ask)) < MaxInputs
    /\ ~s.failed
    /\ s' = AppendState(Appended(s), "awaiting-input")
    /\ ask' = IF s'.failed THEN IfStopped(s', ask)
              ELSE [ask EXCEPT ![r] = [NoInput EXCEPT !.pc = "wait", !.known = TRUE,
                                         !.active = TRUE, !.turn = s.current]]
    /\ NoteLate
    /\ UNCHANGED <<caller, stop, begun>>

\* The driver's own context ends: the client withdraws the request or is gone.
Withdraw(r) ==
    /\ ask[r].pc = "wait"
    /\ ask' = [ask EXCEPT ![r].done = TRUE]
    /\ UNCHANGED <<s, caller, stop, begun, late>>

\* Mutant of AskSelects: with both at hand, the select may take the answer.
AskSelectsEither(r) ==
    /\ ask[r].pc = "wait"
    /\ \/ /\ ask[r].done
          /\ ask' = [ask EXCEPT ![r].pc = "resolve", ![r].status = "expired"]
       \/ /\ ask[r].value # NoAnswer
          /\ ask' = [ask EXCEPT ![r].pc = "resolve", ![r].status = "answered"]
    /\ UNCHANGED <<s, caller, stop, begun, late>>

\* The select ends.  A context that is done wins over an answer: after the select
\* took one, askRuntime looks at the context once more.
AskSelects(r) ==
    /\ ask[r].pc = "wait"
    /\ ask[r].done \/ ask[r].value # NoAnswer
    /\ ask' = [ask EXCEPT ![r].pc = "resolve",
                 ![r].status = IF ask[r].done THEN "expired" ELSE "answered"]
    /\ UNCHANGED <<s, caller, stop, begun, late>>

\* Under the lock again: the input is closed, its resolution is appended, and
\* with the last input of its turn the turn runs on.
AskResolves(r) ==
    /\ ask[r].pc = "resolve"
    /\ LET q == [ask EXCEPT ![r].active = FALSE, ![r].pc = "commit"]
           c == Appended(s)
           runs == /\ Active(q) = {}
                   /\ c.current = ask[r].turn /\ ~c.ended
                   /\ c.state = "awaiting-input"
       IN /\ s' = IF runs THEN AppendState(c, "running") ELSE c
          /\ ask' = Release(s', IfStopped(s',
                      [q EXCEPT ![r].waits = c.seq,
                                ![r].resolved = IF c.failed THEN 0 ELSE c.seq]))
    /\ NoteLate
    /\ UNCHANGED <<caller, stop, begun>>

\* Mutant of AskReturns: the client learns the answer at once.
AskReturnsEarly(r) ==
    /\ ask[r].pc = "commit"
    /\ ask' = [ask EXCEPT ![r].pc = "done",
                 ![r].got = IF ask[r].status = "answered" THEN ask[r].value ELSE Cancel]
    /\ UNCHANGED <<s, caller, stop, begun, late>>

\* waitDurable returned: the native client gets the answer, or Cancel.
AskReturns(r) ==
    /\ ask[r].pc = "commit"
    /\ s.durable >= ask[r].waits \/ s.persist
    /\ ask' = [ask EXCEPT ![r].pc = "done",
                 ![r].got = IF s.durable >= ask[r].waits /\ ask[r].status = "answered"
                            THEN ask[r].value ELSE Cancel]
    /\ UNCHANGED <<s, caller, stop, begun, late>>

-----------------------------------------------------------------------------
(* Answer                                                                  *)

\* The evaluator is asked about an open request that has no answer yet.  What it
\* decides is applied later, by Answer.
Evaluate(c, r) ==
    /\ c \in Evaluators
    /\ caller[c].pc = "none"
    /\ ask[r].active /\ ask[r].answer = NoAnswer
    /\ caller' = [caller EXCEPT ![c].pc = "evaluate", ![c].req = r]
    /\ UNCHANGED <<s, ask, stop, begun, late>>

\* Who may call Answer for r now.
Calls(c, r) == IF c \in Operators THEN caller[c].pc = "none"
               ELSE caller[c].pc = "evaluate" /\ caller[c].req = r

\* The first answer to an open request: its receipt is appended.
AnswerTakes(c, r, a) ==
    /\ Calls(c, r)
    /\ ask[r].known /\ ask[r].answer = NoAnswer
    /\ ask[r].active /\ ~s.ended /\ s.state \notin {"closed", "cancelling"}
    /\ ~s.failed
    /\ s' = Appended(s)
    /\ ask' = IF s'.failed THEN IfStopped(s', ask)
              ELSE [ask EXCEPT ![r].answer = a, ![r].seq = s'.seq]
    /\ caller' = [caller EXCEPT ![c] =
                    [pc |-> IF s'.failed THEN "err" ELSE "commit", req |-> r,
                     answer |-> a, first |-> TRUE]]
    /\ NoteLate
    /\ UNCHANGED <<stop, begun>>

\* The same answer again waits for the same receipt.  Another is a conflict.
AnswerAgain(c, r, a) ==
    /\ Calls(c, r)
    /\ ask[r].known /\ ask[r].answer = a
    /\ caller' = [caller EXCEPT ![c] = [pc |-> "commit", req |-> r, answer |-> a,
                                        first |-> FALSE]]
    /\ UNCHANGED <<s, ask, stop, begun, late>>

\* waitDurable returned.  The first call hands the answer over.
AnswerReturns(c) ==
    /\ caller[c].pc = "commit"
    /\ LET r == caller[c].req
           stored == s.durable >= ask[r].seq
       IN /\ stored \/ s.persist
          /\ caller' = [caller EXCEPT ![c].pc = IF stored THEN "ok" ELSE "err"]
          /\ ask' = IF stored /\ caller[c].first
                    THEN [ask EXCEPT ![r].value = caller[c].answer] ELSE ask
    /\ UNCHANGED <<s, stop, begun, late>>

-----------------------------------------------------------------------------
(* Turns                                                                   *)

StartTurn ==
    /\ s.state = "ready" /\ s.current = NoTurn /\ s.driver /\ ~s.failed
    /\ begun < MaxTurns
    /\ begun' = begun + 1
    /\ LET c == Appended([s EXCEPT !.current = begun', !.ended = FALSE]) IN
       s' = IF c.failed THEN [c EXCEPT !.current = NoTurn]
            ELSE AppendState(c, "running")
    /\ ask' = IfStopped(s', ask)
    /\ NoteLate
    /\ UNCHANGED <<caller, stop>>

\* receive takes the turn.end of the native client.
TurnEnds ==
    /\ s.current # NoTurn /\ ~s.ended /\ s.state # "closed"
    /\ s' = Appended([s EXCEPT !.ended = TRUE])
    /\ ask' = Cancelled(ask)
    /\ NoteLate
    /\ UNCHANGED <<caller, stop, begun>>

\* The driver's Prompt returned and runTurn finishes the turn.
TurnReturns(err) ==
    /\ s.current # NoTurn
    /\ LET c == IF s.ended THEN s ELSE Appended(s)
           n == [(IF err THEN Appended(c) ELSE c) EXCEPT !.current = NoTurn]
       IN /\ s' = IF n.state = "closed" THEN n
                  ELSE AppendState(n, IF err \/ ~s.ended THEN "disconnected"
                                      ELSE "ready")
          /\ ask' = Release(s', Cancelled(ask))
    /\ NoteLate
    /\ UNCHANGED <<caller, stop, begun>>

\* Broker.Cancel calls the native client.
Stop ==
    /\ stop = NoTurn
    /\ s.current # NoTurn /\ ~s.ended /\ s.driver
    /\ stop' = s.current
    /\ UNCHANGED <<s, ask, caller, begun, late>>

\* It returned.  An accepted stop cancels the open inputs; a refused one, or one
\* that comes too late, changes nothing.
StopReturns(accepted) ==
    /\ stop # NoTurn
    /\ stop' = NoTurn
    /\ IF accepted /\ s.current = stop /\ ~s.ended /\ s.state # "cancelling"
       THEN s' = AppendState(s, "cancelling") /\ ask' = Cancelled(ask)
       ELSE UNCHANGED <<s, ask>>
    /\ NoteLate
    /\ UNCHANGED <<caller, begun>>

\* retireRuntimeLocked
CloseSession ==
    /\ s.state # "closed"
    /\ s' = AppendState([s EXCEPT !.driver = FALSE], "closed")
    /\ ask' = Release(s', Cancelled(ask))
    /\ NoteLate
    /\ UNCHANGED <<caller, stop, begun>>

\* Reconnect and connect: runtime, starting, ready.
Resume ==
    /\ s.state \in {"closed", "disconnected"} /\ s.current = NoTurn
    /\ ~s.failed
    /\ s' = AppendState(AppendState(Appended([s EXCEPT !.driver = TRUE]), "starting"),
                        "ready")
    /\ ask' = IfStopped(s', ask)
    /\ NoteLate
    /\ UNCHANGED <<caller, stop, begun>>

\* The journal stores the next event; a batch is several of these steps.
Commit ==
    /\ ~s.persist /\ s.durable < s.seq
    /\ s' = [s EXCEPT !.durable = @ + 1]
    /\ UNCHANGED <<ask, caller, stop, begun, late>>

\* Mutant of CommitFails: the open inputs are not cancelled.
CommitFailsOnly ==
    /\ ~s.persist /\ s.durable < s.seq
    /\ s' = [s EXCEPT !.persist = TRUE, !.failed = TRUE, !.state = "disconnected"]
    /\ NoteLate
    /\ UNCHANGED <<ask, caller, stop, begun>>

\* A commit fails and stopLocked ends the conversation.
CommitFails ==
    /\ ~s.persist /\ s.durable < s.seq
    /\ s' = [s EXCEPT !.persist = TRUE, !.failed = TRUE, !.state = "disconnected"]
    /\ ask' = Cancelled(ask)
    /\ NoteLate
    /\ UNCHANGED <<caller, stop, begun>>

-----------------------------------------------------------------------------

AskRuns(r) == AskSelects(r) \/ AskResolves(r) \/ AskReturns(r)

Next ==
    \/ \E r \in Requests: Ask(r) \/ Withdraw(r) \/ AskRuns(r)
    \/ \E c \in Callers:
          \/ \E r \in Requests:
                \/ Evaluate(c, r)
                \/ \E a \in Answers: AnswerTakes(c, r, a) \/ AnswerAgain(c, r, a)
          \/ AnswerReturns(c)
    \/ StartTurn \/ TurnEnds \/ Stop \/ CloseSession \/ Resume
    \/ \E b \in BOOLEAN: TurnReturns(b) \/ StopReturns(b)
    \/ Commit \/ CommitFails

Spec == Init /\ [][Next]_vars

-----------------------------------------------------------------------------
(* Properties                                                              *)

\* "The receipt is durable before the native client sees the answer" and "The
\* native client learns the answer only once its resolution is on disk": what
\* a client was granted is the answer of a stored receipt, and its resolution
\* is stored as well if the journal still took it.  (At the end of the
\* conversation it may not: askRuntime ignores that its append failed.)
GrantIsRecorded ==
    \A r \in Requests: ask[r].got \in Answers =>
        /\ ask[r].got = ask[r].answer
        /\ s.durable >= ask[r].seq
        /\ s.durable >= ask[r].resolved

\* The compare-and-swap of Answer: whoever was told that the answer was taken,
\* operators or evaluator, at first or on a retry, the answer was the recorded
\* one.
AnswerStands ==
    \A c \in Callers: caller[c].pc = "ok" => caller[c].answer = ask[caller[c].req].answer

\* Each request has one answer: the recorded one, for the native client and for
\* everyone who was told that theirs was taken (Answer, askRuntime).
OneRecordedAnswer == GrantIsRecorded /\ AnswerStands

\* An answer that was not taken before its turn was over never is: a request that
\* still waited when its turn ended, was stopped, closed or lost its journal is
\* not granted, whenever its goroutine runs again and whatever Answer handed it
\* meanwhile (askRuntime looks at the context again after its select).
NoLateGrant == \A r \in late: ask[r].got \notin Answers

\* A native client is never left waiting: whatever ends a turn or stops the
\* journal has ended the context of every request that still waits, and an
\* answer that was taken is on its way to its request or its failure ends it.
InputsReleased ==
    \A r \in Requests: ask[r].pc = "wait" /\ ~ask[r].done =>
        /\ s.current = ask[r].turn /\ ~s.ended /\ ~s.failed
        /\ s.state \notin {"cancelling", "closed"}
        /\ ask[r].answer # NoAnswer =>
              \/ ask[r].value = ask[r].answer
              \/ \E c \in Callers: caller[c].pc = "commit" /\ caller[c].first
                                   /\ caller[c].req = r
=============================================================================
