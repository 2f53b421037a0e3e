-------------------------- MODULE ApprovalsProofs --------------------------
(***************************************************************************)
(* Proofs about the Approvals module, for every set of requests, operators *)
(* and evaluators and every value of the limits.                           *)
(***************************************************************************)
EXTENDS Approvals, TLAPS

States == {"starting", "ready", "running", "awaiting-input", "cancelling",
           "disconnected", "closed"}

Session == [current: Nat, ended: BOOLEAN, state: States, failed: BOOLEAN,
            persist: BOOLEAN, seq: Nat, durable: Nat, driver: BOOLEAN]

Input == [pc: {"none", "wait", "resolve", "commit", "done"}, known: BOOLEAN,
          active: BOOLEAN, turn: Nat, answer: Answers \cup {NoAnswer}, seq: Nat,
          value: Answers \cup {NoAnswer}, done: BOOLEAN,
          status: {"", "expired", "answered"}, waits: Nat, resolved: Nat,
          got: Answers \cup {NoAnswer, Cancel}]

Call == [pc: {"none", "evaluate", "commit", "ok", "err"},
         req: Requests \cup {NoAnswer}, answer: Answers \cup {NoAnswer},
         first: BOOLEAN]

TypeOK ==
    /\ s \in Session
    /\ ask \in [Requests -> Input]
    /\ caller \in [Callers -> Call]
    /\ stop \in Nat
    /\ begun \in Nat

\* What is known of one request whose record is i, when the journal has stored
\* the first d events: the value that was handed over is the recorded answer and
\* its receipt is stored; only a value that was handed over counts as answered;
\* a resolution is waited for under its own number; a grant was the value.
RequestOK(i, d) ==
    /\ i.pc = "none" => i.answer = NoAnswer
    /\ i.active => i.pc \in {"wait", "resolve"}
    /\ i.pc = "wait" => i.active /\ i.status = "" /\ i.turn # NoTurn
    /\ i.value # NoAnswer => i.value = i.answer /\ d >= i.seq
    /\ i.status = "answered" => i.value # NoAnswer
    /\ i.resolved <= i.waits
    /\ i.got \in Answers => /\ i.pc = "done" /\ i.status = "answered"
                            /\ i.got = i.answer
                            /\ d >= i.seq
                            /\ d >= i.resolved

RecordedIn(q, d) == \A r \in Requests: RequestOK(q[r], d)

Recorded == RecordedIn(ask, s.durable)

\* A call of Answer that is past the comparison carries the recorded answer.
CallsAgree ==
    \A c \in Callers: caller[c].pc \in {"commit", "ok"} =>
        /\ caller[c].req \in Requests
        /\ caller[c].answer \in Answers
        /\ caller[c].answer = ask[caller[c].req].answer

\* The answer of r is being handed over by the call that recorded it.
OnItsWay(r) ==
    \E c \in Callers: caller[c].pc = "commit" /\ caller[c].first /\ caller[c].req = r

\* While the context of a waiting request has not ended, its turn runs and
\* waits for input.
Released ==
    \A r \in Requests: ask[r].pc = "wait" /\ ~ask[r].done =>
        /\ s.current = ask[r].turn /\ ~s.ended /\ ~s.failed
        /\ s.state = "awaiting-input"
        /\ ask[r].answer # NoAnswer => ask[r].value = ask[r].answer \/ OnItsWay(r)

IInv == TypeOK /\ Recorded /\ CallsAgree /\ Released /\ (s.persist => s.failed)

-----------------------------------------------------------------------------
(* The operators of the model                                              *)

\* appendLocked keeps the session's turn and what is stored, and either takes
\* the event or stops the journal.
LEMMA AppendedFacts ==
  ASSUME NEW c \in Session
  PROVE  LET n == Appended(c) IN
         /\ n \in Session
         /\ n.current = c.current /\ n.ended = c.ended /\ n.persist = c.persist
         /\ n.durable = c.durable
         /\ c.failed => n.failed
         /\ ~n.failed => n.state = c.state
<1>1. CASE c.failed
  BY <1>1 DEF Appended
<1>2. CASE ~c.failed /\ c.seq + 1 > MaxEvents
  <2>1. Appended(c) = [c EXCEPT !.failed = TRUE, !.state = "disconnected"]
    BY <1>2 DEF Appended
  <2>2. Appended(c) \in Session
    BY <2>1, Zenon DEF Session, States
  <2>3. QED
    BY <2>1, <2>2 DEF Session
<1>3. CASE ~c.failed /\ ~(c.seq + 1 > MaxEvents)
  BY <1>3 DEF Appended, Session
<1>4. QED
  BY <1>1, <1>2, <1>3

\* An appended state event changes the state only if the journal took it.
LEMMA AppendStateFacts ==
  ASSUME NEW c \in Session, NEW state \in States
  PROVE  LET n == AppendState(c, state) IN
         /\ n \in Session
         /\ n.current = c.current /\ n.ended = c.ended /\ n.persist = c.persist
         /\ n.durable = c.durable
         /\ c.failed => n.failed
         /\ ~n.failed => n.state = state
<1>1. Appended(c) \in Session
  BY AppendedFacts
<1>2. QED
  BY <1>1, AppendedFacts DEF AppendState, Session

\* The input j differs from i at most in what Cancelled and Release write.
SameInput(i, j) ==
    /\ j.pc = i.pc /\ j.active = i.active /\ j.turn = i.turn
    /\ j.answer = i.answer /\ j.seq = i.seq /\ j.value = i.value
    /\ j.status = i.status /\ j.waits = i.waits /\ j.resolved = i.resolved
    /\ j.got = i.got
    /\ i.done => j.done

Same(p, q) ==
    /\ q \in [Requests -> Input]
    /\ \A r \in Requests: SameInput(p[r], q[r])

\* Every open input of q was cancelled.
AllDone(q) == \A r \in Requests: q[r].active => q[r].done

LEMMA DoneFacts ==
  ASSUME NEW i \in Input
  PROVE  LET j == [i EXCEPT !.done = TRUE] IN
         j \in Input /\ SameInput(i, j) /\ j.done
  BY Zenon DEF Input, SameInput

LEMMA KnownFacts ==
  ASSUME NEW i \in Input
  PROVE  LET j == [i EXCEPT !.known = FALSE] IN
         j \in Input /\ SameInput(i, j) /\ (j.done <=> i.done)
  BY Zenon DEF Input, SameInput

LEMMA SameItself == ASSUME NEW i PROVE SameInput(i, i)
  BY Zenon DEF SameInput

LEMMA CancelledFacts ==
  ASSUME NEW q \in [Requests -> Input]
  PROVE  Same(q, Cancelled(q)) /\ AllDone(Cancelled(q))
<1>1. ASSUME NEW r \in Requests
      PROVE  /\ Cancelled(q)[r] \in Input
             /\ SameInput(q[r], Cancelled(q)[r])
             /\ Cancelled(q)[r].active => Cancelled(q)[r].done
  <2>1. CASE q[r].active
    BY <2>1, DoneFacts DEF Cancelled
  <2>2. CASE ~q[r].active
    BY <2>2, SameItself DEF Cancelled
  <2>3. QED
    BY <2>1, <2>2
<1>2. Cancelled(q) \in [Requests -> Input]
  BY <1>1 DEF Cancelled
<1>3. QED
  BY <1>1, <1>2 DEF Same, AllDone

LEMMA ReleaseFacts ==
  ASSUME NEW q \in [Requests -> Input], NEW c
  PROVE  Same(q, Release(c, q)) /\ (AllDone(q) => AllDone(Release(c, q)))
<1>1. CASE Release(c, q) = q
  BY <1>1, SameItself DEF Same
<1>2. CASE Release(c, q) = [r \in Requests |-> [q[r] EXCEPT !.known = FALSE]]
  <2>1. \A r \in Requests: SameInput(q[r], Release(c, q)[r])
    BY <1>2, KnownFacts
  <2>2. ASSUME NEW r \in Requests PROVE Release(c, q)[r].done <=> q[r].done
    <3>1. Release(c, q)[r] = [q[r] EXCEPT !.known = FALSE] /\ q[r] \in Input
      BY <1>2
    <3>2. QED
      BY <3>1, Zenon DEF Input
  <2>3. Release(c, q) \in [Requests -> Input]
    BY <1>2, KnownFacts
  <2>4. QED
    BY <2>1, <2>2, <2>3, Zenon DEF Same, AllDone, SameInput
<1>3. QED
  BY <1>1, <1>2 DEF Release

LEMMA SameTrans ==
  ASSUME NEW p, NEW q, NEW t, Same(p, q), Same(q, t) PROVE Same(p, t)
<1>1. ASSUME NEW r \in Requests PROVE SameInput(p[r], t[r])
  <2>1. SameInput(p[r], q[r]) /\ SameInput(q[r], t[r])
    BY DEF Same
  <2>2. QED
    BY <2>1, Zenon DEF SameInput
<1>2. QED
  BY <1>1 DEF Same

LEMMA RequestKept ==
  ASSUME NEW i \in Input, NEW j \in Input, NEW d \in Nat, NEW e \in Nat, d <= e,
         RequestOK(i, d), SameInput(i, j)
  PROVE  RequestOK(j, e)
<1>1. i.seq \in Nat /\ i.resolved \in Nat
  BY DEF Input
<1>2. (d >= i.seq => e >= i.seq) /\ (d >= i.resolved => e >= i.resolved)
  BY <1>1
<1>3. QED
  BY <1>2, Zenon DEF RequestOK, SameInput

\* What is recorded survives the storing of events and the cancelling and
\* forgetting of inputs.
LEMMA RecordsKept ==
  ASSUME NEW p \in [Requests -> Input], NEW q, Same(p, q),
         NEW d \in Nat, NEW e \in Nat, d <= e, RecordedIn(p, d)
  PROVE  RecordedIn(q, e)
<1> SUFFICES ASSUME NEW r \in Requests PROVE RequestOK(q[r], e)
  BY DEF RecordedIn
<1>1. /\ p[r] \in Input /\ q[r] \in Input
      /\ RequestOK(p[r], d) /\ SameInput(p[r], q[r])
  BY DEF RecordedIn, Same
<1>2. QED
  BY <1>1, RequestKept

-----------------------------------------------------------------------------
(* Steps that only cancel and forget inputs                                *)

\* The calls of Answer that are past the comparison go on as they are.
CallersKept ==
    /\ caller' \in [Callers -> Call]
    /\ \A c \in Callers:
         \/ caller'[c] = caller[c]
         \/ caller[c].pc \in {"none", "evaluate"} /\ caller'[c].pc \in {"evaluate", "err"}

\* The turn and its state are what they were.
TurnKept ==
    /\ s'.current = s.current /\ s'.ended = s.ended
    /\ s'.failed = s.failed /\ s'.state = s.state

\* Such a step keeps the invariant if it cancels every open input, leaves the
\* turn as it is, or there was no turn.
LEMMA QuietStep ==
  ASSUME IInv, Same(ask, ask'), s' \in Session, s'.durable >= s.durable,
         s'.persist => s'.failed, stop' \in Nat, begun' \in Nat, CallersKept,
         AllDone(ask') \/ TurnKept \/ s.current = NoTurn
  PROVE  IInv'
<1> USE DEF IInv, TypeOK
<1>1. TypeOK'
  BY DEF Same, CallersKept
<1>2. Recorded'
  <2>1. s.durable \in Nat /\ s'.durable \in Nat
    BY DEF Session
  <2>2. QED
    BY <2>1, RecordsKept DEF Recorded
<1>3. CallsAgree'
  <2> SUFFICES ASSUME NEW c \in Callers, caller'[c].pc \in {"commit", "ok"}
               PROVE  /\ caller'[c].req \in Requests
                      /\ caller'[c].answer \in Answers
                      /\ caller'[c].answer = ask'[caller'[c].req].answer
    BY DEF CallsAgree
  <2>1. caller'[c] = caller[c]
    BY DEF CallersKept
  <2>2. QED
    BY <2>1 DEF CallsAgree, Same, SameInput
<1>4. Released'
  <2> SUFFICES ASSUME NEW r \in Requests, ask'[r].pc = "wait", ~ask'[r].done
               PROVE  /\ s'.current = ask'[r].turn /\ ~s'.ended /\ ~s'.failed
                      /\ s'.state = "awaiting-input"
                      /\ ask'[r].answer # NoAnswer =>
                           ask'[r].value = ask'[r].answer \/ OnItsWay(r)'
    BY DEF Released
  <2>1. SameInput(ask[r], ask'[r]) /\ RequestOK(ask[r], s.durable)
    BY DEF Same, Recorded, RecordedIn
  <2>2. /\ ask[r].pc = "wait" /\ ~ask[r].done /\ ask[r].active
        /\ ask'[r].active /\ ask[r].turn # NoTurn
        /\ ask'[r].turn = ask[r].turn /\ ask'[r].answer = ask[r].answer
        /\ ask'[r].value = ask[r].value
    BY <2>1, Zenon DEF SameInput, RequestOK
  <2>3. TurnKept
    BY <2>2 DEF AllDone, Released
  <2>4. OnItsWay(r) => OnItsWay(r)'
    BY DEF OnItsWay, CallersKept
  <2>5. QED
    BY <2>2, <2>3, <2>4 DEF TurnKept, Released
<1>5. QED
  BY <1>1, <1>2, <1>3, <1>4

LEMMA IfStoppedFacts ==
  ASSUME NEW q \in [Requests -> Input], NEW c
  PROVE  /\ Same(q, IfStopped(c, q))
         /\ c.failed /\ ~s.failed => AllDone(IfStopped(c, q))
<1>1. CASE c.failed /\ ~s.failed
  BY <1>1, CancelledFacts DEF IfStopped
<1>2. CASE ~(c.failed /\ ~s.failed)
  BY <1>2, SameItself DEF IfStopped, Same
<1>3. QED
  BY <1>1, <1>2

LEMMA StartTurnStep == ASSUME IInv, StartTurn PROVE IInv'
<1> USE DEF IInv, TypeOK
<1> DEFINE b == [s EXCEPT !.current = begun', !.ended = FALSE]
           c == Appended(b)
<1>1. b \in Session /\ b.durable = s.durable /\ b.persist = s.persist /\ b.failed = s.failed
  <2>1. begun' \in Nat
    BY DEF StartTurn
  <2>2. b \in Session
    BY <2>1, Zenon DEF Session
  <2>3. QED
    BY <2>2, Zenon DEF Session
<1>2. /\ c \in Session /\ c.durable = s.durable /\ c.persist = s.persist
      /\ s.failed => c.failed
  BY <1>1, AppendedFacts
<1> HIDE DEF c, b
<1>3. /\ s' \in Session /\ s'.durable = s.durable /\ s'.persist = s.persist
      /\ s.failed => s'.failed
  <2>1. CASE c.failed
    <3>1. s' = [c EXCEPT !.current = NoTurn]
      BY <2>1, Zenon DEF StartTurn, c, b
    <3>2. NoTurn \in Nat
      BY DEF NoTurn
    <3>3. QED
      BY <1>2, <2>1, <3>1, <3>2, Zenon DEF Session
  <2>2. CASE ~c.failed
    <3>1. s' = AppendState(c, "running")
      BY <2>2, Zenon DEF StartTurn, c, b
    <3>2. QED
      BY <1>2, <3>1, AppendStateFacts DEF States
  <2>3. QED
    BY <2>1, <2>2
<1>4. Same(ask, ask')
  BY <1>3, IfStoppedFacts DEF StartTurn
<1>5. CallersKept /\ stop' \in Nat /\ begun' \in Nat /\ s.current = NoTurn
  BY DEF CallersKept, StartTurn
<1>6. s'.durable >= s.durable
  BY <1>3 DEF Session
<1>7. QED
  BY <1>3, <1>4, <1>5, <1>6, QuietStep

LEMMA TurnEndsStep == ASSUME IInv, TurnEnds PROVE IInv'
<1> USE DEF IInv, TypeOK
<1> DEFINE b == [s EXCEPT !.ended = TRUE]
<1>1. b \in Session /\ b.durable = s.durable /\ b.persist = s.persist /\ b.failed = s.failed
  BY Zenon DEF Session
<1> HIDE DEF b
<1>2. s' = Appended(b)
  BY DEF TurnEnds, b
<1>3. /\ s' \in Session /\ s'.durable = s.durable /\ s'.persist = s.persist
      /\ s.failed => s'.failed
  BY <1>1, <1>2, AppendedFacts
<1>4. Same(ask, ask') /\ AllDone(ask')
  BY CancelledFacts DEF TurnEnds
<1>5. CallersKept /\ stop' \in Nat /\ begun' \in Nat
  BY DEF CallersKept, TurnEnds
<1>6. s'.durable >= s.durable
  BY <1>3 DEF Session
<1>7. QED
  BY <1>3, <1>4, <1>5, <1>6, QuietStep

LEMMA TurnReturnsStep ==
  ASSUME IInv, NEW err \in BOOLEAN, TurnReturns(err) PROVE IInv'
<1> USE DEF IInv, TypeOK
<1> DEFINE c == IF s.ended THEN s ELSE Appended(s)
           d == IF err THEN Appended(c) ELSE c
           n == [d EXCEPT !.current = NoTurn]
<1>1. /\ c \in Session /\ c.durable = s.durable /\ c.persist = s.persist
      /\ s.failed => c.failed
  BY AppendedFacts
<1> HIDE DEF c
<1>2. /\ d \in Session /\ d.durable = s.durable /\ d.persist = s.persist
      /\ s.failed => d.failed
  BY <1>1, AppendedFacts
<1> HIDE DEF d
<1>3. /\ n \in Session /\ n.durable = s.durable /\ n.persist = s.persist
      /\ s.failed => n.failed
  <2>1. NoTurn \in Nat
    BY DEF NoTurn
  <2>2. QED
    BY <1>2, <2>1, Zenon DEF Session
<1> HIDE DEF n
<1>4. /\ s' \in Session /\ s'.durable = s.durable /\ s'.persist = s.persist
      /\ s.failed => s'.failed
  <2>1. \/ s' = n
        \/ s' = AppendState(n, IF err \/ ~s.ended THEN "disconnected" ELSE "ready")
    BY Zenon DEF TurnReturns, n, d, c
  <2>2. (IF err \/ ~s.ended THEN "disconnected" ELSE "ready") \in States
    BY DEF States
  <2>3. QED
    BY <1>3, <2>1, <2>2, AppendStateFacts
<1>5. Same(ask, ask') /\ AllDone(ask')
  <2>1. ask' = Release(s', Cancelled(ask))
    BY Zenon DEF TurnReturns
  <2>2. Same(ask, Cancelled(ask)) /\ AllDone(Cancelled(ask))
    BY CancelledFacts
  <2>3. QED
    BY <2>1, <2>2, ReleaseFacts, SameTrans DEF Same
<1>6. CallersKept /\ stop' \in Nat /\ begun' \in Nat
  BY DEF CallersKept, TurnReturns
<1>7. s'.durable >= s.durable
  BY <1>4 DEF Session
<1>8. QED
  BY <1>4, <1>5, <1>6, <1>7, QuietStep

LEMMA StopStep == ASSUME IInv, Stop PROVE IInv'
<1> USE DEF IInv, TypeOK
<1>1. Same(ask, ask')
  BY SameItself DEF Same, Stop
<1>2. /\ CallersKept /\ TurnKept /\ stop' \in Nat /\ begun' \in Nat
      /\ s' \in Session /\ s'.durable >= s.durable /\ (s'.persist => s'.failed)
  BY DEF CallersKept, TurnKept, Stop, Session
<1>3. QED
  BY <1>1, <1>2, QuietStep

LEMMA StopReturnsStep ==
  ASSUME IInv, NEW accepted \in BOOLEAN, StopReturns(accepted) PROVE IInv'
<1> USE DEF IInv, TypeOK
<1>1. CallersKept /\ stop' \in Nat /\ begun' \in Nat
  BY DEF CallersKept, StopReturns, NoTurn
<1>2. CASE s' = AppendState(s, "cancelling") /\ ask' = Cancelled(ask)
  <2>1. /\ s' \in Session /\ s'.durable = s.durable /\ s'.persist = s.persist
        /\ s.failed => s'.failed
    BY <1>2, AppendStateFacts DEF States
  <2>2. Same(ask, ask') /\ AllDone(ask')
    BY <1>2, CancelledFacts
  <2>3. s'.durable >= s.durable
    BY <2>1 DEF Session
  <2>4. QED
    BY <1>1, <2>1, <2>2, <2>3, QuietStep
<1>3. CASE UNCHANGED <<s, ask>>
  <2>1. Same(ask, ask') /\ TurnKept
    BY <1>3, SameItself DEF Same, TurnKept
  <2>2. s' \in Session /\ s'.durable >= s.durable /\ (s'.persist => s'.failed)
    BY <1>3 DEF Session
  <2>3. QED
    BY <1>1, <2>1, <2>2, QuietStep
<1>4. QED
  BY <1>2, <1>3 DEF StopReturns

LEMMA CloseSessionStep == ASSUME IInv, CloseSession PROVE IInv'
<1> USE DEF IInv, TypeOK
<1> DEFINE b == [s EXCEPT !.driver = FALSE]
<1>1. b \in Session /\ b.durable = s.durable /\ b.persist = s.persist /\ b.failed = s.failed
  BY Zenon DEF Session
<1> HIDE DEF b
<1>2. s' = AppendState(b, "closed")
  BY DEF CloseSession, b
<1>3. /\ s' \in Session /\ s'.durable = s.durable /\ s'.persist = s.persist
      /\ s.failed => s'.failed
  BY <1>1, <1>2, AppendStateFacts DEF States
<1>4. Same(ask, ask') /\ AllDone(ask')
  <2>1. ask' = Release(s', Cancelled(ask))
    BY DEF CloseSession
  <2>2. Same(ask, Cancelled(ask)) /\ AllDone(Cancelled(ask))
    BY CancelledFacts
  <2>3. QED
    BY <2>1, <2>2, ReleaseFacts, SameTrans DEF Same
<1>5. CallersKept /\ stop' \in Nat /\ begun' \in Nat
  BY DEF CallersKept, CloseSession
<1>6. s'.durable >= s.durable
  BY <1>3 DEF Session
<1>7. QED
  BY <1>3, <1>4, <1>5, <1>6, QuietStep

LEMMA ResumeStep == ASSUME IInv, Resume PROVE IInv'
<1> USE DEF IInv, TypeOK
<1> DEFINE b == [s EXCEPT !.driver = TRUE]
           c == Appended(b)
           d == AppendState(c, "starting")
<1>1. b \in Session /\ b.durable = s.durable /\ b.persist = s.persist /\ b.failed = s.failed
  BY Zenon DEF Session
<1>2. s' = AppendState(d, "ready")
  BY DEF Resume
<1> HIDE DEF b
<1>3. /\ c \in Session /\ c.durable = s.durable /\ c.persist = s.persist
      /\ s.failed => c.failed
  BY <1>1, AppendedFacts
<1> HIDE DEF c
<1>4. /\ d \in Session /\ d.durable = s.durable /\ d.persist = s.persist
      /\ s.failed => d.failed
  BY <1>3, AppendStateFacts DEF States
<1> HIDE DEF d
<1>5. /\ s' \in Session /\ s'.durable = s.durable /\ s'.persist = s.persist
      /\ s.failed => s'.failed
  BY <1>2, <1>4, AppendStateFacts DEF States
<1>6. Same(ask, ask')
  BY <1>5, IfStoppedFacts DEF Resume
<1>7. CallersKept /\ stop' \in Nat /\ begun' \in Nat /\ s.current = NoTurn
  BY DEF CallersKept, Resume
<1>8. s'.durable >= s.durable
  BY <1>5 DEF Session
<1>9. QED
  BY <1>5, <1>6, <1>7, <1>8, QuietStep

LEMMA CommitStep == ASSUME IInv, Commit PROVE IInv'
<1> USE DEF IInv, TypeOK
<1>1. /\ s' \in Session /\ s'.durable >= s.durable
      /\ s'.persist = s.persist /\ s'.failed = s.failed /\ TurnKept
  BY DEF Commit, Session, TurnKept
<1>2. Same(ask, ask')
  BY SameItself DEF Same, Commit
<1>3. CallersKept /\ stop' \in Nat /\ begun' \in Nat
  BY DEF CallersKept, Commit
<1>4. QED
  BY <1>1, <1>2, <1>3, QuietStep

LEMMA CommitFailsStep == ASSUME IInv, CommitFails PROVE IInv'
<1> USE DEF IInv, TypeOK
<1>1. /\ s' \in Session /\ s'.durable = s.durable /\ s'.failed
  BY Zenon DEF CommitFails, Session, States
<1>2. Same(ask, ask') /\ AllDone(ask')
  BY CancelledFacts DEF CommitFails
<1>3. CallersKept /\ stop' \in Nat /\ begun' \in Nat
  BY DEF CallersKept, CommitFails
<1>4. s'.durable >= s.durable
  BY <1>1 DEF Session
<1>5. QED
  BY <1>1, <1>2, <1>3, <1>4, QuietStep

LEMMA EvaluateStep ==
  ASSUME IInv, NEW c \in Callers, NEW r \in Requests, Evaluate(c, r) PROVE IInv'
<1> USE DEF IInv, TypeOK
<1>1. Same(ask, ask') /\ TurnKept
  BY SameItself DEF Same, TurnKept, Evaluate
<1>2. CallersKept
  <2>1. /\ caller[c].pc = "none"
        /\ caller' = [caller EXCEPT ![c] = [@ EXCEPT !.pc = "evaluate", !.req = r]]
    BY DEF Evaluate
  <2>2. [caller[c] EXCEPT !.pc = "evaluate", !.req = r] \in Call
    BY DEF Call
  <2>3. caller' \in [Callers -> Call]
    BY <2>1, <2>2
  <2>4. caller'[c].pc = "evaluate"
    BY <2>1 DEF Call
  <2>5. \A k \in Callers: k # c => caller'[k] = caller[k]
    BY <2>1
  <2>6. QED
    BY <2>1, <2>3, <2>4, <2>5 DEF CallersKept
<1>3. /\ stop' \in Nat /\ begun' \in Nat
      /\ s' \in Session /\ s'.durable >= s.durable /\ (s'.persist => s'.failed)
  BY DEF Evaluate, Session
<1>4. QED
  BY <1>1, <1>2, <1>3, QuietStep

-----------------------------------------------------------------------------
(* The goroutine of a request                                              *)

\* A step of the goroutine of r that makes its record j.
LEMMA InputStep ==
  ASSUME IInv, NEW r \in Requests, NEW j \in Input, ask' = [ask EXCEPT ![r] = j],
         RequestOK(j, s.durable), j.answer = ask[r].answer,
         UNCHANGED <<s, caller, stop, begun>>, j.pc = "wait" => j.done
  PROVE  IInv'
<1> USE DEF IInv, TypeOK
<1>1. TypeOK'
  OBVIOUS
<1>2. Recorded'
  BY DEF Recorded, RecordedIn
<1>3. CallsAgree'
  BY DEF CallsAgree
<1>4. Released'
  BY DEF Released, OnItsWay
<1>5. QED
  BY <1>1, <1>2, <1>3, <1>4

LEMMA WithdrawStep == ASSUME IInv, NEW r \in Requests, Withdraw(r) PROVE IInv'
<1> USE DEF IInv, TypeOK
<1> DEFINE j == [ask[r] EXCEPT !.done = TRUE]
<1>1. ask[r] \in Input /\ RequestOK(ask[r], s.durable) /\ s.durable \in Nat
  BY DEF Recorded, RecordedIn, Session
<1>2. j \in Input /\ SameInput(ask[r], j) /\ j.done
  BY <1>1, DoneFacts
<1>3. ask' = [ask EXCEPT ![r] = j]
  BY DEF Withdraw
<1> HIDE DEF j
<1>4. RequestOK(j, s.durable)
  BY <1>1, <1>2, RequestKept
<1>5. j.answer = ask[r].answer /\ UNCHANGED <<s, caller, stop, begun>>
  BY <1>2 DEF SameInput, Withdraw
<1>6. QED
  BY <1>2, <1>3, <1>4, <1>5, InputStep

LEMMA AskSelectsStep == ASSUME IInv, NEW r \in Requests, AskSelects(r) PROVE IInv'
<1> USE DEF IInv, TypeOK
<1> DEFINE status == IF ask[r].done THEN "expired" ELSE "answered"
           j == [ask[r] EXCEPT !.pc = "resolve", !.status = status]
<1>1. ask[r] \in Input /\ RequestOK(ask[r], s.durable) /\ ask[r].pc = "wait"
  BY DEF Recorded, RecordedIn, AskSelects
<1>2. status \in {"expired", "answered"} /\ (status = "answered" => ask[r].value # NoAnswer)
  BY DEF AskSelects
<1>3. ask' = [ask EXCEPT ![r] = j]
  BY DEF AskSelects
<1> HIDE DEF status
<1>4. /\ j \in Input /\ j.pc = "resolve" /\ j.status = status
      /\ j.active = ask[r].active /\ j.answer = ask[r].answer /\ j.seq = ask[r].seq
      /\ j.value = ask[r].value /\ j.waits = ask[r].waits
      /\ j.resolved = ask[r].resolved /\ j.got = ask[r].got
  BY <1>1, <1>2 DEF Input
<1> HIDE DEF j
<1>5. RequestOK(j, s.durable)
  BY <1>1, <1>2, <1>4 DEF RequestOK
<1>6. UNCHANGED <<s, caller, stop, begun>>
  BY DEF AskSelects
<1>7. QED
  BY <1>3, <1>4, <1>5, <1>6, InputStep

LEMMA AskReturnsStep == ASSUME IInv, NEW r \in Requests, AskReturns(r) PROVE IInv'
<1> USE DEF IInv, TypeOK
<1> DEFINE got == IF s.durable >= ask[r].waits /\ ask[r].status = "answered"
                  THEN ask[r].value ELSE Cancel
           j == [ask[r] EXCEPT !.pc = "done", !.got = got]
<1>1. ask[r] \in Input /\ RequestOK(ask[r], s.durable) /\ ask[r].pc = "commit"
  BY DEF Recorded, RecordedIn, AskReturns
<1>2. /\ got \in Answers \cup {NoAnswer, Cancel}
      /\ got \in Answers => /\ got = ask[r].answer /\ s.durable >= ask[r].seq
                            /\ s.durable >= ask[r].resolved
                            /\ ask[r].status = "answered"
  <2>1. CASE s.durable >= ask[r].waits /\ ask[r].status = "answered"
    <3>1. /\ ask[r].value = ask[r].answer /\ s.durable >= ask[r].seq
          /\ ask[r].resolved <= ask[r].waits
      BY <1>1, <2>1 DEF RequestOK
    <3>2. /\ ask[r].resolved \in Nat /\ ask[r].waits \in Nat /\ s.durable \in Nat
          /\ ask[r].value \in Answers \cup {NoAnswer}
      BY <1>1 DEF Input, Session
    <3>3. QED
      BY <2>1, <3>1, <3>2
  <2>2. CASE ~(s.durable >= ask[r].waits /\ ask[r].status = "answered")
    BY <2>2, ApprovalsAssumption
  <2>3. QED
    BY <2>1, <2>2
<1>3. ask' = [ask EXCEPT ![r] = j]
  BY DEF AskReturns
<1> HIDE DEF got
<1>4. /\ j \in Input /\ j.pc = "done" /\ j.got = got
      /\ j.active = ask[r].active /\ j.answer = ask[r].answer /\ j.seq = ask[r].seq
      /\ j.value = ask[r].value /\ j.waits = ask[r].waits
      /\ j.resolved = ask[r].resolved /\ j.status = ask[r].status
  BY <1>1, <1>2 DEF Input
<1> HIDE DEF j
<1>5. RequestOK(j, s.durable)
  BY <1>1, <1>2, <1>4 DEF RequestOK
<1>6. UNCHANGED <<s, caller, stop, begun>>
  BY DEF AskReturns
<1>7. QED
  BY <1>3, <1>4, <1>5, <1>6, InputStep

LEMMA AskStep == ASSUME IInv, NEW r \in Requests, Ask(r) PROVE IInv'
<1> USE DEF IInv, TypeOK
<1>1. /\ s' \in Session /\ s'.durable = s.durable /\ s'.persist = s.persist
      /\ s'.current = s.current /\ s'.ended = s.ended /\ (s.failed => s'.failed)
      /\ ~s'.failed => s'.state = "awaiting-input"
  <2>1. s' = AppendState(Appended(s), "awaiting-input")
    BY DEF Ask
  <2>2. QED
    BY <2>1, AppendedFacts, AppendStateFacts DEF States
<1>2. /\ UNCHANGED <<caller, stop, begun>> /\ ask[r].pc = "none"
      /\ s.current # NoTurn /\ ~s.ended /\ ~s.failed
  BY DEF Ask
<1>3. CASE s'.failed
  <2>1. Same(ask, ask') /\ AllDone(ask')
    BY <1>1, <1>2, <1>3, IfStoppedFacts DEF Ask
  <2>2. CallersKept /\ s'.durable >= s.durable /\ stop' \in Nat /\ begun' \in Nat
    BY <1>1, <1>2 DEF CallersKept, Session
  <2>3. QED
    BY <1>1, <1>3, <2>1, <2>2, QuietStep
<1>4. CASE ~s'.failed
  <2> DEFINE j == [NoInput EXCEPT !.pc = "wait", !.known = TRUE, !.active = TRUE,
                                  !.turn = s.current]
  <2>1. ask' = [ask EXCEPT ![r] = j]
    BY <1>4 DEF Ask
  <2>2. s.current \in Nat /\ NoTurn \in Nat /\ 0 \in Nat
    BY DEF Session, NoTurn
  <2>3. /\ j \in Input /\ j.pc = "wait" /\ j.active /\ j.status = ""
        /\ j.turn = s.current /\ j.answer = NoAnswer /\ j.value = NoAnswer
        /\ j.got = NoAnswer /\ j.resolved = 0 /\ j.waits = 0
    BY <2>2, Zenon DEF Input, NoInput
  <2> HIDE DEF j
  <2>4. TypeOK'
    BY <1>1, <1>2, <2>1, <2>3
  <2>5. Recorded'
    <3>1. NoAnswer \notin Answers
      BY ApprovalsAssumption
    <3>2. j.resolved <= j.waits
      <4>1. j.resolved = 0 /\ j.waits = 0
        BY <2>3, Zenon
      <4>2. QED
        BY <4>1
    <3>3. RequestOK(j, s.durable)
      BY <1>2, <2>3, <3>1, <3>2, Zenon DEF RequestOK
    <3>4. QED
      BY <1>1, <2>1, <3>3 DEF Recorded, RecordedIn
  <2>6. CallsAgree'
    <3>1. ask[r].answer = NoAnswer
      BY <1>2 DEF Recorded, RecordedIn, RequestOK
    <3>2. QED
      BY <1>2, <2>1, <3>1, ApprovalsAssumption DEF CallsAgree
  <2>7. Released'
    BY <1>1, <1>2, <1>4, <2>1, <2>3 DEF Released, OnItsWay
  <2>8. QED
    BY <1>1, <2>4, <2>5, <2>6, <2>7
<1>5. QED
  BY <1>3, <1>4

LEMMA AskResolvesStep == ASSUME IInv, NEW r \in Requests, AskResolves(r) PROVE IInv'
<1> USE DEF IInv, TypeOK
<1> DEFINE q == [ask EXCEPT ![r].active = FALSE, ![r].pc = "commit"]
           c == Appended(s)
           resolved == IF c.failed THEN 0 ELSE c.seq
           j == [ask[r] EXCEPT !.active = FALSE, !.pc = "commit",
                               !.waits = c.seq, !.resolved = resolved]
           t == [ask EXCEPT ![r] = j]
           runs == /\ Active(q) = {}
                   /\ c.current = ask[r].turn /\ ~c.ended
                   /\ c.state = "awaiting-input"
<1>1. /\ c \in Session /\ c.durable = s.durable /\ c.persist = s.persist
      /\ c.current = s.current /\ c.ended = s.ended /\ (s.failed => c.failed)
      /\ ~c.failed => c.state = s.state
  BY AppendedFacts
<1>2. /\ s' = IF runs THEN AppendState(c, "running") ELSE c
      /\ ask' = Release(s', IfStopped(s', t))
  BY Zenon DEF AskResolves
<1> HIDE DEF c
<1>3. /\ s' \in Session /\ s'.durable = s.durable /\ s'.persist = s.persist
      /\ s'.current = s.current /\ s'.ended = s.ended /\ (s.failed => s'.failed)
      /\ ~s'.failed => s'.state = s.state \/ runs
  BY <1>1, <1>2, AppendStateFacts DEF States
<1>4. /\ ask[r] \in Input /\ RequestOK(ask[r], s.durable) /\ ask[r].pc = "resolve"
      /\ UNCHANGED <<caller, stop, begun>>
  BY DEF Recorded, RecordedIn, AskResolves
<1>5. c.seq \in Nat /\ resolved \in Nat /\ resolved <= c.seq
  BY <1>1 DEF Session
<1> HIDE DEF resolved
<1>6. /\ j \in Input /\ j.pc = "commit" /\ ~j.active
      /\ j.answer = ask[r].answer /\ j.seq = ask[r].seq /\ j.value = ask[r].value
      /\ j.waits = c.seq /\ j.resolved = resolved /\ j.status = ask[r].status
      /\ j.got = ask[r].got
  BY <1>4, <1>5, Zenon DEF Input
<1> HIDE DEF j
<1>7. t \in [Requests -> Input]
  BY <1>6
<1>8. Same(t, ask') /\ (s'.failed /\ ~s.failed => AllDone(ask'))
  <2>1. Same(t, IfStopped(s', t)) /\ (s'.failed /\ ~s.failed => AllDone(IfStopped(s', t)))
    BY <1>3, <1>7, IfStoppedFacts
  <2>2. QED
    BY <1>2, <2>1, ReleaseFacts, SameTrans DEF Same
<1>9. TypeOK'
  BY <1>3, <1>4, <1>8 DEF Same
<1>10. Recorded'
  <2>1. ask[r].got \notin Answers
    BY <1>4 DEF RequestOK
  <2>2. RequestOK(j, s.durable)
    BY <1>4, <1>5, <1>6, <2>1 DEF RequestOK
  <2>3. RecordedIn(t, s.durable)
    BY <2>2 DEF Recorded, RecordedIn
  <2>4. s.durable \in Nat
    BY DEF Session
  <2>5. QED
    <3>1. s.durable <= s'.durable /\ s'.durable \in Nat
      BY <1>3, <2>4
    <3>2. QED
      BY <1>7, <1>8, <2>3, <2>4, <3>1, RecordsKept DEF Recorded
<1>11. CallsAgree'
  <2>1. \A x \in Requests: ask'[x].answer = ask[x].answer
    BY <1>6, <1>8 DEF Same, SameInput
  <2>2. QED
    BY <1>4, <2>1 DEF CallsAgree
<1>12. Released'
  <2> SUFFICES ASSUME NEW x \in Requests, ask'[x].pc = "wait", ~ask'[x].done
               PROVE  /\ s'.current = ask'[x].turn /\ ~s'.ended /\ ~s'.failed
                      /\ s'.state = "awaiting-input"
                      /\ ask'[x].answer # NoAnswer =>
                           ask'[x].value = ask'[x].answer \/ OnItsWay(x)'
    BY DEF Released
  <2>1. SameInput(t[x], ask'[x])
    BY <1>8 DEF Same
  <2>2. x # r
    BY <1>6, <2>1 DEF SameInput
  <2>3. SameInput(ask[x], ask'[x]) /\ RequestOK(ask[x], s.durable)
    BY <2>1, <2>2 DEF Recorded, RecordedIn
  <2>4. /\ ask[x].pc = "wait" /\ ~ask[x].done /\ ask[x].active /\ ask'[x].active
        /\ ask'[x].turn = ask[x].turn /\ ask'[x].answer = ask[x].answer
        /\ ask'[x].value = ask[x].value
    BY <2>3, Zenon DEF SameInput, RequestOK
  <2>5. ~s'.failed
    BY <1>8, <2>4 DEF AllDone, Released
  <2>6. ~runs
    BY <2>2, <2>4 DEF Active
  <2>7. OnItsWay(x) => OnItsWay(x)'
    BY <1>4 DEF OnItsWay
  <2>8. QED
    BY <1>3, <2>4, <2>5, <2>6, <2>7 DEF Released
<1>13. QED
  BY <1>3, <1>9, <1>10, <1>11, <1>12

-----------------------------------------------------------------------------
(* Answer                                                                  *)

LEMMA AnswerTakesStep ==
  ASSUME IInv, NEW c \in Callers, NEW r \in Requests, NEW a \in Answers,
         AnswerTakes(c, r, a)
  PROVE  IInv'
<1> USE DEF IInv, TypeOK
<1> DEFINE call(pc) == [pc |-> pc, req |-> r, answer |-> a, first |-> TRUE]
<1>1. /\ s' \in Session /\ s'.durable = s.durable /\ s'.persist = s.persist
      /\ s'.current = s.current /\ s'.ended = s.ended /\ (s.failed => s'.failed)
      /\ ~s'.failed => s'.state = s.state
  BY AppendedFacts DEF AnswerTakes
<1>2. /\ UNCHANGED <<stop, begun>> /\ ~s.failed
      /\ ask[r].answer = NoAnswer /\ ask[r].active
  BY DEF AnswerTakes
<1>3. caller[c].pc \in {"none", "evaluate"}
  BY DEF AnswerTakes, Calls
<1>4. call("err") \in Call /\ call("commit") \in Call
  BY Zenon DEF Call
<1>5. CASE s'.failed
  <2>1. Same(ask, ask') /\ AllDone(ask')
    BY <1>1, <1>2, <1>5, IfStoppedFacts DEF AnswerTakes
  <2>2. caller' = [caller EXCEPT ![c] = call("err")]
    BY <1>5 DEF AnswerTakes
  <2>3. CallersKept
    BY <1>3, <1>4, <2>2 DEF CallersKept
  <2>4. s'.durable >= s.durable /\ stop' \in Nat /\ begun' \in Nat
    BY <1>1, <1>2 DEF Session
  <2>5. QED
    BY <1>1, <1>5, <2>1, <2>3, <2>4, QuietStep
<1>6. CASE ~s'.failed
  <2> DEFINE j == [ask[r] EXCEPT !.answer = a, !.seq = s'.seq]
  <2>1. /\ ask' = [ask EXCEPT ![r] = j]
        /\ caller' = [caller EXCEPT ![c] = call("commit")]
    BY <1>6 DEF AnswerTakes
  <2>2. ask[r] \in Input /\ RequestOK(ask[r], s.durable) /\ s'.seq \in Nat
    BY <1>1 DEF Recorded, RecordedIn, Session
  <2>3. /\ j \in Input /\ j.pc = ask[r].pc /\ j.active = ask[r].active
        /\ j.status = ask[r].status /\ j.turn = ask[r].turn /\ j.answer = a
        /\ j.value = ask[r].value /\ j.waits = ask[r].waits /\ j.done = ask[r].done
        /\ j.resolved = ask[r].resolved /\ j.got = ask[r].got
    BY <2>2, Zenon DEF Input
  <2> HIDE DEF j
  <2>4. NoAnswer \notin Answers
    BY ApprovalsAssumption
  <2>5. ask[r].value = NoAnswer /\ ask[r].got \notin Answers /\ ask[r].pc # "none"
    BY <1>2, <2>2, <2>4 DEF RequestOK
  <2>6. TypeOK'
    BY <1>1, <1>2, <1>4, <2>1, <2>3
  <2>7. Recorded'
    <3>1. RequestOK(j, s.durable)
      BY <2>2, <2>3, <2>5 DEF RequestOK
    <3>2. QED
      BY <1>1, <2>1, <3>1 DEF Recorded, RecordedIn
  <2>8. CallsAgree'
    BY <1>2, <2>1, <2>3, <2>4 DEF CallsAgree
  <2>9. Released'
    <3>1. \A x \in Requests: OnItsWay(x) => OnItsWay(x)'
      BY <1>3, <2>1 DEF OnItsWay
    <3>2. OnItsWay(r)'
      BY <2>1 DEF OnItsWay
    <3>3. QED
      BY <1>1, <1>6, <2>1, <2>3, <3>1, <3>2 DEF Released
  <2>10. QED
    BY <1>1, <2>6, <2>7, <2>8, <2>9
<1>7. QED
  BY <1>5, <1>6

LEMMA AnswerAgainStep ==
  ASSUME IInv, NEW c \in Callers, NEW r \in Requests, NEW a \in Answers,
         AnswerAgain(c, r, a)
  PROVE  IInv'
<1> USE DEF IInv, TypeOK
<1> DEFINE call == [pc |-> "commit", req |-> r, answer |-> a, first |-> FALSE]
<1>1. /\ UNCHANGED <<s, ask, stop, begun>> /\ ask[r].answer = a
      /\ caller' = [caller EXCEPT ![c] = call]
  BY DEF AnswerAgain
<1>2. caller[c].pc \in {"none", "evaluate"}
  BY DEF AnswerAgain, Calls
<1>3. call \in Call
  BY Zenon DEF Call
<1>4. TypeOK' /\ Recorded'
  BY <1>1, <1>3 DEF Recorded, RecordedIn
<1>5. CallsAgree'
  BY <1>1 DEF CallsAgree
<1>6. Released'
  <2>1. \A x \in Requests: OnItsWay(x) => OnItsWay(x)'
    BY <1>1, <1>2 DEF OnItsWay
  <2>2. QED
    BY <1>1, <2>1 DEF Released
<1>7. QED
  BY <1>1, <1>4, <1>5, <1>6

LEMMA AnswerReturnsStep ==
  ASSUME IInv, NEW c \in Callers, AnswerReturns(c) PROVE IInv'
<1> USE DEF IInv, TypeOK
<1> DEFINE r == caller[c].req
           stored == s.durable >= ask[r].seq
           pc == IF stored THEN "ok" ELSE "err"
           j == [ask[r] EXCEPT !.value = caller[c].answer]
<1>1. /\ r \in Requests /\ caller[c].answer \in Answers
      /\ caller[c].answer = ask[r].answer /\ caller[c].pc = "commit"
  BY DEF AnswerReturns, CallsAgree
<1>2. /\ UNCHANGED <<s, stop, begun>> /\ (stored \/ s.persist)
      /\ caller' = [caller EXCEPT ![c].pc = pc]
      /\ ask' = IF stored /\ caller[c].first THEN [ask EXCEPT ![r] = j] ELSE ask
  BY DEF AnswerReturns
<1>3. ask[r] \in Input /\ RequestOK(ask[r], s.durable)
  BY <1>1 DEF Recorded, RecordedIn
<1>4. /\ j \in Input /\ j.pc = ask[r].pc /\ j.active = ask[r].active
      /\ j.status = ask[r].status /\ j.turn = ask[r].turn /\ j.answer = ask[r].answer
      /\ j.value = caller[c].answer /\ j.waits = ask[r].waits /\ j.done = ask[r].done
      /\ j.resolved = ask[r].resolved /\ j.got = ask[r].got /\ j.seq = ask[r].seq
  BY <1>1, <1>3, Zenon DEF Input
<1>5. caller' \in [Callers -> Call]
  <2>1. [caller[c] EXCEPT !.pc = pc] \in Call
    BY DEF Call
  <2>2. QED
    BY <1>2, <2>1
<1>6. \A x \in Requests: ask'[x].answer = ask[x].answer
  BY <1>2, <1>4
<1> HIDE DEF j
<1>7. TypeOK'
  BY <1>1, <1>2, <1>4, <1>5
<1>8. Recorded'
  <2>1. stored => RequestOK(j, s.durable)
    BY <1>1, <1>3, <1>4, ApprovalsAssumption DEF RequestOK
  <2>2. QED
    BY <1>2, <2>1 DEF Recorded, RecordedIn
<1>9. CallsAgree'
  <2> SUFFICES ASSUME NEW x \in Callers, caller'[x].pc \in {"commit", "ok"}
               PROVE  /\ caller'[x].req \in Requests
                      /\ caller'[x].answer \in Answers
                      /\ caller'[x].answer = ask'[caller'[x].req].answer
    BY DEF CallsAgree
  <2>1. caller'[x].req = caller[x].req /\ caller'[x].answer = caller[x].answer
    BY <1>2 DEF Call
  <2>2. caller[x].pc \in {"commit", "ok"}
    BY <1>1, <1>2
  <2>3. QED
    BY <1>6, <2>1, <2>2 DEF CallsAgree
<1>10. Released'
  <2>1. CASE s.failed
    <3>1. \A x \in Requests: ask'[x].pc = ask[x].pc /\ ask'[x].done = ask[x].done
      BY <1>2, <1>4
    <3>2. QED
      BY <1>2, <2>1, <3>1 DEF Released
  <2>2. CASE ~s.failed /\ caller[c].first
    <3>1. ask' = [ask EXCEPT ![r] = j]
      BY <1>2, <2>2
    <3>2. \A x \in Requests: x # r /\ OnItsWay(x) => OnItsWay(x)'
      BY <1>2 DEF OnItsWay
    <3>3. QED
      BY <1>1, <1>2, <1>4, <3>1, <3>2 DEF Released
  <2>3. CASE ~caller[c].first
    <3>1. \A x \in Requests: OnItsWay(x) => OnItsWay(x)'
      BY <1>2, <2>3 DEF OnItsWay
    <3>2. QED
      BY <1>2, <2>3, <3>1 DEF Released
  <2>4. QED
    BY <2>1, <2>2, <2>3
<1>11. QED
  BY <1>2, <1>7, <1>8, <1>9, <1>10

-----------------------------------------------------------------------------
(* The theorems                                                            *)

LEMMA InitIInv == Init => IInv
<1> SUFFICES ASSUME Init PROVE IInv
  OBVIOUS
<1>1. NoInput \in Input /\ NoCall \in Call
  BY Zenon DEF NoInput, Input, NoCall, Call, NoTurn
<1>2. TypeOK
  <2>1. s \in Session
    BY Zenon DEF Init, Session, States, NoTurn
  <2>2. QED
    BY <1>1, <2>1 DEF Init, TypeOK, NoTurn
<1>3. RequestOK(NoInput, 0)
  BY ApprovalsAssumption DEF RequestOK, NoInput
<1>4. Recorded
  BY <1>3 DEF Init, Recorded, RecordedIn
<1>5. CallsAgree /\ Released /\ (s.persist => s.failed)
  BY DEF Init, CallsAgree, Released, NoInput, NoCall
<1>6. QED
  BY <1>2, <1>4, <1>5 DEF IInv

LEMMA NextIInv == IInv /\ [Next]_vars => IInv'
<1> SUFFICES ASSUME IInv, [Next]_vars PROVE IInv'
  OBVIOUS
<1>1. ASSUME NEW r \in Requests, Ask(r) \/ Withdraw(r) \/ AskRuns(r) PROVE IInv'
  BY <1>1, AskStep, WithdrawStep, AskSelectsStep, AskResolvesStep, AskReturnsStep
  DEF AskRuns
<1>2. ASSUME NEW c \in Callers, NEW r \in Requests, Evaluate(c, r) PROVE IInv'
  BY <1>2, EvaluateStep
<1>3. ASSUME NEW c \in Callers, NEW r \in Requests, NEW a \in Answers,
             AnswerTakes(c, r, a) \/ AnswerAgain(c, r, a)
      PROVE  IInv'
  BY <1>3, AnswerTakesStep, AnswerAgainStep
<1>4. ASSUME NEW c \in Callers, AnswerReturns(c) PROVE IInv'
  BY <1>4, AnswerReturnsStep
<1>5. CASE StartTurn \/ TurnEnds \/ Stop \/ CloseSession \/ Resume
  BY <1>5, StartTurnStep, TurnEndsStep, StopStep, CloseSessionStep, ResumeStep
<1>6. ASSUME NEW b \in BOOLEAN, TurnReturns(b) \/ StopReturns(b) PROVE IInv'
  BY <1>6, TurnReturnsStep, StopReturnsStep
<1>7. CASE Commit \/ CommitFails
  BY <1>7, CommitStep, CommitFailsStep
<1>8. CASE UNCHANGED vars
  BY <1>8 DEF vars, IInv, TypeOK, Recorded, RecordedIn, CallsAgree, Released, OnItsWay
<1>9. QED
  BY <1>1, <1>2, <1>3, <1>4, <1>5, <1>6, <1>7, <1>8 DEF Next

\* The inductive invariant holds in every reachable state.
LEMMA InvariantHolds == Spec => []IInv
  BY InitIInv, NextIInv, PTL DEF Spec

\* Answer and askRuntime, for any number of requests, operators and evaluators:
\* the answer a native client was granted, and the answer that anyone was told
\* was taken, is the one whose receipt is stored.
THEOREM AnswerCorrect == Spec => []OneRecordedAnswer
<1>1. IInv => OneRecordedAnswer
  <2> SUFFICES ASSUME IInv PROVE GrantIsRecorded /\ AnswerStands
    BY DEF OneRecordedAnswer
  <2>1. GrantIsRecorded
    BY DEF IInv, Recorded, RecordedIn, RequestOK, GrantIsRecorded
  <2>2. AnswerStands
    BY DEF IInv, CallsAgree, AnswerStands
  <2>3. QED
    BY <2>1, <2>2
<1>2. QED
  BY <1>1, InvariantHolds, PTL

\* Whatever ends a turn or stops the journal releases every goroutine that waits
\* in askRuntime, for any number of them.
THEOREM ReleaseCorrect == Spec => []InputsReleased
<1>1. IInv => InputsReleased
  BY DEF IInv, Released, InputsReleased, OnItsWay
<1>2. QED
  BY <1>1, InvariantHolds, PTL

\* What every step but its own select leaves of a request that was asked.
GoesOn(i, j) ==
    /\ j.pc # "none" /\ (j.pc = "wait" => i.pc = "wait")
    /\ j.status = i.status /\ j.turn = i.turn
    /\ i.done => j.done

\* Only the select of askRuntime marks a request as answered, and no step takes
\* the end of its context back.
LEMMA RequestGoesOn ==
  ASSUME IInv, [Next]_vars, NEW r \in Requests, ask[r].pc # "none", ~AskSelects(r)
  PROVE  GoesOn(ask[r], ask'[r])
<1> DEFINE Goal == GoesOn(ask[r], ask'[r])
<1>1. ask \in [Requests -> Input] /\ ask[r] \in Input /\ GoesOn(ask[r], ask[r])
  BY DEF IInv, TypeOK, GoesOn
<1>2. Same(ask, ask') => Goal
  BY DEF Same, SameInput, GoesOn
<1>3. ASSUME NEW x \in Requests, Ask(x) PROVE Goal
  <2>1. CASE s'.failed
    BY <1>1, <1>2, <1>3, <2>1, IfStoppedFacts DEF Ask
  <2>2. CASE ~s'.failed
    BY <1>1, <1>3, <2>2 DEF Ask
  <2>3. QED
    BY <2>1, <2>2
<1>4. ASSUME NEW x \in Requests, Withdraw(x) \/ AskSelects(x) \/ AskReturns(x) PROVE Goal
  <2>1. CASE x # r
    <3>1. ask'[r] = ask[r]
      BY <1>1, <1>4, <2>1 DEF Withdraw, AskSelects, AskReturns
    <3>2. QED
      BY <1>1, <3>1
  <2>2. CASE x = r /\ Withdraw(r)
    <3>1. ask'[r] = [ask[r] EXCEPT !.done = TRUE]
      BY <1>1, <2>2 DEF Withdraw
    <3>2. QED
      BY <1>1, <3>1, DoneFacts DEF SameInput, GoesOn
  <2>3. CASE x = r /\ AskReturns(r)
    <3>1. PICK got: ask'[r] = [ask[r] EXCEPT !.pc = "done", !.got = got]
      BY <1>1, <2>3 DEF AskReturns
    <3>2. /\ ask'[r].pc = "done" /\ ask'[r].status = ask[r].status
          /\ ask'[r].turn = ask[r].turn /\ ask'[r].done = ask[r].done
      BY <1>1, <3>1 DEF Input
    <3>3. QED
      BY <3>2 DEF GoesOn
  <2>4. QED
    BY <1>4, <2>1, <2>2, <2>3
<1>5. ASSUME NEW x \in Requests, AskResolves(x) PROVE Goal
  <2> DEFINE c == Appended(s)
             resolved == IF c.failed THEN 0 ELSE c.seq
             j == [ask[x] EXCEPT !.active = FALSE, !.pc = "commit",
                                 !.waits = c.seq, !.resolved = resolved]
             t == [ask EXCEPT ![x] = j]
  <2>1. c.seq \in Nat /\ resolved \in Nat
    BY AppendedFacts DEF IInv, TypeOK, Session
  <2>2. ask' = Release(s', IfStopped(s', t))
    BY <1>5, Zenon DEF AskResolves
  <2> HIDE DEF c, resolved
  <2>3. /\ j \in Input /\ j.status = ask[x].status /\ j.pc = "commit"
        /\ j.turn = ask[x].turn /\ j.done = ask[x].done
    BY <1>1, <2>1, Zenon DEF Input
  <2> HIDE DEF j
  <2>4. t \in [Requests -> Input] /\ GoesOn(ask[r], t[r])
    BY <1>1, <2>3 DEF GoesOn
  <2> HIDE DEF t
  <2>5. Same(t, IfStopped(s', t)) /\ Same(IfStopped(s', t), ask')
    BY <2>2, <2>4, IfStoppedFacts, ReleaseFacts DEF Same
  <2>6. Same(t, ask')
    BY <2>5, SameTrans
  <2>7. QED
    BY <2>4, <2>6 DEF Same, SameInput, GoesOn
<1>6. ASSUME NEW c \in Callers, NEW x \in Requests, NEW a \in Answers,
             AnswerTakes(c, x, a) \/ AnswerAgain(c, x, a)
      PROVE  Goal
  <2>1. CASE AnswerTakes(c, x, a) /\ s'.failed
    BY <1>1, <1>2, <2>1, IfStoppedFacts DEF AnswerTakes
  <2>2. CASE AnswerTakes(c, x, a) /\ ~s'.failed
    BY <1>1, <2>2 DEF AnswerTakes, Input, GoesOn
  <2>3. CASE AnswerAgain(c, x, a)
    BY <1>1, <2>3 DEF AnswerAgain
  <2>4. QED
    BY <1>6, <2>1, <2>2, <2>3
<1>7. ASSUME NEW c \in Callers, AnswerReturns(c) PROVE Goal
  <2>1. \/ ask' = ask
        \/ ask' = [ask EXCEPT ![caller[c].req] =
                             [ask[caller[c].req] EXCEPT !.value = caller[c].answer]]
    BY <1>7 DEF AnswerReturns
  <2>2. GoesOn(ask[r], [ask[r] EXCEPT !.value = caller[c].answer])
    <3> DEFINE j == [ask[r] EXCEPT !.value = caller[c].answer]
    <3>1. /\ j.status = ask[r].status /\ j.pc = ask[r].pc
          /\ j.turn = ask[r].turn /\ j.done = ask[r].done
      BY <1>1, Zenon DEF Input
    <3>2. QED
      BY <3>1, Zenon DEF GoesOn
  <2>3. ask'[r] = ask[r] \/ ask'[r] = [ask[r] EXCEPT !.value = caller[c].answer]
    BY <1>1, <2>1
  <2>4. QED
    BY <1>1, <2>2, <2>3
<1>8. CASE StartTurn \/ Resume
  BY <1>1, <1>2, <1>8, IfStoppedFacts DEF StartTurn, Resume
<1>9. CASE TurnEnds \/ CommitFails
  BY <1>1, <1>2, <1>9, CancelledFacts DEF TurnEnds, CommitFails
<1>10. ASSUME NEW b \in BOOLEAN, StopReturns(b) PROVE Goal
  BY <1>1, <1>2, <1>10, CancelledFacts DEF StopReturns
<1>11. ASSUME ask' = Release(s', Cancelled(ask)) PROVE Goal
  BY <1>1, <1>2, <1>11, CancelledFacts, ReleaseFacts, SameTrans DEF Same
<1>12. CloseSession \/ (\E b \in BOOLEAN: TurnReturns(b)) => Goal
  BY <1>11, Zenon DEF CloseSession, TurnReturns
<1>13. CASE Stop \/ Commit \/ (\E c \in Callers, x \in Requests: Evaluate(c, x)) \/ UNCHANGED vars
  BY <1>1, <1>13 DEF Stop, Commit, Evaluate, vars
<1>14. QED
  BY <1>3, <1>4, <1>5, <1>6, <1>7, <1>8, <1>9, <1>10, <1>12, <1>13 DEF Next, AskRuns

\* A step notes as late no request but one that waited while its turn went on
\* before the step and not after it.
LEMMA LateFacts ==
  ASSUME IInv, [Next]_vars, NEW r \in late', r \notin late
  PROVE  /\ r \in Requests /\ ask[r].pc = "wait"
         /\ Goes(s, ask[r].turn) /\ ~Goes(s', ask[r].turn)
<1>1. late' = late \/ NoteLate
  BY DEF Next, vars, AskRuns, Ask, Withdraw, AskSelects, AskResolves, AskReturns,
         Evaluate, AnswerTakes, AnswerAgain, AnswerReturns, StartTurn, TurnEnds, Stop,
         CloseSession, Resume, TurnReturns, StopReturns, Commit, CommitFails
<1>2. QED
  BY <1>1 DEF NoteLate

\* A late request was not answered, and its context has ended.
LateOK == \A r \in late: /\ r \in Requests
                         /\ ask[r].pc # "none" /\ ask[r].status # "answered"
                         /\ ask[r].pc = "wait" => ask[r].done

\* The step in which a turn is over ends the context of each request that goes
\* on waiting (the part Released of the invariant), and a select that finds the
\* context ended takes no answer.
LEMMA NextLateOK == IInv /\ LateOK /\ [Next]_vars => LateOK'
<1> SUFFICES ASSUME IInv, LateOK, [Next]_vars, NEW r \in late'
             PROVE  /\ r \in Requests /\ ask'[r].pc # "none"
                    /\ ask'[r].status # "answered"
                    /\ ask'[r].pc = "wait" => ask'[r].done
  BY DEF LateOK
<1>1. IInv'
  BY NextIInv
<1>2. r \in Requests /\ ask[r].pc # "none" /\ ask[r] \in Input /\ ask[r].status # "answered"
  <2>1. CASE r \in late
    BY <2>1 DEF LateOK, IInv, TypeOK
  <2>2. CASE r \notin late
    BY <2>2, LateFacts DEF IInv, TypeOK, Recorded, RecordedIn, RequestOK
  <2>3. QED
    BY <2>1, <2>2
<1>3. CASE AskSelects(r)
  <2>1. r \in late /\ ask[r].pc = "wait"
    BY <1>3, LateFacts DEF AskSelects
  <2>2. ask[r].done
    BY <2>1 DEF LateOK
  <2>3. ask'[r] = [ask[r] EXCEPT !.pc = "resolve", !.status = "expired"]
    BY <1>2, <1>3, <2>2 DEF AskSelects, IInv, TypeOK
  <2>4. QED
    BY <1>2, <2>3 DEF Input
<1>4. CASE ~AskSelects(r)
  <2>1. GoesOn(ask[r], ask'[r])
    BY <1>2, <1>4, RequestGoesOn
  <2>2. CASE r \in late
    BY <1>2, <2>1, <2>2 DEF GoesOn, LateOK
  <2>3. CASE r \notin late
    <3>1. ~Goes(s', ask'[r].turn)
      BY <2>1, <2>3, LateFacts DEF GoesOn
    <3>2. ask'[r].pc = "wait" => ask'[r].done
      BY <1>1, <1>2, <3>1 DEF IInv, Released, Goes
    <3>3. QED
      BY <1>2, <2>1, <3>2 DEF GoesOn
  <2>4. QED
    BY <2>2, <2>3
<1>5. QED
  BY <1>3, <1>4

\* An answer that a turn had not got when it was over never reaches the client:
\* for any number of requests, operators and evaluators, a request that still
\* waited when its turn ended, was stopped or closed or lost its journal is not
\* granted, however late its goroutine and the calls of Answer go on.
THEOREM GrantCorrect == Spec => []NoLateGrant
<1>1. Init => LateOK
  BY DEF Init, LateOK
<1>2. IInv /\ LateOK => NoLateGrant
  BY DEF IInv, LateOK, NoLateGrant, Recorded, RecordedIn, RequestOK
<1>3. QED
  BY <1>1, <1>2, InvariantHolds, NextLateOK, PTL DEF Spec

=============================================================================
