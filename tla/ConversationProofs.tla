------------------------- MODULE ConversationProofs -------------------------
(***************************************************************************)
(* Proofs about the Conversation module, for every number of turns,        *)
(* workers, events and restarts: no prompt is sent twice, a Stop holds the *)
(* queue, one prompt and one native client run at a time, and a queued     *)
(* prompt that was acknowledged is not lost.                               *)
(***************************************************************************)
EXTENDS Conversation, FiniteSetTheorems, WellFoundedInduction, TLAPS

(* A conversation and an uncommitted event have these fields.              *)
Fields == {"state", "runtime", "driver", "current", "stopped", "ended", "last",
           "items", "paused", "queued", "submitted", "turns", "opening", "closing",
           "closes", "archived", "failed", "persist", "stopClose", "seq", "pend"}

Shape(c) == c = [f \in Fields |-> c[f]]

EventOK(e) ==
    /\ e = [record |-> e.record, prompt |-> e.prompt, ack |-> e.ack]
    /\ e.record.runtime \in Runtimes

Events(q) == {q[i] : i \in 1..Len(q)}

PendOK(q) == q \in Seq(Events(q)) /\ \A e \in Events(q) : EventOK(e)

(* The turns whose user message is not committed yet.                      *)
Waiting(c) == {e.prompt : e \in Events(c.pend)}

Session(c) ==
    /\ Shape(c) /\ PendOK(c.pend)
    /\ c.runtime \in Runtimes
    /\ c.driver \in Runtimes \cup {None} /\ c.closes \in Runtimes \cup {None}
    /\ c.persist => c.failed

Workers == [pc : {"none", "commit", "native", "close", "drain"},
            driver : Runtimes \cup {None}]

TypeOK ==
    /\ Session(s)
    /\ work \in [Turns -> Workers]
    /\ connecting \in [Runtimes -> {"none", "commit", "start", "prepare", "cut",
                                    "open", "close"}]
    /\ alive \subseteq Runtimes
    /\ disk.runtime \in Runtimes
    /\ sent \in [Turns -> Nat]

(* A worker that has not come back from its client is the current turn's.  *)
Working == \A t \in Turns : work[t].pc \in {"commit", "native"} => s.current = t

(* A worker waits for a message that is stored or still to be committed;   *)
(* one of a turn that was sent before waits for a message that storage     *)
(* will refuse.                                                            *)
Refused ==
    \A t \in Turns : work[t].pc = "commit" =>
        /\ t \in prompts \/ t \in Waiting(s)
        /\ sent[t] > 0 => t \in Waiting(s)

(* A held queue is paused, or will be when the turn that was stopped ends. *)
Holding(c) == c.failed \/ c.paused \/ (c.current # NoTurn /\ c.stopped = c.current)
Held == hold => Holding(s)

(* The clients that run are the published one and the one being closed;    *)
(* there are not both.                                                     *)
Published ==
    /\ \A a \in alive : a = s.driver \/ a = s.closes
    /\ s.closing => s.driver = None
    /\ ~s.closing => s.closes = None

(* Only the connection of the current runtime goes on, and while it does   *)
(* no turn runs.                                                           *)
Connecting ==
    \A r \in Runtimes :
        /\ connecting[r] \in {"prepare", "cut", "open"} => s.opening = r /\ s.runtime = r
        /\ connecting[r] \in {"prepare", "cut"} => s.driver = None
        /\ connecting[r] \in {"commit", "start", "prepare", "cut", "open"} /\ s.runtime = r
           => /\ s.current = NoTurn
              /\ s.state \in {"starting", "closed"}
              /\ s.closing => s.state = "closed"

Clients == ~s.failed => Published /\ Connecting

IInv == TypeOK /\ Working /\ SentOnce /\ Refused /\ Held /\ Clients

---------------------------------------------------------------------------
(* Uncommitted events *)

LEMMA NoneNotRuntime == None \notin Runtimes
  BY ConversationAssumption DEF None, Runtimes

LEMMA EventsAppended ==
  ASSUME NEW q, PendOK(q), NEW e, EventOK(e)
  PROVE  /\ PendOK(Append(q, e))
         /\ \A x \in Events(q) : x \in Events(Append(q, e))
         /\ e \in Events(Append(q, e))
<1> DEFINE S == Events(q) \cup {e}
           p == Append(q, e)
<1>1. q \in Seq(S)
  <2>1. q \in Seq(Events(q))
    BY DEF PendOK
  <2>2. Events(q) \subseteq S
    OBVIOUS
  <2> HIDE DEF S
  <2>3. QED
    BY <2>1, <2>2
<1>2. e \in S
  OBVIOUS
<1>3. /\ p \in Seq(S) /\ Len(p) = Len(q) + 1 /\ Len(q) \in Nat
      /\ \A i \in 1..Len(q) : p[i] = q[i]
      /\ p[Len(q) + 1] = e
  <2> HIDE DEF S
  <2>1. QED
    BY <1>1, <1>2
<1> HIDE DEF p
<1>4. Events(p) = S
  <2>1. \A x \in Events(p) : x \in S
    <3> SUFFICES ASSUME NEW i \in 1..Len(p) PROVE p[i] \in S
      BY DEF Events
    <3>1. CASE i = Len(q) + 1
      BY <1>3, <1>2, <3>1
    <3>2. CASE i # Len(q) + 1
      <4>1. i \in 1..Len(q) /\ p[i] = q[i]
        BY <1>3, <3>2
      <4>2. QED
        BY <4>1 DEF Events
    <3>3. QED
      BY <3>1, <3>2
  <2>2. \A x \in Events(q) : x \in Events(p)
    <3> SUFFICES ASSUME NEW i \in 1..Len(q) PROVE q[i] \in Events(p)
      BY DEF Events
    <3>1. i \in 1..Len(p) /\ p[i] = q[i]
      BY <1>3
    <3>2. QED
      BY <3>1 DEF Events
  <2>3. e \in Events(p)
    <3>1. Len(q) + 1 \in 1..Len(p)
      BY <1>3
    <3>2. QED
      BY <3>1, <1>3 DEF Events
  <2>4. QED
    BY <2>1, <2>2, <2>3
<1>5. PendOK(p)
  <2>1. p \in Seq(Events(p))
    BY <1>3, <1>4
  <2>2. QED
    BY <1>4, <2>1 DEF PendOK
<1>6. QED
  BY <1>4, <1>5 DEF p

LEMMA NoEvents == PendOK(<<>>) /\ Events(<<>>) = {}
<1>1. Events(<<>>) = {}
  BY DEF Events
<1>2. QED
  BY <1>1 DEF PendOK

---------------------------------------------------------------------------
(* What an append changes *)

(* The fields the proofs are about; only an append changes them.           *)
Alike(c, d) ==
    /\ d.driver = c.driver /\ d.closing = c.closing /\ d.closes = c.closes
    /\ d.opening = c.opening /\ d.persist = c.persist /\ d.stopped = c.stopped
    /\ d.current = c.current /\ d.items = c.items /\ d.paused = c.paused
    /\ d.runtime = c.runtime

(* A conversation that no event can be appended to any more.               *)
LEMMA SessionFails ==
  ASSUME NEW c, Session(c)
  PROVE  /\ Session(Stopped(c)) /\ Stopped(c).failed
         /\ Alike(c, Stopped(c)) /\ Stopped(c).pend = c.pend
<1> DEFINE d == Stopped(c)
<1>1. Shape(d)
  BY Zenon DEF Session, Shape, Stopped
<1>2. d.failed = TRUE /\ Alike(c, d) /\ d.pend = c.pend
  BY DEF Session, Shape, Stopped, Fields, Alike
<1> HIDE DEF d
<1>3. Session(d)
  BY <1>1, <1>2 DEF Session, Alike
<1>4. QED
  BY <1>2, <1>3 DEF d

LEMMA SessionAppends ==
  ASSUME NEW c, Session(c), NEW a, Session(a), a.pend = c.pend, ~c.failed, ~a.failed,
         NEW prompt, NEW ack, NEW reserved
  PROVE  LET d == Appended(c, a, prompt, ack, reserved)
         IN \/ d = Stopped(c)
            \/ /\ Session(d) /\ ~d.failed /\ Alike(a, d) /\ d.state = a.state
               /\ Waiting(c) \subseteq Waiting(d) /\ prompt \in Waiting(d)
<1> DEFINE n == [a EXCEPT !.seq = @ + 1]
           e == [record |-> RecordOf(n), prompt |-> prompt, ack |-> ack]
           d == [n EXCEPT !.pend = Append(@, e)]
<1>1. Shape(n)
  BY Zenon DEF Session, Shape
<1>2. /\ Alike(a, n) /\ n.failed = a.failed /\ n.state = a.state /\ n.pend = a.pend
  BY DEF Session, Shape, Fields, Alike
<1> HIDE DEF n
<1>3. RecordOf(n).runtime = n.runtime
  BY DEF RecordOf
<1>4. EventOK(e) /\ e.prompt = prompt
  BY <1>2, <1>3 DEF EventOK, Session, Alike
<1> HIDE DEF e
<1>5. Shape(d)
  BY <1>1, Zenon DEF Shape
<1>6. Alike(n, d) /\ d.failed = n.failed /\ d.state = n.state /\ d.pend = Append(c.pend, e)
  BY <1>1, <1>2 DEF Shape, Fields, Alike
<1> HIDE DEF d
<1>7. /\ PendOK(d.pend) /\ e \in Events(d.pend)
      /\ \A x \in Events(c.pend) : x \in Events(d.pend)
  BY <1>4, <1>6, EventsAppended DEF Session
<1>8. Session(d) /\ ~d.failed /\ Alike(a, d) /\ d.state = a.state
  BY <1>2, <1>5, <1>6, <1>7 DEF Session, Alike
<1>9. Waiting(c) \subseteq Waiting(d) /\ prompt \in Waiting(d)
  BY <1>4, <1>7 DEF Waiting
<1>10. Appended(c, a, prompt, ack, reserved) \in {Stopped(c), d}
  BY DEF Appended, d, e, n
<1>11. QED
  BY <1>8, <1>9, <1>10

(* Everything but the events and, when it fails, the state.                *)
Kept(c, d) ==
    /\ Session(d) /\ Waiting(c) \subseteq Waiting(d)
    /\ Alike(c, d)
    /\ c.failed => d.failed

LEMMA KeptFails ==
  ASSUME NEW c, Session(c) PROVE Kept(c, Stopped(c)) /\ Stopped(c).failed
  BY SessionFails DEF Kept, Waiting

LEMMA KeptSame ==
  ASSUME NEW c, Session(c) PROVE Kept(c, c)
  BY DEF Kept, Alike

LEMMA KeptTrans ==
  ASSUME NEW c, NEW d, NEW e, Kept(c, d), Kept(d, e)
  PROVE  Kept(c, e)
  BY DEF Kept, Alike

(* An event that only changes the state.                                   *)
LEMMA StateAppended ==
  ASSUME NEW c, Session(c), NEW state, NEW d, d = AppendState(c, state)
  PROVE  Kept(c, d) /\ (d.failed \/ d.state = state) /\ (c.failed => d = c)
<1> DEFINE a == [c EXCEPT !.state = state]
<1>1. Shape(a)
  BY Zenon DEF Session, Shape
<1>2. Alike(c, a) /\ a.failed = c.failed /\ a.state = state /\ a.pend = c.pend
  BY DEF Session, Shape, Fields, Alike
<1> HIDE DEF a
<1>3. Session(a)
  BY <1>1, <1>2 DEF Session, Alike
<1>4. d = Appended(c, a, NoTurn, NoTurn, 0)
  BY DEF AppendState, a
<1>5. CASE c.failed
  BY <1>4, <1>5, KeptSame DEF Appended
<1>6. CASE ~c.failed
  <2>1. CASE d = Stopped(c)
    BY <1>6, <2>1, KeptFails
  <2>2. CASE d # Stopped(c)
    BY <1>2, <1>3, <1>4, <1>6, <2>2, SessionAppends DEF Kept, Alike
  <2>3. QED
    BY <2>1, <2>2
<1>7. QED
  BY <1>5, <1>6

(* The end of a turn, and a notice.                                        *)
LEMMA TurnEndAppended ==
  ASSUME NEW c, Session(c), NEW status, NEW d, d = AppendTurnEnd(c, status)
  PROVE  Kept(c, d) /\ (d.failed \/ d.state = c.state)
<1> DEFINE a == [c EXCEPT !.last = status]
<1>1. Shape(a)
  BY Zenon DEF Session, Shape
<1>2. Alike(c, a) /\ a.failed = c.failed /\ a.state = c.state /\ a.pend = c.pend
  BY DEF Session, Shape, Fields, Alike
<1> HIDE DEF a
<1>3. Session(a)
  BY <1>1, <1>2 DEF Session, Alike
<1>4. d = Appended(c, a, NoTurn, NoTurn, 0)
  BY DEF AppendTurnEnd, a
<1>5. CASE c.failed
  BY <1>4, <1>5, KeptSame DEF Appended
<1>6. CASE ~c.failed
  <2>1. CASE d = Stopped(c)
    BY <1>6, <2>1, KeptFails
  <2>2. CASE d # Stopped(c)
    BY <1>2, <1>3, <1>4, <1>6, <2>2, SessionAppends DEF Kept, Alike
  <2>3. QED
    BY <2>1, <2>2
<1>7. QED
  BY <1>5, <1>6

LEMMA NoticeAppended ==
  ASSUME NEW c, Session(c), NEW d, d = AppendNotice(c)
  PROVE  Kept(c, d) /\ (d.failed \/ d.state = c.state)
<1>1. d = Appended(c, c, NoTurn, NoTurn, 0)
  BY DEF AppendNotice
<1>2. CASE c.failed
  BY <1>1, <1>2, KeptSame DEF Appended
<1>3. CASE ~c.failed
  <2>1. CASE d = Stopped(c)
    BY <1>3, <2>1, KeptFails
  <2>2. CASE d # Stopped(c)
    BY <1>1, <1>3, <2>2, SessionAppends DEF Kept, Alike
  <2>3. QED
    BY <2>1, <2>2
<1>4. QED
  BY <1>2, <1>3

(* Everything but the events, the queue and the state.                     *)
Near(c, d) ==
    /\ d.driver = c.driver /\ d.closing = c.closing /\ d.closes = c.closes
    /\ d.opening = c.opening /\ d.persist = c.persist /\ d.stopped = c.stopped
    /\ d.runtime = c.runtime

Follows(c, d) ==
    /\ Session(d) /\ Waiting(c) \subseteq Waiting(d)
    /\ Near(c, d)
    /\ c.failed => d.failed

LEMMA KeptFollows ==
  ASSUME NEW c, NEW d, Kept(c, d) PROVE Follows(c, d)
  BY DEF Kept, Alike, Follows, Near

LEMMA FollowsTrans ==
  ASSUME NEW c, NEW d, NEW e, Follows(c, d), Follows(d, e)
  PROVE  Follows(c, e)
  BY DEF Follows, Near

LEMMA QueueAppended ==
  ASSUME NEW c, Session(c), NEW items, NEW paused, NEW ack,
         NEW d, d = AppendQueue(c, items, paused, ack)
  PROVE  /\ Follows(c, d) /\ d.current = c.current
         /\ d.failed \/ (d.items = items /\ d.paused = paused /\ d.state = c.state)
<1> DEFINE a == [c EXCEPT !.items = items, !.paused = paused, !.queued = items,
                          !.submitted = {}]
<1>1. Shape(a)
  BY Zenon DEF Session, Shape
<1>2. /\ Near(c, a) /\ a.failed = c.failed /\ a.state = c.state /\ a.pend = c.pend
      /\ a.items = items /\ a.paused = paused /\ a.current = c.current
  BY DEF Session, Shape, Fields, Near
<1> HIDE DEF a
<1>3. Session(a)
  BY <1>1, <1>2 DEF Session, Near
<1>4. d = Appended(c, a, NoTurn, ack, 0)
  BY DEF AppendQueue, a
<1>5. CASE c.failed
  BY <1>4, <1>5 DEF Appended, Follows, Near
<1>6. CASE ~c.failed
  <2>1. CASE d = Stopped(c)
    BY <1>6, <2>1, KeptFails, KeptFollows DEF Kept, Alike
  <2>2. CASE d # Stopped(c)
    BY <1>2, <1>3, <1>4, <1>6, <2>2, SessionAppends DEF Follows, Near, Alike
  <2>3. QED
    BY <2>1, <2>2
<1>7. QED
  BY <1>5, <1>6

LEMMA UserAppended ==
  ASSUME NEW c, Session(c), ~c.failed, NEW t, NEW d, d = AppendUser(c, t)
  PROVE  /\ Follows(c, d) /\ d.current = c.current /\ d.paused = c.paused
         /\ d.failed \/ t \in Waiting(d)
<1> DEFINE a == [c EXCEPT !.items = Left(@, {t}),
                          !.submitted = @ \cup {q \in {t}: InQueue(c, t)}]
<1>1. Shape(a)
  BY Zenon DEF Session, Shape
<1>2. /\ Near(c, a) /\ a.failed = c.failed /\ a.pend = c.pend
      /\ a.paused = c.paused /\ a.current = c.current
  BY DEF Session, Shape, Fields, Near
<1> HIDE DEF a
<1>3. Session(a)
  BY <1>1, <1>2 DEF Session, Near
<1>4. d = Appended(c, a, t, NoTurn, 1)
  BY DEF AppendUser, a
<1>5. CASE d = Stopped(c)
  BY <1>5, KeptFails, KeptFollows DEF Kept, Alike
<1>6. CASE d # Stopped(c)
  BY <1>2, <1>3, <1>4, <1>6, SessionAppends DEF Follows, Near, Alike
<1>7. QED
  BY <1>5, <1>6

---------------------------------------------------------------------------
(* What operations are made of *)

LEMMA Paused ==
  ASSUME NEW c, Session(c), NEW d, d = Pause(c)
  PROVE  /\ Follows(c, d) /\ d.current = c.current
         /\ d.failed \/ d.state = c.state
         /\ d.failed \/ d.paused \/ c.items = <<>>
         /\ c.paused => d.paused \/ d.failed
<1>1. CASE c.items # <<>> /\ ~c.paused
  <2>1. PICK yes : yes = TRUE /\ d = AppendQueue(c, c.items, yes, NoTurn)
    BY <1>1, Zenon DEF Pause
  <2>2. d = AppendQueue(c, c.items, yes, NoTurn)
    BY <2>1
  <2>3. /\ Follows(c, d) /\ d.current = c.current
        /\ d.failed \/ (d.paused = yes /\ d.state = c.state)
    BY <2>2, QueueAppended
  <2>4. QED
    BY <1>1, <2>1, <2>3, Zenon
<1>2. CASE ~(c.items # <<>> /\ ~c.paused)
  <2>1. d = c
    BY <1>2 DEF Pause
  <2>2. QED
    BY <1>2, <2>1, KeptSame, KeptFollows
<1>3. QED
  BY <1>1, <1>2

LEMMA Released ==
  ASSUME NEW c, Session(c), NEW d, d = Release(c)
  PROVE  Kept(c, d) /\ d.state = c.state /\ d.failed = c.failed
<1> DEFINE a == [c EXCEPT !.turns = {}]
<1>1. Shape(a)
  BY Zenon DEF Session, Shape
<1>2. Alike(c, a) /\ a.failed = c.failed /\ a.state = c.state /\ a.pend = c.pend
  BY DEF Session, Shape, Fields, Alike
<1> HIDE DEF a
<1>3. Session(a)
  BY <1>1, <1>2 DEF Session, Alike
<1>4. Waiting(a) = Waiting(c)
  BY <1>2 DEF Waiting
<1>5. d \in {a, c}
  BY DEF Release, a
<1>6. Kept(c, a)
  BY <1>2, <1>3, <1>4 DEF Kept
<1>7. QED
  BY <1>2, <1>5, <1>6, KeptSame

(* A turn that starts is current, and its message waits to be committed.   *)
LEMMA PromptStarted ==
  ASSUME NEW c, Session(c), ~c.failed, NEW t, NEW d, d = StartPrompt(c, t)
  PROVE  /\ Follows(c, d) /\ d.paused = c.paused
         /\ (d.current = NoTurn /\ d.failed) \/ (d.current = t /\ t \in Waiting(d))
<1> DEFINE b == [c EXCEPT !.current = t, !.ended = FALSE, !.last = ""]
           u == AppendUser(b, t)
           v == [u EXCEPT !.current = NoTurn]
           w == [u EXCEPT !.turns = @ \cup {t}]
<1>1. Shape(b)
  BY Zenon DEF Session, Shape
<1>2. /\ Near(c, b) /\ b.failed = c.failed /\ b.pend = c.pend
      /\ b.paused = c.paused /\ b.current = t
  BY DEF Session, Shape, Fields, Near
<1>3. d = IF u.failed THEN v ELSE AppendState(w, "running")
  BY DEF StartPrompt
<1> HIDE DEF b
<1>4. Session(b) /\ Waiting(b) = Waiting(c) /\ ~b.failed
  BY <1>1, <1>2 DEF Session, Near, Waiting
<1>5. Follows(c, b)
  BY <1>2, <1>4 DEF Follows
<1>6. /\ Follows(b, u) /\ u.current = t /\ u.paused = c.paused
      /\ u.failed \/ t \in Waiting(u)
  BY <1>2, <1>4, UserAppended
<1> HIDE DEF u
<1>7. Session(u)
  BY <1>6 DEF Follows
<1>8. CASE u.failed
  <2>1. d = v
    BY <1>3, <1>8
  <2>2. Shape(v)
    BY <1>7, Zenon DEF Session, Shape
  <2>3. /\ Near(u, v) /\ v.failed = u.failed /\ v.pend = u.pend
        /\ v.paused = u.paused /\ v.current = NoTurn
    BY <1>7 DEF Session, Shape, Fields, Near
  <2> HIDE DEF v
  <2>4. Session(v) /\ Waiting(v) = Waiting(u)
    BY <1>7, <2>2, <2>3 DEF Session, Near, Waiting
  <2>5. Follows(u, v)
    BY <2>3, <2>4 DEF Follows
  <2>6. QED
    BY <1>5, <1>6, <1>8, <2>1, <2>3, <2>5, FollowsTrans
<1>9. CASE ~u.failed
  <2>1. d = AppendState(w, "running")
    BY <1>3, <1>9
  <2>2. Shape(w)
    BY <1>7, Zenon DEF Session, Shape
  <2>3. /\ Near(u, w) /\ w.failed = u.failed /\ w.pend = u.pend
        /\ w.paused = u.paused /\ w.current = t
    BY <1>6, <1>7 DEF Session, Shape, Fields, Near
  <2> HIDE DEF w
  <2>4. Session(w) /\ Waiting(w) = Waiting(u)
    BY <1>7, <2>2, <2>3 DEF Session, Near, Waiting
  <2>5. Follows(u, w)
    BY <2>3, <2>4 DEF Follows
  <2>6. Kept(w, d)
    BY <2>1, <2>4, StateAppended
  <2>7. Follows(c, d)
    BY <1>5, <1>6, <2>5, <2>6, KeptFollows, FollowsTrans
  <2>8. QED
    BY <1>6, <1>9, <2>3, <2>4, <2>6, <2>7 DEF Kept, Alike
<1>10. QED
  BY <1>8, <1>9

(* A drain starts a turn only of a ready conversation that runs none and   *)
(* whose queue is not paused.                                              *)
LEMMA Drained ==
  ASSUME NEW c, Session(c), NEW d, d = Drain(c)
  PROVE  /\ Follows(c, d)
         /\ \/ d = c
            \/ /\ c.current = NoTurn /\ c.state = "ready" /\ ~c.paused
               /\ d.current = NoTurn \/ d.current \in Waiting(d)
<1>1. CASE \/ c.paused \/ c.items = <<>> \/ c.current # NoTurn \/ c.state # "ready"
           \/ c.archived \/ c.driver = None
  <2>1. d = c
    BY <1>1 DEF Drain
  <2>2. QED
    BY <2>1, KeptSame, KeptFollows
<1>2. CASE ~(\/ c.paused \/ c.items = <<>> \/ c.current # NoTurn \/ c.state # "ready"
             \/ c.archived \/ c.driver = None)
  <2> DEFINE u == StartPrompt(c, Head(c.items))
  <2>1. d = IF u.current = NoTurn THEN Pause(u)
            ELSE AppendQueue(u, u.items, u.paused, NoTurn)
    BY <1>2 DEF Drain
  <2>2. Follows(c, u) /\ (u.current = NoTurn \/ u.current \in Waiting(u))
    <3>1. CASE c.failed
      <4>1. u = c
        BY <3>1 DEF StartPrompt
      <4>2. QED
        BY <1>2, <4>1, KeptSame, KeptFollows
    <3>2. CASE ~c.failed
      BY <3>2, PromptStarted
    <3>3. QED
      BY <3>1, <3>2
  <2> HIDE DEF u
  <2>3. Session(u)
    BY <2>2 DEF Follows
  <2>4. Follows(u, d) /\ d.current = u.current
    BY <2>1, <2>3, Paused, QueueAppended
  <2>5. Follows(c, d)
    BY <2>2, <2>4, FollowsTrans
  <2>6. d.current = NoTurn \/ d.current \in Waiting(d)
    BY <2>2, <2>4 DEF Follows
  <2>7. QED
    BY <1>2, <2>5, <2>6
<1>3. QED
  BY <1>1, <1>2

(* The end of a turn pauses the queue of a turn that was stopped.          *)
LEMMA TurnFinished ==
  ASSUME NEW c, Session(c), NEW t, NEW err, NEW d, d = FinishTurn(c, t, err)
  PROVE  /\ Session(d) /\ Waiting(c) \subseteq Waiting(d)
         /\ d.driver = c.driver /\ d.closing = c.closing /\ d.closes = c.closes
         /\ d.opening = c.opening /\ d.runtime = c.runtime /\ d.persist = c.persist
         /\ c.failed => d.failed
         /\ d.current = NoTurn
         /\ c.paused => d.failed \/ d.paused
         /\ c.stopped = t /\ c.items # <<>> => d.failed \/ d.paused
<1> DEFINE lost == err \/ ~c.ended
           u == IF c.ended THEN c ELSE AppendTurnEnd(c, "unknown")
           a == IF err THEN AppendNotice(u) ELSE u
           b == IF lost \/ a.last # "completed" \/ a.stopped = t THEN Pause(a) ELSE a
           g == [b EXCEPT !.current = NoTurn, !.stopped = NoTurn]
           e == IF g.state = "closed" THEN g
                ELSE AppendState(g, IF lost THEN "disconnected" ELSE "ready")
<1>1. d = Release(e)
  BY DEF FinishTurn
<1>2. Kept(c, u)
  BY KeptSame, TurnEndAppended
<1> HIDE DEF u
<1>3. Kept(u, a)
  BY <1>2, KeptSame, NoticeAppended DEF Kept
<1> HIDE DEF a
<1>4. Kept(c, a)
  BY <1>2, <1>3, KeptTrans
<1>5. Session(a)
  BY <1>4 DEF Kept
<1>6. /\ Follows(a, b) /\ (a.paused => b.paused \/ b.failed)
      /\ a.stopped = t /\ a.items # <<>> => b.failed \/ b.paused
  <2>1. CASE b = Pause(a)
    BY <1>5, <2>1, Paused
  <2>2. CASE b # Pause(a)
    <3>1. b = a /\ a.stopped # t
      BY <2>2
    <3>2. QED
      BY <1>5, <3>1, KeptSame, KeptFollows
  <2>3. QED
    BY <2>1, <2>2
<1> HIDE DEF b
<1>7. Session(b)
  BY <1>6 DEF Follows
<1>8. Shape(g)
  BY <1>7, Zenon DEF Session, Shape
<1>9. /\ g.driver = b.driver /\ g.closing = b.closing /\ g.closes = b.closes
      /\ g.opening = b.opening /\ g.runtime = b.runtime /\ g.persist = b.persist
      /\ g.failed = b.failed /\ g.paused = b.paused /\ g.pend = b.pend
      /\ g.current = NoTurn
  BY <1>7 DEF Session, Shape, Fields
<1> HIDE DEF g
<1>10. Session(g) /\ Waiting(g) = Waiting(b)
  BY <1>7, <1>8, <1>9 DEF Session, Waiting
<1>11. Kept(g, e)
  BY <1>10, KeptSame, StateAppended
<1> HIDE DEF e
<1>12. Session(e)
  BY <1>11 DEF Kept
<1>13. Kept(g, d)
  BY <1>1, <1>11, <1>12, Released, KeptTrans
<1>14. QED
  BY <1>4, <1>6, <1>9, <1>10, <1>13 DEF Kept, Follows, Near, Alike

(* The worker of a conversation that is retired is taken out first.        *)
LEMMA Retired ==
  ASSUME NEW c, Session(c), NEW d, d = Retire(c)
  PROVE  /\ Session(d) /\ Waiting(c) \subseteq Waiting(d)
         /\ d.driver = None /\ d.closing /\ d.closes = c.driver
         /\ d.opening = c.opening /\ d.runtime = c.runtime /\ d.persist = c.persist
         /\ d.current = c.current /\ d.stopped = c.stopped /\ d.paused = c.paused
         /\ d.items = c.items
         /\ c.failed => d.failed
         /\ d.failed \/ d.state = "closed"
<1> DEFINE b == [c EXCEPT !.closing = TRUE, !.closes = c.driver, !.driver = None]
<1>1. Shape(b)
  BY Zenon DEF Session, Shape
<1>2. /\ b.driver = None /\ b.closing /\ b.closes = c.driver
      /\ b.opening = c.opening /\ b.runtime = c.runtime /\ b.persist = c.persist
      /\ b.failed = c.failed /\ b.paused = c.paused /\ b.pend = c.pend
      /\ b.current = c.current /\ b.stopped = c.stopped /\ b.items = c.items
  BY DEF Session, Shape, Fields
<1>3. d = AppendState(b, "closed")
  BY DEF Retire
<1> HIDE DEF b
<1>4. Session(b) /\ Waiting(b) = Waiting(c)
  BY <1>1, <1>2 DEF Session, Waiting
<1>5. Kept(b, d) /\ (d.failed \/ d.state = "closed")
  BY <1>3, <1>4, StateAppended
<1>6. QED
  BY <1>2, <1>4, <1>5 DEF Kept, Alike

---------------------------------------------------------------------------
(* What a step must keep *)

ConnectStates == {"none", "commit", "start", "prepare", "cut", "open", "close"}

LEMMA TurnsKept ==
  ASSUME IInv, UNCHANGED <<prompts, sent>>, Waiting(s) \subseteq Waiting(s'),
         \A t \in Turns : work'[t].pc \in {"commit", "native"} => s'.current = t,
         \A t \in Turns : work'[t].pc = "commit" =>
                             work[t].pc = "commit" \/ t \in Waiting(s')
  PROVE  Working' /\ SentOnce' /\ Refused'
<1>1. Working'
  BY DEF Working
<1>2. SentOnce'
  BY DEF IInv, SentOnce
<1>3. Refused'
  <2> SUFFICES ASSUME NEW t \in Turns, work'[t].pc = "commit"
               PROVE  /\ t \in prompts' \/ t \in Waiting(s')
                      /\ sent'[t] > 0 => t \in Waiting(s')
    BY DEF Refused, Waiting
  <2>1. CASE t \in Waiting(s')
    BY <2>1
  <2>2. CASE t \notin Waiting(s')
    BY <2>2 DEF IInv, Refused
  <2>3. QED
    BY <2>1, <2>2
<1>4. QED
  BY <1>1, <1>2, <1>3

LEMMA ClientsKept ==
  ASSUME IInv, UNCHANGED connecting, alive' \subseteq alive, s.failed => s'.failed,
         ~s'.failed => /\ s'.driver = s.driver /\ s'.closing = s.closing
                       /\ s'.closes = s.closes /\ s'.opening = s.opening
                       /\ s'.runtime = s.runtime
                       /\ \/ s'.current = s.current /\ s'.state = s.state
                          \/ s.current # NoTurn
                          \/ s.state \notin {"starting", "closed"}
  PROVE  Clients'
<1> SUFFICES ASSUME ~s'.failed PROVE Published' /\ Connecting'
  BY DEF Clients
<1>1. Published /\ Connecting
  BY DEF IInv, Clients
<1>2. Published'
  BY <1>1 DEF Published
<1>3. Connecting'
  BY <1>1 DEF Connecting
<1>4. QED
  BY <1>2, <1>3

(* A step of a turn, of the queue or of a Stop.                            *)
LEMMA Ordinary ==
  ASSUME IInv, UNCHANGED <<connecting, alive, disk, prompts, sent>>,
         Session(s'), Waiting(s) \subseteq Waiting(s'), s.failed => s'.failed,
         work' \in [Turns -> Workers],
         \A t \in Turns : work'[t].pc \in {"commit", "native"} => s'.current = t,
         \A t \in Turns : work'[t].pc = "commit" =>
                             work[t].pc = "commit" \/ t \in Waiting(s'),
         hold' => Holding(s'),
         ~s'.failed => /\ s'.driver = s.driver /\ s'.closing = s.closing
                       /\ s'.closes = s.closes /\ s'.opening = s.opening
                       /\ s'.runtime = s.runtime
                       /\ \/ s'.current = s.current /\ s'.state = s.state
                          \/ s.current # NoTurn
                          \/ s.state \notin {"starting", "closed"}
  PROVE  IInv'
<1>1. Working' /\ SentOnce' /\ Refused'
  BY TurnsKept
<1>2. Clients'
  BY ClientsKept
<1>3. TypeOK'
  BY DEF IInv, TypeOK, Session
<1>4. Held'
  BY DEF Held
<1>5. QED
  BY <1>1, <1>2, <1>3, <1>4 DEF IInv

(* A step of a connection or of a teardown.                                *)
LEMMA Quiet ==
  ASSUME IInv, UNCHANGED <<work, disk, prompts, sent, hold>>,
         Session(s'), Waiting(s) \subseteq Waiting(s'), s.failed => s'.failed,
         s'.current = s.current, s'.stopped = s.stopped, s'.paused = s.paused,
         connecting' \in [Runtimes -> ConnectStates], alive' \subseteq Runtimes,
         Clients'
  PROVE  IInv'
<1>1. Working' /\ SentOnce' /\ Refused'
  <2>1. \A t \in Turns : work'[t].pc \in {"commit", "native"} => s'.current = t
    BY DEF IInv, Working
  <2>2. QED
    BY <2>1, TurnsKept
<1>2. TypeOK'
  BY DEF IInv, TypeOK, ConnectStates
<1>3. Held'
  BY DEF IInv, Held, Holding
<1>4. QED
  BY <1>1, <1>2, <1>3 DEF IInv

LEMMA WorkLaunched ==
  ASSUME NEW others \in [Turns -> Workers], NEW c, Session(c), NEW w, w = Launched(others, c)
  PROVE  /\ w \in [Turns -> Workers]
         /\ c.current \in {NoTurn, s.current} => w = others
         /\ \A t \in Turns : t # c.current => w[t] = others[t]
         /\ c.current \notin {NoTurn, s.current} /\ c.current \in Turns
               => w[c.current].pc = "commit"
<1>1. CASE c.current \in {NoTurn, s.current}
  BY <1>1 DEF Launched
<1>2. CASE c.current \notin {NoTurn, s.current}
  <2> DEFINE x == [pc |-> "commit", driver |-> c.driver]
  <2>1. x \in Workers /\ x.pc = "commit"
    BY DEF Workers, Session
  <2>2. w = [others EXCEPT ![c.current] = x]
    BY <1>2 DEF Launched
  <2> HIDE DEF x
  <2>3. QED
    BY <1>2, <2>1, <2>2
<1>3. QED
  BY <1>1, <1>2

(* An operation that ends with a drain of the queue.                       *)
LEMMA QueueDrained ==
  ASSUME IInv, UNCHANGED <<connecting, alive, disk, prompts, sent>>,
         NEW q, Follows(s, q), q.current = s.current, q.failed \/ q.state = s.state,
         s' = Drain(q),
         NEW others \in [Turns -> Workers],
         \A t \in Turns : others[t].pc \in {"commit", "native"} => others[t] = work[t],
         work' = Launched(others, s'),
         hold' => Holding(q)
  PROVE  IInv'
<1>1. Session(q)
  BY DEF Follows
<1>2. /\ Follows(q, s')
      /\ \/ s' = q
         \/ /\ q.current = NoTurn /\ q.state = "ready" /\ ~q.paused
            /\ s'.current = NoTurn \/ s'.current \in Waiting(s')
  BY <1>1, Drained
<1>3. Follows(s, s')
  BY <1>2, FollowsTrans
<1>4. Session(s') /\ Waiting(s) \subseteq Waiting(s') /\ (s.failed => s'.failed)
  BY <1>3 DEF Follows
<1>5. /\ work' \in [Turns -> Workers]
      /\ s'.current \in {NoTurn, s.current} => work' = others
      /\ \A t \in Turns : t # s'.current => work'[t] = others[t]
  BY <1>4, WorkLaunched
<1>6. hold' => Holding(s')
  <2>1. CASE s' = q
    BY <2>1
  <2>2. CASE s' # q
    BY <1>2, <2>2 DEF Holding, Follows
  <2>3. QED
    BY <2>1, <2>2
<1>7. /\ \A t \in Turns : work'[t].pc \in {"commit", "native"} => s'.current = t
      /\ \A t \in Turns : work'[t].pc = "commit" =>
                             work[t].pc = "commit" \/ t \in Waiting(s')
  <2> SUFFICES ASSUME NEW t \in Turns, work'[t].pc \in {"commit", "native"}
               PROVE  /\ s'.current = t
                      /\ work'[t].pc = "commit" => work[t].pc = "commit" \/ t \in Waiting(s')
    OBVIOUS
  <2>1. CASE s' = q
    <3>1. work'[t] = work[t]
      BY <1>5, <2>1
    <3>2. QED
      BY <2>1, <3>1 DEF IInv, Working
  <2>2. CASE s' # q
    <3>1. s.current = NoTurn /\ work[t].pc \notin {"commit", "native"}
      BY <1>2, <2>2, ConversationAssumption DEF IInv, Working
    <3>2. others[t].pc \notin {"commit", "native"}
      BY <3>1
    <3>3. s'.current = t
      BY <1>5, <3>2
    <3>4. t # NoTurn
      BY ConversationAssumption
    <3>5. QED
      BY <1>2, <2>2, <3>3, <3>4
  <2>3. QED
    BY <2>1, <2>2
<1>8. ~s'.failed => /\ s'.driver = s.driver /\ s'.closing = s.closing
                    /\ s'.closes = s.closes /\ s'.opening = s.opening
                    /\ s'.runtime = s.runtime
                    /\ \/ s'.current = s.current /\ s'.state = s.state
                       \/ s.current # NoTurn
                       \/ s.state \notin {"starting", "closed"}
  <2> SUFFICES ASSUME ~s'.failed
               PROVE  \/ s'.current = s.current /\ s'.state = s.state
                      \/ s.state \notin {"starting", "closed"}
    BY <1>3 DEF Follows, Near
  <2>1. ~q.failed
    BY <1>2 DEF Follows
  <2>2. q.state = s.state
    BY <2>1
  <2>3. QED
    BY <1>2, <2>2
<1>9. QED
  BY <1>4, <1>5, <1>6, <1>7, <1>8, Ordinary

---------------------------------------------------------------------------
(* Turns *)

LEMMA Now ==
  ASSUME IInv
  PROVE  /\ Session(s) /\ work \in [Turns -> Workers]
         /\ connecting \in [Runtimes -> ConnectStates] /\ alive \subseteq Runtimes
         /\ Kept(s, s) /\ Follows(s, s)
         /\ s.persist => s.failed
         /\ \A t \in Turns : t # NoTurn
         /\ \A t \in Turns : work[t].pc \in {"commit", "native"} => s.current = t
         /\ hold => Holding(s)
  BY KeptSame, KeptFollows, ConversationAssumption
     DEF IInv, TypeOK, Session, ConnectStates, Working, Held

LEMMA LookStep ==
  ASSUME IInv, NEW t \in Turns, Look(t) PROVE IInv'
  BY Now, Ordinary DEF Look, IInv, Holding, Held

LEMMA PromptStep ==
  ASSUME IInv, NEW t \in Turns, Prompt(t) PROVE IInv'
<1>1. /\ Session(s) /\ s.current = NoTurn /\ s.state = "ready" /\ ~s.failed
      /\ s' = StartPrompt(s, t) /\ work' = Launched(work, s')
      /\ UNCHANGED <<connecting, alive, disk, prompts, sent, hold>>
  BY Now DEF Prompt
<1>2. /\ Follows(s, s') /\ s'.paused = s.paused
      /\ (s'.current = NoTurn /\ s'.failed) \/ (s'.current = t /\ t \in Waiting(s'))
  BY <1>1, PromptStarted
<1>3. Session(s') /\ Waiting(s) \subseteq Waiting(s') /\ (s.failed => s'.failed) /\ Near(s, s')
  BY <1>2 DEF Follows
<1>4. /\ work' \in [Turns -> Workers]
      /\ s'.current \in {NoTurn, s.current} => work' = work
      /\ \A u \in Turns : u # s'.current => work'[u] = work[u]
  BY <1>1, <1>3, Now, WorkLaunched
<1>5. \A u \in Turns : work[u].pc \notin {"commit", "native"}
  BY <1>1, Now
<1>6. /\ \A u \in Turns : work'[u].pc \in {"commit", "native"} => s'.current = u
      /\ \A u \in Turns : work'[u].pc = "commit" =>
                             work[u].pc = "commit" \/ u \in Waiting(s')
  BY <1>2, <1>4, <1>5, Now
<1>7. hold' => Holding(s')
  BY <1>1, <1>2, Now DEF Holding
<1>8. QED
  BY <1>1, <1>3, <1>4, <1>6, <1>7, Ordinary DEF Near

(* The message is stored, and was not sent before: the worker of a turn    *)
(* that was sent waits for a message that is not durable.                  *)
LEMMA SendStep ==
  ASSUME IInv, NEW t \in Turns, Send(t) PROVE IInv'
<1>1. /\ work[t].pc = "commit" /\ Durable(t)
      /\ work' = [work EXCEPT ![t].pc = "native"]
      /\ sent' = [sent EXCEPT ![t] = @ + 1]
      /\ UNCHANGED <<s, connecting, alive, disk, prompts, hold>>
  BY DEF Send
<1>2. t \notin Waiting(s)
  BY <1>1 DEF Durable, Uncommitted, Waiting, Events
<1>3. t \in prompts /\ ~(sent[t] > 0) /\ sent \in [Turns -> Nat]
  BY <1>1, <1>2 DEF IInv, Refused, TypeOK
<1>4. work[t] \in Workers /\ work \in [Turns -> Workers]
  BY Now
<1>5. /\ [work[t] EXCEPT !.pc = "native"] \in Workers
      /\ [work[t] EXCEPT !.pc = "native"].pc = "native"
  BY <1>4, Zenon DEF Workers
<1>6. /\ work' \in [Turns -> Workers] /\ work'[t].pc = "native"
      /\ \A u \in Turns : u # t => work'[u] = work[u]
  BY <1>1, <1>4, <1>5
<1>7. /\ sent' \in [Turns -> Nat] /\ sent'[t] = 1
      /\ \A u \in Turns : u # t => sent'[u] = sent[u]
  BY <1>1, <1>3
<1>8. TypeOK'
  BY <1>1, <1>6, <1>7 DEF IInv, TypeOK, Session
<1>9. Working'
  BY <1>1, <1>6 DEF IInv, Working
<1>10. SentOnce'
  BY <1>1, <1>3, <1>7 DEF IInv, SentOnce
<1>11. Refused'
  BY <1>1, <1>6, <1>7 DEF IInv, Refused, Waiting
<1>12. Held' /\ Clients'
  BY <1>1 DEF IInv, Held, Holding, Clients, Published, Connecting
<1>13. QED
  BY <1>8, <1>9, <1>10, <1>11, <1>12 DEF IInv

LEMMA NoWorkOK == NoWork \in Workers /\ NoWork.pc = "none"
  BY DEF NoWork, Workers

LEMMA SendFailsStep ==
  ASSUME IInv, NEW t \in Turns, SendFails(t) PROVE IInv'
<1> DEFINE c == [s EXCEPT !.current = NoTurn, !.stopped = NoTurn]
<1>1. /\ work[t].pc = "commit" /\ s.failed /\ s.current = t
      /\ s' = c
      /\ work' = [work EXCEPT ![t] = NoWork]
      /\ UNCHANGED <<connecting, alive, disk, prompts, sent>>
  BY Now DEF SendFails
<1>2. Shape(c)
  BY Now, Zenon DEF Session, Shape
<1>3. /\ c.driver = s.driver /\ c.closes = s.closes /\ c.runtime = s.runtime
      /\ c.failed = s.failed /\ c.pend = s.pend
  BY Now DEF Session, Shape, Fields
<1> HIDE DEF c
<1>4. Session(s') /\ Waiting(s) \subseteq Waiting(s') /\ s'.failed
  BY <1>1, <1>2, <1>3, Now DEF Session, Waiting
<1>5. /\ work' \in [Turns -> Workers] /\ work'[t].pc = "none"
      /\ \A u \in Turns : u # t => work'[u] = work[u] /\ work[u].pc \notin {"commit", "native"}
  BY <1>1, Now, NoWorkOK
<1>6. /\ \A u \in Turns : work'[u].pc \in {"commit", "native"} => s'.current = u
      /\ \A u \in Turns : work'[u].pc = "commit" =>
                             work[u].pc = "commit" \/ u \in Waiting(s')
  BY <1>5
<1>7. QED
  BY <1>1, <1>4, <1>5, <1>6, Ordinary DEF Holding

LEMMA TurnEndsStep ==
  ASSUME IInv, NEW t \in Turns, NEW status, TurnEnds(t, status) PROVE IInv'
<1> DEFINE c == [s EXCEPT !.ended = TRUE]
<1>1. /\ s' = AppendTurnEnd(c, status)
      /\ UNCHANGED <<work, connecting, alive, disk, prompts, sent, hold>>
  BY DEF TurnEnds
<1>2. Shape(c)
  BY Now, Zenon DEF Session, Shape
<1>3. Alike(s, c) /\ c.failed = s.failed /\ c.pend = s.pend /\ c.state = s.state
  BY Now DEF Session, Shape, Fields, Alike
<1> HIDE DEF c
<1>4. Session(c) /\ Waiting(c) = Waiting(s)
  BY <1>2, <1>3, Now DEF Session, Waiting, Alike
<1>5. Kept(c, s') /\ (s'.failed \/ s'.state = c.state)
  BY <1>1, <1>4, TurnEndAppended
<1>6. /\ Session(s') /\ Waiting(s) \subseteq Waiting(s') /\ (s.failed => s'.failed)
      /\ Alike(s, s') /\ (s'.failed \/ s'.state = s.state)
  BY <1>3, <1>4, <1>5 DEF Kept, Alike
<1>7. hold' => Holding(s')
  BY <1>1, <1>6, Now DEF Holding, Alike
<1>8. QED
  BY <1>1, <1>6, <1>7, Now, Ordinary DEF Alike

LEMMA WorkMoves ==
  ASSUME IInv, NEW t \in Turns, NEW pc \in {"close", "drain"},
         work' = [work EXCEPT ![t].pc = pc]
  PROVE  /\ work' \in [Turns -> Workers] /\ work'[t].pc = pc
         /\ \A u \in Turns : u # t => work'[u] = work[u]
<1>1. work[t] \in Workers /\ work \in [Turns -> Workers]
  BY Now
<1>2. [work[t] EXCEPT !.pc = pc] \in Workers /\ [work[t] EXCEPT !.pc = pc].pc = pc
  BY <1>1, Zenon DEF Workers
<1>3. QED
  BY <1>1, <1>2

LEMMA PromptReturnsStep ==
  ASSUME IInv, NEW t \in Turns, NEW err, PromptReturns(t, err) PROVE IInv'
<1>1. /\ work[t].pc = "native" /\ s.current = t /\ s.current # NoTurn
      /\ s' = FinishTurn(s, t, err)
      /\ hold' = (hold /\ s.items # <<>>)
      /\ UNCHANGED <<connecting, alive, disk, prompts, sent>>
  BY Now DEF PromptReturns
<1>2. PICK pc \in {"close", "drain"} : work' = [work EXCEPT ![t].pc = pc]
  BY DEF PromptReturns
<1>3. /\ work' \in [Turns -> Workers] /\ work'[t].pc \in {"close", "drain"}
      /\ \A u \in Turns : u # t => work'[u] = work[u] /\ work[u].pc \notin {"commit", "native"}
  <2>1. /\ work' \in [Turns -> Workers] /\ work'[t].pc = pc
        /\ \A u \in Turns : u # t => work'[u] = work[u]
    BY <1>2, WorkMoves
  <2>2. QED
    BY <1>1, <2>1, Now
<1>4. /\ Session(s') /\ Waiting(s) \subseteq Waiting(s')
      /\ s'.driver = s.driver /\ s'.closing = s.closing /\ s'.closes = s.closes
      /\ s'.opening = s.opening /\ s'.runtime = s.runtime
      /\ s.failed => s'.failed
      /\ s.paused => s'.failed \/ s'.paused
      /\ s.stopped = t /\ s.items # <<>> => s'.failed \/ s'.paused
  BY <1>1, Now, TurnFinished
<1>5. hold' => Holding(s')
  BY <1>1, <1>4, Now DEF Holding
<1>6. /\ \A u \in Turns : work'[u].pc \in {"commit", "native"} => s'.current = u
      /\ \A u \in Turns : work'[u].pc = "commit" =>
                             work[u].pc = "commit" \/ u \in Waiting(s')
  BY <1>3
<1>7. QED
  BY <1>1, <1>3, <1>4, <1>5, <1>6, Ordinary

(* A client is closed: nothing but `alive' and the worker changes.         *)
LEMMA ClientCloses ==
  ASSUME IInv, UNCHANGED <<s, connecting, disk, prompts, sent, hold>>, alive' \subseteq alive,
         work' \in [Turns -> Workers],
         \A t \in Turns : work'[t].pc \in {"commit", "native"} => work'[t] = work[t]
  PROVE  IInv'
<1>1. Clients'
  BY ClientsKept
<1>2. Working' /\ SentOnce' /\ Refused'
  BY TurnsKept, Now
<1>3. TypeOK' /\ Held'
  BY DEF IInv, TypeOK, Held, Holding, Session
<1>4. QED
  BY <1>1, <1>2, <1>3 DEF IInv

LEMMA TurnClosesStep ==
  ASSUME IInv, NEW t \in Turns, TurnCloses(t) PROVE IInv'
<1>1. PICK pc \in {"close", "drain"} : pc = "drain"
  OBVIOUS
<1>2. work' = [work EXCEPT ![t].pc = pc]
  BY <1>1 DEF TurnCloses
<1>3. /\ work' \in [Turns -> Workers] /\ work'[t].pc = pc
      /\ \A u \in Turns : u # t => work'[u] = work[u]
  BY <1>2, WorkMoves
<1>4. QED
  BY <1>1, <1>3, ClientCloses DEF TurnCloses

LEMMA StopClosesStep ==
  ASSUME IInv, StopCloses PROVE IInv'
  BY Now, ClientCloses DEF StopCloses

LEMMA TurnDrainsStep ==
  ASSUME IInv, NEW t \in Turns, TurnDrains(t) PROVE IInv'
<1> DEFINE others == [work EXCEPT ![t] = NoWork]
<1>1. /\ others \in [Turns -> Workers]
      /\ \A u \in Turns : others[u].pc \in {"commit", "native"} => others[u] = work[u]
  BY Now, NoWorkOK
<1>2. /\ s' = Drain(s) /\ work' = Launched(others, s')
      /\ UNCHANGED <<connecting, alive, disk, prompts, sent, hold>>
  BY DEF TurnDrains
<1> HIDE DEF others
<1>3. QED
  BY <1>1, <1>2, Now, QueueDrained

---------------------------------------------------------------------------
(* The queue *)

LEMMA QueueWritten ==
  ASSUME IInv, NEW c, Follows(s, c), c.current = s.current, c.failed \/ c.state = s.state,
         NEW items, NEW paused, NEW ack,
         s' = Drain(AppendQueue(c, items, paused, ack)), work' = Launched(work, s'),
         UNCHANGED <<connecting, alive, disk, prompts, sent>>,
         hold' => hold /\ (s.paused => paused)
  PROVE  IInv'
<1> DEFINE q == AppendQueue(c, items, paused, ack)
<1>1. Session(c)
  BY DEF Follows
<1>2. /\ Follows(c, q) /\ q.current = c.current
      /\ q.failed \/ (q.paused = paused /\ q.state = c.state)
  BY <1>1, QueueAppended
<1>3. s' = Drain(q)
  OBVIOUS
<1> HIDE DEF q
<1>4. Follows(s, q)
  BY <1>2, FollowsTrans
<1>5. q.failed \/ q.state = s.state
  BY <1>2 DEF Follows
<1>6. hold' => Holding(q)
  BY <1>2, <1>4, Now DEF Holding, Follows, Near
<1>7. work \in [Turns -> Workers]
  BY Now
<1>8. QED
  BY <1>2, <1>3, <1>4, <1>5, <1>6, <1>7, QueueDrained

LEMMA QueueApplied ==
  ASSUME IInv, NEW items, NEW paused, NEW ack, ApplyQueue(items, paused, ack),
         UNCHANGED <<connecting, alive, disk, prompts, sent>>,
         hold' => hold /\ (s.paused => paused)
  PROVE  IInv'
  BY Now, QueueWritten DEF ApplyQueue

LEMMA EnqueueStep ==
  ASSUME IInv, NEW t \in Turns, Enqueue(t) PROVE IInv'
<1>1. PICK paused : /\ paused = (s.paused \/ Unattended)
                    /\ ApplyQueue(Append(s.items, t), paused, t)
  BY Zenon DEF Enqueue
<1>2. ApplyQueue(Append(s.items, t), paused, t)
  BY <1>1
<1>3. s.paused => paused
  BY <1>1, Zenon
<1>4. UNCHANGED <<connecting, alive, disk, prompts, sent, hold>>
  BY DEF Enqueue
<1>5. QED
  BY <1>2, <1>3, <1>4, QueueApplied

LEMMA ReorderStep ==
  ASSUME IInv, Reorder PROVE IInv'
<1>1. PICK items : ApplyQueue(items, s.paused, NoTurn)
  BY Zenon DEF Reorder
<1>2. UNCHANGED <<connecting, alive, disk, prompts, sent, hold>>
  BY DEF Reorder
<1>3. QED
  BY <1>1, <1>2, QueueApplied

LEMMA PauseQueueStep ==
  ASSUME IInv, PauseQueue PROVE IInv'
<1>1. PICK paused : paused = TRUE /\ ApplyQueue(s.items, paused, NoTurn)
  BY Zenon DEF PauseQueue
<1>2. ApplyQueue(s.items, paused, NoTurn)
  BY <1>1
<1>3. s.paused => paused
  BY <1>1, Zenon
<1>4. UNCHANGED <<connecting, alive, disk, prompts, sent, hold>>
  BY DEF PauseQueue
<1>5. QED
  BY <1>2, <1>3, <1>4, QueueApplied

LEMMA ResumeQueueStep ==
  ASSUME IInv, ResumeQueue PROVE IInv'
<1>1. PICK paused : paused = FALSE /\ ApplyQueue(s.items, paused, NoTurn)
  BY Zenon DEF ResumeQueue
<1>2. ApplyQueue(s.items, paused, NoTurn)
  BY <1>1
<1>3. UNCHANGED <<connecting, alive, disk, prompts, sent>> /\ ~hold'
  BY DEF ResumeQueue
<1>4. QED
  BY <1>2, <1>3, QueueApplied

(* Forgetting an acknowledgement changes nothing of the events but that.   *)
Forgotten(q, t) ==
    [i \in 1..Len(q) |-> IF q[i].ack = t THEN [q[i] EXCEPT !.ack = NoTurn] ELSE q[i]]

Keys(q) == {e.prompt : e \in Events(q)}

LEMMA AckForgotten ==
  ASSUME NEW q, PendOK(q), NEW t
  PROVE  PendOK(Forgotten(q, t)) /\ Keys(q) = Keys(Forgotten(q, t))
<1> DEFINE p == Forgotten(q, t)
<1>0. p = [i \in 1..Len(q) |-> IF q[i].ack = t THEN [q[i] EXCEPT !.ack = NoTurn] ELSE q[i]]
  BY DEF Forgotten
<1> HIDE DEF p
<1>1. Len(q) \in Nat
  BY DEF PendOK
<1>2. /\ p \in Seq(Events(p)) /\ Len(p) = Len(q)
  <2>1. \A i \in 1..Len(q) : p[i] \in {p[j] : j \in 1..Len(q)}
    OBVIOUS
  <2>2. p \in [1..Len(q) -> {p[j] : j \in 1..Len(q)}]
    BY <1>0, <2>1
  <2>3. p \in Seq({p[j] : j \in 1..Len(q)}) /\ Len(p) = Len(q)
    BY <1>1, <2>2
  <2>4. QED
    BY <2>3 DEF Events
<1>3. \A i \in 1..Len(q) : EventOK(q[i])
  BY DEF PendOK, Events
<1>4. \A i \in 1..Len(q) : EventOK(p[i]) /\ p[i].prompt = q[i].prompt
  <2> SUFFICES ASSUME NEW i \in 1..Len(q)
               PROVE  EventOK(p[i]) /\ p[i].prompt = q[i].prompt
    OBVIOUS
  <2>1. q[i] = [record |-> q[i].record, prompt |-> q[i].prompt, ack |-> q[i].ack]
        /\ q[i].record.runtime \in Runtimes
    BY <1>3 DEF EventOK
  <2>2. p[i] \in {q[i], [q[i] EXCEPT !.ack = NoTurn]}
    BY <1>0
  <2>3. CASE p[i] = q[i]
    BY <1>3, <2>3
  <2>4. CASE p[i] = [q[i] EXCEPT !.ack = NoTurn]
    <3>1. p[i] = [record |-> q[i].record, prompt |-> q[i].prompt, ack |-> NoTurn]
      BY <2>1, <2>4
    <3>2. QED
      BY <2>1, <3>1 DEF EventOK
  <2>5. QED
    BY <2>2, <2>3, <2>4
<1>5. PendOK(p)
  BY <1>2, <1>4 DEF PendOK, Events
<1>6. Keys(q) = {q[i].prompt : i \in 1..Len(q)}
  BY DEF Keys, Events
<1>7. Keys(p) = {p[i].prompt : i \in 1..Len(q)}
  BY <1>2 DEF Keys, Events
<1>8. \A i \in 1..Len(q) : p[i].prompt = q[i].prompt
  BY <1>4
<1>9. Keys(q) = Keys(p)
  BY <1>6, <1>7, <1>8
<1>10. QED
  BY <1>5, <1>9 DEF p

LEMMA RemoveStep ==
  ASSUME IInv, NEW t \in Turns, Remove(t) PROVE IInv'
<1> DEFINE p == Forgotten(s.pend, t)
           c == [s EXCEPT !.pend = p]
<1>1. /\ \E items : s' = Drain(AppendQueue(c, items, s.paused, NoTurn))
      /\ work' = Launched(work, s')
      /\ UNCHANGED <<connecting, alive, disk, prompts, sent, hold>>
  <2>1. c = [s EXCEPT !.pend = [i \in 1..Len(@) |->
               IF @[i].ack = t THEN [@[i] EXCEPT !.ack = NoTurn] ELSE @[i]]]
    BY Now DEF Session, Shape, Fields, Forgotten
  <2> HIDE DEF c
  <2>2. QED
    BY <2>1, Zenon DEF Remove
<1>2. PICK items : s' = Drain(AppendQueue(c, items, s.paused, NoTurn))
  BY <1>1
<1>3. PendOK(p) /\ Keys(s.pend) = Keys(p)
  <2>1. PendOK(s.pend)
    BY Now DEF Session
  <2>2. QED
    BY <2>1, AckForgotten
<1> HIDE DEF p
<1>4. Shape(c)
  BY Now, Zenon DEF Session, Shape
<1>5. Alike(s, c) /\ c.failed = s.failed /\ c.state = s.state /\ c.pend = p
  BY Now DEF Session, Shape, Fields, Alike
<1> HIDE DEF c
<1>6. Session(c) /\ Waiting(c) = Waiting(s)
  BY <1>3, <1>4, <1>5, Now DEF Session, Waiting, Keys, Alike
<1>7. Follows(s, c)
  BY <1>5, <1>6 DEF Follows, Near, Alike
<1>8. c.current = s.current
  BY <1>5 DEF Alike
<1>9. QED
  BY <1>1, <1>2, <1>5, <1>7, <1>8, QueueWritten

---------------------------------------------------------------------------
(* Stop *)

LEMMA StopStep ==
  ASSUME IInv, Stop PROVE IInv'
<1> DEFINE c == [s EXCEPT !.stopped = s.current]
<1>1. /\ s' = Pause(c) /\ s.current # NoTurn
      /\ UNCHANGED <<work, connecting, alive, disk, prompts, sent>>
  BY DEF Stop
<1>2. Shape(c)
  BY Now, Zenon DEF Session, Shape
<1>3. /\ c.driver = s.driver /\ c.closing = s.closing /\ c.closes = s.closes
      /\ c.opening = s.opening /\ c.persist = s.persist /\ c.runtime = s.runtime
      /\ c.current = s.current /\ c.stopped = s.current /\ c.state = s.state
      /\ c.failed = s.failed /\ c.pend = s.pend
  BY Now DEF Session, Shape, Fields
<1> HIDE DEF c
<1>4. Session(c) /\ Waiting(c) = Waiting(s)
  BY <1>2, <1>3, Now DEF Session, Waiting
<1>5. Follows(c, s') /\ s'.current = c.current /\ (s'.failed \/ s'.state = c.state)
  BY <1>1, <1>4, Paused
<1>6. /\ Session(s') /\ Waiting(s) \subseteq Waiting(s') /\ (s.failed => s'.failed)
      /\ Near(c, s')
  BY <1>3, <1>4, <1>5 DEF Follows
<1>7. Holding(s')
  BY <1>1, <1>3, <1>5, <1>6 DEF Holding, Near
<1>8. QED
  BY <1>1, <1>3, <1>5, <1>6, <1>7, Now, Ordinary DEF Near

LEMMA StopRefusedStep ==
  ASSUME IInv, StopRefused PROVE IInv'
  BY Now, Ordinary DEF StopRefused, IInv, Holding, Held

(* Only a turn that is still current becomes "cancelling".                 *)
LEMMA StopAcceptedStep ==
  ASSUME IInv, StopAccepted PROVE IInv'
<1>1. UNCHANGED <<work, connecting, alive, disk, prompts, sent, hold>>
  BY DEF StopAccepted
<1>2. CASE s' = s
  BY <1>1, <1>2, Now, Ordinary DEF IInv, Holding, Held
<1>3. CASE s' # s
  <2>1. s' = AppendState(s, "cancelling") /\ s.current # NoTurn
    BY <1>3 DEF StopAccepted
  <2>2. Kept(s, s')
    BY <2>1, Now, StateAppended
  <2>3. /\ Session(s') /\ Waiting(s) \subseteq Waiting(s') /\ (s.failed => s'.failed)
        /\ Alike(s, s')
    BY <2>2 DEF Kept
  <2>4. hold' => Holding(s')
    BY <1>1, <2>3, Now DEF Holding, Alike
  <2>5. QED
    BY <1>1, <2>1, <2>3, <2>4, Now, Ordinary DEF Alike
<1>4. QED
  BY <1>2, <1>3

---------------------------------------------------------------------------
(* Close and archive *)

LEMMA TeardownStep ==
  ASSUME IInv, NEW c, Kept(s, c), c.failed \/ c.state = s.state, ~s.closing,
         NEW d, d = Retire(c), s' = d \/ s' = Release(d),
         UNCHANGED <<work, connecting, alive, disk, prompts, sent, hold>>
  PROVE  IInv'
<1>1. Session(c)
  BY DEF Kept
<1>2. /\ Session(d) /\ Waiting(c) \subseteq Waiting(d)
      /\ d.driver = None /\ d.closing /\ d.closes = c.driver
      /\ d.opening = c.opening /\ d.runtime = c.runtime
      /\ d.current = c.current /\ d.stopped = c.stopped /\ d.paused = c.paused
      /\ c.failed => d.failed
      /\ d.failed \/ d.state = "closed"
  BY <1>1, Retired
<1>3. Kept(d, s') /\ s'.state = d.state /\ s'.failed = d.failed
  BY <1>2, KeptSame, Released
<1>4. /\ Session(s') /\ Waiting(s) \subseteq Waiting(s') /\ (s.failed => s'.failed)
      /\ s'.driver = None /\ s'.closing /\ s'.closes = s.driver
      /\ s'.opening = s.opening /\ s'.runtime = s.runtime
      /\ s'.current = s.current /\ s'.stopped = s.stopped /\ s'.paused = s.paused
      /\ s'.failed \/ s'.state = "closed"
  BY <1>2, <1>3 DEF Kept, Alike
<1>5. Clients'
  <2> SUFFICES ASSUME ~s'.failed PROVE Published' /\ Connecting'
    BY DEF Clients
  <2>1. Published /\ Connecting
    BY <1>4 DEF IInv, Clients
  <2>2. \A a \in alive : a # None
    BY Now, NoneNotRuntime
  <2>3. Published'
    BY <1>4, <2>1, <2>2 DEF Published
  <2>4. Connecting'
    BY <1>4, <2>1 DEF Connecting
  <2>5. QED
    BY <2>3, <2>4
<1>6. QED
  BY <1>4, <1>5, Now, Quiet

(* Nothing but the bookkeeping of a conversation changes.                  *)
LEMMA KeptStep ==
  ASSUME IInv, Kept(s, s'), s'.failed \/ s'.state = s.state,
         UNCHANGED <<work, connecting, alive, disk, prompts, sent, hold>>
  PROVE  IInv'
<1>1. /\ Session(s') /\ Waiting(s) \subseteq Waiting(s') /\ (s.failed => s'.failed)
      /\ Alike(s, s')
  BY DEF Kept
<1>2. Clients'
  BY <1>1, ClientsKept DEF Alike
<1>3. QED
  BY <1>1, <1>2, Now, Quiet DEF Alike

LEMMA CloseSessionStep ==
  ASSUME IInv, CloseSession PROVE IInv'
<1>1. /\ ~s.closing /\ s' \in {Release(s), Retire(s)}
      /\ UNCHANGED <<work, connecting, alive, disk, prompts, sent, hold>>
  BY DEF CloseSession
<1>2. CASE s' = Release(s)
  BY <1>1, <1>2, Now, Released, KeptStep
<1>3. CASE s' = Retire(s)
  BY <1>1, <1>3, Now, TeardownStep
<1>4. QED
  BY <1>1, <1>2, <1>3

LEMMA ArchiveStep ==
  ASSUME IInv, NEW archived, Archive(archived) PROVE IInv'
<1> DEFINE a == [s EXCEPT !.archived = archived]
           c == Appended(s, a, NoTurn, NoTurn, 0)
<1>1. /\ ~s.closing /\ s' \in {Release(c), Release(Retire(c))}
      /\ UNCHANGED <<work, connecting, alive, disk, prompts, sent, hold>>
  BY DEF Archive
<1>2. Shape(a)
  BY Now, Zenon DEF Session, Shape
<1>3. Alike(s, a) /\ a.failed = s.failed /\ a.state = s.state /\ a.pend = s.pend
  BY Now DEF Session, Shape, Fields, Alike
<1> HIDE DEF a
<1>4. Session(a)
  BY <1>2, <1>3, Now DEF Session, Alike
<1>5. Kept(s, c) /\ (c.failed \/ c.state = s.state)
  <2>1. CASE s.failed
    BY <2>1, Now DEF Appended
  <2>2. CASE ~s.failed /\ c = Stopped(s)
    BY <2>2, Now, KeptFails
  <2>3. CASE ~s.failed /\ c # Stopped(s)
    BY <1>3, <1>4, <2>3, Now, SessionAppends DEF Kept, Alike
  <2>4. QED
    BY <2>1, <2>2, <2>3
<1> HIDE DEF c
<1>6. CASE s' = Release(c)
  <2>1. Session(c)
    BY <1>5 DEF Kept
  <2>2. Kept(c, s') /\ s'.state = c.state /\ s'.failed = c.failed
    BY <1>6, <2>1, Released
  <2>3. Kept(s, s')
    BY <1>5, <2>2, KeptTrans
  <2>4. QED
    BY <1>1, <1>5, <2>2, <2>3, KeptStep
<1>7. CASE s' = Release(Retire(c))
  BY <1>1, <1>5, <1>7, TeardownStep
<1>8. QED
  BY <1>1, <1>6, <1>7

LEMMA CloseFinishesStep ==
  ASSUME IInv, CloseFinishes PROVE IInv'
<1> DEFINE c == [s EXCEPT !.closing = FALSE, !.closes = None]
<1>1. /\ s' = Release(c)
      /\ alive' = alive \ {s.closes}
      /\ UNCHANGED <<work, disk, prompts, sent, hold>>
  BY DEF CloseFinishes
<1>2. /\ connecting' \in [Runtimes -> ConnectStates]
      /\ \A r \in Runtimes : \/ connecting'[r] = connecting[r]
                             \/ connecting[r] = "prepare" /\ connecting'[r] = "cut"
  BY Now DEF CloseFinishes, ConnectStates
<1>3. Shape(c)
  BY Now, Zenon DEF Session, Shape
<1>4. /\ c.driver = s.driver /\ c.opening = s.opening /\ c.runtime = s.runtime
      /\ c.current = s.current /\ c.stopped = s.stopped /\ c.paused = s.paused
      /\ c.persist = s.persist /\ c.failed = s.failed /\ c.state = s.state
      /\ c.pend = s.pend /\ c.closing = FALSE /\ c.closes = None
  BY Now DEF Session, Shape, Fields
<1> HIDE DEF c
<1>5. Session(c) /\ Waiting(c) = Waiting(s)
  BY <1>3, <1>4, Now DEF Session, Waiting
<1>6. Kept(c, s') /\ s'.state = c.state /\ s'.failed = c.failed
  BY <1>1, <1>5, Released
<1>7. /\ Session(s') /\ Waiting(s) \subseteq Waiting(s') /\ s'.failed = s.failed
      /\ s'.driver = s.driver /\ s'.opening = s.opening /\ s'.runtime = s.runtime
      /\ s'.current = s.current /\ s'.stopped = s.stopped /\ s'.paused = s.paused
      /\ s'.state = s.state /\ s'.closing = FALSE /\ s'.closes = None
  BY <1>4, <1>5, <1>6 DEF Kept, Alike
<1>8. Clients'
  <2> SUFFICES ASSUME ~s'.failed PROVE Published' /\ Connecting'
    BY DEF Clients
  <2>1. Published /\ Connecting
    BY <1>7 DEF IInv, Clients
  <2>2. Published'
    BY <1>1, <1>7, <2>1 DEF Published
  <2>3. Connecting'
    BY <1>2, <1>7, <2>1 DEF Connecting
  <2>4. QED
    BY <2>2, <2>3
<1>9. alive' \subseteq Runtimes
  BY <1>1, Now
<1>10. QED
  BY <1>1, <1>2, <1>7, <1>8, <1>9, Quiet

---------------------------------------------------------------------------
(* Connections *)

LEMMA RuntimeAppended ==
  ASSUME NEW c, Session(c), ~c.failed, NEW r \in Runtimes, NEW d, d = AppendRuntime(c, r)
  PROVE  /\ Session(d) /\ Waiting(c) \subseteq Waiting(d)
         /\ d.driver = c.driver /\ d.closing = c.closing /\ d.closes = c.closes
         /\ d.opening = c.opening /\ d.stopped = c.stopped /\ d.current = c.current
         /\ d.paused = c.paused
         /\ d.failed \/ d.runtime = r
<1> DEFINE a == [c EXCEPT !.runtime = r]
<1>1. Shape(a)
  BY Zenon DEF Session, Shape
<1>2. /\ a.driver = c.driver /\ a.closing = c.closing /\ a.closes = c.closes
      /\ a.opening = c.opening /\ a.stopped = c.stopped /\ a.current = c.current
      /\ a.paused = c.paused /\ a.persist = c.persist /\ a.failed = c.failed
      /\ a.pend = c.pend /\ a.runtime = r
  BY DEF Session, Shape, Fields
<1> HIDE DEF a
<1>3. Session(a)
  BY <1>1, <1>2 DEF Session
<1>4. d = Appended(c, a, NoTurn, NoTurn, 0)
  BY DEF AppendRuntime, a
<1>5. CASE d = Stopped(c)
  BY <1>5, KeptFails DEF Kept, Alike
<1>6. CASE d # Stopped(c)
  BY <1>2, <1>3, <1>4, <1>6, SessionAppends DEF Alike
<1>7. QED
  BY <1>5, <1>6

(* A new runtime is recorded only when no connection and no teardown is    *)
(* under way.                                                              *)
LEMMA ReconnectStep ==
  ASSUME IInv, Reconnect PROVE IInv'
<1> DEFINE r == s.runtime + 1
           c == AppendRuntime(s, r)
<1>1. /\ s.current = NoTurn /\ ~s.failed /\ s.opening = None /\ ~s.closing
      /\ s' = AppendState(c, "starting")
      /\ connecting' = IF s'.failed THEN connecting ELSE [connecting EXCEPT ![r] = "commit"]
      /\ UNCHANGED <<work, alive, disk, prompts, sent, hold>>
  BY DEF Reconnect
<1>2. r \in Runtimes
  <2>1. s.runtime \in Runtimes /\ s.runtime < MaxRuntimes
    BY Now DEF Reconnect, Session
  <2>2. QED
    BY <2>1, ConversationAssumption DEF Runtimes
<1> HIDE DEF r
<1>3. /\ Session(c) /\ Waiting(s) \subseteq Waiting(c)
      /\ c.driver = s.driver /\ c.closing = s.closing /\ c.closes = s.closes
      /\ c.opening = s.opening /\ c.stopped = s.stopped /\ c.current = s.current
      /\ c.paused = s.paused
      /\ c.failed \/ c.runtime = r
  BY <1>1, <1>2, Now, RuntimeAppended
<1> HIDE DEF c
<1>4. Kept(c, s') /\ (s'.failed \/ s'.state = "starting")
  BY <1>1, <1>3, StateAppended
<1>5. /\ Session(s') /\ Waiting(s) \subseteq Waiting(s')
      /\ s'.driver = s.driver /\ s'.closing = s.closing /\ s'.closes = s.closes
      /\ s'.opening = s.opening /\ s'.stopped = s.stopped /\ s'.current = s.current
      /\ s'.paused = s.paused
      /\ s'.failed \/ s'.runtime = r
  BY <1>3, <1>4 DEF Kept, Alike
<1>6. connecting' \in [Runtimes -> ConnectStates]
  BY <1>1, Now DEF ConnectStates
<1>7. Clients'
  <2> SUFFICES ASSUME ~s'.failed PROVE Published' /\ Connecting'
    BY DEF Clients
  <2>1. Published /\ Connecting
    BY <1>1 DEF IInv, Clients
  <2>2. Published'
    BY <1>1, <1>5, <2>1 DEF Published
  <2>3. /\ connecting'[r] = "commit"
        /\ \A q \in Runtimes : q # r => connecting'[q] = connecting[q]
    BY <1>1, <1>2, Now
  <2>4. \A q \in Runtimes : connecting[q] \notin {"prepare", "cut", "open"}
    BY <1>1, <2>1, NoneNotRuntime DEF Connecting
  <2>5. Connecting'
    BY <1>1, <1>4, <1>5, <2>3, <2>4 DEF Connecting
  <2>6. QED
    BY <2>2, <2>5
<1>8. QED
  BY <1>1, <1>5, <1>6, <1>7, Now, Quiet

(* The program counter of a connection moves; the conversation does not.   *)
LEMMA ConnectionMoves ==
  ASSUME IInv, NEW r \in Runtimes, NEW pc \in ConnectStates,
         connecting' = [connecting EXCEPT ![r] = pc],
         pc \in {"none", "close"} \/ (connecting[r] = "commit" /\ pc = "start")
            \/ (connecting[r] = "prepare" /\ pc = "cut"),
         alive' \subseteq alive,
         UNCHANGED <<s, work, disk, prompts, sent, hold>>
  PROVE  IInv'
<1>1. /\ connecting' \in [Runtimes -> ConnectStates] /\ connecting'[r] = pc
      /\ \A q \in Runtimes : q # r => connecting'[q] = connecting[q]
  BY Now
<1>2. Clients'
  <2> SUFFICES ASSUME ~s.failed PROVE Published' /\ Connecting'
    BY DEF Clients
  <2>1. Published /\ Connecting
    BY DEF IInv, Clients
  <2>2. Published'
    BY <2>1 DEF Published
  <2>3. Connecting'
    BY <1>1, <2>1 DEF Connecting
  <2>4. QED
    BY <2>2, <2>3
<1>3. alive' \subseteq Runtimes
  BY Now
<1>4. QED
  BY <1>1, <1>2, <1>3, Now, Quiet

LEMMA ReconnectWaitedStep ==
  ASSUME IInv, NEW r \in Runtimes, ReconnectWaited(r) PROVE IInv'
<1>1. PICK pc \in {"start", "none"} :
        connecting[r] = "commit" /\ connecting' = [connecting EXCEPT ![r] = pc]
  BY DEF ReconnectWaited
<1>2. pc \in ConnectStates
  BY DEF ConnectStates
<1>3. QED
  BY <1>1, <1>2, ConnectionMoves DEF ReconnectWaited

LEMMA ConnectTimesOutStep ==
  ASSUME IInv, NEW r \in Runtimes, ConnectTimesOut(r) PROVE IInv'
<1>1. "cut" \in ConnectStates
  BY DEF ConnectStates
<1>2. QED
  BY <1>1, ConnectionMoves DEF ConnectTimesOut

LEMMA ConnectClosesStep ==
  ASSUME IInv, NEW r \in Runtimes, ConnectCloses(r) PROVE IInv'
<1>1. "none" \in ConnectStates
  BY DEF ConnectStates
<1>2. QED
  BY <1>1, ConnectionMoves DEF ConnectCloses

(* The connection of the current runtime finds no teardown under way: no   *)
(* client is left when the old one is closed.                              *)
LEMMA ConnectStartsStep ==
  ASSUME IInv, NEW r \in Runtimes, ConnectStarts(r) PROVE IInv'
<1>1. CASE s.state = "closed" \/ s.archived \/ s.runtime # r
  <2>1. "none" \in ConnectStates
    BY DEF ConnectStates
  <2>2. QED
    BY <1>1, <2>1, ConnectionMoves DEF ConnectStarts
<1>2. CASE ~(s.state = "closed" \/ s.archived \/ s.runtime # r)
  <2>1. /\ connecting[r] = "start" /\ s.state # "closed" /\ s.runtime = r
        /\ connecting' = [connecting EXCEPT ![r] = "prepare"]
        /\ s' = [s EXCEPT !.opening = r, !.driver = None]
        /\ alive' = alive \ {s.driver}
        /\ UNCHANGED <<work, disk, prompts, sent, hold>>
    BY <1>2 DEF ConnectStarts
  <2>2. /\ Session(s') /\ Waiting(s') = Waiting(s)
        /\ s'.opening = r /\ s'.driver = None
        /\ s'.closing = s.closing /\ s'.closes = s.closes /\ s'.runtime = s.runtime
        /\ s'.current = s.current /\ s'.stopped = s.stopped /\ s'.paused = s.paused
        /\ s'.failed = s.failed /\ s'.state = s.state
    <3>1. Shape(s')
      BY <2>1, Now, Zenon DEF Session, Shape
    <3>2. /\ s'.opening = r /\ s'.driver = None
          /\ s'.closing = s.closing /\ s'.closes = s.closes /\ s'.runtime = s.runtime
          /\ s'.current = s.current /\ s'.stopped = s.stopped /\ s'.paused = s.paused
          /\ s'.failed = s.failed /\ s'.state = s.state /\ s'.pend = s.pend
          /\ s'.persist = s.persist
      BY <2>1, Now DEF Session, Shape, Fields
    <3>3. Session(s') /\ Waiting(s') = Waiting(s)
      BY <3>1, <3>2, Now DEF Session, Waiting
    <3>4. QED
      BY <3>2, <3>3
  <2>3. /\ connecting' \in [Runtimes -> ConnectStates] /\ connecting'[r] = "prepare"
        /\ \A q \in Runtimes : q # r => connecting'[q] = connecting[q]
    BY <2>1, Now DEF ConnectStates
  <2>4. Clients'
    <3> SUFFICES ASSUME ~s'.failed PROVE Published' /\ Connecting'
      BY DEF Clients
    <3>1. Published /\ Connecting
      BY <2>2 DEF IInv, Clients
    <3>2. ~s.closing /\ s.closes = None /\ s.current = NoTurn /\ s.state = "starting"
      BY <2>1, <3>1 DEF Published, Connecting
    <3>3. alive' = {}
      BY <2>1, <3>1, <3>2, Now, NoneNotRuntime DEF Published
    <3>4. Published'
      BY <2>2, <3>2, <3>3 DEF Published
    <3>5. \A q \in Runtimes : q # r => connecting[q] \notin {"prepare", "cut", "open"}
      BY <2>1, <3>1 DEF Connecting
    <3>6. Connecting'
      BY <2>1, <2>2, <2>3, <3>2, <3>5 DEF Connecting
    <3>7. QED
      BY <3>4, <3>6
  <2>5. alive' \subseteq Runtimes
    BY <2>1, Now
  <2>6. QED
    BY <2>1, <2>2, <2>3, <2>4, <2>5, Quiet
<1>3. QED
  BY <1>1, <1>2

(* The end of a connection: nobody else is connecting.                     *)
LEMMA ConnectionLeaves ==
  ASSUME IInv, NEW r \in Runtimes, connecting[r] \in {"prepare", "cut", "open"},
         NEW pc \in {"none", "close"}, connecting' = [connecting EXCEPT ![r] = pc],
         NEW c, Kept(s, c), NEW d, d = [c EXCEPT !.opening = None], s' = Release(d),
         UNCHANGED <<work, alive, disk, prompts, sent, hold>>
  PROVE  IInv'
<1>1. Session(c)
  BY DEF Kept
<1>2. Shape(d)
  BY <1>1, Zenon DEF Session, Shape
<1>3. /\ d.driver = c.driver /\ d.closing = c.closing /\ d.closes = c.closes
      /\ d.runtime = c.runtime /\ d.current = c.current /\ d.stopped = c.stopped
      /\ d.paused = c.paused /\ d.failed = c.failed /\ d.pend = c.pend
      /\ d.persist = c.persist
  BY <1>1 DEF Session, Shape, Fields
<1>4. Session(d) /\ Waiting(d) = Waiting(c)
  BY <1>1, <1>2, <1>3 DEF Session, Waiting
<1>5. Kept(d, s')
  BY <1>4, Released
<1>6. /\ Session(s') /\ Waiting(s) \subseteq Waiting(s') /\ (s.failed => s'.failed)
      /\ s'.driver = s.driver /\ s'.closing = s.closing /\ s'.closes = s.closes
      /\ s'.runtime = s.runtime /\ s'.current = s.current
      /\ s'.stopped = s.stopped /\ s'.paused = s.paused
  BY <1>3, <1>4, <1>5 DEF Kept, Alike
<1>7. /\ connecting' \in [Runtimes -> ConnectStates] /\ connecting'[r] = pc
      /\ \A q \in Runtimes : q # r => connecting'[q] = connecting[q]
  BY Now DEF ConnectStates
<1>8. Clients'
  <2> SUFFICES ASSUME ~s'.failed PROVE Published' /\ Connecting'
    BY DEF Clients
  <2>1. Published /\ Connecting
    BY <1>6 DEF IInv, Clients
  <2>2. Published'
    BY <1>6, <2>1 DEF Published
  <2>3. s.runtime = r
    BY <2>1 DEF Connecting
  <2>4. Connecting'
    BY <1>6, <1>7, <2>1, <2>3 DEF Connecting
  <2>5. QED
    BY <2>2, <2>4
<1>9. QED
  BY <1>6, <1>7, <1>8, Now, Quiet

LEMMA ConnectOpensStep ==
  ASSUME IInv, NEW r \in Runtimes, ConnectOpens(r) PROVE IInv'
<1>1. CASE s.state = "closed" \/ s.archived \/ connecting[r] = "cut"
  BY <1>1, Now, ConnectionLeaves DEF ConnectOpens
<1>2. CASE ~(s.state = "closed" \/ s.archived \/ connecting[r] = "cut")
  <2>1. /\ connecting[r] = "prepare" /\ s.state # "closed"
        /\ connecting' = [connecting EXCEPT ![r] = "open"]
        /\ s' = [s EXCEPT !.driver = r]
        /\ alive' = alive \cup {r}
        /\ UNCHANGED <<work, disk, prompts, sent, hold>>
    BY <1>2 DEF ConnectOpens
  <2>2. Shape(s')
    BY <2>1, Now, Zenon DEF Session, Shape
  <2>3. /\ s'.opening = s.opening /\ s'.driver = r
        /\ s'.closing = s.closing /\ s'.closes = s.closes /\ s'.runtime = s.runtime
        /\ s'.current = s.current /\ s'.stopped = s.stopped /\ s'.paused = s.paused
        /\ s'.failed = s.failed /\ s'.state = s.state /\ s'.pend = s.pend
        /\ s'.persist = s.persist
    BY <2>1, Now DEF Session, Shape, Fields
  <2>4. Session(s') /\ Waiting(s') = Waiting(s)
    BY <2>2, <2>3, Now DEF Session, Waiting
  <2>5. /\ connecting' \in [Runtimes -> ConnectStates] /\ connecting'[r] = "open"
        /\ \A q \in Runtimes : q # r => connecting'[q] = connecting[q]
    BY <2>1, Now DEF ConnectStates
  <2>6. Clients'
    <3> SUFFICES ASSUME ~s'.failed PROVE Published' /\ Connecting'
      BY DEF Clients
    <3>1. Published /\ Connecting
      BY <2>3 DEF IInv, Clients
    <3>2. s.opening = r /\ s.runtime = r /\ s.driver = None
      BY <2>1, <3>1 DEF Connecting
    <3>3. /\ s.current = NoTurn /\ s.state \in {"starting", "closed"}
          /\ s.closing => s.state = "closed"
      BY <2>1, <3>1, <3>2 DEF Connecting
    <3>4. ~s.closing /\ s.closes = None
      BY <2>1, <3>1, <3>3 DEF Published
    <3>5. alive' = {r}
      BY <2>1, <3>1, <3>2, <3>4, Now, NoneNotRuntime DEF Published
    <3>6. Published'
      BY <2>3, <3>4, <3>5 DEF Published
    <3>7. \A q \in Runtimes : q # r => connecting[q] \notin {"prepare", "cut", "open"}
      BY <3>1, <3>2 DEF Connecting
    <3>8. Connecting'
      BY <2>3, <2>5, <3>2, <3>3, <3>4, <3>7 DEF Connecting
    <3>9. QED
      BY <3>6, <3>8
  <2>7. alive' \subseteq Runtimes
    BY <2>1, Now
  <2>8. QED
    BY <2>1, <2>3, <2>4, <2>5, <2>6, <2>7, Quiet
<1>3. QED
  BY <1>1, <1>2

LEMMA ConnectEndsStep ==
  ASSUME IInv, NEW r \in Runtimes, NEW err, ConnectEnds(r, err) PROVE IInv'
<1> DEFINE n == AppendNotice(s)
           c == IF s.state = "closed" THEN s
                ELSE IF err THEN AppendState(n, "disconnected")
                ELSE AppendState(s, "ready")
<1>1. /\ connecting[r] \in {"prepare", "cut", "open"}
      /\ s' = Release([c EXCEPT !.opening = None])
      /\ UNCHANGED <<work, alive, disk, prompts, sent, hold>>
  BY DEF ConnectEnds
<1>2. PICK pc \in {"none", "close"} : connecting' = [connecting EXCEPT ![r] = pc]
  BY DEF ConnectEnds
<1>3. Kept(s, c)
  <2>1. Kept(s, n)
    BY Now, NoticeAppended
  <2> HIDE DEF n
  <2>2. Session(n)
    BY <2>1 DEF Kept
  <2>3. Kept(s, AppendState(n, "disconnected"))
    BY <2>1, <2>2, StateAppended, KeptTrans
  <2>4. Kept(s, AppendState(s, "ready"))
    BY Now, StateAppended
  <2>5. QED
    BY <2>3, <2>4, Now
<1> HIDE DEF c
<1>4. QED
  BY <1>1, <1>2, <1>3, ConnectionLeaves

---------------------------------------------------------------------------
(* Commits and restarts *)

LEMMA OwnEvents ==
  ASSUME NEW S, NEW q \in Seq(S) PROVE q \in Seq(Events(q))
<1>1. q \in [1..Len(q) -> S] /\ Len(q) \in Nat
  OBVIOUS
<1>2. \A i \in 1..Len(q) : q[i] \in Events(q)
  BY DEF Events
<1>3. q \in [1..Len(q) -> Events(q)]
  BY <1>1, <1>2
<1>4. QED
  BY <1>1, <1>3

LEMMA EventsLeft ==
  ASSUME NEW q, PendOK(q), NEW n \in 1..Len(q), NEW p, p = SubSeq(q, n + 1, Len(q))
  PROVE  PendOK(p) /\ \A i \in 1..Len(q) : i > n => q[i] \in Events(p)
<1>1. q \in Seq(Events(q)) /\ Len(q) \in Nat
  BY DEF PendOK
<1> DEFINE S == Events(q)
<1>2. \A i \in 1..Len(q) : q[i] \in S
  BY DEF Events
<1> HIDE DEF S
<1>3. /\ Len(p) = Len(q) - n
      /\ \A j \in 1..Len(p) : j + n \in 1..Len(q) /\ p[j] = q[j + n]
      /\ DOMAIN p = 1..Len(p) /\ p \in Seq(S)
  BY <1>1 DEF S
<1>4. \A i \in 1..Len(q) : i > n => i - n \in 1..Len(p) /\ p[i - n] = q[i]
  BY <1>1, <1>3
<1>5. \A i \in 1..Len(q) : i > n => q[i] \in Events(p)
  BY <1>4 DEF Events
<1>6. p \in Seq(Events(p))
  BY <1>3, OwnEvents
<1>7. \A e \in Events(p) : e \in Events(q)
  <2> SUFFICES ASSUME NEW j \in 1..Len(p) PROVE p[j] \in Events(q)
    BY DEF Events
  <2>1. QED
    BY <1>2, <1>3 DEF S
<1>8. QED
  BY <1>5, <1>6, <1>7 DEF PendOK

LEMMA EventRuntime ==
  ASSUME IInv, NEW n \in 1..Len(s.pend) PROVE s.pend[n].record.runtime \in Runtimes
<1>1. s.pend[n] \in Events(s.pend)
  BY DEF Events
<1>2. QED
  BY <1>1, Now DEF Session, PendOK, EventOK

(* A commit that failed: what was stored may only have grown.              *)
LEMMA JournalFails ==
  ASSUME IInv, NEW c, c = Stopped(s), s' = [c EXCEPT !.persist = TRUE],
         disk'.runtime \in Runtimes, prompts \subseteq prompts',
         UNCHANGED <<work, connecting, alive, sent, hold>>
  PROVE  IInv'
<1>1. Session(c) /\ c.failed /\ Alike(s, c) /\ c.pend = s.pend
  BY Now, SessionFails
<1>2. Shape(s')
  BY <1>1, Zenon DEF Session, Shape
<1>3. /\ s'.driver = c.driver /\ s'.closes = c.closes /\ s'.runtime = c.runtime
      /\ s'.current = c.current /\ s'.failed = c.failed /\ s'.pend = c.pend
  BY <1>1 DEF Session, Shape, Fields
<1>4. Session(s') /\ s'.failed /\ s'.current = s.current /\ Waiting(s') = Waiting(s)
  BY <1>1, <1>2, <1>3 DEF Session, Alike, Waiting
<1>5. TypeOK'
  BY <1>4 DEF IInv, TypeOK
<1>6. Working'
  BY <1>4 DEF IInv, Working
<1>7. SentOnce'
  BY DEF IInv, SentOnce
<1>8. Refused'
  <2> SUFFICES ASSUME NEW t \in Turns, work'[t].pc = "commit"
               PROVE  /\ t \in prompts' \/ t \in Waiting(s')
                      /\ sent'[t] > 0 => t \in Waiting(s')
    BY DEF Refused, Waiting
  <2>1. QED
    BY <1>4 DEF IInv, Refused
<1>9. Held' /\ Clients'
  BY <1>4 DEF Held, Holding, Clients
<1>10. QED
  BY <1>5, <1>6, <1>7, <1>8, <1>9 DEF IInv

LEMMA CommitFailsStep ==
  ASSUME IInv, NEW n \in 1..Len(s.pend), CommitFails(n) PROVE IInv'
<1>1. disk'.runtime \in Runtimes /\ prompts \subseteq prompts'
  BY EventRuntime DEF CommitFails, IInv, TypeOK
<1>2. QED
  BY <1>1, JournalFails DEF CommitFails

(* Storage refuses the key of a turn that was sent, so its event stays.    *)
LEMMA CommitStep ==
  ASSUME IInv, NEW n \in 1..Len(s.pend), Commit(n) PROVE IInv'
<1> DEFINE written == SubSeq(s.pend, 1, n)
           keys == {written[i].prompt : i \in 1..n} \ {NoTurn}
           p == SubSeq(s.pend, n + 1, Len(s.pend))
<1>1. UNCHANGED <<work, connecting, alive, sent, hold>>
  BY DEF Commit
<1>2. CASE keys \cap prompts # {}
  <2>1. s' = [Stopped(s) EXCEPT !.persist = TRUE] /\ UNCHANGED <<disk, prompts>>
    BY <1>2 DEF Commit
  <2>2. QED
    BY <1>1, <2>1, JournalFails DEF IInv, TypeOK
<1>3. CASE keys \cap prompts = {}
  <2>1. /\ disk' = s.pend[n].record /\ prompts' = prompts \cup keys
        /\ s' = [s EXCEPT !.pend = SubSeq(@, n + 1, Len(@))]
    BY <1>3 DEF Commit
  <2>2. \A i \in 1..Len(s.pend) : i <= n /\ s.pend[i].prompt # NoTurn
                                     => s.pend[i].prompt \in keys
    <3>1. s.pend \in Seq(Events(s.pend)) /\ Len(s.pend) \in Nat
      BY Now DEF Session, PendOK
    <3>2. \A i \in 1..n : written[i] = s.pend[i]
      BY <3>1
    <3>3. \A i \in 1..Len(s.pend) : i <= n => i \in 1..n
      BY <3>1
    <3> HIDE DEF written
    <3>4. QED
      BY <3>2, <3>3
  <2> HIDE DEF keys, written
  <2>3. Shape(s')
    BY <2>1, Now, Zenon DEF Session, Shape
  <2>4. Alike(s, s') /\ s'.failed = s.failed /\ s'.state = s.state /\ s'.pend = p
    BY <2>1, Now DEF Session, Shape, Fields, Alike
  <2>5. PendOK(p) /\ \A i \in 1..Len(s.pend) : i > n => s.pend[i] \in Events(p)
    <3>1. PendOK(s.pend)
      BY Now DEF Session
    <3> DEFINE q == s.pend
    <3>2. PendOK(q) /\ n \in 1..Len(q) /\ p = SubSeq(q, n + 1, Len(q))
      BY <3>1
    <3> HIDE DEF q, p
    <3>3. PendOK(p) /\ \A i \in 1..Len(q) : i > n => q[i] \in Events(p)
      BY <3>2, EventsLeft
    <3>4. QED
      BY <3>3 DEF q
  <2> HIDE DEF p
  <2>6. Session(s')
    BY <2>3, <2>4, <2>5, Now DEF Session, Alike
  <2>7. \A t \in Turns : t \in Waiting(s) => t \in Waiting(s') \/ t \in keys
    <3> SUFFICES ASSUME NEW t \in Turns, t \in Waiting(s), t \notin keys
                 PROVE  t \in Waiting(s')
      OBVIOUS
    <3>1. PICK i \in 1..Len(s.pend) : s.pend[i].prompt = t
      BY DEF Waiting, Events
    <3>2. t # NoTurn
      BY Now
    <3>3. ~(i <= n)
      BY <2>2, <3>1, <3>2
    <3>4. i > n
      BY <3>3
    <3>5. s.pend[i] \in Events(s'.pend)
      BY <2>4, <2>5, <3>4
    <3>6. QED
      BY <3>1, <3>5 DEF Waiting
  <2>8. TypeOK'
    BY <1>1, <2>1, <2>6, EventRuntime DEF IInv, TypeOK
  <2>9. Working'
    BY <1>1, <2>4 DEF IInv, Working, Alike
  <2>10. SentOnce'
    BY <1>1, <2>1 DEF IInv, SentOnce
  <2>11. Refused'
    <3> SUFFICES ASSUME NEW t \in Turns, work[t].pc = "commit"
                 PROVE  /\ t \in prompts' \/ t \in Waiting(s')
                        /\ sent[t] > 0 => t \in Waiting(s')
      BY <1>1 DEF Refused, Waiting
    <3>1. (t \in prompts \/ t \in Waiting(s)) /\ (sent[t] > 0 => t \in Waiting(s))
      BY DEF IInv, Refused
    <3>2. sent[t] > 0 => t \in prompts
      BY DEF IInv, SentOnce
    <3>3. QED
      BY <1>3, <2>1, <2>7, <3>1, <3>2
  <2>12. Held'
    BY <1>1, <2>4 DEF IInv, Held, Holding, Alike
  <2>13. Clients'
    BY <1>1, <2>4, ClientsKept DEF Alike
  <2>14. QED
    BY <2>8, <2>9, <2>10, <2>11, <2>12, <2>13 DEF IInv
<1>4. QED
  BY <1>2, <1>3

LEMMA FreshSession ==
  /\ Session(Fresh) /\ Waiting(Fresh) = {} /\ ~Fresh.failed
  /\ Fresh.driver = None /\ ~Fresh.closing /\ Fresh.closes = None
  /\ Fresh.current = NoTurn /\ Fresh.state = "starting" /\ Fresh.runtime = 1
<1>1. Shape(Fresh)
  BY DEF Fresh, Shape, Fields
<1>2. /\ Fresh.failed = FALSE /\ Fresh.persist = FALSE /\ Fresh.pend = <<>>
      /\ Fresh.driver = None /\ Fresh.closing = FALSE /\ Fresh.closes = None
      /\ Fresh.current = NoTurn /\ Fresh.state = "starting" /\ Fresh.runtime = 1
  BY DEF Fresh
<1>3. 1 \in Runtimes
  BY ConversationAssumption DEF Runtimes
<1>4. Session(Fresh) /\ Waiting(Fresh) = {}
  BY <1>1, <1>2, <1>3, NoEvents DEF Session, Waiting
<1>5. QED
  BY <1>2, <1>4

LEMMA RestartStep ==
  ASSUME IInv, Restart PROVE IInv'
<1>1. /\ s' = Restored(disk)
      /\ work' = [t \in Turns |-> NoWork]
      /\ connecting' = [r \in Runtimes |-> "none"]
      /\ alive' = {}
      /\ hold' = (hold /\ s'.items # <<>>)
      /\ UNCHANGED <<disk, prompts, sent>>
  BY DEF Restart
<1>2. Shape(s')
  BY <1>1, FreshSession, Zenon DEF Restored, Session, Shape
<1>3. /\ s'.failed = Fresh.failed /\ s'.persist = Fresh.persist /\ s'.pend = Fresh.pend
      /\ s'.driver = Fresh.driver /\ s'.closing = Fresh.closing
      /\ s'.closes = Fresh.closes /\ s'.runtime = disk.runtime
      /\ s'.paused = (disk.paused \/ s'.items # <<>>)
  BY <1>1, FreshSession DEF Restored, Session, Shape, Fields
<1>4. Session(s') /\ ~s'.failed
  BY <1>2, <1>3, FreshSession DEF IInv, TypeOK, Session
<1>5. \A t \in Turns : work'[t] \in Workers /\ work'[t].pc = "none"
  BY <1>1, NoWorkOK
<1>6. TypeOK'
  BY <1>1, <1>4, NoWorkOK DEF IInv, TypeOK
<1>7. Working' /\ Refused'
  BY <1>5 DEF Working, Refused
<1>8. SentOnce'
  BY <1>1 DEF IInv, SentOnce
<1>9. Held'
  BY <1>1, <1>3, Zenon DEF Held, Holding
<1>10. Clients'
  BY <1>1, <1>3, FreshSession DEF Clients, Published, Connecting
<1>11. QED
  BY <1>6, <1>7, <1>8, <1>9, <1>10 DEF IInv

---------------------------------------------------------------------------
(* The specification *)

LEMMA InitIInv == Init => IInv
<1> SUFFICES ASSUME Init PROVE IInv
  OBVIOUS
<1>1. /\ s = Fresh /\ work = [t \in Turns |-> NoWork]
      /\ connecting = [r \in Runtimes |-> IF r = 1 THEN "start" ELSE "none"]
      /\ alive = {} /\ disk = RecordOf(Fresh)
      /\ prompts = {} /\ sent = [t \in Turns |-> 0] /\ ~hold
  BY DEF Init
<1>2. \A t \in Turns : work[t].pc = "none"
  BY <1>1, NoWorkOK
<1>3. disk.runtime \in Runtimes
  BY <1>1, FreshSession DEF RecordOf, Session
<1>4. TypeOK
  BY <1>1, <1>3, FreshSession, NoWorkOK DEF TypeOK
<1>5. Working /\ Refused
  BY <1>2 DEF Working, Refused
<1>6. SentOnce
  BY <1>1 DEF SentOnce
<1>7. Held
  BY <1>1 DEF Held
<1>8. Published
  BY <1>1, FreshSession DEF Published
<1>9. Connecting
  BY <1>1, FreshSession DEF Connecting
<1>10. QED
  BY <1>4, <1>5, <1>6, <1>7, <1>8, <1>9 DEF IInv, Clients

LEMMA StutterStep ==
  ASSUME IInv, UNCHANGED vars PROVE IInv'
  BY DEF vars, IInv, TypeOK, Session, Working, SentOnce, Refused, Waiting, Held, Holding,
         Clients, Published, Connecting

LEMMA TurnStep ==
  ASSUME IInv, NEW t \in Turns, Turn(t) PROVE IInv'
  BY SendStep, SendFailsStep, PromptReturnsStep, TurnClosesStep, TurnDrainsStep DEF Turn

LEMMA ConnectStep ==
  ASSUME IInv, NEW r \in Runtimes, Connect(r) PROVE IInv'
  BY ReconnectWaitedStep, ConnectStartsStep, ConnectOpensStep, ConnectEndsStep,
     ConnectClosesStep DEF Connect

LEMMA OperateStep ==
  ASSUME IInv, Operate PROVE IInv'
<1>1. CASE \E t \in Turns : \/ Prompt(t) \/ Enqueue(t) \/ Remove(t) \/ Turn(t)
                            \/ \E status \in {"completed", "failed"}: TurnEnds(t, status)
  BY <1>1, PromptStep, EnqueueStep, RemoveStep, TurnStep, TurnEndsStep
<1>2. CASE Reorder \/ PauseQueue \/ ResumeQueue
  BY <1>2, ReorderStep, PauseQueueStep, ResumeQueueStep
<1>3. CASE Stop \/ StopRefused \/ StopAccepted
  BY <1>3, StopStep, StopRefusedStep, StopAcceptedStep
<1>4. CASE CloseSession \/ \E a \in BOOLEAN: Archive(a)
  BY <1>4, CloseSessionStep, ArchiveStep
<1>5. CASE Reconnect \/ \E r \in Runtimes: Connect(r) \/ ConnectTimesOut(r)
  BY <1>5, ReconnectStep, ConnectStep, ConnectTimesOutStep
<1>6. QED
  BY <1>1, <1>2, <1>3, <1>4, <1>5 DEF Operate

LEMMA NextIInv == IInv /\ [Next]_vars => IInv'
<1> SUFFICES ASSUME IInv, [Next]_vars PROVE IInv'
  OBVIOUS
<1>1. CASE Operate
  BY <1>1, OperateStep
<1>2. CASE \E t \in Turns: Look(t)
  BY <1>2, LookStep
<1>3. CASE \E n \in 1..Len(s.pend): Commit(n) \/ CommitFails(n)
  BY <1>3, CommitStep, CommitFailsStep
<1>4. CASE CloseFinishes \/ StopCloses \/ Restart
  BY <1>4, CloseFinishesStep, StopClosesStep, RestartStep
<1>5. CASE UNCHANGED vars
  BY <1>5, StutterStep
<1>6. QED
  BY <1>1, <1>2, <1>3, <1>4, <1>5 DEF Next

(* The invariant the theorems rest on holds in every reachable state.      *)
THEOREM Inductive == Spec => []IInv
  BY InitIInv, NextIInv, PTL DEF Spec

(* Over all retries, queue dispatches, failed or unknown commits and       *)
(* restarts a prompt reaches a native client at most once, and only after  *)
(* its user message was stored (startPromptLocked, runTurn).               *)
THEOREM SentCorrect == Spec => []SentOnce
<1>1. IInv => SentOnce
  BY DEF IInv
<1>2. QED
  BY <1>1, Inductive, PTL

(* A Stop holds the queue until an explicit resume, however the turn ends  *)
(* and whatever happens to the conversation and its host (Cancel, runTurn, *)
(* NewBroker).                                                             *)
THEOREM HoldCorrect == Spec => []StopHolds
<1>1. IInv => StopHolds
  BY DEF IInv, Held, Holding, StopHolds
<1>2. QED
  BY <1>1, Inductive, PTL

(* However close, archive, resume and restart overlap, one prompt is with  *)
(* a native client and, while the journal works, one native client runs    *)
(* (retireRuntimeLocked, Reconnect, connect).                              *)
THEOREM OneCorrect == Spec => []OneAtATime
<1>1. IInv => OneTurn
  BY DEF IInv, Working, OneTurn
<1>2. IInv => OneClient
  <2> SUFFICES ASSUME IInv, ~s.failed PROVE Cardinality(alive) <= 1
    BY DEF OneClient
  <2>1. Published
    BY DEF IInv, Clients
  <2> DEFINE x == IF s.closing THEN s.closes ELSE s.driver
  <2>2. alive \subseteq {x}
    BY <2>1, Now, NoneNotRuntime DEF Published
  <2> HIDE DEF x
  <2>3. IsFiniteSet({x}) /\ Cardinality({x}) = 1
    BY FS_Singleton
  <2>4. Cardinality(alive) <= Cardinality({x})
    BY <2>2, <2>3, FS_Subset
  <2>5. QED
    BY <2>3, <2>4
<1>3. IInv => OneAtATime
  BY <1>1, <1>2 DEF OneAtATime
<1>4. QED
  BY <1>3, Inductive, PTL

---------------------------------------------------------------------------
(* What is left of a queue *)

Elems(q) == {q[i] : i \in 1..Len(q)}

(* A set of numbers with 0 and the successor of each of its members.       *)
LEMMA AllNumbers ==
  ASSUME NEW Good, 0 \in Good, \A n \in Nat : n \in Good => n + 1 \in Good
  PROVE  \A n \in Nat : n \in Good
<1> DEFINE R == OpToRel(<, Nat)
           Bad == {n \in Nat : n \notin Good}
<1>1. SUFFICES ASSUME Bad # {} PROVE FALSE
  OBVIOUS
<1>2. IsWellFoundedOn(R, Nat)
  BY NatLessThanWellFounded
<1>3. \E n \in Bad : \A m \in Bad : ~ (<<m, n>> \in R)
  <2>1. Bad \subseteq Nat
    OBVIOUS
  <2> HIDE DEF R, Bad
  <2>2. QED
    BY <1>1, <1>2, <2>1, WFMin
<1>4. \A n, m \in Nat : <<m, n>> \in R <=> m < n
  BY DEF OpToRel
<1> HIDE DEF R
<1>5. PICK n \in Bad : \A m \in Bad : ~ (<<m, n>> \in R)
  BY <1>3
<1>6. n # 0 /\ n \in Nat /\ n - 1 \in Nat /\ n - 1 < n
  BY <1>5
<1>7. n - 1 \notin Bad
  BY <1>4, <1>5, <1>6, Zenon
<1>8. n - 1 \in Good
  BY <1>6, <1>7
<1>9. (n - 1) + 1 \in Good
  BY <1>6, <1>8, Zenon
<1>10. QED
  BY <1>5, <1>6, <1>9

(* A set of queues with the empty one and every longer one of its members. *)
LEMMA AllQueues ==
  ASSUME NEW Good, <<>> \in Good,
         \A q \in Seq(Turns) : \A x \in Turns : q \in Good => Append(q, x) \in Good
  PROVE  \A q \in Seq(Turns) : q \in Good
<1> DEFINE N == {n \in Nat : \A q \in Seq(Turns) : Len(q) = n => q \in Good}
<1>1. 0 \in N
  <2> SUFFICES ASSUME NEW q \in Seq(Turns), Len(q) = 0 PROVE q \in Good
    OBVIOUS
  <2>1. q = <<>>
    OBVIOUS
  <2>2. QED
    BY <2>1
<1>2. \A n \in Nat : n \in N => n + 1 \in N
  <2> SUFFICES ASSUME NEW n \in Nat, n \in N, NEW q \in Seq(Turns), Len(q) = n + 1
               PROVE  q \in Good
    OBVIOUS
  <2> DEFINE p == [i \in 1..n |-> q[i]]
             x == q[n + 1]
  <2>1. p \in Seq(Turns) /\ Len(p) = n /\ x \in Turns
    OBVIOUS
  <2>2. Append(p, x) = q
    <3>1. Append(p, x) \in Seq(Turns) /\ Len(Append(p, x)) = Len(q)
      BY <2>1
    <3>2. \A i \in 1..Len(q) : Append(p, x)[i] = q[i]
      BY <2>1
    <3> HIDE DEF p, x
    <3>3. QED
      BY <3>1, <3>2
  <2>3. p \in Good
    <3> HIDE DEF p
    <3>1. QED
      BY <2>1
  <2> HIDE DEF p, x
  <2>4. QED
    BY <2>1, <2>2, <2>3
<1> HIDE DEF N
<1>3. \A n \in Nat : n \in N
  BY <1>1, <1>2, AllNumbers
<1>4. QED
  BY <1>3 DEF N

(* The recursion of Left, as far as k.                                     *)
IsLeft(f, items, gone, k) ==
    f = [n \in 0..k |-> IF n = 0 THEN <<>>
                        ELSE IF items[n] \in gone THEN f[n - 1]
                        ELSE Append(f[n - 1], items[n])]

LEMMA LeftLonger ==
  ASSUME NEW items, NEW gone, NEW k \in Nat, NEW g, IsLeft(g, items, gone, k)
  PROVE  \E h : IsLeft(h, items, gone, k + 1)
<1> DEFINE h == [n \in 0..(k + 1) |->
                   IF n = k + 1 THEN IF items[n] \in gone THEN g[k] ELSE Append(g[k], items[n])
                   ELSE g[n]]
<1>1. h[k] = g[k]
  OBVIOUS
<1>2. \A n \in 0..(k + 1) :
        h[n] = IF n = 0 THEN <<>>
               ELSE IF items[n] \in gone THEN h[n - 1]
               ELSE Append(h[n - 1], items[n])
  <2> TAKE n \in 0..(k + 1)
  <2>1. CASE n = k + 1
    BY <1>1, <2>1
  <2>2. CASE n # k + 1
    <3>1. n \in 0..k /\ h[n] = g[n]
      BY <2>2
    <3>2. g[n] = IF n = 0 THEN <<>>
                 ELSE IF items[n] \in gone THEN g[n - 1]
                 ELSE Append(g[n - 1], items[n])
      BY <3>1, Zenon DEF IsLeft
    <3>3. n # 0 => h[n - 1] = g[n - 1]
      BY <3>1
    <3> HIDE DEF h
    <3>4. QED
      BY <3>1, <3>2, <3>3
  <2>3. QED
    BY <2>1, <2>2
<1>3. h = [n \in 0..(k + 1) |-> h[n]]
  OBVIOUS
<1> HIDE DEF h
<1>4. h = [n \in 0..(k + 1) |-> IF n = 0 THEN <<>>
                                ELSE IF items[n] \in gone THEN h[n - 1]
                                ELSE Append(h[n - 1], items[n])]
  BY <1>2, <1>3, Zenon
<1>5. QED
  BY <1>4, Zenon DEF IsLeft

LEMMA LeftExists ==
  ASSUME NEW items, NEW gone
  PROVE  \A k \in Nat : \E f : IsLeft(f, items, gone, k)
<1> DEFINE Good == {k \in Nat : \E f : IsLeft(f, items, gone, k)}
<1>1. 0 \in Good
  <2> DEFINE g == [n \in 0..0 |-> <<>>]
  <2>1. g = [n \in 0..0 |-> IF n = 0 THEN <<>>
                            ELSE IF items[n] \in gone THEN g[n - 1]
                            ELSE Append(g[n - 1], items[n])]
    <3>1. \A n \in 0..0 : n = 0
      OBVIOUS
    <3>2. QED
      BY <3>1, Zenon
  <2>2. IsLeft(g, items, gone, 0)
    BY <2>1, Zenon DEF IsLeft
  <2>3. QED
    BY <2>2, Zenon
<1>2. \A n \in Nat : n \in Good => n + 1 \in Good
  <2> SUFFICES ASSUME NEW n \in Nat, n \in Good PROVE n + 1 \in Good
    BY Zenon
  <2>1. PICK g : IsLeft(g, items, gone, n)
    BY Zenon
  <2>2. \E h : IsLeft(h, items, gone, n + 1)
    BY <2>1, LeftLonger
  <2>3. n + 1 \in Nat
    OBVIOUS
  <2>4. QED
    BY <2>2, <2>3, Zenon
<1>3. \A n \in Nat : n \in Good
  <2> HIDE DEF Good
  <2>1. QED
    BY <1>1, <1>2, AllNumbers
<1>4. QED
  BY <1>3, Zenon

Leaves(f, items, gone, k) ==
    /\ f[0] = <<>>
    /\ \A n \in 1..k : f[n] = IF items[n] \in gone THEN f[n - 1]
                              ELSE Append(f[n - 1], items[n])

LEMMA LeftValue ==
  ASSUME NEW items, NEW gone, Len(items) \in Nat
  PROVE  \E f : Left(items, gone) = f[Len(items)] /\ Leaves(f, items, gone, Len(items))
<1> DEFINE f == CHOOSE g : g = [n \in 0..Len(items) |->
                     IF n = 0 THEN <<>>
                     ELSE IF items[n] \in gone THEN g[n - 1]
                     ELSE Append(g[n - 1], items[n])]
<1>1. f = [n \in 0..Len(items) |-> IF n = 0 THEN <<>>
                                   ELSE IF items[n] \in gone THEN f[n - 1]
                                   ELSE Append(f[n - 1], items[n])]
  <2>1. \E g : IsLeft(g, items, gone, Len(items))
    BY LeftExists
  <2>2. QED
    BY <2>1, Zenon DEF IsLeft
<1>2. Left(items, gone) = f[Len(items)]
  BY Zenon DEF Left
<1> HIDE DEF f
<1>3. \A n \in 0..Len(items) :
         f[n] = IF n = 0 THEN <<>>
                ELSE IF items[n] \in gone THEN f[n - 1]
                ELSE Append(f[n - 1], items[n])
  BY <1>1, Zenon
<1>4. f[0] = <<>>
  BY <1>3
<1>5. \A n \in 1..Len(items) : n \in 0..Len(items) /\ n # 0
  OBVIOUS
<1>6. \A n \in 1..Len(items) :
         f[n] = IF items[n] \in gone THEN f[n - 1] ELSE Append(f[n - 1], items[n])
  BY <1>3, <1>5, Zenon
<1>7. QED
  BY <1>2, <1>4, <1>6, Zenon DEF Leaves

LEMMA LeftEmpty == ASSUME NEW gone PROVE Left(<<>>, gone) = <<>>
<1>1. Len(<<>>) = 0
  OBVIOUS
<1>2. QED
  BY <1>1, LeftValue DEF Leaves

LEMMA LeftAppend ==
  ASSUME NEW q \in Seq(Turns), NEW x \in Turns, NEW gone
  PROVE  Left(Append(q, x), gone) = IF x \in gone THEN Left(q, gone)
                                    ELSE Append(Left(q, gone), x)
<1> DEFINE p == Append(q, x)
           k == Len(q)
<1>1. /\ k \in Nat /\ Len(p) = k + 1 /\ p[k + 1] = x
      /\ \A i \in 1..k : p[i] = q[i]
  OBVIOUS
<1> HIDE DEF p, k
<1>2. PICK f : Left(q, gone) = f[k] /\ Leaves(f, q, gone, k)
  BY <1>1, LeftValue DEF k
<1>3. PICK g : Left(p, gone) = g[k + 1] /\ Leaves(g, p, gone, k + 1)
  BY <1>1, LeftValue
<1> DEFINE Good == {n \in Nat : n <= k => f[n] = g[n]}
<1>4. 0 \in Good
  BY <1>2, <1>3 DEF Leaves
<1>5. \A n \in Nat : n \in Good => n + 1 \in Good
  <2> SUFFICES ASSUME NEW n \in Nat, n <= k => f[n] = g[n], n + 1 <= k
               PROVE  f[n + 1] = g[n + 1]
    OBVIOUS
  <2>1. n + 1 \in 1..k /\ n + 1 \in 1..(k + 1) /\ (n + 1) - 1 = n /\ f[n] = g[n]
    BY <1>1
  <2>2. p[n + 1] = q[n + 1]
    BY <1>1, <2>1, Zenon
  <2>3. f[n + 1] = IF q[n + 1] \in gone THEN f[n] ELSE Append(f[n], q[n + 1])
    BY <1>2, <2>1, Zenon DEF Leaves
  <2>4. g[n + 1] = IF p[n + 1] \in gone THEN g[n] ELSE Append(g[n], p[n + 1])
    BY <1>3, <2>1, Zenon DEF Leaves
  <2>5. QED
    BY <2>1, <2>2, <2>3, <2>4, Zenon
<1>6. f[k] = g[k]
  <2>1. \A n \in Nat : n \in Good
    <3> HIDE DEF Good
    <3>1. QED
      BY <1>4, <1>5, AllNumbers
  <2>2. QED
    BY <1>1, <2>1
<1>7. k + 1 \in 1..(k + 1) /\ (k + 1) - 1 = k
  BY <1>1
<1>8. g[k + 1] = IF x \in gone THEN g[k] ELSE Append(g[k], x)
  BY <1>1, <1>3, <1>7, Zenon DEF Leaves
<1>9. QED
  BY <1>2, <1>3, <1>6, <1>8, Zenon DEF p

LEMMA ElemsAppend ==
  ASSUME NEW q \in Seq(Turns), NEW x \in Turns
  PROVE  Elems(Append(q, x)) = Elems(q) \cup {x}
<1>1. /\ Len(Append(q, x)) = Len(q) + 1 /\ Len(q) \in Nat
      /\ Append(q, x)[Len(q) + 1] = x
      /\ \A i \in 1..Len(q) : Append(q, x)[i] = q[i]
  OBVIOUS
<1>2. \A y \in Elems(Append(q, x)) : y \in Elems(q) \cup {x}
  BY <1>1 DEF Elems
<1>3. \A y \in Elems(q) : y \in Elems(Append(q, x))
  BY <1>1 DEF Elems
<1>4. x \in Elems(Append(q, x))
  BY <1>1 DEF Elems
<1>5. QED
  BY <1>2, <1>3, <1>4

(* What is left is what was there and is not gone; nothing is gone from    *)
(* it twice.                                                               *)
LEMMA LeftFacts ==
  ASSUME NEW U, NEW V
  PROVE  \A q \in Seq(Turns) :
           /\ Left(q, U) \in Seq(Turns)
           /\ Elems(Left(q, U)) = Elems(q) \ U
           /\ Elems(q) \cap U = {} => Left(q, U) = q
           /\ Left(Left(q, U), V) = Left(q, U \cup V)
<1> DEFINE OK(q) == /\ Left(q, U) \in Seq(Turns)
                    /\ Elems(Left(q, U)) = Elems(q) \ U
                    /\ Elems(q) \cap U = {} => Left(q, U) = q
                    /\ Left(Left(q, U), V) = Left(q, U \cup V)
           Good == {q \in Seq(Turns) : OK(q)}
<1>1. <<>> \in Good
  <2>1. <<>> \in Seq(Turns) /\ Elems(<<>>) = {}
    BY DEF Elems
  <2>2. QED
    BY <2>1, LeftEmpty
<1>2. \A q \in Seq(Turns) : \A x \in Turns : q \in Good => Append(q, x) \in Good
  <2> SUFFICES ASSUME NEW q \in Seq(Turns), NEW x \in Turns, OK(q)
               PROVE  Append(q, x) \in Seq(Turns) /\ OK(Append(q, x))
    OBVIOUS
  <2> DEFINE p == Append(q, x)
  <2>1. p \in Seq(Turns) /\ Elems(p) = Elems(q) \cup {x}
    BY ElemsAppend
  <2>2. /\ Left(p, U) = IF x \in U THEN Left(q, U) ELSE Append(Left(q, U), x)
        /\ Left(p, U \cup V) = IF x \in U \cup V THEN Left(q, U \cup V)
                               ELSE Append(Left(q, U \cup V), x)
    BY LeftAppend
  <2>3. Left(p, U) \in Seq(Turns) /\ Elems(Left(p, U)) = Elems(p) \ U
    <3>1. CASE x \in U
      BY <2>1, <2>2, <3>1
    <3>2. CASE x \notin U
      <4>1. /\ Append(Left(q, U), x) \in Seq(Turns)
            /\ Elems(Append(Left(q, U), x)) = Elems(Left(q, U)) \cup {x}
        BY ElemsAppend
      <4>2. Left(p, U) = Append(Left(q, U), x)
        BY <2>2, <3>2
      <4> HIDE DEF p
      <4>3. QED
        BY <2>1, <3>2, <4>1, <4>2
    <3>3. QED
      BY <3>1, <3>2
  <2>4. Elems(p) \cap U = {} => Left(p, U) = p
    <3> SUFFICES ASSUME Elems(p) \cap U = {} PROVE Left(p, U) = p
      OBVIOUS
    <3>1. x \notin U /\ Elems(q) \cap U = {}
      BY <2>1
    <3>2. QED
      BY <2>2, <3>1
  <2>5. Left(Left(p, U), V) = Left(p, U \cup V)
    <3>1. CASE x \in U
      BY <2>2, <3>1
    <3>2. CASE x \notin U
      <4>1. Left(Append(Left(q, U), x), V) = IF x \in V THEN Left(Left(q, U), V)
                                             ELSE Append(Left(Left(q, U), V), x)
        BY LeftAppend
      <4>2. QED
        BY <2>2, <3>2, <4>1
    <3>3. QED
      BY <3>1, <3>2
  <2>6. QED
    BY <2>1, <2>3, <2>4, <2>5
<1>3. \A q \in Seq(Turns) : q \in Good
  <2> HIDE DEF Good
  <2>1. QED
    BY <1>1, <1>2, AllQueues
<1>4. QED
  BY <1>3

---------------------------------------------------------------------------
(* What the journal still owes *)

Acked(q, n) == {q[i].ack : i \in 1..n}
Named(q, n) == {q[i].prompt : i \in 1..n}

(* Every prompt of K is stored in P or in this queue.                      *)
Promised(items, K, P) == \A t \in K \ {NoTurn} : t \in P \/ t \in Elems(items)

RecordOK(d) == d.queued \in Seq(Turns) /\ d.count = Len(Left(d.queued, d.submitted))

(* A crash after the first i uncommitted events leaves a queue that can be *)
(* restored and holds every prompt that was acknowledged by then.          *)
Restorable(q, i, K, P) ==
    /\ RecordOK(q[i].record)
    /\ Promised(Left(q[i].record.queued, q[i].record.submitted),
                K \cup Acked(q, i), P \cup Named(q, i))

(* The prompts in K were acknowledged and those in P are stored.           *)
Ledger(c, K, P) ==
    /\ c.items \in Seq(Turns) /\ c.queued \in Seq(Turns)
    /\ c.items = Left(c.queued, c.submitted)
    /\ \A i \in 1..Len(c.pend) : Restorable(c.pend, i, K, P)
    /\ Promised(c.items, K \cup Acked(c.pend, Len(c.pend)), P \cup Named(c.pend, Len(c.pend)))

LEMMA PromisedLess ==
  ASSUME NEW items, NEW K, NEW P, Promised(items, K, P),
         NEW L, NEW Q, L \ {NoTurn} \subseteq K, P \ {NoTurn} \subseteq Q
  PROVE  Promised(items, L, Q)
  BY DEF Promised

LEMMA LedgerSame ==
  ASSUME NEW c, NEW K, NEW P, Ledger(c, K, P),
         NEW d, d.pend = c.pend, d.items = c.items, d.queued = c.queued,
         d.submitted = c.submitted
  PROVE  Ledger(d, K, P)
  BY DEF Ledger

LEMMA LedgerFails ==
  ASSUME NEW c, Session(c), NEW K, NEW P, Ledger(c, K, P)
  PROVE  Ledger(Stopped(c), K, P)
<1> DEFINE d == Stopped(c)
<1>1. /\ d.pend = c.pend /\ d.items = c.items /\ d.queued = c.queued
      /\ d.submitted = c.submitted
  BY DEF Session, Shape, Stopped, Fields
<1> HIDE DEF d
<1>2. Ledger(d, K, P)
  BY <1>1, LedgerSame
<1>3. QED
  BY <1>2 DEF d

(* The events so far are the same after an append.                         *)
OneMore(p, q, e) ==
    /\ Len(p) = Len(q) + 1 /\ p[Len(q) + 1] = e
    /\ \A i \in 1..Len(q) : p[i] = q[i] /\ Acked(p, i) = Acked(q, i)
                            /\ Named(p, i) = Named(q, i)
    /\ Acked(p, Len(q) + 1) = Acked(q, Len(q)) \cup {e.ack}
    /\ Named(p, Len(q) + 1) = Named(q, Len(q)) \cup {e.prompt}

LEMMA PrefixSame ==
  ASSUME NEW S, NEW q, q \in Seq(S), NEW e, e \in S, NEW p, p = Append(q, e)
  PROVE  OneMore(p, q, e)
<1> DEFINE n == Len(q)
<1>1. /\ Len(p) = n + 1 /\ p[n + 1] = e
      /\ \A i \in 1..n : p[i] = q[i]
  OBVIOUS
<1>2. \A i \in 1..n : Acked(p, i) = Acked(q, i) /\ Named(p, i) = Named(q, i)
  <2> SUFFICES ASSUME NEW i \in 1..n
               PROVE  Acked(p, i) = Acked(q, i) /\ Named(p, i) = Named(q, i)
    OBVIOUS
  <2>1. \A j \in 1..i : p[j] = q[j]
    BY <1>1
  <2>2. QED
    BY <2>1 DEF Acked, Named
<1>3. n \in Nat
  OBVIOUS
<1> HIDE DEF n
<1>4. \A j \in 1..(n + 1) : j = n + 1 \/ j \in 1..n
  BY <1>3
<1>5. 1..n \subseteq 1..(n + 1) /\ n + 1 \in 1..(n + 1)
  BY <1>3
<1>6. Acked(p, n + 1) = Acked(q, n) \cup {e.ack}
  BY <1>1, <1>4, <1>5 DEF Acked
<1>7. Named(p, n + 1) = Named(q, n) \cup {e.prompt}
  BY <1>1, <1>4, <1>5 DEF Named
<1>8. QED
  BY <1>1, <1>2, <1>6, <1>7 DEF n, OneMore

LEMMA LedgerAppends ==
  ASSUME NEW c, Session(c), NEW K, NEW P, Ledger(c, K, P),
         NEW a, Session(a), a.pend = c.pend,
         a.items \in Seq(Turns), a.queued \in Seq(Turns),
         a.items = Left(a.queued, a.submitted),
         NEW prompt, NEW ack, NEW reserved,
         Promised(a.items, K \cup Acked(c.pend, Len(c.pend)) \cup {ack},
                  P \cup Named(c.pend, Len(c.pend)) \cup {prompt})
  PROVE  Ledger(Appended(c, a, prompt, ack, reserved), K, P)
<1> DEFINE n == [a EXCEPT !.seq = @ + 1]
           e == [record |-> RecordOf(n), prompt |-> prompt, ack |-> ack]
           d == [n EXCEPT !.pend = Append(@, e)]
           q == c.pend
           p == Append(q, e)
<1>1. Shape(n)
  BY Zenon DEF Session, Shape
<1>2. /\ n.items = a.items /\ n.queued = a.queued /\ n.submitted = a.submitted
      /\ n.pend = c.pend
  BY DEF Session, Shape, Fields
<1> HIDE DEF n
<1>3. /\ RecordOf(n).queued = a.queued /\ RecordOf(n).submitted = a.submitted
      /\ RecordOf(n).count = Len(a.items)
  BY <1>2 DEF RecordOf
<1>4. /\ e.record.queued = a.queued /\ e.record.submitted = a.submitted
      /\ RecordOK(e.record) /\ e.prompt = prompt /\ e.ack = ack
  BY <1>3 DEF RecordOK
<1> HIDE DEF e
<1>5. /\ d.items = a.items /\ d.queued = a.queued /\ d.submitted = a.submitted
      /\ d.pend = p
  BY <1>1, <1>2 DEF Shape, Fields
<1> HIDE DEF d
<1>6. Len(q) \in Nat /\ q \in Seq(Events(q) \cup {e})
  <2>1. q \in Seq(Events(q)) /\ Events(q) \subseteq Events(q) \cup {e}
    BY DEF Session, PendOK
  <2>2. QED
    BY <2>1
<1>7. /\ Len(p) = Len(q) + 1 /\ p[Len(q) + 1] = e
      /\ \A i \in 1..Len(q) : p[i] = q[i] /\ Acked(p, i) = Acked(q, i)
                              /\ Named(p, i) = Named(q, i)
      /\ Acked(p, Len(q) + 1) = Acked(q, Len(q)) \cup {e.ack}
      /\ Named(p, Len(q) + 1) = Named(q, Len(q)) \cup {e.prompt}
  <2> SUFFICES OneMore(p, q, e)
    BY DEF OneMore
  <2> DEFINE S == Events(q) \cup {e}
  <2>1. e \in S /\ Len(q) \in Nat /\ q \in Seq(S)
    BY <1>6
  <2>2. p = Append(q, e)
    OBVIOUS
  <2> HIDE DEF S, q, p
  <2>3. QED
    BY <2>1, <2>2, PrefixSame
<1> HIDE DEF p
<1>8. \A i \in 1..Len(q) : Restorable(q, i, K, P)
  BY DEF Ledger
<1> HIDE DEF q
<1>9. \A i \in 1..Len(q) : Restorable(p, i, K, P)
  BY <1>7, <1>8 DEF Restorable
<1>10. Promised(a.items, K \cup Acked(p, Len(q) + 1), P \cup Named(p, Len(q) + 1))
  <2>1. Promised(a.items, K \cup Acked(q, Len(q)) \cup {ack}, P \cup Named(q, Len(q)) \cup {prompt})
    BY DEF q
  <2>2. /\ K \cup Acked(p, Len(q) + 1) = K \cup Acked(q, Len(q)) \cup {ack}
        /\ P \cup Named(p, Len(q) + 1) = P \cup Named(q, Len(q)) \cup {prompt}
    BY <1>4, <1>7
  <2>3. QED
    BY <2>1, <2>2
<1>11. Restorable(p, Len(q) + 1, K, P)
  BY <1>4, <1>7, <1>10 DEF Restorable
<1>12. \A i \in 1..Len(p) : Restorable(p, i, K, P)
  BY <1>6, <1>7, <1>9, <1>11
<1>13. Ledger(d, K, P)
  BY <1>5, <1>7, <1>10, <1>12 DEF Ledger
<1>14. Ledger(Stopped(c), K, P)
  BY LedgerFails
<1>15. Appended(c, a, prompt, ack, reserved) \in {c, Stopped(c), d}
  BY DEF Appended, d, e, n
<1>16. QED
  BY <1>13, <1>14, <1>15

(* An event about something else than the queue.                           *)
LEMMA LedgerQuiet ==
  ASSUME NEW c, Session(c), NEW K, NEW P, Ledger(c, K, P),
         NEW a, Session(a), a.pend = c.pend, a.items = c.items, a.queued = c.queued,
         a.submitted = c.submitted
  PROVE  Ledger(Appended(c, a, NoTurn, NoTurn, 0), K, P)
<1> DEFINE A == Acked(c.pend, Len(c.pend))
           M == Named(c.pend, Len(c.pend))
<1>1. Promised(a.items, K \cup A, P \cup M)
  BY DEF Ledger
<1>2. a.items \in Seq(Turns) /\ a.queued \in Seq(Turns) /\ a.items = Left(a.queued, a.submitted)
  BY DEF Ledger
<1> HIDE DEF A, M
<1>3. Promised(a.items, K \cup A \cup {NoTurn}, P \cup M \cup {NoTurn})
  <2>1. /\ (K \cup A \cup {NoTurn}) \ {NoTurn} \subseteq K \cup A
        /\ (P \cup M) \ {NoTurn} \subseteq P \cup M \cup {NoTurn}
    OBVIOUS
  <2>2. QED
    BY <1>1, <2>1, PromisedLess
<1>4. QED
  BY <1>2, <1>3, LedgerAppends DEF A, M

LEMMA LedgerState ==
  ASSUME NEW c, Session(c), NEW K, NEW P, Ledger(c, K, P), NEW state
  PROVE  Ledger(AppendState(c, state), K, P)
<1> DEFINE a == [c EXCEPT !.state = state]
<1>1. Shape(a)
  BY Zenon DEF Session, Shape
<1>2. /\ Alike(c, a) /\ a.failed = c.failed /\ a.pend = c.pend
      /\ a.queued = c.queued /\ a.submitted = c.submitted
  BY DEF Session, Shape, Fields, Alike
<1>3. AppendState(c, state) = Appended(c, a, NoTurn, NoTurn, 0)
  BY DEF AppendState
<1> HIDE DEF a
<1>4. Session(a)
  BY <1>1, <1>2 DEF Session, Alike
<1>5. Ledger(Appended(c, a, NoTurn, NoTurn, 0), K, P)
  BY <1>2, <1>4, LedgerQuiet DEF Alike
<1>6. QED
  BY <1>3, <1>5

LEMMA LedgerTurnEnd ==
  ASSUME NEW c, Session(c), NEW K, NEW P, Ledger(c, K, P), NEW status
  PROVE  Ledger(AppendTurnEnd(c, status), K, P)
<1> DEFINE a == [c EXCEPT !.last = status]
<1>1. Shape(a)
  BY Zenon DEF Session, Shape
<1>2. /\ Alike(c, a) /\ a.failed = c.failed /\ a.pend = c.pend
      /\ a.queued = c.queued /\ a.submitted = c.submitted
  BY DEF Session, Shape, Fields, Alike
<1>3. AppendTurnEnd(c, status) = Appended(c, a, NoTurn, NoTurn, 0)
  BY DEF AppendTurnEnd
<1> HIDE DEF a
<1>4. Session(a)
  BY <1>1, <1>2 DEF Session, Alike
<1>5. Ledger(Appended(c, a, NoTurn, NoTurn, 0), K, P)
  BY <1>2, <1>4, LedgerQuiet DEF Alike
<1>6. QED
  BY <1>3, <1>5

LEMMA LedgerNotice ==
  ASSUME NEW c, Session(c), NEW K, NEW P, Ledger(c, K, P)
  PROVE  Ledger(AppendNotice(c), K, P)
  BY LedgerQuiet DEF AppendNotice

(* The queue that is written has to hold what was promised.                *)
LEMMA LedgerQueue ==
  ASSUME NEW c, Session(c), NEW K, NEW P, Ledger(c, K, P),
         NEW items \in Seq(Turns), NEW paused, NEW ack,
         ack = NoTurn \/ ack \in Elems(items),
         \A t \in Elems(c.items) : \/ t \in Elems(items)
                                  \/ t \notin K \cup Acked(c.pend, Len(c.pend))
  PROVE  Ledger(AppendQueue(c, items, paused, ack), K, P)
<1> DEFINE a == [c EXCEPT !.items = items, !.paused = paused, !.queued = items,
                          !.submitted = {}]
           A == Acked(c.pend, Len(c.pend))
           M == Named(c.pend, Len(c.pend))
<1>1. Shape(a)
  BY Zenon DEF Session, Shape
<1>2. /\ Near(c, a) /\ a.failed = c.failed /\ a.pend = c.pend
      /\ a.items = items /\ a.queued = items /\ a.submitted = {}
  BY DEF Session, Shape, Fields, Near
<1>3. AppendQueue(c, items, paused, ack) = Appended(c, a, NoTurn, ack, 0)
  BY DEF AppendQueue
<1> HIDE DEF a
<1>4. Session(a)
  BY <1>1, <1>2 DEF Session, Near
<1>5. items = Left(items, {})
  BY LeftFacts
<1>6. /\ Promised(c.items, K \cup A, P \cup M)
      /\ \A t \in Elems(c.items) : t \in Elems(items) \/ t \notin K \cup A
  BY DEF Ledger
<1> HIDE DEF A, M
<1>7. Promised(items, K \cup A \cup {ack}, P \cup M \cup {NoTurn})
  BY <1>6 DEF Promised
<1>8. Ledger(Appended(c, a, NoTurn, ack, 0), K, P)
  BY <1>2, <1>4, <1>5, <1>7, LedgerAppends DEF A, M
<1>9. QED
  BY <1>3, <1>8

LEMMA LeftOne ==
  ASSUME NEW t, NEW q \in Seq(Turns), NEW U
  PROVE  /\ Left(q, {t}) \in Seq(Turns) /\ Elems(Left(q, {t})) = Elems(q) \ {t}
         /\ t \notin Elems(q) => Left(q, {t}) = q
         /\ Left(Left(q, U), {t}) = Left(q, U \cup {t})
<1> DEFINE T == {t}
<1>1. t \notin Elems(q) => Elems(q) \cap T = {}
  OBVIOUS
<1>2. /\ Left(q, T) \in Seq(Turns) /\ Elems(Left(q, T)) = Elems(q) \ T
      /\ t \notin Elems(q) => Left(q, T) = q
      /\ Left(Left(q, U), T) = Left(q, U \cup T)
  <2> HIDE DEF T
  <2>1. QED
    BY <1>1, LeftFacts
<1>3. QED
  BY <1>2

(* The user message stores the prompt that leaves the queue.               *)
LEMMA LedgerUser ==
  ASSUME NEW c, Session(c), NEW K, NEW P, Ledger(c, K, P), NEW t
  PROVE  Ledger(AppendUser(c, t), K, P)
<1> DEFINE gone == {x \in {t} : InQueue(c, t)}
           a == [c EXCEPT !.items = Left(@, {t}), !.submitted = @ \cup gone]
           A == Acked(c.pend, Len(c.pend))
           M == Named(c.pend, Len(c.pend))
<1>1. Shape(a)
  BY Zenon DEF Session, Shape
<1>2. /\ Near(c, a) /\ a.failed = c.failed /\ a.pend = c.pend
      /\ a.items = Left(c.items, {t}) /\ a.queued = c.queued
      /\ a.submitted = c.submitted \cup gone
  BY DEF Session, Shape, Fields, Near
<1>3. AppendUser(c, t) = Appended(c, a, t, NoTurn, 1)
  BY DEF AppendUser
<1> HIDE DEF a
<1>4. Session(a)
  BY <1>1, <1>2 DEF Session, Near
<1>5. InQueue(c, t) <=> t \in Elems(c.items)
  BY DEF InQueue, Elems
<1>6. /\ c.items \in Seq(Turns) /\ c.queued \in Seq(Turns)
      /\ c.items = Left(c.queued, c.submitted)
  BY DEF Ledger
<1>7. /\ a.items \in Seq(Turns) /\ Elems(a.items) = Elems(c.items) \ {t}
      /\ t \notin Elems(c.items) => a.items = c.items
  <2>1. a.items = Left(c.items, {t})
    BY <1>2
  <2>2. c.items \in Seq(Turns)
    BY <1>6
  <2>3. /\ Left(c.items, {t}) \in Seq(Turns)
        /\ Elems(Left(c.items, {t})) = Elems(c.items) \ {t}
        /\ t \notin Elems(c.items) => Left(c.items, {t}) = c.items
    BY <2>2, LeftOne
  <2>4. QED
    BY <2>1, <2>3
<1>8. a.items = Left(a.queued, a.submitted)
  <2>1. CASE t \in Elems(c.items)
    <3>1. gone = {t}
      BY <1>5, <2>1
    <3>2. Left(Left(c.queued, c.submitted), {t}) = Left(c.queued, c.submitted \cup {t})
      BY <1>6, LeftOne
    <3> HIDE DEF gone
    <3>3. QED
      BY <1>2, <1>6, <3>1, <3>2
  <2>2. CASE t \notin Elems(c.items)
    <3>1. c.submitted \cup gone = c.submitted
      BY <1>5, <2>2
    <3> HIDE DEF gone
    <3>2. QED
      BY <1>2, <1>6, <1>7, <2>2, <3>1
  <2>3. QED
    BY <2>1, <2>2
<1>9. Promised(c.items, K \cup A, P \cup M)
  BY DEF Ledger
<1> HIDE DEF A, M, gone
<1>10. Promised(a.items, K \cup A \cup {NoTurn}, P \cup M \cup {t})
  BY <1>7, <1>9 DEF Promised
<1>11. a.queued \in Seq(Turns)
  BY <1>2, <1>6
<1>12. Ledger(Appended(c, a, t, NoTurn, 1), K, P)
  BY <1>2, <1>4, <1>7, <1>8, <1>10, <1>11, LedgerAppends DEF A, M
<1>13. QED
  BY <1>3, <1>12

LEMMA LedgerPause ==
  ASSUME NEW c, Session(c), NEW K, NEW P, Ledger(c, K, P)
  PROVE  Ledger(Pause(c), K, P)
<1>1. Ledger(AppendQueue(c, c.items, TRUE, NoTurn), K, P)
  <2>1. PICK yes : yes = TRUE
    OBVIOUS
  <2>2. Ledger(AppendQueue(c, c.items, yes, NoTurn), K, P)
    BY LedgerQueue DEF Ledger
  <2>3. QED
    BY <2>1, <2>2, Zenon
<1>2. Pause(c) = AppendQueue(c, c.items, TRUE, NoTurn) \/ Pause(c) = c
  BY Zenon DEF Pause
<1>3. QED
  BY <1>1, <1>2, Zenon

LEMMA LedgerRelease ==
  ASSUME NEW c, Session(c), NEW K, NEW P, Ledger(c, K, P)
  PROVE  Ledger(Release(c), K, P)
<1> DEFINE a == [c EXCEPT !.turns = {}]
<1>1. /\ a.pend = c.pend /\ a.items = c.items /\ a.queued = c.queued
      /\ a.submitted = c.submitted
  BY DEF Session, Shape, Fields
<1>2. Release(c) \in {a, c}
  BY DEF Release
<1> HIDE DEF a
<1>3. Ledger(a, K, P)
  BY <1>1, LedgerSame
<1>4. QED
  BY <1>2, <1>3

LEMMA LedgerStart ==
  ASSUME NEW c, Session(c), NEW K, NEW P, Ledger(c, K, P), NEW t
  PROVE  Ledger(StartPrompt(c, t), K, P)
<1> DEFINE b == [c EXCEPT !.current = t, !.ended = FALSE, !.last = ""]
           u == AppendUser(b, t)
           v == [u EXCEPT !.current = NoTurn]
           w == [u EXCEPT !.turns = @ \cup {t}]
<1>1. Shape(b)
  BY Zenon DEF Session, Shape
<1>2. /\ Near(c, b) /\ b.failed = c.failed /\ b.pend = c.pend
      /\ b.items = c.items /\ b.queued = c.queued /\ b.submitted = c.submitted
  BY DEF Session, Shape, Fields, Near
<1>3. StartPrompt(c, t) \in {c, v, AppendState(w, "running")}
  BY DEF StartPrompt
<1>4. CASE c.failed
  BY <1>4 DEF StartPrompt
<1>5. CASE ~c.failed
  <2> HIDE DEF b
  <2>1. Session(b) /\ ~b.failed /\ Ledger(b, K, P)
    BY <1>1, <1>2, <1>5, LedgerSame DEF Session, Near
  <2>2. Session(u) /\ Ledger(u, K, P)
    BY <2>1, LedgerUser, UserAppended DEF Follows
  <2> HIDE DEF u
  <2>3. /\ v.pend = u.pend /\ v.items = u.items /\ v.queued = u.queued
        /\ v.submitted = u.submitted
    BY <2>2 DEF Session, Shape, Fields
  <2>4. Shape(w)
    BY <2>2, Zenon DEF Session, Shape
  <2>5. /\ Near(u, w) /\ w.failed = u.failed /\ w.pend = u.pend
        /\ w.items = u.items /\ w.queued = u.queued /\ w.submitted = u.submitted
    BY <2>2 DEF Session, Shape, Fields, Near
  <2> HIDE DEF v, w
  <2>6. Ledger(v, K, P)
    BY <2>2, <2>3, LedgerSame
  <2>7. Session(w) /\ Ledger(w, K, P)
    BY <2>2, <2>4, <2>5, LedgerSame DEF Session, Near
  <2>8. Ledger(AppendState(w, "running"), K, P)
    BY <2>7, LedgerState
  <2>9. QED
    BY <1>3, <2>6, <2>8
<1>6. QED
  BY <1>4, <1>5

LEMMA LedgerDrain ==
  ASSUME NEW c, Session(c), NEW K, NEW P, Ledger(c, K, P)
  PROVE  Ledger(Drain(c), K, P)
<1> DEFINE u == StartPrompt(c, Head(c.items))
<1>1. Drain(c) \in {c, Pause(u), AppendQueue(u, u.items, u.paused, NoTurn)}
  BY DEF Drain
<1>2. Ledger(u, K, P)
  BY LedgerStart
<1>3. Session(u)
  <2>1. CASE c.failed
    BY <2>1 DEF StartPrompt
  <2>2. CASE ~c.failed
    BY <2>2, PromptStarted DEF Follows
  <2>3. QED
    BY <2>1, <2>2
<1> HIDE DEF u
<1>4. Ledger(Pause(u), K, P)
  BY <1>2, <1>3, LedgerPause
<1>5. u.items \in Seq(Turns)
  BY <1>2 DEF Ledger
<1>6. Ledger(AppendQueue(u, u.items, u.paused, NoTurn), K, P)
  BY <1>2, <1>3, <1>5, LedgerQueue
<1>7. QED
  BY <1>1, <1>4, <1>6

LEMMA LedgerFinish ==
  ASSUME NEW c, Session(c), NEW K, NEW P, Ledger(c, K, P), NEW t, NEW err
  PROVE  Ledger(FinishTurn(c, t, err), K, P)
<1> DEFINE lost == err \/ ~c.ended
           u == IF c.ended THEN c ELSE AppendTurnEnd(c, "unknown")
           a == IF err THEN AppendNotice(u) ELSE u
           b == IF lost \/ a.last # "completed" \/ a.stopped = t THEN Pause(a) ELSE a
           g == [b EXCEPT !.current = NoTurn, !.stopped = NoTurn]
           e == IF g.state = "closed" THEN g
                ELSE AppendState(g, IF lost THEN "disconnected" ELSE "ready")
<1>1. FinishTurn(c, t, err) = Release(e)
  BY DEF FinishTurn
<1>2. Session(u) /\ Ledger(u, K, P)
  BY KeptSame, TurnEndAppended, LedgerTurnEnd DEF Kept
<1> HIDE DEF u
<1>3. Session(a) /\ Ledger(a, K, P)
  BY <1>2, KeptSame, NoticeAppended, LedgerNotice DEF Kept
<1> HIDE DEF a
<1>4. Session(b) /\ Ledger(b, K, P)
  BY <1>3, Paused, LedgerPause DEF Follows
<1> HIDE DEF b
<1>5. Shape(g)
  BY <1>4, Zenon DEF Session, Shape
<1>6. /\ g.driver = b.driver /\ g.closes = b.closes /\ g.runtime = b.runtime
      /\ g.persist = b.persist /\ g.failed = b.failed /\ g.pend = b.pend
      /\ g.items = b.items /\ g.queued = b.queued /\ g.submitted = b.submitted
  BY <1>4 DEF Session, Shape, Fields
<1> HIDE DEF g
<1>7. Session(g) /\ Ledger(g, K, P)
  BY <1>4, <1>5, <1>6, LedgerSame DEF Session
<1>8. Session(e) /\ Ledger(e, K, P)
  BY <1>7, StateAppended, LedgerState DEF Kept
<1> HIDE DEF e
<1>9. QED
  BY <1>1, <1>8, LedgerRelease

LEMMA LedgerRetire ==
  ASSUME NEW c, Session(c), NEW K, NEW P, Ledger(c, K, P)
  PROVE  Ledger(Retire(c), K, P)
<1> DEFINE b == [c EXCEPT !.closing = TRUE, !.closes = c.driver, !.driver = None]
<1>1. Shape(b)
  BY Zenon DEF Session, Shape
<1>2. /\ b.driver = None /\ b.closes = c.driver /\ b.runtime = c.runtime
      /\ b.persist = c.persist /\ b.failed = c.failed /\ b.pend = c.pend
      /\ b.items = c.items /\ b.queued = c.queued /\ b.submitted = c.submitted
  BY DEF Session, Shape, Fields
<1>3. Retire(c) = AppendState(b, "closed")
  BY DEF Retire
<1> HIDE DEF b
<1>4. Session(b) /\ Ledger(b, K, P)
  BY <1>1, <1>2, LedgerSame DEF Session
<1>5. Ledger(AppendState(b, "closed"), K, P)
  BY <1>4, LedgerState
<1>6. QED
  BY <1>3, <1>5

---------------------------------------------------------------------------
(* No step breaks a promise *)

(* What was acknowledged is in storage, and what is still to be committed  *)
(* keeps it there.                                                         *)
QueueInv ==
    /\ Ledger(s, kept, prompts)
    /\ RecordOK(disk) /\ Promised(Left(disk.queued, disk.submitted), kept, prompts)
    /\ NoTurn \notin kept

LEMMA LedgerStays ==
  ASSUME QueueInv, UNCHANGED <<disk, prompts, kept>>, Ledger(s', kept, prompts)
  PROVE  QueueInv'
  BY DEF QueueInv, Ledger, Restorable, RecordOK, Promised

LEMMA QueueStutters ==
  ASSUME QueueInv, UNCHANGED <<s, disk, prompts, kept>>
  PROVE  QueueInv'
  BY LedgerStays DEF QueueInv

LEMMA PromptKeeps ==
  ASSUME IInv, QueueInv, NEW t \in Turns, Prompt(t) PROVE QueueInv'
<1>1. s' = StartPrompt(s, t) /\ UNCHANGED <<disk, prompts, kept>>
  BY DEF Prompt
<1>2. Ledger(StartPrompt(s, t), kept, prompts)
  BY Now, LedgerStart DEF QueueInv
<1>3. QED
  BY <1>1, <1>2, LedgerStays

LEMMA SendFailsKeeps ==
  ASSUME IInv, QueueInv, NEW t \in Turns, SendFails(t) PROVE QueueInv'
<1> DEFINE c == [s EXCEPT !.current = NoTurn, !.stopped = NoTurn]
<1>1. s' \in {c, s} /\ UNCHANGED <<disk, prompts, kept>>
  BY DEF SendFails
<1>2. /\ c.pend = s.pend /\ c.items = s.items /\ c.queued = s.queued
      /\ c.submitted = s.submitted
  BY Now DEF Session, Shape, Fields
<1> HIDE DEF c
<1>3. Ledger(c, kept, prompts)
  BY <1>2, LedgerSame DEF QueueInv
<1>4. QED
  BY <1>1, <1>3, LedgerStays DEF QueueInv

LEMMA TurnEndsKeeps ==
  ASSUME IInv, QueueInv, NEW t \in Turns, NEW status, TurnEnds(t, status) PROVE QueueInv'
<1> DEFINE c == [s EXCEPT !.ended = TRUE]
<1>1. s' = AppendTurnEnd(c, status) /\ UNCHANGED <<disk, prompts, kept>>
  BY DEF TurnEnds
<1>2. Shape(c)
  BY Now, Zenon DEF Session, Shape
<1>3. /\ Alike(s, c) /\ c.failed = s.failed /\ c.pend = s.pend
      /\ c.queued = s.queued /\ c.submitted = s.submitted
  BY Now DEF Session, Shape, Fields, Alike
<1> HIDE DEF c
<1>4. Session(c) /\ Ledger(c, kept, prompts)
  BY <1>2, <1>3, Now, LedgerSame DEF Session, Alike, QueueInv
<1>5. Ledger(AppendTurnEnd(c, status), kept, prompts)
  BY <1>4, LedgerTurnEnd
<1>6. QED
  BY <1>1, <1>5, LedgerStays

LEMMA PromptReturnsKeeps ==
  ASSUME IInv, QueueInv, NEW t \in Turns, NEW err, PromptReturns(t, err) PROVE QueueInv'
<1>1. s' = FinishTurn(s, t, err) /\ UNCHANGED <<disk, prompts, kept>>
  BY DEF PromptReturns
<1>2. Ledger(FinishTurn(s, t, err), kept, prompts)
  BY Now, LedgerFinish DEF QueueInv
<1>3. QED
  BY <1>1, <1>2, LedgerStays

LEMMA TurnDrainsKeeps ==
  ASSUME IInv, QueueInv, NEW t \in Turns, TurnDrains(t) PROVE QueueInv'
<1>1. s' = Drain(s) /\ UNCHANGED <<disk, prompts, kept>>
  BY DEF TurnDrains
<1>2. Ledger(Drain(s), kept, prompts)
  BY Now, LedgerDrain DEF QueueInv
<1>3. QED
  BY <1>1, <1>2, LedgerStays

LEMMA TurnKeeps ==
  ASSUME IInv, QueueInv, NEW t \in Turns, Turn(t) PROVE QueueInv'
<1>1. CASE Send(t) \/ TurnCloses(t)
  BY <1>1, QueueStutters DEF Send, TurnCloses
<1>2. QED
  BY <1>1, SendFailsKeeps, PromptReturnsKeeps, TurnDrainsKeeps DEF Turn

(* A change of the queue that holds what the old one held.                 *)
LEMMA QueueKeeps ==
  ASSUME IInv, QueueInv, UNCHANGED <<disk, prompts, kept>>,
         NEW items \in Seq(Turns), NEW paused, NEW ack,
         Elems(s.items) \subseteq Elems(items), ack = NoTurn \/ ack \in Elems(items),
         ApplyQueue(items, paused, ack)
  PROVE  QueueInv'
<1> DEFINE q == AppendQueue(s, items, paused, ack)
<1>1. s' = Drain(q)
  BY DEF ApplyQueue
<1>2. Session(q)
  BY Now, QueueAppended DEF Follows
<1>3. Ledger(q, kept, prompts)
  BY Now, LedgerQueue DEF QueueInv
<1> HIDE DEF q
<1>4. Ledger(Drain(q), kept, prompts)
  BY <1>2, <1>3, LedgerDrain
<1>5. QED
  BY <1>1, <1>4, LedgerStays

LEMMA EnqueueKeeps ==
  ASSUME IInv, QueueInv, NEW t \in Turns, Enqueue(t) PROVE QueueInv'
<1>1. s.items \in Seq(Turns)
  BY DEF QueueInv, Ledger
<1> DEFINE items == Append(s.items, t)
<1>2. items \in Seq(Turns) /\ Elems(items) = Elems(s.items) \cup {t}
  BY <1>1, ElemsAppend
<1>3. /\ ApplyQueue(items, s.paused \/ Unattended, t)
      /\ UNCHANGED <<disk, prompts, kept>>
  BY DEF Enqueue
<1> HIDE DEF items
<1>4. PICK paused : ApplyQueue(items, paused, t)
  BY <1>3
<1>5. QED
  BY <1>2, <1>3, <1>4, QueueKeeps

(* A permutation of the queue has the same prompts.                        *)
LEMMA Permuted ==
  ASSUME NEW q \in Seq(Turns), NEW p \in SequencesExt!SetToSeqs(Elems(q))
  PROVE  p \in Seq(Turns) /\ Elems(p) = Elems(q)
<1> DEFINE S == Elems(q)
           n == Cardinality(S)
<1>1. IsFiniteSet(S)
  <2>1. q \in [1..Len(q) -> S] /\ \A x \in S : \E i \in 1..Len(q) : q[i] = x
    BY DEF Elems
  <2>2. Len(q) \in Nat
    OBVIOUS
  <2>3. q \in Surjection(1..Len(q), S)
    <3> HIDE DEF S
    <3>1. QED
      BY <2>1 DEF Surjection
  <2>4. IsFiniteSet(1..Len(q))
    BY <2>2, FS_Interval
  <2> HIDE DEF S
  <2>5. QED
    BY <2>3, <2>4, FS_Surjection
<1>2. S \subseteq Turns
  BY DEF Elems
<1>3. p \in [1..n -> S] /\ \A i, j \in 1..n : i # j => p[i] # p[j]
  <2>1. SequencesExt!Cardinality(S) = n
    BY DEF SequencesExt!Cardinality, Cardinality
  <2> HIDE DEF S, n
  <2>2. p \in SequencesExt!SetToSeqs(S)
    BY DEF S
  <2>3. QED
    BY <2>1, <2>2 DEF SequencesExt!SetToSeqs
<1> HIDE DEF S
<1>4. n \in Nat
  BY <1>1, FS_CardinalityType
<1> HIDE DEF n
<1>5. p \in Seq(Turns) /\ Len(p) = n
  BY <1>2, <1>3, <1>4
<1>6. p \in Surjection(1..n, S)
  <2>1. p \in Injection(1..n, S)
    BY <1>3 DEF Injection, IsInjective
  <2>2. Cardinality(1..n) = Cardinality(S)
    BY <1>4, FS_Interval DEF n
  <2>3. QED
    BY <1>1, <2>1, <2>2, FS_Injection
<1>7. \A x \in S : \E i \in 1..n : p[i] = x
  BY <1>6 DEF Surjection
<1>8. Elems(p) = S
  BY <1>3, <1>5, <1>7 DEF Elems
<1>9. QED
  BY <1>5, <1>8 DEF S

LEMMA ReorderKeeps ==
  ASSUME IInv, QueueInv, Reorder PROVE QueueInv'
<1>1. s.items \in Seq(Turns)
  BY DEF QueueInv, Ledger
<1>2. UNCHANGED <<disk, prompts, kept>>
  BY DEF Reorder
<1>3. PICK items \in SequencesExt!SetToSeqs(Elems(s.items)) :
        ApplyQueue(items, s.paused, NoTurn)
  BY Zenon DEF Reorder, Elems
<1>4. items \in Seq(Turns) /\ Elems(items) = Elems(s.items)
  BY <1>1, Permuted
<1>5. QED
  BY <1>2, <1>3, <1>4, QueueKeeps

LEMMA PauseQueueKeeps ==
  ASSUME IInv, QueueInv, PauseQueue PROVE QueueInv'
<1>1. s.items \in Seq(Turns)
  BY DEF QueueInv, Ledger
<1>2. UNCHANGED <<disk, prompts, kept>>
  BY DEF PauseQueue
<1>3. PICK paused : ApplyQueue(s.items, paused, NoTurn)
  BY Zenon DEF PauseQueue
<1>4. QED
  BY <1>1, <1>2, <1>3, QueueKeeps

LEMMA ResumeQueueKeeps ==
  ASSUME IInv, QueueInv, ResumeQueue PROVE QueueInv'
<1>1. s.items \in Seq(Turns)
  BY DEF QueueInv, Ledger
<1>2. UNCHANGED <<disk, prompts, kept>>
  BY DEF ResumeQueue
<1>3. PICK paused : ApplyQueue(s.items, paused, NoTurn)
  BY Zenon DEF ResumeQueue
<1>4. QED
  BY <1>1, <1>2, <1>3, QueueKeeps

(* The client takes a prompt back: nothing waits for it any more.          *)
LEMMA LedgerForgets ==
  ASSUME NEW c, Session(c), NEW K, NEW P, Ledger(c, K, P), NEW t \in Turns,
         NEW d, d.pend = Forgotten(c.pend, t), d.items = c.items, d.queued = c.queued,
         d.submitted = c.submitted
  PROVE  /\ Ledger(d, K \ {t}, P)
         /\ t \notin (K \ {t}) \cup Acked(d.pend, Len(d.pend))
<1> DEFINE q == c.pend
           p == d.pend
<1>1. p = [i \in 1..Len(q) |-> IF q[i].ack = t THEN [q[i] EXCEPT !.ack = NoTurn] ELSE q[i]]
  BY DEF Forgotten
<1>2. Len(q) \in Nat /\ \A i \in 1..Len(q) : EventOK(q[i])
  BY DEF Session, PendOK, Events
<1> HIDE DEF p, q
<1>3. Len(p) = Len(q)
  BY <1>1, <1>2
<1>4. \A i \in 1..Len(q) : /\ p[i].record = q[i].record /\ p[i].prompt = q[i].prompt
                            /\ p[i].ack = IF q[i].ack = t THEN NoTurn ELSE q[i].ack
  <2> SUFFICES ASSUME NEW i \in 1..Len(q)
               PROVE  /\ p[i].record = q[i].record /\ p[i].prompt = q[i].prompt
                      /\ p[i].ack = IF q[i].ack = t THEN NoTurn ELSE q[i].ack
    OBVIOUS
  <2>1. q[i] = [record |-> q[i].record, prompt |-> q[i].prompt, ack |-> q[i].ack]
    BY <1>2 DEF EventOK
  <2>2. p[i] = IF q[i].ack = t THEN [q[i] EXCEPT !.ack = NoTurn] ELSE q[i]
    BY <1>1
  <2>3. CASE q[i].ack = t
    <3>1. p[i] = [record |-> q[i].record, prompt |-> q[i].prompt, ack |-> NoTurn]
      BY <2>1, <2>2, <2>3
    <3>2. QED
      BY <2>3, <3>1
  <2>4. CASE q[i].ack # t
    BY <2>2, <2>4
  <2>5. QED
    BY <2>3, <2>4
<1>5. t # NoTurn
  BY ConversationAssumption
<1>6. \A n \in 0..Len(q) : /\ Acked(p, n) \ {NoTurn} \subseteq Acked(q, n) \ {t}
                           /\ t \notin Acked(p, n) /\ Named(p, n) = Named(q, n)
  <2> SUFFICES ASSUME NEW n \in 0..Len(q)
               PROVE  /\ Acked(p, n) \ {NoTurn} \subseteq Acked(q, n) \ {t}
                      /\ t \notin Acked(p, n) /\ Named(p, n) = Named(q, n)
    OBVIOUS
  <2>1. \A i \in 1..n : i \in 1..Len(q)
    BY <1>2
  <2>2. \A i \in 1..n : /\ p[i].prompt = q[i].prompt
                        /\ p[i].ack # t /\ (p[i].ack = NoTurn \/ p[i].ack = q[i].ack)
    BY <1>4, <1>5, <2>1
  <2>3. QED
    BY <2>2 DEF Acked, Named
<1>7. \A n \in 0..Len(q) : /\ ((K \ {t}) \cup Acked(p, n)) \ {NoTurn} \subseteq K \cup Acked(q, n)
                           /\ (P \cup Named(q, n)) \ {NoTurn} \subseteq P \cup Named(p, n)
  BY <1>6
<1>8. \A n \in 1..Len(q) : Restorable(p, n, K \ {t}, P)
  <2> SUFFICES ASSUME NEW n \in 1..Len(q) PROVE Restorable(p, n, K \ {t}, P)
    OBVIOUS
  <2>1. Restorable(q, n, K, P)
    BY DEF Ledger, q
  <2>2. p[n].record = q[n].record /\ n \in 0..Len(q)
    BY <1>2, <1>4
  <2>3. Promised(Left(q[n].record.queued, q[n].record.submitted),
                 (K \ {t}) \cup Acked(p, n), P \cup Named(p, n))
    BY <1>7, <2>1, <2>2, PromisedLess DEF Restorable
  <2>4. QED
    BY <2>1, <2>2, <2>3 DEF Restorable
<1>9. Len(q) \in 0..Len(q)
  BY <1>2
<1>10. Promised(c.items, K \cup Acked(q, Len(q)), P \cup Named(q, Len(q)))
  BY DEF Ledger, q
<1>11. Promised(c.items, (K \ {t}) \cup Acked(p, Len(q)), P \cup Named(p, Len(q)))
  BY <1>7, <1>9, <1>10, PromisedLess
<1>12. Ledger(d, K \ {t}, P)
  BY <1>3, <1>8, <1>11 DEF Ledger, p
<1>13. t \notin Acked(p, Len(p))
  BY <1>3, <1>6, <1>9
<1>14. QED
  BY <1>12, <1>13 DEF p

LEMMA RemoveKeeps ==
  ASSUME IInv, QueueInv, NEW t \in Turns, Remove(t) PROVE QueueInv'
<1> DEFINE p == Forgotten(s.pend, t)
           c == [s EXCEPT !.pend = p]
           items == Left(s.items, {t})
           q == AppendQueue(c, items, s.paused, NoTurn)
           K == kept \ {t}
<1>1. s' = Drain(q) /\ UNCHANGED <<disk, prompts>> /\ kept' = K
  <2>1. c = [s EXCEPT !.pend = [i \in 1..Len(@) |->
               IF @[i].ack = t THEN [@[i] EXCEPT !.ack = NoTurn] ELSE @[i]]]
    BY Now DEF Session, Shape, Fields, Forgotten
  <2> HIDE DEF c
  <2>2. QED
    BY <2>1, Zenon DEF Remove
<1>2. PendOK(p)
  BY Now, AckForgotten DEF Session
<1>3. Shape(c)
  BY Now, Zenon DEF Session, Shape
<1>4. /\ Alike(s, c) /\ c.failed = s.failed /\ c.pend = p
      /\ c.queued = s.queued /\ c.submitted = s.submitted
  BY Now DEF Session, Shape, Fields, Alike
<1>5. s.items \in Seq(Turns)
  BY DEF QueueInv, Ledger
<1>6. items \in Seq(Turns) /\ Elems(items) = Elems(s.items) \ {t}
  BY <1>5, LeftOne
<1> HIDE DEF c, items
<1>7. Session(c) /\ c.items = s.items
  BY <1>2, <1>3, <1>4, Now DEF Session, Alike
<1>8. Ledger(c, K, prompts) /\ t \notin K \cup Acked(c.pend, Len(c.pend))
  BY <1>4, <1>7, Now, LedgerForgets DEF QueueInv
<1> HIDE DEF K, p
<1>9. Session(q)
  BY <1>7, QueueAppended DEF Follows
<1>10. Ledger(q, K, prompts)
  BY <1>6, <1>7, <1>8, LedgerQueue
<1> HIDE DEF q
<1>11. Ledger(s', K, prompts)
  BY <1>1, <1>9, <1>10, LedgerDrain
<1>12. K \ {NoTurn} \subseteq kept /\ NoTurn \notin K /\ prompts \ {NoTurn} \subseteq prompts
  BY DEF K, QueueInv
<1>13. Promised(Left(disk.queued, disk.submitted), K, prompts)
  BY <1>12, PromisedLess DEF QueueInv
<1>14. QED
  BY <1>1, <1>11, <1>12, <1>13 DEF QueueInv

---------------------------------------------------------------------------
(* Stop, close and connections leave the queue alone *)

LEMMA StopKeeps ==
  ASSUME IInv, QueueInv, Stop PROVE QueueInv'
<1> DEFINE c == [s EXCEPT !.stopped = s.current]
<1>1. s' = Pause(c) /\ UNCHANGED <<disk, prompts, kept>>
  BY DEF Stop
<1>2. Shape(c)
  BY Now, Zenon DEF Session, Shape
<1>3. /\ c.driver = s.driver /\ c.closes = s.closes /\ c.runtime = s.runtime
      /\ c.persist = s.persist /\ c.failed = s.failed /\ c.pend = s.pend
      /\ c.items = s.items /\ c.queued = s.queued /\ c.submitted = s.submitted
  BY Now DEF Session, Shape, Fields
<1> HIDE DEF c
<1>4. Session(c) /\ Ledger(c, kept, prompts)
  BY <1>2, <1>3, Now, LedgerSame DEF Session, QueueInv
<1>5. Ledger(Pause(c), kept, prompts)
  BY <1>4, LedgerPause
<1>6. QED
  BY <1>1, <1>5, LedgerStays

LEMMA StopAcceptedKeeps ==
  ASSUME IInv, QueueInv, StopAccepted PROVE QueueInv'
<1>1. s' \in {s, AppendState(s, "cancelling")} /\ UNCHANGED <<disk, prompts, kept>>
  BY DEF StopAccepted
<1>2. Ledger(AppendState(s, "cancelling"), kept, prompts)
  BY Now, LedgerState DEF QueueInv
<1>3. QED
  BY <1>1, <1>2, LedgerStays DEF QueueInv

LEMMA CloseSessionKeeps ==
  ASSUME IInv, QueueInv, CloseSession PROVE QueueInv'
<1>1. s' \in {Release(s), Retire(s)} /\ UNCHANGED <<disk, prompts, kept>>
  BY DEF CloseSession
<1>2. Ledger(Release(s), kept, prompts) /\ Ledger(Retire(s), kept, prompts)
  BY Now, LedgerRelease, LedgerRetire DEF QueueInv
<1>3. QED
  BY <1>1, <1>2, LedgerStays

LEMMA ArchiveKeeps ==
  ASSUME IInv, QueueInv, NEW archived, Archive(archived) PROVE QueueInv'
<1> DEFINE a == [s EXCEPT !.archived = archived]
           c == Appended(s, a, NoTurn, NoTurn, 0)
<1>1. s' \in {Release(c), Release(Retire(c))} /\ UNCHANGED <<disk, prompts, kept>>
  BY DEF Archive
<1>2. Shape(a)
  BY Now, Zenon DEF Session, Shape
<1>3. /\ Alike(s, a) /\ a.failed = s.failed /\ a.pend = s.pend
      /\ a.queued = s.queued /\ a.submitted = s.submitted
  BY Now DEF Session, Shape, Fields, Alike
<1> HIDE DEF a
<1>4. Session(a)
  BY <1>2, <1>3, Now DEF Session, Alike
<1>5. Ledger(c, kept, prompts)
  BY <1>3, <1>4, Now, LedgerQuiet DEF QueueInv, Alike
<1>6. Session(c)
  <2>1. CASE s.failed
    BY <2>1, Now DEF Appended
  <2>2. CASE ~s.failed
    BY <1>3, <1>4, <2>2, Now, SessionAppends, SessionFails
  <2>3. QED
    BY <2>1, <2>2
<1> HIDE DEF c
<1>7. Ledger(Release(c), kept, prompts)
  BY <1>5, <1>6, LedgerRelease
<1>8. Session(Retire(c)) /\ Ledger(Retire(c), kept, prompts)
  BY <1>5, <1>6, Retired, LedgerRetire
<1>9. Ledger(Release(Retire(c)), kept, prompts)
  BY <1>8, LedgerRelease
<1>10. QED
  BY <1>1, <1>7, <1>9, LedgerStays

LEMMA CloseFinishesKeeps ==
  ASSUME IInv, QueueInv, CloseFinishes PROVE QueueInv'
<1> DEFINE c == [s EXCEPT !.closing = FALSE, !.closes = None]
<1>1. s' = Release(c) /\ UNCHANGED <<disk, prompts, kept>>
  BY DEF CloseFinishes
<1>2. Shape(c)
  BY Now, Zenon DEF Session, Shape
<1>3. /\ c.driver = s.driver /\ c.closes = None /\ c.runtime = s.runtime
      /\ c.persist = s.persist /\ c.failed = s.failed /\ c.pend = s.pend
      /\ c.items = s.items /\ c.queued = s.queued /\ c.submitted = s.submitted
  BY Now DEF Session, Shape, Fields
<1> HIDE DEF c
<1>4. Session(c) /\ Ledger(c, kept, prompts)
  BY <1>2, <1>3, Now, LedgerSame DEF Session, QueueInv
<1>5. Ledger(Release(c), kept, prompts)
  BY <1>4, LedgerRelease
<1>6. QED
  BY <1>1, <1>5, LedgerStays

LEMMA ReconnectKeeps ==
  ASSUME IInv, QueueInv, Reconnect PROVE QueueInv'
<1> DEFINE r == s.runtime + 1
           a == [s EXCEPT !.runtime = r]
           c == AppendRuntime(s, r)
<1>1. /\ s' = AppendState(c, "starting") /\ ~s.failed /\ s.runtime < MaxRuntimes
      /\ UNCHANGED <<disk, prompts, kept>>
  BY DEF Reconnect
<1>2. r \in Runtimes
  BY <1>1, Now, ConversationAssumption DEF Session, Runtimes
<1> HIDE DEF r
<1>3. Session(c)
  BY <1>1, <1>2, Now, RuntimeAppended
<1>4. Shape(a)
  BY Now, Zenon DEF Session, Shape
<1>5. /\ a.driver = s.driver /\ a.closes = s.closes /\ a.runtime = r
      /\ a.persist = s.persist /\ a.failed = s.failed /\ a.pend = s.pend
      /\ a.items = s.items /\ a.queued = s.queued /\ a.submitted = s.submitted
  BY Now DEF Session, Shape, Fields
<1>6. c = Appended(s, a, NoTurn, NoTurn, 0)
  BY DEF AppendRuntime
<1> HIDE DEF a, c
<1>7. Session(a)
  BY <1>2, <1>4, <1>5, Now DEF Session
<1>8. Ledger(c, kept, prompts)
  BY <1>5, <1>6, <1>7, Now, LedgerQuiet DEF QueueInv
<1>9. Ledger(AppendState(c, "starting"), kept, prompts)
  BY <1>3, <1>8, LedgerState
<1>10. QED
  BY <1>1, <1>9, LedgerStays

LEMMA ConnectStartsKeeps ==
  ASSUME IInv, QueueInv, NEW r \in Runtimes, ConnectStarts(r) PROVE QueueInv'
<1> DEFINE c == [s EXCEPT !.opening = r, !.driver = None]
<1>1. s' \in {s, c} /\ UNCHANGED <<disk, prompts, kept>>
  BY DEF ConnectStarts
<1>2. /\ c.pend = s.pend /\ c.items = s.items /\ c.queued = s.queued
      /\ c.submitted = s.submitted
  BY Now DEF Session, Shape, Fields
<1> HIDE DEF c
<1>3. Ledger(c, kept, prompts)
  BY <1>2, LedgerSame DEF QueueInv
<1>4. QED
  BY <1>1, <1>3, LedgerStays DEF QueueInv

LEMMA ConnectOpensKeeps ==
  ASSUME IInv, QueueInv, NEW r \in Runtimes, ConnectOpens(r) PROVE QueueInv'
<1> DEFINE c == [s EXCEPT !.opening = None]
           d == [s EXCEPT !.driver = r]
<1>1. s' \in {Release(c), d} /\ UNCHANGED <<disk, prompts, kept>>
  BY DEF ConnectOpens
<1>2. Shape(c)
  BY Now, Zenon DEF Session, Shape
<1>3. /\ c.driver = s.driver /\ c.closes = s.closes /\ c.runtime = s.runtime
      /\ c.persist = s.persist /\ c.failed = s.failed /\ c.pend = s.pend
      /\ c.items = s.items /\ c.queued = s.queued /\ c.submitted = s.submitted
  BY Now DEF Session, Shape, Fields
<1>4. /\ d.pend = s.pend /\ d.items = s.items /\ d.queued = s.queued
      /\ d.submitted = s.submitted
  BY Now DEF Session, Shape, Fields
<1> HIDE DEF c, d
<1>5. Session(c) /\ Ledger(c, kept, prompts) /\ Ledger(d, kept, prompts)
  BY <1>2, <1>3, <1>4, Now, LedgerSame DEF Session, QueueInv
<1>6. Ledger(Release(c), kept, prompts)
  BY <1>5, LedgerRelease
<1>7. QED
  BY <1>1, <1>5, <1>6, LedgerStays

LEMMA ConnectEndsKeeps ==
  ASSUME IInv, QueueInv, NEW r \in Runtimes, NEW err, ConnectEnds(r, err) PROVE QueueInv'
<1> DEFINE n == AppendNotice(s)
           c == IF s.state = "closed" THEN s
                ELSE IF err THEN AppendState(n, "disconnected")
                ELSE AppendState(s, "ready")
           d == [c EXCEPT !.opening = None]
<1>1. s' = Release(d) /\ UNCHANGED <<disk, prompts, kept>>
  BY DEF ConnectEnds
<1>2. Session(n) /\ Ledger(n, kept, prompts)
  BY Now, NoticeAppended, LedgerNotice DEF Kept, QueueInv
<1> HIDE DEF n
<1>3. Session(c) /\ Ledger(c, kept, prompts)
  BY <1>2, Now, StateAppended, LedgerState DEF Kept, QueueInv
<1> HIDE DEF c
<1>4. Shape(d)
  BY <1>3, Zenon DEF Session, Shape
<1>5. /\ d.driver = c.driver /\ d.closes = c.closes /\ d.runtime = c.runtime
      /\ d.persist = c.persist /\ d.failed = c.failed /\ d.pend = c.pend
      /\ d.items = c.items /\ d.queued = c.queued /\ d.submitted = c.submitted
  BY <1>3 DEF Session, Shape, Fields
<1> HIDE DEF d
<1>6. Session(d) /\ Ledger(d, kept, prompts)
  BY <1>3, <1>4, <1>5, LedgerSame DEF Session
<1>7. Ledger(Release(d), kept, prompts)
  BY <1>6, LedgerRelease
<1>8. QED
  BY <1>1, <1>7, LedgerStays

---------------------------------------------------------------------------
(* Commits and restarts *)

(* What a commit of n events leaves to be committed.                       *)
Cut(q, n, p, K, P, L, Q) ==
    /\ Len(p) = Len(q) - n
    /\ \A j \in 0..Len(p) :
         /\ n + j \in 1..Len(q)
         /\ j # 0 => p[j] = q[n + j]
         /\ (L \cup Acked(p, j)) \ {NoTurn} \subseteq K \cup Acked(q, n + j)
         /\ (P \cup Named(q, n + j)) \ {NoTurn} \subseteq Q \cup Named(p, j)

LEMMA PrefixCut ==
  ASSUME NEW q, PendOK(q), NEW n \in 1..Len(q), NEW p, p = SubSeq(q, n + 1, Len(q)),
         NEW K, NEW P, NEW L, NEW Q,
         L = K \cup (Acked(q, n) \ {NoTurn}), Q = P \cup (Named(q, n) \ {NoTurn})
  PROVE  Cut(q, n, p, K, P, L, Q)
<1>1. q \in Seq(Events(q)) /\ Len(q) \in Nat
  BY DEF PendOK
<1> DEFINE S == Events(q)
<1>2. /\ Len(p) = Len(q) - n /\ Len(p) \in Nat
      /\ \A i \in 1..Len(p) : p[i] = q[i + n]
  <2> HIDE DEF S
  <2>1. QED
    BY <1>1 DEF S
<1>3. SUFFICES ASSUME NEW j \in 0..Len(p)
               PROVE  /\ n + j \in 1..Len(q)
                      /\ j # 0 => p[j] = q[n + j]
                      /\ (L \cup Acked(p, j)) \ {NoTurn} \subseteq K \cup Acked(q, n + j)
                      /\ (P \cup Named(q, n + j)) \ {NoTurn} \subseteq Q \cup Named(p, j)
  BY <1>2 DEF Cut
<1>4. n + j \in 1..Len(q) /\ j \in Nat /\ n \in Nat
  BY <1>1, <1>2
<1>5. \A i \in 1..j : p[i] = q[n + i] /\ n + i \in 1..(n + j)
  BY <1>2, <1>4
<1>6. \A i \in 1..(n + j) : i \in 1..n \/ (i - n \in 1..j /\ p[i - n] = q[i])
  <2> SUFFICES ASSUME NEW i \in 1..(n + j), i \notin 1..n
               PROVE  i - n \in 1..j /\ p[i - n] = q[i]
    OBVIOUS
  <2>1. i - n \in 1..j /\ n + (i - n) = i
    BY <1>4
  <2>2. QED
    BY <1>5, <2>1
<1>7. 1..n \subseteq 1..(n + j)
  BY <1>4
<1>8. (L \cup Acked(p, j)) \ {NoTurn} \subseteq K \cup Acked(q, n + j)
  <2>1. \A x \in Acked(p, j) : x \in Acked(q, n + j)
    BY <1>5 DEF Acked
  <2>2. \A x \in Acked(q, n) : x \in Acked(q, n + j)
    BY <1>7 DEF Acked
  <2>3. QED
    BY <2>1, <2>2
<1>9. (P \cup Named(q, n + j)) \ {NoTurn} \subseteq Q \cup Named(p, j)
  <2>1. \A x \in Named(q, n + j) : x \in Named(q, n) \/ x \in Named(p, j)
    <3> SUFFICES ASSUME NEW i \in 1..(n + j)
                 PROVE  q[i].prompt \in Named(q, n) \/ q[i].prompt \in Named(p, j)
      BY DEF Named
    <3>1. CASE i \in 1..n
      BY <3>1 DEF Named
    <3>2. CASE i \notin 1..n
      <4>1. i - n \in 1..j /\ p[i - n].prompt = q[i].prompt
        BY <1>6, <3>2
      <4>2. QED
        BY <4>1 DEF Named
    <3>3. QED
      BY <3>1, <3>2
  <2>2. QED
    BY <2>1
<1>10. j # 0 => p[j] = q[n + j]
  BY <1>4, <1>5
<1>11. QED
  BY <1>4, <1>8, <1>9, <1>10

LEMMA CommitKeeps ==
  ASSUME IInv, QueueInv, NEW n \in 1..Len(s.pend), Commit(n) PROVE QueueInv'
<1> DEFINE q == s.pend
           written == SubSeq(s.pend, 1, n)
           keys == {written[i].prompt : i \in 1..n} \ {NoTurn}
           c == Stopped(s)
           d == [c EXCEPT !.persist = TRUE]
           e == [s EXCEPT !.pend = SubSeq(@, n + 1, Len(@))]
<1>1. PendOK(q) /\ q \in Seq(Events(q)) /\ Len(q) \in Nat
  BY Now DEF Session, PendOK
<1>2. \A i \in 1..n : written[i] = q[i]
  BY <1>1
<1>3. keys = Named(q, n) \ {NoTurn} /\ {written[i].ack : i \in 1..n} = Acked(q, n)
  BY <1>2 DEF Named, Acked
<1>4. \/ s' = d /\ UNCHANGED <<disk, prompts, kept>>
      \/ /\ disk' = q[n].record
         /\ prompts' = prompts \cup (Named(q, n) \ {NoTurn})
         /\ kept' = kept \cup (Acked(q, n) \ {NoTurn})
         /\ s' = e
  <2> HIDE DEF d, e
  <2>1. QED
    BY <1>3 DEF Commit, d, e
<1>5. Restorable(q, n, kept, prompts)
  BY DEF QueueInv, Ledger
<1>6. CASE s' = d /\ UNCHANGED <<disk, prompts, kept>>
  <2>1. Session(c) /\ Ledger(c, kept, prompts)
    BY Now, SessionFails, LedgerFails DEF QueueInv
  <2> HIDE DEF c
  <2>2. /\ d.pend = c.pend /\ d.items = c.items /\ d.queued = c.queued
        /\ d.submitted = c.submitted
    BY <2>1 DEF Session, Shape, Fields
  <2> HIDE DEF d
  <2>3. Ledger(d, kept, prompts)
    BY <2>1, <2>2, LedgerSame
  <2>4. QED
    BY <1>6, <2>3, LedgerStays
<1>7. CASE /\ disk' = q[n].record
           /\ prompts' = prompts \cup (Named(q, n) \ {NoTurn})
           /\ kept' = kept \cup (Acked(q, n) \ {NoTurn})
           /\ s' = e
  <2> DEFINE p == SubSeq(q, n + 1, Len(q))
  <2>1. e.pend = p /\ e.items = s.items /\ e.queued = s.queued /\ e.submitted = s.submitted
    BY Now DEF Session, Shape, Fields
  <2> HIDE DEF e
  <2>2. p = SubSeq(q, n + 1, Len(q))
    OBVIOUS
  <2> HIDE DEF p, q
  <2>3. n \in 1..Len(q)
    BY DEF q
  <2>4. /\ Len(p) = Len(q) - n
        /\ \A j \in 0..Len(p) :
             /\ n + j \in 1..Len(q)
             /\ j # 0 => p[j] = q[n + j]
             /\ (kept' \cup Acked(p, j)) \ {NoTurn} \subseteq kept \cup Acked(q, n + j)
             /\ (prompts \cup Named(q, n + j)) \ {NoTurn} \subseteq prompts' \cup Named(p, j)
    <3> DEFINE L == kept'
               Q == prompts'
    <3>1. L = kept \cup (Acked(q, n) \ {NoTurn}) /\ Q = prompts \cup (Named(q, n) \ {NoTurn})
      BY <1>7
    <3> HIDE DEF L, Q
    <3>2. Cut(q, n, p, kept, prompts, L, Q)
      BY <1>1, <2>2, <2>3, <3>1, PrefixCut
    <3>3. QED
      BY <3>2 DEF Cut, L, Q
  <2>5. \A j \in 1..Len(p) : Restorable(p, j, kept', prompts')
    <3> SUFFICES ASSUME NEW j \in 1..Len(p) PROVE Restorable(p, j, kept', prompts')
      OBVIOUS
    <3>1. j \in 0..Len(p) /\ j # 0
      OBVIOUS
    <3>2. n + j \in 1..Len(q) /\ p[j] = q[n + j]
      BY <2>4, <3>1
    <3>3. Restorable(q, n + j, kept, prompts)
      BY <3>2 DEF QueueInv, Ledger, q
    <3>4. Promised(Left(q[n + j].record.queued, q[n + j].record.submitted),
                   kept' \cup Acked(p, j), prompts' \cup Named(p, j))
      BY <2>4, <3>1, <3>3, PromisedLess DEF Restorable
    <3>5. QED
      BY <3>2, <3>3, <3>4 DEF Restorable
  <2>6. Promised(s.items, kept' \cup Acked(p, Len(p)), prompts' \cup Named(p, Len(p)))
    <3>1. Len(p) \in 0..Len(p) /\ n + Len(p) = Len(q)
      BY <1>1, <2>3, <2>4
    <3>2. /\ (kept' \cup Acked(p, Len(p))) \ {NoTurn} \subseteq kept \cup Acked(q, Len(q))
          /\ (prompts \cup Named(q, Len(q))) \ {NoTurn} \subseteq prompts' \cup Named(p, Len(p))
      BY <2>4, <3>1
    <3>3. Promised(s.items, kept \cup Acked(q, Len(q)), prompts \cup Named(q, Len(q)))
      BY DEF QueueInv, Ledger, q
    <3>4. QED
      BY <3>2, <3>3, PromisedLess
  <2>7. Ledger(s', kept', prompts')
    BY <1>7, <2>1, <2>5, <2>6 DEF Ledger, QueueInv
  <2>8. /\ kept' \ {NoTurn} \subseteq kept \cup Acked(q, n) /\ NoTurn \notin kept'
        /\ (prompts \cup Named(q, n)) \ {NoTurn} \subseteq prompts'
    BY <1>7 DEF QueueInv
  <2>9. RecordOK(disk') /\ Promised(Left(disk'.queued, disk'.submitted), kept', prompts')
    BY <1>5, <1>7, <2>8, PromisedLess DEF Restorable
  <2>10. QED
    BY <2>7, <2>8, <2>9 DEF QueueInv
<1>8. QED
  BY <1>4, <1>6, <1>7

(* What was stored without an answer is stored all the same.               *)
LEMMA CommitFailsKeeps ==
  ASSUME IInv, QueueInv, NEW n \in 1..Len(s.pend), CommitFails(n) PROVE QueueInv'
<1> DEFINE q == s.pend
           c == Stopped(s)
           d == [c EXCEPT !.persist = TRUE]
<1>1. s' = d /\ UNCHANGED kept
  BY DEF CommitFails
<1>2. \/ UNCHANGED <<disk, prompts>>
      \/ disk' = q[n].record /\ prompts' = prompts \cup (Named(q, n) \ {NoTurn})
  BY DEF CommitFails, Named
<1>3. Session(c) /\ Ledger(c, kept, prompts)
  BY Now, SessionFails, LedgerFails DEF QueueInv
<1> HIDE DEF c
<1>4. /\ d.pend = c.pend /\ d.items = c.items /\ d.queued = c.queued
      /\ d.submitted = c.submitted
  BY <1>3 DEF Session, Shape, Fields
<1> HIDE DEF d
<1>5. Ledger(d, kept, prompts)
  BY <1>3, <1>4, LedgerSame
<1>6. CASE UNCHANGED <<disk, prompts>>
  BY <1>1, <1>5, <1>6, LedgerStays
<1>7. CASE disk' = q[n].record /\ prompts' = prompts \cup (Named(q, n) \ {NoTurn})
  <2>1. prompts \subseteq prompts' /\ NoTurn \notin kept
    BY <1>7 DEF QueueInv
  <2>2. \A i \in 1..Len(d.pend) : Restorable(d.pend, i, kept, prompts')
    BY <1>5, <2>1 DEF Ledger, Restorable, Promised
  <2>3. Promised(d.items, kept \cup Acked(d.pend, Len(d.pend)),
                 prompts' \cup Named(d.pend, Len(d.pend)))
    BY <1>5, <2>1 DEF Ledger, Promised
  <2>4. Ledger(d, kept, prompts')
    BY <1>5, <2>2, <2>3 DEF Ledger
  <2>5. Restorable(q, n, kept, prompts)
    BY DEF QueueInv, Ledger
  <2>6. kept \ {NoTurn} \subseteq kept \cup Acked(q, n)
        /\ (prompts \cup Named(q, n)) \ {NoTurn} \subseteq prompts'
    BY <1>7
  <2>7. RecordOK(disk') /\ Promised(Left(disk'.queued, disk'.submitted), kept, prompts')
    BY <1>7, <2>5, <2>6, PromisedLess DEF Restorable
  <2>8. QED
    BY <1>1, <2>1, <2>4, <2>7 DEF QueueInv
<1>8. QED
  BY <1>2, <1>6, <1>7

LEMMA NothingPending ==
  ASSUME NEW c, c.pend = <<>>, c.queued \in Seq(Turns),
         c.items = Left(c.queued, c.submitted), NEW K, NEW P, Promised(c.items, K, P)
  PROVE  Ledger(c, K, P)
<1>1. Len(c.pend) = 0
  OBVIOUS
<1>2. Acked(c.pend, 0) = {} /\ Named(c.pend, 0) = {}
  BY DEF Acked, Named
<1>3. c.items \in Seq(Turns)
  <2>1. PICK U : U = c.submitted
    OBVIOUS
  <2>2. Left(c.queued, U) \in Seq(Turns)
    BY LeftFacts
  <2>3. QED
    BY <2>1, <2>2
<1>4. Promised(c.items, K \cup Acked(c.pend, Len(c.pend)), P \cup Named(c.pend, Len(c.pend)))
  BY <1>1, <1>2 DEF Promised
<1>5. QED
  BY <1>1, <1>3, <1>4 DEF Ledger

(* The queue that startup expects is the one it finds.                     *)
LEMMA StoredIsLeft ==
  ASSUME QueueInv PROVE StoredQueue(disk) = Left(disk.queued, disk.submitted)
<1> DEFINE items == Left(disk.queued, disk.submitted)
<1>1. disk.count = Len(items) /\ disk.queued \in Seq(Turns)
  BY DEF QueueInv, RecordOK
<1>2. items \in Seq(Turns)
  <2>1. PICK U : U = disk.submitted
    OBVIOUS
  <2>2. Left(disk.queued, U) \in Seq(Turns)
    BY <1>1, LeftFacts
  <2>3. QED
    BY <2>1, <2>2
<1>3. StoredQueue(disk) = IF disk.count = 0 THEN <<>> ELSE items
  BY DEF StoredQueue
<1> HIDE DEF items
<1>4. StoredQueue(disk) = items
  BY <1>1, <1>2, <1>3
<1>5. QED
  BY <1>4 DEF items

LEMMA RestartKeeps ==
  ASSUME IInv, QueueInv, Restart PROVE QueueInv'
<1> DEFINE c == Restored(disk)
<1>1. s' = c /\ UNCHANGED <<disk, prompts, kept>>
  BY DEF Restart
<1>2. /\ c.pend = <<>> /\ c.queued = disk.queued /\ c.submitted = disk.submitted
      /\ c.items = StoredQueue(disk)
  BY DEF Restored, Fresh
<1> HIDE DEF c
<1>3. Ledger(c, kept, prompts)
  BY <1>2, StoredIsLeft, NothingPending DEF QueueInv, RecordOK
<1>4. QED
  BY <1>1, <1>3, LedgerStays

---------------------------------------------------------------------------

LEMMA InitQueueInv == Init => QueueInv
<1> SUFFICES ASSUME Init PROVE QueueInv
  OBVIOUS
<1>1. s = Fresh /\ disk = RecordOf(Fresh) /\ kept = {}
  BY DEF Init
<1>2. /\ Fresh.pend = <<>> /\ Fresh.items = <<>> /\ Fresh.queued = <<>>
      /\ Fresh.submitted = {}
  BY DEF Fresh
<1>3. /\ disk.queued = <<>> /\ disk.submitted = {} /\ disk.count = Len(<<>>)
  BY <1>1, <1>2 DEF RecordOf
<1>4. <<>> \in Seq(Turns) /\ Left(<<>>, {}) = <<>>
  BY LeftEmpty
<1>5. Promised(<<>>, {}, prompts)
  BY DEF Promised
<1>6. RecordOK(disk) /\ Promised(Left(disk.queued, disk.submitted), kept, prompts)
  BY <1>1, <1>3, <1>4, <1>5 DEF RecordOK
<1>7. Ledger(Fresh, {}, prompts)
  <2>1. Fresh.items = Left(Fresh.queued, Fresh.submitted) /\ Fresh.queued \in Seq(Turns)
    BY <1>2, <1>4
  <2>2. Promised(Fresh.items, {}, prompts)
    BY <1>2, <1>5
  <2>3. QED
    BY <1>2, <2>1, <2>2, NothingPending
<1>8. QED
  BY <1>1, <1>6, <1>7 DEF QueueInv

LEMMA ConnectKeeps ==
  ASSUME IInv, QueueInv, NEW r \in Runtimes, Connect(r) \/ ConnectTimesOut(r)
  PROVE  QueueInv'
<1>1. CASE ReconnectWaited(r) \/ ConnectTimesOut(r) \/ ConnectCloses(r)
  BY <1>1, QueueStutters DEF ReconnectWaited, ConnectTimesOut, ConnectCloses
<1>2. QED
  BY <1>1, ConnectStartsKeeps, ConnectOpensKeeps, ConnectEndsKeeps DEF Connect

LEMMA OperateKeeps ==
  ASSUME IInv, QueueInv, Operate PROVE QueueInv'
<1>1. CASE \E t \in Turns : \/ Prompt(t) \/ Enqueue(t) \/ Remove(t) \/ Turn(t)
                            \/ \E status \in {"completed", "failed"}: TurnEnds(t, status)
  BY <1>1, PromptKeeps, EnqueueKeeps, RemoveKeeps, TurnKeeps, TurnEndsKeeps
<1>2. CASE Reorder \/ PauseQueue \/ ResumeQueue
  BY <1>2, ReorderKeeps, PauseQueueKeeps, ResumeQueueKeeps
<1>3. CASE Stop \/ StopRefused \/ StopAccepted
  BY <1>3, StopKeeps, StopAcceptedKeeps, QueueStutters DEF StopRefused
<1>4. CASE CloseSession \/ \E a \in BOOLEAN: Archive(a)
  BY <1>4, CloseSessionKeeps, ArchiveKeeps
<1>5. CASE Reconnect \/ \E r \in Runtimes: Connect(r) \/ ConnectTimesOut(r)
  BY <1>5, ReconnectKeeps, ConnectKeeps
<1>6. QED
  BY <1>1, <1>2, <1>3, <1>4, <1>5 DEF Operate

LEMMA NextQueueInv == IInv /\ QueueInv /\ [Next]_vars => QueueInv'
<1> SUFFICES ASSUME IInv, QueueInv, [Next]_vars PROVE QueueInv'
  OBVIOUS
<1>1. CASE Operate
  BY <1>1, OperateKeeps
<1>2. CASE \E t \in Turns: Look(t)
  BY <1>2, QueueStutters DEF Look
<1>3. CASE \E n \in 1..Len(s.pend): Commit(n) \/ CommitFails(n)
  BY <1>3, CommitKeeps, CommitFailsKeeps
<1>4. CASE CloseFinishes \/ StopCloses \/ Restart
  BY <1>4, CloseFinishesKeeps, RestartKeeps, QueueStutters DEF StopCloses
<1>5. CASE UNCHANGED vars
  BY <1>5, QueueStutters DEF vars
<1>6. QED
  BY <1>1, <1>2, <1>3, <1>4, <1>5 DEF Next

(* Whatever prefix of the events a crash or a failed commit leaves, the    *)
(* queue is restored as it was recorded, and no queued prompt whose        *)
(* enqueue was acknowledged is lost: storage has it in the queue or as a   *)
(* submitted prompt until the client takes it back (EnqueuePrompt,         *)
(* applyQueueEventLocked, NewBroker).                                      *)
THEOREM QueueCorrect == Spec => []QueueSurvives
<1>1. QueueInv => QueueSurvives
  <2> SUFFICES ASSUME QueueInv PROVE QueueRestorable /\ QueuedIsKept
    BY DEF QueueSurvives
  <2>1. StoredQueue(disk) = Left(disk.queued, disk.submitted)
    BY StoredIsLeft
  <2>2. QueueRestorable
    BY <2>1 DEF QueueInv, RecordOK, QueueRestorable
  <2>3. QueuedIsKept
    <3> SUFFICES ASSUME NEW t \in kept, t \notin prompts
                 PROVE  t \in Elems(StoredQueue(disk))
      BY DEF QueuedIsKept, Elems
    <3>1. QED
      BY <2>1 DEF QueueInv, Promised
  <2>4. QED
    BY <2>2, <2>3
<1>2. Spec => [](IInv /\ QueueInv)
  <2>1. Init => IInv /\ QueueInv
    BY InitIInv, InitQueueInv
  <2>2. (IInv /\ QueueInv) /\ [Next]_vars => (IInv /\ QueueInv)'
    BY NextIInv, NextQueueInv
  <2>3. QED
    BY <2>1, <2>2, PTL DEF Spec
<1>3. QED
  BY <1>1, <1>2, PTL
=============================================================================
