----------------------------- MODULE StreamProofs -----------------------------
(***************************************************************************)
(* Proofs about the AgentStream module, for every set of conversations,    *)
(* every length of a journal and every number of effects and faults: what  *)
(* a page shows is the journal of its conversation, whatever is lost,      *)
(* replayed, reset or delivered late.                                      *)
(***************************************************************************)
EXTENDS AgentStream, WellFoundedInduction, TLAPS

-----------------------------------------------------------------------------
(* The inductive invariant                                                 *)

Event == [kind: Kinds, rt: Nat \X Nat, gen: Nat]
Message == [seq: Nat, event: Event]

State == [session: Sessions \cup {NoSession}, shown: Seq(Event), recentFrom: Nat,
          rt: Nat \X Nat, host: Nat, ok: BOOLEAN]

Reply == {NoReply} \cup [st: {"seed"}, state: State] \cup [st: {"exhausted"}]

Subscription ==
    {NoSub} \cup [st: {"loop"}, after: Nat]
    \cup [st: {"read"}, after: Nat, durable: Nat, end: Nat, tailFrom: Nat,
          tail: Seq(Message), changed: Nat, failure: BOOLEAN]
    \cup [st: {"wait"}, after: Nat, changed: Nat]

Effect == [session: Sessions \cup {NoSession}, active: BOOLEAN, invalid: BOOLEAN,
           phase: {"seed", "follow", "done"}, reply: Reply, base: Nat, lastId: Nat,
           resets: Nat, reset: BOOLEAN, aborted: BOOLEAN, queue: Seq(Message),
           frame: BOOLEAN, conn: {"down", "open"}, wire: Seq(Message \cup {Reset}),
           sub: Subscription]

TypeOK ==
    /\ journal \in [Sessions -> Seq(Event)]
    /\ durable \in [Sessions -> Nat]
    /\ storageErr \in [Sessions -> BOOLEAN]
    /\ changed \in [Sessions -> Nat]
    /\ gen \in Nat
    /\ session \in Sessions \cup {NoSession}
    /\ effects \in 0 .. MaxEffects
    /\ fx \in [Effects -> Effect]
    /\ current \in State

\* A runtime is the first one or was announced in a sequence of events up to n.
Announced(shown, rt, n) ==
    rt = FirstRuntime \/ \E p \in 1 .. n : shown[p].kind = "runtime" /\ shown[p].rt = rt

AllAnnounced(shown) == \A q \in 1 .. Len(shown) : Announced(shown, shown[q].rt, q)

\* The runtime after n events: the one that the last of them is of.
RuntimeAt(shown, n) == IF n = 0 THEN FirstRuntime ELSE shown[n].rt

\* Every event is of the runtime of the event before it or announces its own.
InRuntimes(shown) ==
    \A q \in 1 .. Len(shown) : shown[q].kind = "runtime" \/ shown[q].rt = RuntimeAt(shown, q - 1)

\* A journal, of which n events are in storage, of a host of incarnation g: no
\* event is of a later host, or of a runtime that was not announced before it.
JournalOK(j, n, g) ==
    /\ n <= Len(j)
    /\ \A q \in 1 .. Len(j) : j[q].gen <= g
    /\ AllAnnounced(j)
    /\ InRuntimes(j)

JournalsOK == \A s \in Sessions : JournalOK(journal[s], durable[s], gen)

\* An event with this number is the journal's, or was lost by a crash.
Genuine(j, g, q, e) ==
    \/ q \in 1 .. Len(j) /\ e = j[q]
    \/ e.gen < g /\ (q \in 1 .. Len(j) => j[q].gen > e.gen)

\* The events of a journal past a number are of one host or a later one.
LaterThan(j, n, host0) == \A q \in 1 .. Len(j) : q > n => j[q].gen >= host0

\* A state on display stands for the journal of its conversation.
StateOK(state, js, g) ==
    /\ state.session \in Sessions
    /\ state.host <= g
    /\ \A q \in 1 .. Len(state.shown) :
          /\ Genuine(js[state.session], g, q, state.shown[q])
          /\ q >= state.recentFrom => state.shown[q].gen >= state.host
    /\ AllAnnounced(state.shown)
    /\ Announced(state.shown, state.rt, Len(state.shown))
    /\ state.rt = RuntimeAt(state.shown, Len(state.shown))

DisplayOK(state, js, g) ==
    /\ state.ok
    /\ state.session = NoSession => state.shown = <<>>
    /\ state.session # NoSession => StateOK(state, js, g)

\* Only the last effect is active, for the conversation on display.
OwnerOK ==
    \A x \in Effects : fx[x].active =>
        x = effects /\ fx[x].session = session /\ session \in Sessions /\ current.session = session

\* What holds of an effect by itself: nothing is under way outside "follow" or
\* after an abort, and an ended effect is aborted and has no frame due.
QuietOK(f) ==
    /\ f.phase # "follow" =>
          ~ f.frame /\ f.conn = "down" /\ f.sub = NoSub /\ f.queue = <<>> /\ f.wire = <<>>
    /\ f.aborted => ~ f.frame /\ f.sub = NoSub /\ f.queue = <<>>
    /\ f.phase = "follow" /\ ~ Live(f) => f.aborted
    /\ f.invalid => ~ f.frame
    /\ f.conn = "down" => f.wire = <<>> /\ f.sub = NoSub
    /\ f.sub.st = "read" =>
          /\ f.sub.after <= f.sub.tailFrom /\ f.sub.durable <= f.sub.tailFrom
          /\ \A i \in 1 .. Len(f.sub.tail) : f.sub.tail[i].seq = f.sub.tailFrom + i

\* Between its steps an effect has no full queue.
EffectOK(f) == QuietOK(f) /\ Len(f.queue) < QueueLimit

\* An answer to getNativeCurrent stands for the journal, and what follows it is later.
ReplyOK(f, js, g) ==
    f.reply.st = "seed" =>
        LET state == f.reply.state
        IN  /\ StateOK(state, js, g) /\ state.ok /\ state.session = f.session
            /\ state.recentFrom = Len(state.shown) + 1
            /\ LaterThan(js[f.session], Len(state.shown), state.host)

\* A message after the seed of an effect, as a display seeded by that host may take it.
Fresh(f, m, host0, js, g) ==
    /\ m.seq > f.base
    /\ Genuine(js[f.session], g, m.seq, m.event)
    /\ m.event.gen >= host0

\* Each message repeats the number before it or has the next one.
Steps(from, queue) ==
    \A i \in 1 .. Len(queue) :
        LET last == IF i = 1 THEN from ELSE queue[i - 1].seq
        IN  queue[i].seq = last \/ queue[i].seq = last + 1

LastSeq(from, queue) == IF queue = <<>> THEN from ELSE queue[Len(queue)].seq

\* What a stream delivers and has delivered joins the display without a gap.
ChainOK(f, state, js) ==
    /\ f.lastId = LastSeq(Cursor(state), f.queue)
    /\ Steps(Cursor(state), f.queue)
    /\ f.lastId <= Len(js[f.session])
    /\ \E first \in Nat :
          /\ first = f.lastId \/ first + 1 = f.lastId
          /\ \A i \in 1 .. Len(f.wire) : f.wire[i] # Reset /\ f.wire[i].seq = first + i
          /\ f.sub # NoSub => f.sub.after = first + Len(f.wire)

\* What a live effect follows, onto the state on display.
FollowOK(f, state, js, ds, g) ==
    /\ state.recentFrom = f.base + 1
    /\ f.base <= f.lastId
    /\ LaterThan(js[f.session], f.base, state.host)
    /\ \A i \in 1 .. Len(f.queue) : Fresh(f, f.queue[i], state.host, js, g)
    /\ \A i \in 1 .. Len(f.wire) : f.wire[i] = Reset \/ Fresh(f, f.wire[i], state.host, js, g)
    /\ f.sub # NoSub => f.base <= f.sub.after
    /\ f.sub.st = "read" =>
          /\ f.sub.durable <= ds[f.session]
          /\ \A i \in 1 .. Len(f.sub.tail) : Fresh(f, f.sub.tail[i], state.host, js, g)
    /\ g = 0 /\ ~ f.aborted => ChainOK(f, state, js)

Follows(f) == Live(f) /\ f.phase = "follow"

IInv ==
    /\ TypeOK /\ JournalsOK /\ OwnerOK /\ DisplayOK(current, journal, gen)
    /\ \A x \in Effects :
          /\ EffectOK(fx[x]) /\ ReplyOK(fx[x], journal, gen)
          /\ Follows(fx[x]) => FollowOK(fx[x], current, journal, durable, gen)
    /\ gen = 0 => connection # "invalid"
-----------------------------------------------------------------------------
(* The queue goes through applyEvent one event after the other             *)

\* A set of numbers that is not empty has a least one.
LEMMA Least ==
  ASSUME NEW T, T \subseteq Nat, T # {}
  PROVE  \E n \in T : \A m \in T : n <= m
<1> DEFINE R == OpToRel(<, Nat)
<1>1. IsWellFoundedOn(R, Nat)
  BY NatLessThanWellFounded
<1>2. \E n \in T : \A m \in T : ~ (<<m, n>> \in R)
  <2> HIDE DEF R
  <2> QED
    BY <1>1, WFMin
<1>3. \A n, m \in Nat : <<m, n>> \in R <=> m < n
  BY DEF OpToRel
<1> HIDE DEF R
<1>4. PICK n \in T : \A m \in T : ~ (<<m, n>> \in R)
  BY <1>2
<1>5. \A m \in T : ~ (m < n)
  BY <1>3, <1>4, Zenon
<1>6. QED
  BY <1>5

IsRun(run, state, queue, k) ==
    run = [n \in 0 .. k |-> IF n = 0 THEN state ELSE applyEvent(run[n - 1], queue[n])]

\* One more event.
LEMMA RunLonger ==
  ASSUME NEW state, NEW queue, NEW k \in Nat, NEW g, IsRun(g, state, queue, k)
  PROVE  \E h : IsRun(h, state, queue, k + 1)
<1> DEFINE h == [n \in 0 .. (k + 1) |-> IF n = k + 1 THEN applyEvent(g[k], queue[n]) ELSE g[n]]
<1>1. h[k] = g[k]
  OBVIOUS
<1>2. \A n \in 0 .. (k + 1) :
        h[n] = IF n = 0 THEN state ELSE applyEvent(h[n - 1], queue[n])
  <2> TAKE n \in 0 .. (k + 1)
  <2>1. CASE n = k + 1
    BY <1>1, <2>1
  <2>2. CASE n # k + 1
    <3>1. n \in 0 .. k /\ h[n] = g[n]
      BY <2>2
    <3>2. g[n] = IF n = 0 THEN state ELSE applyEvent(g[n - 1], queue[n])
      BY <3>1, Zenon DEF IsRun
    <3>3. n # 0 => h[n - 1] = g[n - 1]
      BY <3>1
    <3> HIDE DEF h
    <3>4. QED
      BY <3>1, <3>2, <3>3
  <2>3. QED
    BY <2>1, <2>2
<1>3. h = [n \in 0 .. (k + 1) |-> h[n]]
  OBVIOUS
<1> HIDE DEF h
<1>4. h = [n \in 0 .. (k + 1) |-> IF n = 0 THEN state ELSE applyEvent(h[n - 1], queue[n])]
  BY <1>2, <1>3, Zenon
<1>5. QED
  BY <1>4, Zenon DEF IsRun

LEMMA RunExists ==
  ASSUME NEW state, NEW queue, NEW k \in Nat
  PROVE  \E g : IsRun(g, state, queue, k)
<1> DEFINE Without == {n \in Nat : ~ \E g : IsRun(g, state, queue, n)}
<1>1. SUFFICES ASSUME Without # {} PROVE FALSE
  BY Zenon
<1>2. PICK n \in Without : \A m \in Without : n <= m
  <2>1. Without \subseteq Nat
    OBVIOUS
  <2> HIDE DEF Without
  <2>2. QED
    BY <1>1, <2>1, Least
<1>3. CASE n = 0
  <2> DEFINE g == [i \in 0 .. 0 |-> state]
  <2>1. g = [i \in 0 .. 0 |-> IF i = 0 THEN state ELSE applyEvent(g[i - 1], queue[i])]
    <3>1. \A i \in 0 .. 0 : i = 0
      OBVIOUS
    <3>2. QED
      BY <3>1, Zenon
  <2>2. IsRun(g, state, queue, 0)
    BY <2>1, Zenon DEF IsRun
  <2>3. QED
    BY <1>3, <2>2, Zenon
<1>4. CASE n # 0
  <2>1. n - 1 \in Nat /\ ~ (n <= n - 1) /\ (n - 1) + 1 = n
    BY <1>4
  <2>2. n - 1 \notin Without
    BY <1>2, <2>1, Zenon
  <2>3. PICK g : IsRun(g, state, queue, n - 1)
    BY <2>1, <2>2, Zenon
  <2>4. \E h : IsRun(h, state, queue, (n - 1) + 1)
    BY <2>1, <2>3, RunLonger
  <2>5. QED
    BY <2>1, <2>4, Zenon
<1>5. QED
  BY <1>3, <1>4

LEMMA AppliedRun ==
  ASSUME NEW state, NEW queue, Len(queue) \in Nat
  PROVE  \E run : IsRun(run, state, queue, Len(queue)) /\ Applied(state, queue) = run[Len(queue)]
<1> DEFINE run == CHOOSE g : g = [n \in 0 .. Len(queue) |->
                     IF n = 0 THEN state ELSE applyEvent(g[n - 1], queue[n])]
<1>1. run = [n \in 0 .. Len(queue) |-> IF n = 0 THEN state ELSE applyEvent(run[n - 1], queue[n])]
  <2>1. \E g : IsRun(g, state, queue, Len(queue))
    BY RunExists
  <2>2. QED
    BY <2>1, Zenon DEF IsRun
<1>2. Applied(state, queue) = run[Len(queue)]
  BY Zenon DEF Applied
<1> HIDE DEF run
<1>3. QED
  BY <1>1, <1>2, Zenon DEF IsRun

\* What holds before the queue and is passed on by each of its events holds after it.
LEMMA AppliedStays ==
  ASSUME NEW state, NEW queue, Len(queue) \in Nat, NEW Good, state \in Good[0],
         \A i \in 1 .. Len(queue) : \A st \in Good[i - 1] : applyEvent(st, queue[i]) \in Good[i]
  PROVE  Applied(state, queue) \in Good[Len(queue)]
<1>1. PICK run : IsRun(run, state, queue, Len(queue)) /\ Applied(state, queue) = run[Len(queue)]
  BY AppliedRun
<1>2. \A n \in 0 .. Len(queue) :
        run[n] = IF n = 0 THEN state ELSE applyEvent(run[n - 1], queue[n])
  BY <1>1, Zenon DEF IsRun
<1> DEFINE Bad == {n \in 0 .. Len(queue) : run[n] \notin Good[n]}
<1>3. Bad = {}
  <2>1. SUFFICES ASSUME Bad # {} PROVE FALSE
    OBVIOUS
  <2>2. Bad \subseteq Nat
    OBVIOUS
  <2>3. PICK n \in Bad : \A m \in Bad : n <= m
    <3> HIDE DEF Bad
    <3> QED
      BY <2>1, <2>2, Least
  <2>4. n \in 0 .. Len(queue) /\ run[n] \notin Good[n]
    BY <2>3
  <2>5. n # 0
    BY <1>2, <2>4
  <2>6. n - 1 \in 0 .. Len(queue) /\ n - 1 \notin Bad /\ n \in 1 .. Len(queue)
    <3> HIDE DEF Bad
    <3> QED
      BY <2>3, <2>4, <2>5
  <2>7. run[n - 1] \in Good[n - 1]
    BY <2>6, Zenon
  <2>8. run[n] = applyEvent(run[n - 1], queue[n])
    BY <1>2, <2>4, <2>5, Zenon
  <2>9. QED
    BY <2>4, <2>6, <2>7, <2>8, Zenon
<1>4. Len(queue) \in 0 .. Len(queue)
  OBVIOUS
<1>5. QED
  BY <1>1, <1>3, <1>4

-----------------------------------------------------------------------------
(* applyEvent on a state on display                                        *)

LEMMA RefusedState ==
  ASSUME NEW state \in State, NEW b \in BOOLEAN, NEW r, r = [state EXCEPT !.ok = b]
  PROVE  /\ r \in State /\ r.ok = b
         /\ r.session = state.session /\ r.shown = state.shown
         /\ r.recentFrom = state.recentFrom /\ r.rt = state.rt /\ r.host = state.host
  BY DEF State

LEMMA ShownFacts ==
  ASSUME NEW state \in State
  PROVE  /\ state.shown \in Seq(Event) /\ Len(state.shown) \in Nat
         /\ DOMAIN state.shown = 1 .. Len(state.shown)
         /\ \A q \in 1 .. Len(state.shown) : state.shown[q] \in Event
         /\ state.session \in Sessions \cup {NoSession}
         /\ state.recentFrom \in Nat /\ state.host \in Nat /\ state.ok \in BOOLEAN
  BY DEF State

LEMMA AppendFacts ==
  ASSUME NEW S, NEW seq \in Seq(S), NEW e \in S
  PROVE  /\ Append(seq, e) \in Seq(S) /\ Len(Append(seq, e)) = Len(seq) + 1
         /\ Append(seq, e)[Len(seq) + 1] = e
         /\ \A q \in 1 .. Len(seq) : Append(seq, e)[q] = seq[q]
         /\ Len(seq) \in Nat
  OBVIOUS

\* A runtime announced stays so.
LEMMA StillAnnounced ==
  ASSUME NEW shown \in Seq(Event), NEW e \in Event, NEW rt, NEW n \in 0 .. Len(shown),
         Announced(shown, rt, n), NEW k \in Nat, n <= k
  PROVE  Announced(Append(shown, e), rt, k)
<1>1. \A p \in 1 .. n : Append(shown, e)[p] = shown[p] /\ p \in 1 .. k
  BY AppendFacts
<1>2. QED
  BY <1>1, Zenon DEF Announced

\* An event of the runtime on display, or one that announces its own, is announced.
LEMMA AppendAnnounced ==
  ASSUME NEW shown \in Seq(Event), NEW e \in Event, NEW rt,
         AllAnnounced(shown), Announced(shown, rt, Len(shown)),
         e.kind = "runtime" \/ e.rt = rt
  PROVE  /\ AllAnnounced(Append(shown, e))
         /\ Announced(Append(shown, e), e.rt, Len(shown) + 1)
<1> DEFINE longer == Append(shown, e)
<1>1. /\ Len(longer) = Len(shown) + 1 /\ longer[Len(shown) + 1] = e /\ Len(shown) \in Nat
      /\ \A q \in 1 .. Len(shown) : longer[q] = shown[q]
  BY AppendFacts
<1>2. Announced(longer, e.rt, Len(shown) + 1)
  <2>1. CASE e.kind = "runtime"
    <3>1. Len(shown) + 1 \in 1 .. (Len(shown) + 1)
      BY <1>1
    <3>2. QED
      BY <1>1, <2>1, <3>1, Zenon DEF Announced
  <2>2. CASE e.rt = rt
    BY <1>1, <2>2, StillAnnounced
  <2>3. QED
    BY <2>1, <2>2
<1>3. ASSUME NEW q \in 1 .. Len(longer)
      PROVE  Announced(longer, longer[q].rt, q)
  <2>1. CASE q = Len(shown) + 1
    BY <1>1, <1>2, <2>1
  <2>2. CASE q # Len(shown) + 1
    <3>1. q \in 1 .. Len(shown) /\ q \in Nat /\ q \in 0 .. Len(shown) /\ q <= q
      BY <1>1, <2>2
    <3>2. longer[q] = shown[q] /\ Announced(shown, shown[q].rt, q)
      BY <1>1, <3>1 DEF AllAnnounced
    <3>3. Announced(longer, shown[q].rt, q)
      BY <3>1, <3>2, StillAnnounced
    <3>4. QED
      BY <3>2, <3>3
  <2>3. QED
    BY <2>1, <2>2
<1>4. QED
  BY <1>2, <1>3 DEF AllAnnounced

\* What a message adds to a state that stands for the journal stands for it too.
LEMMA ApplyGood ==
  ASSUME NEW state \in State, StateOK(state, journal, gen), NEW m \in Message,
         m.seq >= state.recentFrom, Genuine(journal[state.session], gen, m.seq, m.event),
         m.event.gen >= state.host, NEW r, r = applyEvent(state, m)
  PROVE  /\ r \in State /\ StateOK(r, journal, gen)
         /\ r.session = state.session /\ r.recentFrom = state.recentFrom /\ r.host = state.host
<1>1. m.seq \in Nat /\ m.event \in Event
  BY DEF Message
<1>2. ASSUME NEW b \in BOOLEAN, r = [state EXCEPT !.ok = b]
      PROVE  /\ r \in State /\ StateOK(r, journal, gen)
             /\ r.session = state.session /\ r.recentFrom = state.recentFrom /\ r.host = state.host
  <2>1. /\ r \in State /\ r.session = state.session /\ r.shown = state.shown
        /\ r.recentFrom = state.recentFrom /\ r.rt = state.rt /\ r.host = state.host
    BY <1>2, RefusedState
  <2>2. QED
    BY <2>1, Zenon DEF StateOK
<1>3. CASE ~ state.ok
  BY <1>3 DEF applyEvent
<1>4. CASE state.ok /\ m.seq <= Cursor(state)
  <2> DEFINE b == m.seq \in Recent(state) /\ state.shown[m.seq] = m.event
  <2>1. r = [state EXCEPT !.ok = b] /\ b \in BOOLEAN
    BY <1>4, Zenon DEF applyEvent
  <2> HIDE DEF b
  <2>2. QED
    BY <1>2, <2>1
<1>5. CASE state.ok /\ ~ (m.seq <= Cursor(state)) /\ m.seq # Cursor(state) + 1
  <2>1. r = [state EXCEPT !.ok = FALSE]
    BY <1>5, Zenon DEF applyEvent
  <2>2. QED
    BY <1>2, <2>1
<1>6. CASE state.ok /\ ~ (m.seq <= Cursor(state)) /\ m.seq = Cursor(state) + 1
  <2>1. r = reduceEvent(state, m.event)
    BY <1>6, Zenon DEF applyEvent
  <2>2. CASE m.event.kind # "runtime" /\ m.event.rt # state.rt
    <3>1. r = [state EXCEPT !.ok = FALSE]
      BY <2>1, <2>2, Zenon DEF reduceEvent
    <3>2. QED
      BY <1>2, <3>1
  <2>3. CASE ~ (m.event.kind # "runtime" /\ m.event.rt # state.rt)
    <3>1. r = [state EXCEPT !.shown = Append(state.shown, m.event), !.rt = m.event.rt]
      BY <2>1, <2>3, Zenon DEF reduceEvent
    <3>2. /\ r \in State /\ r.session = state.session /\ r.shown = Append(state.shown, m.event)
          /\ r.recentFrom = state.recentFrom /\ r.rt = m.event.rt /\ r.host = state.host
      <4> DEFINE longer == Append(state.shown, m.event)
                 rt == m.event.rt
      <4>1. longer \in Seq(Event) /\ rt \in Nat \X Nat
        BY <1>1 DEF State, Event
      <4>2. r = [state EXCEPT !.shown = longer, !.rt = rt]
        BY <3>1
      <4> HIDE DEF longer, rt
      <4>3. /\ r \in State /\ r.session = state.session /\ r.shown = longer
            /\ r.recentFrom = state.recentFrom /\ r.rt = rt /\ r.host = state.host
        BY <4>1, <4>2 DEF State
      <4>4. QED
        BY <4>3 DEF longer, rt
    <3>3. /\ state.shown \in Seq(Event) /\ Len(state.shown) \in Nat
          /\ Len(r.shown) = Len(state.shown) + 1
          /\ r.shown[Len(state.shown) + 1] = m.event
          /\ \A q \in 1 .. Len(state.shown) : r.shown[q] = state.shown[q]
      BY <1>1, <3>2, ShownFacts, AppendFacts
    <3>4. m.seq = Len(state.shown) + 1
      BY <1>6 DEF Cursor
    <3>5. AllAnnounced(r.shown) /\ Announced(r.shown, r.rt, Len(r.shown))
      <4>1. AllAnnounced(state.shown) /\ Announced(state.shown, state.rt, Len(state.shown))
        BY DEF StateOK
      <4>2. m.event.kind = "runtime" \/ m.event.rt = state.rt
        BY <2>3
      <4>3. /\ AllAnnounced(Append(state.shown, m.event))
            /\ Announced(Append(state.shown, m.event), m.event.rt, Len(state.shown) + 1)
        BY <1>1, <3>3, <4>1, <4>2, AppendAnnounced
      <4>4. QED
        BY <3>2, <3>3, <4>3
    <3>6. ASSUME NEW q \in 1 .. Len(r.shown)
          PROVE  /\ Genuine(journal[r.session], gen, q, r.shown[q])
                 /\ q >= r.recentFrom => r.shown[q].gen >= r.host
      <4>1. CASE q = Len(state.shown) + 1
        BY <3>2, <3>3, <3>4, <4>1
      <4>2. CASE q # Len(state.shown) + 1
        <5>1. q \in 1 .. Len(state.shown)
          BY <3>3, <4>2
        <5>2. /\ Genuine(journal[state.session], gen, q, state.shown[q])
              /\ q >= state.recentFrom => state.shown[q].gen >= state.host
          BY <5>1 DEF StateOK
        <5>3. QED
          BY <3>2, <3>3, <5>1, <5>2
      <4>3. QED
        BY <4>1, <4>2
    <3>7. state.session \in Sessions /\ state.host <= gen
      BY DEF StateOK
    <3>8. r.rt = RuntimeAt(r.shown, Len(r.shown))
      BY <3>2, <3>3 DEF RuntimeAt
    <3>9. QED
      BY <3>2, <3>5, <3>6, <3>7, <3>8 DEF StateOK
  <2>4. QED
    BY <2>2, <2>3
<1>7. QED
  BY <1>3, <1>4, <1>5, <1>6

LEMMA WindowFacts == Window \in Nat /\ Window > 0
  BY StreamAssumption

\* Before a first crash a genuine event is the journal's.
LEMMA GenuineIsJournal ==
  ASSUME gen = 0, NEW s, NEW q, NEW e \in Event, Genuine(journal[s], gen, q, e)
  PROVE  q \in 1 .. Len(journal[s]) /\ e = journal[s][q]
<1>1. ~ (e.gen < gen)
  BY DEF Event
<1>2. QED
  BY <1>1, Zenon DEF Genuine

\* Before a first crash, the last event again or the next one is taken.
LEMMA ApplyValid ==
  ASSUME TypeOK, JournalsOK, gen = 0,
         NEW state \in State, StateOK(state, journal, gen), state.ok, NEW m \in Message,
         m.seq >= state.recentFrom, Genuine(journal[state.session], gen, m.seq, m.event),
         m.seq = Cursor(state) \/ m.seq = Cursor(state) + 1,
         NEW r, r = applyEvent(state, m)
  PROVE  r.ok /\ Cursor(r) = m.seq
<1> DEFINE s == state.session
           n == Len(state.shown)
<1>1. /\ s \in Sessions /\ m.seq \in Nat /\ m.event \in Event /\ n \in Nat
      /\ Cursor(state) = n /\ state.shown \in Seq(Event)
  BY ShownFacts DEF StateOK, Message, Cursor
<1>2. m.seq \in 1 .. Len(journal[s]) /\ m.event = journal[s][m.seq]
  BY <1>1, GenuineIsJournal
<1>3. ASSUME NEW q \in 1 .. n
      PROVE  q \in 1 .. Len(journal[s]) /\ state.shown[q] = journal[s][q]
  <2>1. Genuine(journal[s], gen, q, state.shown[q]) /\ state.shown[q] \in Event
    BY ShownFacts DEF StateOK
  <2>2. QED
    BY <2>1, GenuineIsJournal
<1> HIDE DEF s, n
<1>4. CASE m.seq = n
  <2> DEFINE b == m.seq \in Recent(state) /\ state.shown[m.seq] = m.event
  <2>1. r = [state EXCEPT !.ok = b] /\ b \in BOOLEAN
    <3>1. m.seq <= Cursor(state)
      BY <1>1, <1>4
    <3>2. QED
      BY <3>1, Zenon DEF applyEvent
  <2>2. m.seq \in 1 .. n
    BY <1>2, <1>4
  <2>3. state.shown[m.seq] = m.event
    BY <1>2, <1>3, <2>2
  <2>4. m.seq \in Recent(state)
    <3>1. m.seq + Window > n /\ m.seq >= state.recentFrom
      BY <1>1, <1>4, WindowFacts
    <3>2. m.seq \in DOMAIN state.shown
      BY <2>2, ShownFacts DEF n
    <3>3. QED
      BY <1>1, <3>1, <3>2, Zenon DEF Recent
  <2>5. b
    BY <2>3, <2>4
  <2> HIDE DEF b
  <2>6. r.ok = b /\ r.shown = state.shown
    BY <2>1, RefusedState
  <2>7. QED
    BY <1>1, <1>4, <2>5, <2>6 DEF Cursor
<1>5. CASE m.seq = n + 1
  <2>1. r = reduceEvent(state, m.event)
    <3>1. ~ (m.seq <= Cursor(state)) /\ m.seq = Cursor(state) + 1
      BY <1>1, <1>5
    <3>2. QED
      BY <3>1, Zenon DEF applyEvent
  <2>2. state.rt = RuntimeAt(journal[s], n)
    <3>1. state.rt = RuntimeAt(state.shown, n)
      BY DEF StateOK, n
    <3>2. n # 0 => state.shown[n] = journal[s][n]
      BY <1>1, <1>3
    <3>3. QED
      BY <3>1, <3>2 DEF RuntimeAt
  <2>3. m.event.kind = "runtime" \/ m.event.rt = RuntimeAt(journal[s], n)
    <3>1. InRuntimes(journal[s]) /\ m.seq - 1 = n
      BY <1>1, <1>5 DEF JournalsOK, JournalOK
    <3>2. QED
      BY <1>2, <3>1 DEF InRuntimes
  <2> DEFINE longer == Append(state.shown, m.event)
             rt == m.event.rt
  <2>4. r = [state EXCEPT !.shown = longer, !.rt = rt]
    <3>1. ~ (m.event.kind # "runtime" /\ m.event.rt # state.rt)
      BY <2>2, <2>3
    <3>2. QED
      BY <2>1, <3>1, Zenon DEF reduceEvent
  <2>5. Len(longer) = n + 1
    BY <1>1 DEF n
  <2> HIDE DEF longer, rt
  <2>6. r.ok = state.ok /\ r.shown = longer
    BY <2>4 DEF State
  <2>7. QED
    BY <1>5, <2>5, <2>6 DEF Cursor
<1>6. QED
  BY <1>1, <1>4, <1>5

\* What a whole queue adds to a state that stands for the journal.
LEMMA AppliedGood ==
  ASSUME NEW state \in State, StateOK(state, journal, gen), NEW queue \in Seq(Message),
         \A i \in 1 .. Len(queue) :
            /\ queue[i].seq >= state.recentFrom
            /\ Genuine(journal[state.session], gen, queue[i].seq, queue[i].event)
            /\ queue[i].event.gen >= state.host,
         NEW r, r = Applied(state, queue)
  PROVE  /\ r \in State /\ StateOK(r, journal, gen)
         /\ r.session = state.session /\ r.recentFrom = state.recentFrom /\ r.host = state.host
<1> DEFINE good == {st \in State : /\ StateOK(st, journal, gen) /\ st.session = state.session
                                   /\ st.recentFrom = state.recentFrom /\ st.host = state.host}
           Good == [n \in 0 .. Len(queue) |-> good]
<1>1. /\ Len(queue) \in Nat /\ 0 \in 0 .. Len(queue) /\ Len(queue) \in 0 .. Len(queue)
      /\ \A i \in 1 .. Len(queue) : /\ queue[i] \in Message /\ i \in 0 .. Len(queue)
                                    /\ i - 1 \in 0 .. Len(queue)
  OBVIOUS
<1>2. \A n \in 0 .. Len(queue) : Good[n] = good
  OBVIOUS
<1>3. state \in good
  OBVIOUS
<1>4. ASSUME NEW i \in 1 .. Len(queue), NEW st \in good
      PROVE  applyEvent(st, queue[i]) \in good
  <2>1. /\ st \in State /\ StateOK(st, journal, gen) /\ st.session = state.session
        /\ st.recentFrom = state.recentFrom /\ st.host = state.host
    OBVIOUS
  <2>2. /\ queue[i] \in Message /\ queue[i].seq >= st.recentFrom
        /\ Genuine(journal[st.session], gen, queue[i].seq, queue[i].event)
        /\ queue[i].event.gen >= st.host
    BY <1>1, <2>1
  <2> DEFINE a == applyEvent(st, queue[i])
  <2> HIDE DEF good
  <2>3. /\ a \in State /\ StateOK(a, journal, gen)
        /\ a.session = st.session /\ a.recentFrom = st.recentFrom /\ a.host = st.host
    BY <2>1, <2>2, ApplyGood
  <2> HIDE DEF a
  <2>4. a \in good
    BY <2>1, <2>3 DEF good
  <2>5. QED
    BY <2>4 DEF a
<1> HIDE DEF good, Good
<1>5. Applied(state, queue) \in Good[Len(queue)]
  <2>1. state \in Good[0]
    BY <1>1, <1>2, <1>3
  <2>2. \A i \in 1 .. Len(queue) : \A st \in Good[i - 1] : applyEvent(st, queue[i]) \in Good[i]
    BY <1>1, <1>2, <1>4
  <2>3. QED
    BY <1>1, <2>1, <2>2, AppliedStays
<1>6. r \in good
  BY <1>1, <1>2, <1>5
<1>7. QED
  BY <1>6 DEF good

\* Before a first crash a queue without a gap is taken, to its last event.
LEMMA AppliedValid ==
  ASSUME TypeOK, JournalsOK, gen = 0,
         NEW state \in State, StateOK(state, journal, gen), state.ok, NEW queue \in Seq(Message),
         \A i \in 1 .. Len(queue) :
            /\ queue[i].seq >= state.recentFrom
            /\ Genuine(journal[state.session], gen, queue[i].seq, queue[i].event)
            /\ queue[i].event.gen >= state.host,
         Steps(Cursor(state), queue),
         NEW r, r = Applied(state, queue)
  PROVE  r.ok /\ Cursor(r) = LastSeq(Cursor(state), queue)
<1> DEFINE at == [n \in 0 .. Len(queue) |-> IF n = 0 THEN Cursor(state) ELSE queue[n].seq]
           good == {st \in State : /\ StateOK(st, journal, gen) /\ st.session = state.session
                                   /\ st.recentFrom = state.recentFrom /\ st.host = state.host}
           Good == [n \in 0 .. Len(queue) |-> {st \in good : st.ok /\ Cursor(st) = at[n]}]
<1>1. /\ Len(queue) \in Nat /\ 0 \in 0 .. Len(queue) /\ Len(queue) \in 0 .. Len(queue)
      /\ \A i \in 1 .. Len(queue) : /\ queue[i] \in Message /\ i \in 0 .. Len(queue)
                                    /\ i - 1 \in 0 .. Len(queue)
  OBVIOUS
<1>2. at[0] = Cursor(state) /\ \A i \in 1 .. Len(queue) : at[i] = queue[i].seq
  BY <1>1
<1>3. \A i \in 1 .. Len(queue) : at[i] = at[i - 1] \/ at[i] = at[i - 1] + 1
  <2> TAKE i \in 1 .. Len(queue)
  <2>1. at[i - 1] = IF i = 1 THEN Cursor(state) ELSE queue[i - 1].seq
    BY <1>1
  <2> HIDE DEF at
  <2>2. QED
    BY <1>2, <2>1 DEF Steps
<1>4. state \in Good[0]
  <2> HIDE DEF at
  <2>1. QED
    BY <1>1, <1>2
<1>5. ASSUME NEW i \in 1 .. Len(queue), NEW st \in Good[i - 1]
      PROVE  applyEvent(st, queue[i]) \in Good[i]
  <2> HIDE DEF at
  <2>1. /\ st \in State /\ StateOK(st, journal, gen) /\ st.session = state.session /\ st.ok
        /\ st.recentFrom = state.recentFrom /\ st.host = state.host /\ Cursor(st) = at[i - 1]
    BY <1>1
  <2>2. /\ queue[i] \in Message /\ queue[i].seq >= st.recentFrom
        /\ Genuine(journal[st.session], gen, queue[i].seq, queue[i].event)
        /\ queue[i].event.gen >= st.host
    BY <1>1, <2>1
  <2>3. queue[i].seq = Cursor(st) \/ queue[i].seq = Cursor(st) + 1
    BY <1>2, <1>3, <2>1
  <2> DEFINE a == applyEvent(st, queue[i])
  <2>4. /\ a \in State /\ StateOK(a, journal, gen)
        /\ a.session = st.session /\ a.recentFrom = st.recentFrom /\ a.host = st.host
    <3> HIDE DEF good, Good
    <3> QED
      BY <2>1, <2>2, ApplyGood
  <2>5. a.ok /\ Cursor(a) = queue[i].seq
    <3> HIDE DEF good, Good
    <3> QED
      BY <2>1, <2>2, <2>3, ApplyValid
  <2> HIDE DEF a
  <2>6. a \in good
    <3> HIDE DEF Good
    <3> QED
      BY <2>1, <2>4
  <2>7. a \in Good[i]
    <3> HIDE DEF good
    <3> QED
      BY <1>1, <1>2, <2>5, <2>6
  <2>8. QED
    BY <2>7 DEF a
<1> HIDE DEF good, Good
<1>6. Applied(state, queue) \in Good[Len(queue)]
  BY <1>1, <1>4, <1>5, AppliedStays
<1>7. r.ok /\ Cursor(r) = at[Len(queue)]
  <2> HIDE DEF at
  <2>1. QED
    BY <1>1, <1>6 DEF Good
<1>8. at[Len(queue)] = LastSeq(Cursor(state), queue)
  BY <1>1, <1>2 DEF LastSeq
<1>9. QED
  BY <1>7, <1>8

-----------------------------------------------------------------------------
(* The record of an effect                                                 *)

LEMMA AbortedFacts ==
  ASSUME NEW f \in Effect, NEW g, g = Aborted(f)
  PROVE  /\ g \in Effect
         /\ g.aborted = TRUE /\ g.sub = NoSub /\ g.queue = <<>> /\ g.frame = FALSE
         /\ g.session = f.session /\ g.active = f.active /\ g.invalid = f.invalid
         /\ g.phase = f.phase /\ g.reply = f.reply /\ g.base = f.base /\ g.lastId = f.lastId
         /\ g.resets = f.resets /\ g.reset = f.reset /\ g.conn = f.conn /\ g.wire = f.wire
<1>1. NoSub \in Subscription /\ <<>> \in Seq(Message)
  BY DEF Subscription
<1>2. QED
  BY <1>1 DEF Aborted, Effect

LEMMA FailedFacts ==
  ASSUME NEW f \in Effect, NEW g, g = Failed(f)
  PROVE  /\ g \in Effect
         /\ g.invalid = TRUE
         /\ g.aborted = TRUE /\ g.sub = NoSub /\ g.queue = <<>> /\ g.frame = FALSE
         /\ g.session = f.session /\ g.active = f.active
         /\ g.phase = f.phase /\ g.reply = f.reply /\ g.base = f.base /\ g.lastId = f.lastId
         /\ g.resets = f.resets /\ g.reset = f.reset /\ g.conn = f.conn /\ g.wire = f.wire
<1>1. NoSub \in Subscription /\ <<>> \in Seq(Message)
  BY DEF Subscription
<1>2. QED
  BY <1>1 DEF Failed, Aborted, Effect

LEMMA CleanupFacts ==
  ASSUME NEW f \in Effect, NEW g, g = Cleanup(f)
  PROVE  /\ g \in Effect
         /\ g.active = FALSE
         /\ g.aborted = TRUE /\ g.sub = NoSub /\ g.queue = <<>> /\ g.frame = FALSE
         /\ g.session = f.session /\ g.invalid = f.invalid
         /\ g.phase = f.phase /\ g.reply = f.reply /\ g.base = f.base /\ g.lastId = f.lastId
         /\ g.resets = f.resets /\ g.reset = f.reset /\ g.conn = f.conn /\ g.wire = f.wire
<1>1. NoSub \in Subscription /\ <<>> \in Seq(Message)
  BY DEF Subscription
<1>2. QED
  BY <1>1 DEF Cleanup, Aborted, Effect

LEMMA NoEffectFacts ==
  /\ NoEffect \in Effect
  /\ EffectOK(NoEffect) /\ ReplyOK(NoEffect, journal, gen)
<1>1. /\ NoSub \in Subscription /\ NoReply \in Reply
      /\ <<>> \in Seq(Message) /\ <<>> \in Seq(Message \cup {Reset})
  BY DEF Subscription, Reply
<1>2. NoEffect \in Effect
  BY <1>1 DEF NoEffect, Effect
<1>3. EffectOK(NoEffect)
  BY StreamAssumption DEF NoEffect, EffectOK, QuietOK, Live, NoSub
<1>4. ReplyOK(NoEffect, journal, gen)
  BY DEF NoEffect, ReplyOK, NoReply
<1>5. QED
  BY <1>2, <1>3, <1>4

\* An effect that has returned.
LEMMA ReturnedFacts ==
  ASSUME NEW f \in Effect, NEW g, g = Returned(f)
  PROVE  /\ g \in Effect /\ EffectOK(g) /\ ReplyOK(g, journal, gen)
         /\ g.phase = "done"
         /\ g.session = f.session /\ g.active = f.active /\ g.invalid = f.invalid
<1>1. /\ f.session \in Sessions \cup {NoSession} /\ f.active \in BOOLEAN /\ f.invalid \in BOOLEAN
  BY DEF Effect
<1>2. /\ NoSub \in Subscription /\ NoReply \in Reply
      /\ <<>> \in Seq(Message) /\ <<>> \in Seq(Message \cup {Reset})
  BY DEF Subscription, Reply
<1>3. g = [session |-> f.session, active |-> f.active, invalid |-> f.invalid, phase |-> "done",
           reply |-> NoReply, base |-> 0, lastId |-> 0, resets |-> 0, reset |-> FALSE,
           aborted |-> FALSE, queue |-> <<>>, frame |-> FALSE, conn |-> "down", wire |-> <<>>,
           sub |-> NoSub]
  BY DEF Returned, NoEffect
<1>4. g \in Effect
  BY <1>1, <1>2, <1>3 DEF Effect
<1>5. EffectOK(g)
  BY <1>3, StreamAssumption DEF EffectOK, QuietOK, NoSub
<1>6. ReplyOK(g, journal, gen)
  BY <1>3 DEF ReplyOK, NoReply
<1>7. QED
  BY <1>3, <1>4, <1>5, <1>6

-----------------------------------------------------------------------------
(* The steps of one effect                                                 *)

Still == /\ journal' = journal /\ durable' = durable /\ storageErr' = storageErr
         /\ changed' = changed /\ gen' = gen

\* A step of one effect keeps the invariant when its own record keeps it, as does
\* the display, which only a live effect may change.
LEMMA EffectStep ==
  ASSUME IInv, Still, session' = session, effects' = effects,
         NEW x \in Effects, NEW f \in Effect, NEW state \in State,
         fx' = [fx EXCEPT ![x] = f], current' = state,
         state = current \/ Live(fx[x]), state.session = current.session,
         DisplayOK(state, journal, gen),
         f.session = fx[x].session, f.active = fx[x].active,
         EffectOK(f), ReplyOK(f, journal, gen),
         Follows(f) => FollowOK(f, state, journal, durable, gen),
         gen = 0 => connection' # "invalid"
  PROVE  IInv'
<1>1. fx \in [Effects -> Effect]
  BY DEF IInv, TypeOK
<1>2. fx' \in [Effects -> Effect] /\ fx'[x] = f /\ \A y \in Effects : y # x => fx'[y] = fx[y]
  BY <1>1
<1>3. TypeOK'
  BY <1>2 DEF IInv, TypeOK, Still
<1>4. JournalsOK'
  BY DEF IInv, JournalsOK, Still
<1>5. OwnerOK'
  <2>1. SUFFICES ASSUME NEW y \in Effects, fx'[y].active
        PROVE  /\ y = effects /\ fx'[y].session = session /\ session \in Sessions
               /\ state.session = session
    BY DEF OwnerOK
  <2>2. fx'[y].active = fx[y].active /\ fx'[y].session = fx[y].session
    BY <1>2
  <2>3. QED
    BY <2>1, <2>2 DEF IInv, OwnerOK
<1>6. ASSUME NEW y \in Effects
      PROVE  /\ EffectOK(fx'[y]) /\ ReplyOK(fx'[y], journal, gen)
             /\ Follows(fx'[y]) => FollowOK(fx'[y], state, journal, durable, gen)
  <2>1. CASE y = x
    BY <1>2, <2>1
  <2>2. CASE y # x
    <3>1. fx'[y] = fx[y]
      BY <1>2, <2>2
    <3>2. /\ EffectOK(fx[y]) /\ ReplyOK(fx[y], journal, gen)
          /\ Follows(fx[y]) => FollowOK(fx[y], current, journal, durable, gen)
      BY DEF IInv
    <3>3. Follows(fx[y]) => state = current
      BY <2>2 DEF IInv, OwnerOK, Follows, Live
    <3>4. QED
      BY <3>1, <3>2, <3>3
  <2>3. QED
    BY <2>1, <2>2
<1>7. QED
  BY <1>3, <1>4, <1>5, <1>6 DEF IInv, Still

\* What is known of an effect before its step.
LEMMA EffectFacts ==
  ASSUME IInv, NEW x \in Effects
  PROVE  /\ fx[x] \in Effect
         /\ EffectOK(fx[x]) /\ ReplyOK(fx[x], journal, gen)
         /\ Follows(fx[x]) => FollowOK(fx[x], current, journal, durable, gen)
         /\ fx[x].active =>
              /\ x = effects /\ fx[x].session = session /\ session \in Sessions
              /\ current.session = session /\ current.session # NoSession
              /\ StateOK(current, journal, gen)
         /\ current \in State /\ DisplayOK(current, journal, gen)
         /\ gen = 0 => connection # "invalid"
  BY StreamAssumption DEF IInv, TypeOK, OwnerOK, DisplayOK

\* A step of an effect that has returned, or does: nothing of it is left.
LEMMA ReturnStep ==
  ASSUME IInv, Still, session' = session, effects' = effects,
         NEW x \in Effects, NEW f \in Effect, NEW state \in State,
         fx' = [fx EXCEPT ![x] = Returned(f)], current' = state,
         f.session = fx[x].session, f.active = fx[x].active,
         state = current \/ Live(fx[x]), state.session = current.session,
         DisplayOK(state, journal, gen),
         gen = 0 => connection' # "invalid"
  PROVE  IInv'
<1> DEFINE g == Returned(f)
<1>1. fx' = [fx EXCEPT ![x] = g]
  OBVIOUS
<1>2. /\ g \in Effect /\ EffectOK(g) /\ ReplyOK(g, journal, gen) /\ g.phase = "done"
      /\ g.session = f.session /\ g.active = f.active
  BY ReturnedFacts
<1> HIDE DEF g
<1>3. ~ Follows(g)
  BY <1>2 DEF Follows
<1>4. QED
  BY <1>1, <1>2, <1>3, EffectStep

LEMMA Greatest ==
  ASSUME NEW n \in Nat, NEW T, T \subseteq 0 .. n, T # {}
  PROVE  \E k \in T : \A m \in T : m <= k
<1> DEFINE U == {n - i : i \in T}
<1>1. U \subseteq Nat /\ U # {}
  <2>1. \A i \in T : n - i \in Nat
    OBVIOUS
  <2>2. QED
    BY <2>1
<1>2. PICK u \in U : \A m \in U : u <= m
  <2> HIDE DEF U
  <2> QED
    BY <1>1, Least
<1>3. PICK k \in T : u = n - k
  OBVIOUS
<1>4. \A m \in T : n - k <= n - m
  BY <1>2, <1>3
<1>5. QED
  BY <1>4

\* The runtime of a journal is announced in it.
LEMMA RuntimeFacts ==
  ASSUME NEW j \in Seq(Event), NEW rt, rt = RuntimeOf(j)
  PROVE  rt \in Nat \X Nat /\ Announced(j, rt, Len(j))
<1> DEFINE runtimes == {i \in DOMAIN j : j[i].kind = "runtime"}
<1>1. Len(j) \in Nat /\ DOMAIN j = 1 .. Len(j) /\ runtimes \subseteq 0 .. Len(j)
  OBVIOUS
<1>2. CASE runtimes = {}
  <2>1. rt = FirstRuntime
    BY <1>2, Zenon DEF RuntimeOf
  <2>2. QED
    BY <2>1 DEF Announced, FirstRuntime
<1>3. CASE runtimes # {}
  <2> DEFINE last == CHOOSE i \in runtimes : \A k \in runtimes : k <= i
  <2>1. \E i \in runtimes : \A k \in runtimes : k <= i
    <3> HIDE DEF runtimes
    <3> QED
      BY <1>1, <1>3, Greatest
  <2>2. last \in runtimes
    <3> HIDE DEF runtimes
    <3> QED
      BY <2>1, Zenon
  <2>3. rt = j[last].rt
    BY <1>3, Zenon DEF RuntimeOf
  <2> HIDE DEF last
  <2>4. last \in 1 .. Len(j) /\ j[last].kind = "runtime" /\ j[last] \in Event
    BY <1>1, <2>2
  <2>5. QED
    BY <2>3, <2>4 DEF Announced, Event
<1>4. QED
  BY <1>2, <1>3

\* The last session.runtime event of a journal names the runtime of its last event.
LEMMA RuntimeIsLast ==
  ASSUME NEW j \in Seq(Event), InRuntimes(j)
  PROVE  RuntimeOf(j) = RuntimeAt(j, Len(j))
<1> DEFINE runtimes == {i \in DOMAIN j : j[i].kind = "runtime"}
           last == IF runtimes = {} THEN 0
                   ELSE CHOOSE i \in runtimes : \A k \in runtimes : k <= i
           moved == {q \in last .. Len(j) : RuntimeAt(j, q) # RuntimeAt(j, last)}
<1>1. Len(j) \in Nat /\ DOMAIN j = 1 .. Len(j) /\ runtimes \subseteq 1 .. Len(j)
  OBVIOUS
<1>2. /\ last \in 0 .. Len(j) /\ RuntimeOf(j) = RuntimeAt(j, last)
      /\ \A k \in runtimes : k <= last
  <2>1. CASE runtimes = {}
    BY <1>1, <2>1 DEF RuntimeOf, RuntimeAt
  <2>2. CASE runtimes # {}
    <3>1. last = CHOOSE i \in runtimes : \A k \in runtimes : k <= i
      BY <2>2
    <3>2. \E i \in runtimes : \A k \in runtimes : k <= i
      <4> HIDE DEF runtimes, last
      <4>1. runtimes \subseteq 0 .. Len(j)
        BY <1>1
      <4>2. QED
        BY <1>1, <2>2, <4>1, Greatest
    <3>3. last \in runtimes /\ \A k \in runtimes : k <= last
      <4> HIDE DEF runtimes, last
      <4>1. QED
        BY <3>1, <3>2, Zenon
    <3>4. RuntimeOf(j) = j[last].rt
      <4> DEFINE latest == CHOOSE i \in runtimes : \A k \in runtimes : k <= i
      <4>1. RuntimeOf(j) = j[latest].rt
        BY <2>2, Zenon DEF RuntimeOf
      <4>2. last = latest
        BY <3>1
      <4> HIDE DEF latest, last
      <4>3. QED
        BY <4>1, <4>2
    <3> HIDE DEF runtimes, last
    <3>5. last # 0 /\ last \in 0 .. Len(j)
      BY <1>1, <3>3
    <3>6. QED
      BY <3>3, <3>4, <3>5 DEF RuntimeAt
  <2>3. QED
    BY <2>1, <2>2
<1>3. \A q \in 1 .. Len(j) : q > last => j[q].kind # "runtime"
  <2>1. ASSUME NEW q \in 1 .. Len(j), j[q].kind = "runtime" PROVE ~ (q > last)
    <3>1. q \in runtimes
      BY <1>1, <2>1
    <3> HIDE DEF runtimes, last
    <3>2. QED
      BY <1>1, <1>2, <3>1
  <2>2. QED
    BY <2>1
<1> HIDE DEF last, runtimes
<1>4. moved = {}
  <2> SUFFICES ASSUME moved # {} PROVE FALSE
    OBVIOUS
  <2>1. moved \subseteq Nat
    BY <1>1, <1>2
  <2>2. PICK n \in moved : \A m \in moved : n <= m
    <3> HIDE DEF moved
    <3> QED
      BY <2>1, Least
  <2>3. n # last /\ n \in last .. Len(j) /\ RuntimeAt(j, n) # RuntimeAt(j, last)
    OBVIOUS
  <2>4. /\ n \in 1 .. Len(j) /\ n > last /\ n - 1 \in last .. Len(j)
        /\ ~ (n <= n - 1) /\ n # 0
    BY <1>1, <1>2, <2>3
  <2>5. RuntimeAt(j, n - 1) = RuntimeAt(j, last)
    BY <2>2, <2>4
  <2>6. j[n].rt = RuntimeAt(j, n - 1)
    BY <1>3, <2>4 DEF InRuntimes
  <2>7. RuntimeAt(j, n) = j[n].rt
    BY <2>4 DEF RuntimeAt
  <2>8. QED
    BY <2>3, <2>5, <2>6, <2>7
<1>5. Len(j) \in last .. Len(j)
  BY <1>1, <1>2
<1>6. QED
  BY <1>2, <1>4, <1>5

\* An effect as it was but for the answer it waits for.
LEMMA ReplySet ==
  ASSUME NEW f \in Effect, NEW r \in Reply, NEW g, g = [f EXCEPT !.reply = r]
  PROVE  /\ g \in Effect /\ g.reply = r
         /\ g.aborted = f.aborted /\ g.sub = f.sub /\ g.queue = f.queue /\ g.frame = f.frame
         /\ g.session = f.session /\ g.active = f.active /\ g.invalid = f.invalid
         /\ g.phase = f.phase /\ g.base = f.base /\ g.lastId = f.lastId
         /\ g.resets = f.resets /\ g.reset = f.reset /\ g.conn = f.conn /\ g.wire = f.wire
  BY DEF Effect

LEMMA EmptyState ==
  ASSUME NEW s \in Sessions \cup {NoSession}, NEW r, r = emptyStream(s)
  PROVE  /\ r \in State /\ r.session = s /\ r.shown = <<>> /\ r.ok = TRUE
         /\ gen \in Nat => DisplayOK(r, journal, gen)
<1>1. /\ r \in State /\ r.session = s /\ r.shown = <<>> /\ r.ok = TRUE /\ r.host = 0
      /\ r.rt = FirstRuntime
  BY DEF emptyStream, State, FirstRuntime
<1>2. gen \in Nat /\ s \in Sessions => StateOK(r, journal, gen)
  BY <1>1 DEF StateOK, AllAnnounced, Announced, RuntimeAt
<1>3. QED
  BY <1>1, <1>2 DEF DisplayOK

LEMMA CurrentKeeps ==
  ASSUME IInv, NEW x \in Effects, Current(x)
  PROVE  IInv'
<1> DEFINE s == fx[x].session
           j == journal[s]
           seed == [emptyStream(s) EXCEPT !.shown = j, !.recentFrom = Len(j) + 1,
                                          !.rt = RuntimeOf(j), !.host = gen]
<1>1. /\ fx[x] \in Effect /\ EffectOK(fx[x]) /\ s \in Sessions
      /\ current \in State /\ DisplayOK(current, journal, gen)
      /\ gen = 0 => connection # "invalid"
  BY EffectFacts DEF Current
<1>2. Still /\ session' = session /\ effects' = effects /\ current' = current
      /\ connection' = connection /\ fx[x].phase = "seed"
  BY DEF Current, Still, host
<1>3. PICK r : /\ r \in {[st |-> "seed", state |-> seed], [st |-> "exhausted"]}
               /\ fx' = [fx EXCEPT ![x].reply = r]
  BY Zenon DEF Current
<1>4. /\ j \in Seq(Event) /\ Len(j) \in Nat /\ gen \in Nat /\ JournalOK(j, durable[s], gen)
  BY <1>1 DEF IInv, TypeOK, JournalsOK
<1>5. /\ seed.session = s /\ seed.shown = j /\ seed.recentFrom = Len(j) + 1
      /\ seed.rt = RuntimeOf(j) /\ seed.host = gen /\ seed.ok = TRUE
  BY Zenon DEF emptyStream
<1>6. seed \in State
  <2>1. RuntimeOf(j) \in Nat \X Nat /\ Len(j) + 1 \in Nat
    BY <1>4, RuntimeFacts
  <2>2. emptyStream(s) \in State
    BY <1>1, EmptyState
  <2> DEFINE empty == emptyStream(s)
             n == Len(j) + 1
             rt == RuntimeOf(j)
  <2>3. empty \in State /\ n \in Nat /\ rt \in Nat \X Nat
    BY <2>1, <2>2
  <2> HIDE DEF empty, n, rt, j, s
  <2>4. [empty EXCEPT !.shown = j, !.recentFrom = n, !.rt = rt, !.host = gen] \in State
    BY <1>4, <2>3 DEF State
  <2>5. QED
    BY <2>4 DEF empty, n, rt
<1> HIDE DEF seed
<1>7. StateOK(seed, journal, gen)
  <2>1. Announced(j, RuntimeOf(j), Len(j))
    BY <1>4, RuntimeFacts
  <2>2. AllAnnounced(j)
    BY <1>4 DEF JournalOK
  <2>3. \A q \in 1 .. Len(j) : Genuine(j, gen, q, j[q]) /\ ~ (q >= Len(j) + 1)
    BY <1>4 DEF Genuine
  <2>4. RuntimeOf(j) = RuntimeAt(j, Len(j))
    BY <1>4, RuntimeIsLast DEF JournalOK
  <2> HIDE DEF j
  <2>5. QED
    BY <1>1, <1>4, <1>5, <2>1, <2>2, <2>3, <2>4 DEF StateOK, j
<1>8. LaterThan(j, Len(j), gen)
  BY <1>4 DEF LaterThan
<1> DEFINE g == [fx[x] EXCEPT !.reply = r]
<1>9. fx' = [fx EXCEPT ![x] = g]
  BY <1>3
<1>10. r \in Reply
  BY <1>3, <1>6 DEF Reply
<1>11. /\ g \in Effect /\ g.reply = r
       /\ g.aborted = fx[x].aborted /\ g.sub = fx[x].sub /\ g.queue = fx[x].queue
       /\ g.frame = fx[x].frame /\ g.session = s /\ g.active = fx[x].active
       /\ g.invalid = fx[x].invalid /\ g.phase = "seed" /\ g.conn = fx[x].conn
       /\ g.wire = fx[x].wire
  BY <1>1, <1>2, <1>10, ReplySet
<1> HIDE DEF g
<1>12. EffectOK(g) /\ ~ Follows(g)
  BY <1>1, <1>2, <1>11 DEF EffectOK, QuietOK, Live, Follows
<1>13. ReplyOK(g, journal, gen)
  <2>1. CASE r = [st |-> "seed", state |-> seed]
    <3>1. g.reply.state = seed
      BY <1>11, <2>1
    <3>2. QED
      BY <1>5, <1>7, <1>8, <1>11, <3>1, Zenon DEF ReplyOK, j
  <2>2. CASE r = [st |-> "exhausted"]
    BY <1>11, <2>2 DEF ReplyOK
  <2>3. QED
    BY <1>3, <2>1, <2>2
<1>14. QED
  BY <1>1, <1>2, <1>9, <1>11, <1>12, <1>13, EffectStep

LEMMA SeedArrivesKeeps ==
  ASSUME IInv, NEW x \in Effects, SeedArrives(x)
  PROVE  IInv'
<1> DEFINE f == [fx[x] EXCEPT !.reply = NoReply]
           state == fx[x].reply.state
<1>1. /\ fx[x] \in Effect /\ EffectOK(fx[x]) /\ ReplyOK(fx[x], journal, gen)
      /\ current \in State /\ DisplayOK(current, journal, gen)
      /\ gen = 0 => connection # "invalid"
      /\ fx[x].active => fx[x].session \in Sessions /\ current.session = fx[x].session
  BY EffectFacts
<1>2. Still /\ session' = session /\ effects' = effects /\ fx[x].phase = "seed"
  BY DEF SeedArrives, Still, host
<1>3. /\ f \in Effect /\ f.reply = NoReply /\ f.session = fx[x].session /\ f.active = fx[x].active
      /\ f.invalid = fx[x].invalid /\ f.aborted = fx[x].aborted /\ f.sub = fx[x].sub
      /\ f.queue = fx[x].queue /\ f.frame = fx[x].frame /\ f.conn = fx[x].conn
      /\ f.wire = fx[x].wire
  <2>1. NoReply \in Reply
    BY DEF Reply
  <2>2. QED
    BY <1>1, <2>1, ReplySet
<1>4. Live(f) = Live(fx[x])
  <2> HIDE DEF f
  <2> QED
    BY <1>3, Zenon DEF Live
<1>5. CASE ~ Live(f)
  <2>1. fx' = [fx EXCEPT ![x] = Returned(f)] /\ current' = current /\ connection' = connection
    BY <1>5, Zenon DEF SeedArrives
  <2> HIDE DEF f
  <2>2. QED
    BY <1>1, <1>2, <1>3, <2>1, ReturnStep
<1>6. CASE Live(f) /\ fx[x].reply.st = "seed"
  <2> DEFINE n == Cursor(state)
             g == [f EXCEPT !.phase = "follow", !.base = n, !.lastId = n]
  <2>1. fx' = [fx EXCEPT ![x] = g] /\ current' = state /\ connection' = connection
    BY <1>6, Zenon DEF SeedArrives
  <2>2. fx[x].reply \in Reply
    BY <1>1 DEF Effect
  <2>3. state \in State
    BY <1>6, <2>2 DEF Reply, NoReply
  <2>4. /\ StateOK(state, journal, gen) /\ state.ok /\ state.session = fx[x].session
        /\ state.recentFrom = Len(state.shown) + 1
        /\ LaterThan(journal[fx[x].session], Len(state.shown), state.host)
    BY <1>1, <1>6 DEF ReplyOK
  <2>5. Live(fx[x]) /\ fx[x].active
    BY <1>4, <1>6 DEF Live
  <2> HIDE DEF f, state
  <2>6. n \in Nat /\ n = Len(state.shown)
    BY <2>3, ShownFacts DEF Cursor
  <2>7. gen = 0 => n <= Len(journal[fx[x].session])
    <3> SUFFICES ASSUME gen = 0, n # 0 PROVE n <= Len(journal[fx[x].session])
      BY <1>1, <2>5, <2>6 DEF IInv, TypeOK
    <3>1. n \in 1 .. Len(state.shown)
      BY <2>6
    <3>2. Genuine(journal[state.session], gen, n, state.shown[n]) /\ state.shown[n] \in Event
      BY <2>3, <2>4, <3>1, ShownFacts DEF StateOK
    <3>3. n \in 1 .. Len(journal[state.session])
      BY <3>2, GenuineIsJournal
    <3>4. QED
      BY <2>4, <3>3
  <2> HIDE DEF n
  <2>8. /\ g \in Effect /\ g.reply = f.reply
        /\ g.aborted = f.aborted /\ g.sub = f.sub /\ g.queue = f.queue /\ g.frame = f.frame
        /\ g.session = f.session /\ g.active = f.active /\ g.invalid = f.invalid
        /\ g.phase = "follow" /\ g.base = n /\ g.lastId = n
        /\ g.conn = f.conn /\ g.wire = f.wire
    BY <1>3, <2>6 DEF Effect
  <2> HIDE DEF g
  <2>9. g.sub = NoSub /\ g.queue = <<>> /\ g.wire = <<>>
    BY <1>1, <1>2, <1>3, <2>8 DEF EffectOK, QuietOK
  <2>10. EffectOK(g)
    BY <1>1, <1>2, <1>3, <1>6, <2>8, <2>9, StreamAssumption DEF EffectOK, QuietOK, Live, NoSub
  <2>11. ReplyOK(g, journal, gen)
    BY <1>3, <2>8 DEF ReplyOK, NoReply
  <2>12. gen = 0 => ChainOK(g, state, journal)
    BY <1>3, <2>6, <2>7, <2>8, <2>9 DEF ChainOK, LastSeq, Steps, Cursor
  <2>13. FollowOK(g, state, journal, durable, gen)
    BY <1>3, <2>4, <2>6, <2>8, <2>9, <2>12 DEF FollowOK, NoSub
  <2>14. DisplayOK(state, journal, gen)
    BY <1>1, <2>4, <2>5, StreamAssumption DEF DisplayOK
  <2>15. state.session = current.session
    BY <1>1, <2>4, <2>5
  <2>16. QED
    BY <1>1, <1>2, <1>3, <2>1, <2>3, <2>5, <2>8, <2>10, <2>11, <2>13, <2>14, <2>15, EffectStep
<1>7. CASE Live(f) /\ fx[x].reply.st # "seed"
  <2> DEFINE empty == emptyStream(f.session)
             h == Failed(f)
  <2>1. /\ fx' = [fx EXCEPT ![x] = Returned(h)] /\ current' = empty
        /\ connection' = "refused"
    BY <1>7, Zenon DEF SeedArrives
  <2>2. Live(fx[x]) /\ fx[x].active
    BY <1>4, <1>7 DEF Live
  <2> HIDE DEF f
  <2>3. h \in Effect /\ h.session = f.session /\ h.active = f.active
    BY <1>3, FailedFacts
  <2>4. empty \in State /\ empty.session = f.session /\ DisplayOK(empty, journal, gen)
    <3>1. gen \in Nat /\ f.session \in Sessions \cup {NoSession}
      BY <1>1, <1>3, <2>2 DEF IInv, TypeOK
    <3>2. QED
      BY <3>1, EmptyState
  <2> HIDE DEF h, empty
  <2>5. QED
    BY <1>1, <1>2, <1>3, <2>1, <2>2, <2>3, <2>4, ReturnStep
<1>8. QED
  BY <1>5, <1>6, <1>7

\* A live effect whose stream has no message and no subscription left.
LEMMA DisconnectKeeps ==
  ASSUME IInv, NEW x \in Effects, NEW status, status # "invalid", Disconnect(x, status)
  PROVE  IInv'
<1> DEFINE f == fx[x]
           g == [f EXCEPT !.conn = "down", !.wire = <<>>, !.sub = NoSub]
<1>1. /\ f \in Effect /\ EffectOK(f) /\ ReplyOK(f, journal, gen)
      /\ Follows(f) => FollowOK(f, current, journal, durable, gen)
      /\ current \in State /\ DisplayOK(current, journal, gen)
      /\ gen = 0 => connection # "invalid"
  BY EffectFacts
<1>2. /\ Still /\ session' = session /\ effects' = effects /\ current' = current
      /\ f.conn = "open" /\ ~ f.aborted
      /\ connection' = status \/ connection' = connection
  BY DEF Disconnect, Still, host
<1>3. fx' = [fx EXCEPT ![x] = g]
  BY DEF Disconnect
<1>4. f.phase = "follow" /\ Live(f) /\ Follows(f)
  <2> HIDE DEF f
  <2> QED
    BY <1>1, <1>2 DEF EffectOK, QuietOK, Follows
<1> HIDE DEF f
<1>5. /\ g \in Effect /\ g.conn = "down" /\ g.wire = <<>> /\ g.sub = NoSub
      /\ g.session = f.session /\ g.active = f.active /\ g.invalid = f.invalid
      /\ g.phase = f.phase /\ g.reply = f.reply /\ g.base = f.base /\ g.lastId = f.lastId
      /\ g.aborted = f.aborted /\ g.queue = f.queue /\ g.frame = f.frame
  <2>1. NoSub \in Subscription /\ <<>> \in Seq(Message \cup {Reset})
    BY DEF Subscription
  <2>2. QED
    BY <1>1, <2>1 DEF Effect
<1> HIDE DEF g
<1>6. EffectOK(g) /\ Follows(g)
  BY <1>1, <1>4, <1>5 DEF EffectOK, QuietOK, Live, Follows, NoSub
<1>7. ReplyOK(g, journal, gen)
  BY <1>1, <1>5, Zenon DEF ReplyOK
<1>8. gen = 0 => ChainOK(g, current, journal)
  <2> SUFFICES ASSUME gen = 0 PROVE ChainOK(g, current, journal)
    OBVIOUS
  <2>1. ChainOK(f, current, journal)
    BY <1>1, <1>2, <1>4, Zenon DEF FollowOK
  <2>2. f.lastId \in Nat
    BY <1>1 DEF Effect
  <2>3. QED
    BY <1>5, <2>1, <2>2 DEF ChainOK
<1>9. FollowOK(g, current, journal, durable, gen)
  BY <1>1, <1>4, <1>5, <1>8 DEF FollowOK, NoSub, Fresh
<1>10. QED
  BY <1>1, <1>2, <1>3, <1>5, <1>6, <1>7, <1>9, EffectStep DEF f

LEMMA OpenRefusedKeeps ==
  ASSUME IInv, NEW x \in Effects, OpenRefused(x)
  PROVE  IInv'
<1> DEFINE g == Failed(fx[x])
<1>1. /\ fx[x] \in Effect /\ current \in State /\ DisplayOK(current, journal, gen)
  BY EffectFacts
<1>2. /\ Still /\ session' = session /\ effects' = effects /\ current' = current
      /\ connection' = "refused" /\ fx' = [fx EXCEPT ![x] = Returned(g)]
  BY DEF OpenRefused, Still, host
<1>3. g \in Effect /\ g.session = fx[x].session /\ g.active = fx[x].active
  BY <1>1, FailedFacts
<1> HIDE DEF g
<1>4. QED
  BY <1>1, <1>2, <1>3, ReturnStep

LEMMA SubscriberWakesKeeps ==
  ASSUME IInv, NEW x \in Effects, SubscriberWakes(x)
  PROVE  IInv'
<1> DEFINE f == fx[x]
           u == [st |-> "loop", after |-> f.sub.after]
           g == [f EXCEPT !.sub = u]
<1>1. /\ f \in Effect /\ EffectOK(f) /\ ReplyOK(f, journal, gen)
      /\ Follows(f) => FollowOK(f, current, journal, durable, gen)
      /\ current \in State /\ DisplayOK(current, journal, gen)
      /\ gen = 0 => connection # "invalid"
  BY EffectFacts
<1>2. /\ Still /\ session' = session /\ effects' = effects /\ current' = current
      /\ f.sub.st = "wait" /\ connection' = connection /\ fx' = [fx EXCEPT ![x] = g]
  BY DEF SubscriberWakes, Still, host
<1>3. f.sub # NoSub /\ f.sub.after \in Nat
  BY <1>1, <1>2 DEF Effect, Subscription, NoSub
<1> HIDE DEF f
<1>4. u \in Subscription /\ u # NoSub /\ u.st = "loop" /\ u.after = f.sub.after
  BY <1>3 DEF Subscription, NoSub
<1> HIDE DEF u
<1>5. /\ g \in Effect /\ g.sub = u /\ g.wire = f.wire /\ g.conn = f.conn
      /\ g.session = f.session /\ g.active = f.active /\ g.invalid = f.invalid
      /\ g.phase = f.phase /\ g.reply = f.reply /\ g.base = f.base /\ g.lastId = f.lastId
      /\ g.aborted = f.aborted /\ g.queue = f.queue /\ g.frame = f.frame
  BY <1>1, <1>4 DEF Effect
<1> HIDE DEF g
<1>6. EffectOK(g)
  BY <1>1, <1>3, <1>4, <1>5 DEF EffectOK, QuietOK, Live
<1>7. ReplyOK(g, journal, gen)
  BY <1>1, <1>5, Zenon DEF ReplyOK
<1>8. ASSUME Follows(g)
      PROVE  FollowOK(g, current, journal, durable, gen)
  <2>1. FollowOK(f, current, journal, durable, gen)
    BY <1>1, <1>5, <1>8 DEF Follows, Live
  <2>2. gen = 0 /\ ~ g.aborted => ChainOK(g, current, journal)
    <3> SUFFICES ASSUME gen = 0, ~ g.aborted PROVE ChainOK(g, current, journal)
      OBVIOUS
    <3>1. ChainOK(f, current, journal)
      BY <1>5, <2>1, Zenon DEF FollowOK
    <3>2. QED
      BY <1>3, <1>4, <1>5, <3>1 DEF ChainOK
  <2>3. QED
    BY <1>3, <1>4, <1>5, <2>1, <2>2 DEF FollowOK, Fresh
<1>9. QED
  BY <1>1, <1>2, <1>5, <1>6, <1>7, <1>8, EffectStep DEF f

LEMMA OpenKeeps ==
  ASSUME IInv, NEW x \in Effects, Open(x)
  PROVE  IInv'
<1> DEFINE f == fx[x]
<1>1. /\ f \in Effect /\ EffectOK(f) /\ ReplyOK(f, journal, gen)
      /\ Follows(f) => FollowOK(f, current, journal, durable, gen)
      /\ current \in State /\ DisplayOK(current, journal, gen)
      /\ gen = 0 => connection # "invalid"
  BY EffectFacts
<1>2. /\ Still /\ session' = session /\ effects' = effects /\ current' = current
      /\ f.phase = "follow" /\ f.conn = "down" /\ ~ f.aborted
      /\ connection' = "connected" \/ connection' = connection
  BY DEF Open, Still, host
<1>3. PICK after \in {f.lastId} \cup ({f.lastId - 1} \cap f.base .. f.lastId) :
        LET known == after <= Len(journal[f.session])
        IN  fx' = [fx EXCEPT ![x].conn = "open", ![x].wire = IF known THEN <<>> ELSE <<Reset>>,
                             ![x].sub = IF known THEN [st |-> "loop", after |-> after] ELSE NoSub]
  BY DEF Open
<1> DEFINE known == after <= Len(journal[f.session])
           w == IF known THEN <<>> ELSE <<Reset>>
           u == IF known THEN [st |-> "loop", after |-> after] ELSE NoSub
           g == [f EXCEPT !.conn = "open", !.wire = w, !.sub = u]
<1>4. fx' = [fx EXCEPT ![x] = g]
  BY <1>3
<1> HIDE DEF f
<1>5. Live(f) /\ Follows(f) /\ FollowOK(f, current, journal, durable, gen)
  BY <1>1, <1>2 DEF EffectOK, QuietOK, Follows
<1>6. /\ f.lastId \in Nat /\ f.base \in Nat /\ f.base <= f.lastId
      /\ after \in Nat /\ f.base <= after
      /\ after = f.lastId \/ after + 1 = f.lastId
  <2>1. f.lastId \in Nat /\ f.base \in Nat
    BY <1>1 DEF Effect
  <2>2. f.base <= f.lastId
    BY <1>5 DEF FollowOK
  <2>3. QED
    BY <1>3, <2>1, <2>2
<1>7. /\ w \in Seq(Message \cup {Reset}) /\ u \in Subscription
      /\ \A i \in 1 .. Len(w) : w[i] = Reset
      /\ known => w = <<>> /\ u.after = after
      /\ u # NoSub => known
      /\ u.st # "read"
  <2>1. CASE known
    <3>1. w = <<>> /\ u = [st |-> "loop", after |-> after]
      BY <2>1
    <3>2. QED
      BY <1>6, <2>1, <3>1 DEF Subscription
  <2>2. CASE ~ known
    <3>1. w = <<Reset>> /\ u = NoSub
      BY <2>2
    <3>2. QED
      BY <2>2, <3>1 DEF Subscription, NoSub
  <2>3. QED
    BY <2>1, <2>2
<1>8. gen = 0 => known
  <2> SUFFICES ASSUME gen = 0 PROVE known
    OBVIOUS
  <2>1. f.lastId <= Len(journal[f.session])
    BY <1>2, <1>5 DEF FollowOK, ChainOK
  <2>2. Len(journal[f.session]) \in Nat
    BY <1>5, EffectFacts DEF IInv, TypeOK, Live, f
  <2>3. QED
    BY <1>6, <2>1, <2>2
<1> HIDE DEF w, u, known
<1>9. /\ g \in Effect /\ g.conn = "open" /\ g.wire = w /\ g.sub = u
      /\ g.session = f.session /\ g.active = f.active /\ g.invalid = f.invalid
      /\ g.phase = f.phase /\ g.reply = f.reply /\ g.base = f.base /\ g.lastId = f.lastId
      /\ g.aborted = f.aborted /\ g.queue = f.queue /\ g.frame = f.frame
  BY <1>1, <1>7 DEF Effect
<1> HIDE DEF g
<1>10. EffectOK(g)
  BY <1>1, <1>2, <1>7, <1>9 DEF EffectOK, QuietOK, Live
<1>11. ReplyOK(g, journal, gen)
  BY <1>1, <1>9, Zenon DEF ReplyOK
<1>12. gen = 0 => ChainOK(g, current, journal)
  <2> SUFFICES ASSUME gen = 0 PROVE ChainOK(g, current, journal)
    OBVIOUS
  <2>1. ChainOK(f, current, journal)
    BY <1>2, <1>5, Zenon DEF FollowOK
  <2>2. g.wire = <<>> /\ g.sub.after = after
    BY <1>7, <1>8, <1>9
  <2>3. QED
    BY <1>6, <1>9, <2>1, <2>2 DEF ChainOK
<1>13. FollowOK(g, current, journal, durable, gen)
  BY <1>5, <1>6, <1>7, <1>9, <1>12 DEF FollowOK, Fresh
<1>14. QED
  BY <1>1, <1>2, <1>4, <1>9, <1>10, <1>11, <1>13, EffectStep DEF f

\* A subscription is of a live effect that follows.
LEMMA SubscriptionIsLive ==
  ASSUME IInv, NEW x \in Effects, fx[x].sub # NoSub
  PROVE  /\ Live(fx[x]) /\ Follows(fx[x]) /\ ~ fx[x].aborted
         /\ fx[x].session \in Sessions
         /\ FollowOK(fx[x], current, journal, durable, gen)
         /\ journal[fx[x].session] \in Seq(Event) /\ durable[fx[x].session] \in Nat
         /\ Len(journal[fx[x].session]) \in Nat
         /\ durable[fx[x].session] <= Len(journal[fx[x].session])
<1>1. /\ EffectOK(fx[x])
      /\ Follows(fx[x]) => FollowOK(fx[x], current, journal, durable, gen)
      /\ fx[x].active => fx[x].session \in Sessions
  BY EffectFacts
<1>2. Follows(fx[x]) /\ ~ fx[x].aborted
  BY <1>1 DEF EffectOK, QuietOK, Follows
<1>3. fx[x].session \in Sessions
  BY <1>1, <1>2 DEF Follows, Live
<1>4. QED
  BY <1>1, <1>2, <1>3 DEF IInv, TypeOK, JournalsOK, JournalOK, Follows

\* The events of a journal after one number and up to another.
LEMMA NumberedFacts ==
  ASSUME NEW j \in Seq(Event), NEW after \in Nat, NEW last \in Nat, last <= Len(j),
         NEW t, t = Numbered(j, after, last)
  PROVE  /\ t \in Seq(Message) /\ Len(t) = IF last > after THEN last - after ELSE 0
         /\ \A i \in 1 .. Len(t) : /\ t[i].seq = after + i /\ t[i].event = j[after + i]
                                   /\ after + i \in 1 .. Len(j)
<1> DEFINE n == IF last > after THEN last - after ELSE 0
<1>1. n \in Nat /\ \A i \in 1 .. n : after + i \in 1 .. Len(j)
  OBVIOUS
<1>2. \A i \in 1 .. n : [seq |-> after + i, event |-> j[after + i]] \in Message
  BY <1>1 DEF Message
<1> HIDE DEF n
<1>3. t = [i \in 1 .. n |-> [seq |-> after + i, event |-> j[after + i]]]
  BY Zenon DEF Numbered, n
<1>4. t \in [1 .. n -> Message]
  BY <1>2, <1>3
<1>5. t \in Seq(Message) /\ Len(t) = n
  BY <1>1, <1>4
<1>6. \A i \in 1 .. n : t[i].seq = after + i /\ t[i].event = j[after + i]
  BY <1>3
<1>7. QED
  BY <1>1, <1>5, <1>6 DEF n

\* A page may end anywhere, but a list of events never before its first.
LEMMA CutFacts ==
  ASSUME NEW events \in Seq(Message), NEW c \in Cut(events)
  PROVE  /\ c \in Seq(Message) /\ Len(c) <= Len(events)
         /\ \A i \in 1 .. Len(c) : i \in 1 .. Len(events) /\ c[i] = events[i]
<1>1. CASE events = <<>>
  BY <1>1 DEF Cut
<1>2. CASE events # <<>>
  <2>1. PICK n \in 1 .. Len(events) : c = SubSeq(events, 1, n)
    BY <1>2 DEF Cut
  <2>2. QED
    BY <2>1
<1>3. QED
  BY <1>1, <1>2

LEMMA ConcatFacts ==
  ASSUME NEW S, NEW a \in Seq(S), NEW b \in Seq(S), NEW c, c = a \o b
  PROVE  /\ c \in Seq(S) /\ Len(c) = Len(a) + Len(b) /\ Len(a) \in Nat /\ Len(b) \in Nat
         /\ \A i \in 1 .. Len(a) : c[i] = a[i]
         /\ \A i \in 1 .. Len(c) : i \in 1 .. Len(a)
               \/ (i - Len(a) \in 1 .. Len(b) /\ c[i] = b[i - Len(a)])
  OBVIOUS

\* The events of the journal after the seed are fresh.
LEMMA JournalIsFresh ==
  ASSUME NEW f, NEW m, NEW host0, NEW js, NEW g,
         LaterThan(js[f.session], f.base, host0),
         m.seq > f.base, m.seq \in 1 .. Len(js[f.session]), m.event = js[f.session][m.seq]
  PROVE  Fresh(f, m, host0, js, g)
  BY DEF LaterThan, Fresh, Genuine

\* A subscription that moves on without a step of its cursor.
LEMMA SubscribedChain ==
  ASSUME NEW f, NEW g, NEW state, NEW js, ChainOK(f, state, js), f.sub # NoSub,
         g.lastId = f.lastId, g.queue = f.queue, g.wire = f.wire, g.session = f.session,
         g.sub.after = f.sub.after
  PROVE  ChainOK(g, state, js)
  BY DEF ChainOK

LEMMA ReplayLockedKeeps ==
  ASSUME IInv, NEW x \in Effects, ReplayLocked(x)
  PROVE  IInv'
<1> DEFINE f == fx[x]
           s == f.session
           j == journal[s]
           after == f.sub.after
           last == Len(journal[s])
           upTo == IF last < after + Page THEN last ELSE after + Page
           from == IF after > durable[s] THEN after ELSE durable[s]
           tail == Numbered(journal[s], from, upTo)
           u == [st |-> "read", after |-> after, durable |-> durable[s], end |-> upTo,
                 tailFrom |-> from, tail |-> tail, changed |-> changed[s],
                 failure |-> storageErr[s]]
           g == [f EXCEPT !.sub = u]
<1>1. /\ f \in Effect /\ EffectOK(f) /\ ReplyOK(f, journal, gen)
      /\ current \in State /\ DisplayOK(current, journal, gen)
      /\ gen = 0 => connection # "invalid"
  BY EffectFacts
<1>2. /\ Still /\ session' = session /\ effects' = effects /\ current' = current
      /\ f.sub.st = "loop" /\ connection' = connection
  BY DEF ReplayLocked, Still, host
<1>3. fx' = [fx EXCEPT ![x] = g]
  BY DEF ReplayLocked
<1>4. f.sub # NoSub /\ after \in Nat
  BY <1>1, <1>2 DEF Effect, Subscription, NoSub
<1>5. /\ Live(f) /\ Follows(f) /\ ~ f.aborted
      /\ s \in Sessions /\ FollowOK(f, current, journal, durable, gen)
      /\ j \in Seq(Event) /\ durable[s] \in Nat /\ last \in Nat /\ durable[s] <= last
  BY <1>4, SubscriptionIsLive
<1>6. /\ f.base \in Nat /\ f.base <= after
      /\ LaterThan(j, f.base, current.host)
      /\ gen = 0 => ChainOK(f, current, journal)
  BY <1>1, <1>4, <1>5 DEF FollowOK, Effect
<1>7. changed[s] \in Nat /\ storageErr[s] \in BOOLEAN
  BY <1>5 DEF IInv, TypeOK
<1> HIDE DEF f
<1>8. from \in Nat /\ upTo \in Nat /\ upTo <= last /\ after <= from /\ durable[s] <= from
  <2>1. Page \in Nat
    BY StreamAssumption
  <2> DEFINE n == durable[s]
  <2>2. n \in Nat /\ last \in Nat /\ after \in Nat
    BY <1>4, <1>5
  <2> HIDE DEF n, last, after
  <2>3. upTo \in Nat /\ upTo <= last
    BY <2>1, <2>2
  <2>4. (IF after > n THEN after ELSE n) \in Nat /\ after <= (IF after > n THEN after ELSE n)
        /\ n <= (IF after > n THEN after ELSE n)
    BY <2>2
  <2>5. QED
    BY <2>3, <2>4 DEF n
<1> HIDE DEF from, upTo
<1>9. /\ tail \in Seq(Message)
      /\ \A i \in 1 .. Len(tail) : /\ tail[i].seq = from + i /\ tail[i].event = j[from + i]
                                   /\ from + i \in 1 .. Len(j)
  BY <1>5, <1>8, NumberedFacts
<1> HIDE DEF tail
<1>10. \A i \in 1 .. Len(tail) : Fresh(f, tail[i], current.host, journal, gen)
  <2> TAKE i \in 1 .. Len(tail)
  <2>1. i > 0 /\ from + i > f.base /\ i \in Nat
    BY <1>4, <1>6, <1>8, <1>9
  <2>2. QED
    BY <1>6, <1>9, <2>1, JournalIsFresh
<1>11. /\ u \in Subscription /\ u # NoSub /\ u.st = "read" /\ u.after = after
       /\ u.durable = durable[s] /\ u.tailFrom = from /\ u.tail = tail
  BY <1>4, <1>5, <1>7, <1>8, <1>9 DEF Subscription, NoSub
<1> HIDE DEF u
<1>12. /\ g \in Effect /\ g.sub = u /\ g.wire = f.wire /\ g.conn = f.conn
      /\ g.session = f.session /\ g.active = f.active /\ g.invalid = f.invalid
      /\ g.phase = f.phase /\ g.reply = f.reply /\ g.base = f.base /\ g.lastId = f.lastId
      /\ g.aborted = f.aborted /\ g.queue = f.queue /\ g.frame = f.frame
  BY <1>1, <1>11 DEF Effect
<1> HIDE DEF g
<1>13. EffectOK(g)
  BY <1>1, <1>4, <1>5, <1>8, <1>9, <1>11, <1>12 DEF EffectOK, QuietOK, Live
<1>14. ReplyOK(g, journal, gen)
  BY <1>1, <1>12, Zenon DEF ReplyOK
<1>15. gen = 0 => ChainOK(g, current, journal)
  <2>1. g.sub.after = f.sub.after
    BY <1>11, <1>12
  <2>2. QED
    BY <1>4, <1>6, <1>12, <2>1, SubscribedChain
<1>16. FollowOK(g, current, journal, durable, gen)
  BY <1>5, <1>6, <1>10, <1>11, <1>12, <1>15 DEF FollowOK, Fresh
<1>17. QED
  BY <1>1, <1>2, <1>3, <1>12, <1>13, <1>14, <1>16, EffectStep DEF f

\* A page joins storage and the copied tail: its events are the next ones.
LEMMA PageFacts ==
  ASSUME IInv, NEW x \in Effects, fx[x].sub.st = "read", fx[x].sub # NoSub,
         NEW page \in Pages(x)
  PROVE  /\ page \in Seq(Message)
         /\ \A i \in 1 .. Len(page) :
               /\ page[i].seq = fx[x].sub.after + i
               /\ Fresh(fx[x], page[i], current.host, journal, gen)
<1> DEFINE f == fx[x]
           sub == f.sub
           j == journal[f.session]
           n == IF sub.end < sub.durable THEN sub.end ELSE sub.durable
           stored == Numbered(j, sub.after, n)
<1>1. PICK rows \in Cut(stored), tail \in Cut(sub.tail) :
        page = rows \o (IF sub.after + Len(rows) = sub.tailFrom THEN tail ELSE <<>>)
  BY DEF Pages
<1>2. f \in Effect /\ EffectOK(f)
  BY EffectFacts
<1>3. /\ FollowOK(f, current, journal, durable, gen) /\ j \in Seq(Event)
      /\ durable[f.session] \in Nat /\ Len(j) \in Nat /\ durable[f.session] <= Len(j)
  BY SubscriptionIsLive
<1> HIDE DEF f
<1>4. /\ sub.after \in Nat /\ sub.end \in Nat /\ sub.durable \in Nat /\ sub.tailFrom \in Nat
      /\ sub.tail \in Seq(Message) /\ f.base \in Nat
  BY <1>2 DEF Effect, Subscription, NoSub, f
<1>5. /\ f.base <= sub.after /\ LaterThan(j, f.base, current.host)
      /\ sub.durable <= durable[f.session]
      /\ \A i \in 1 .. Len(sub.tail) : Fresh(f, sub.tail[i], current.host, journal, gen)
  BY <1>3 DEF FollowOK, f
<1>6. \A i \in 1 .. Len(sub.tail) : sub.tail[i].seq = sub.tailFrom + i
  BY <1>2 DEF EffectOK, QuietOK, f
<1>7. n \in Nat /\ n <= Len(j)
  BY <1>3, <1>4, <1>5
<1> HIDE DEF n, sub
<1>8. /\ stored \in Seq(Message)
      /\ \A i \in 1 .. Len(stored) :
            /\ stored[i].seq = sub.after + i /\ stored[i].event = j[sub.after + i]
            /\ sub.after + i \in 1 .. Len(j)
  BY <1>3, <1>4, <1>7, NumberedFacts
<1> HIDE DEF stored
<1>9. /\ rows \in Seq(Message)
      /\ \A i \in 1 .. Len(rows) : i \in 1 .. Len(stored) /\ rows[i] = stored[i]
  BY <1>8, CutFacts
<1>10. /\ tail \in Seq(Message)
       /\ \A i \in 1 .. Len(tail) : i \in 1 .. Len(sub.tail) /\ tail[i] = sub.tail[i]
  BY <1>4, CutFacts
<1> HIDE DEF j
<1>11. \A i \in 1 .. Len(rows) : /\ rows[i].seq = sub.after + i
                                 /\ Fresh(f, rows[i], current.host, journal, gen)
  <2> TAKE i \in 1 .. Len(rows)
  <2>1. /\ rows[i].seq = sub.after + i /\ rows[i].event = j[sub.after + i]
        /\ sub.after + i \in 1 .. Len(j)
    BY <1>8, <1>9
  <2>2. sub.after + i > f.base
    BY <1>4, <1>5, <1>9
  <2>3. QED
    BY <1>5, <2>1, <2>2, JournalIsFresh DEF j
<1> DEFINE rest == IF sub.after + Len(rows) = sub.tailFrom THEN tail ELSE <<>>
<1>12. /\ rest \in Seq(Message)
       /\ \A i \in 1 .. Len(rest) : /\ rest[i].seq = sub.after + Len(rows) + i
                                    /\ Fresh(f, rest[i], current.host, journal, gen)
  <2>1. CASE sub.after + Len(rows) = sub.tailFrom
    BY <1>5, <1>6, <1>10, <2>1
  <2>2. CASE sub.after + Len(rows) # sub.tailFrom
    BY <2>2
  <2>3. QED
    BY <2>1, <2>2
<1>13. page = rows \o rest
  BY <1>1 DEF sub
<1> HIDE DEF rest
<1>14. /\ page \in Seq(Message) /\ Len(rows) \in Nat
       /\ \A i \in 1 .. Len(rows) : page[i] = rows[i]
       /\ \A i \in 1 .. Len(page) : i \in 1 .. Len(rows)
             \/ (i - Len(rows) \in 1 .. Len(rest) /\ page[i] = rest[i - Len(rows)])
  BY <1>9, <1>12, <1>13, ConcatFacts
<1>15. ASSUME NEW i \in 1 .. Len(page)
       PROVE  /\ page[i].seq = sub.after + i
              /\ Fresh(f, page[i], current.host, journal, gen)
  <2>1. CASE i \in 1 .. Len(rows)
    BY <1>11, <1>14, <2>1
  <2>2. CASE i \notin 1 .. Len(rows)
    <3>1. i - Len(rows) \in 1 .. Len(rest) /\ page[i] = rest[i - Len(rows)]
      BY <1>14, <2>2
    <3>2. sub.after + Len(rows) + (i - Len(rows)) = sub.after + i
      BY <1>4, <1>14
    <3>3. QED
      BY <1>12, <3>1, <3>2
  <2>3. QED
    BY <2>1, <2>2
<1>16. QED
  BY <1>14, <1>15 DEF sub, f

LEMMA MessageIsNotReset == \A m \in Message : m # Reset
<1> TAKE m \in Message
<1>1. "event" \in DOMAIN m /\ DOMAIN Reset = {"seq"}
  BY DEF Message, Reset
<1>2. QED
  BY <1>1

LEMMA ReplayEmitsKeeps ==
  ASSUME IInv, NEW x \in Effects, ReplayEmits(x)
  PROVE  IInv'
<1> DEFINE f == fx[x]
           sub == f.sub
<1>1. /\ f \in Effect /\ EffectOK(f) /\ ReplyOK(f, journal, gen)
      /\ current \in State /\ DisplayOK(current, journal, gen)
      /\ gen = 0 => connection # "invalid"
      /\ fx \in [Effects -> Effect]
  BY EffectFacts DEF IInv, TypeOK
<1>2. /\ Still /\ session' = session /\ effects' = effects /\ current' = current
      /\ sub.st = "read" /\ sub # NoSub /\ connection' = connection
  BY DEF ReplayEmits, Still, host, NoSub
<1>3. PICK page \in Pages(x) :
        fx' = [fx EXCEPT
               ![x].sub = IF page # <<>> THEN [st |-> "loop", after |-> sub.after + Len(page)]
                          ELSE IF sub.failure THEN NoSub
                          ELSE [st |-> "wait", after |-> sub.after, changed |-> sub.changed],
               ![x].wire = @ \o page]
  BY Zenon DEF ReplayEmits
<1> DEFINE u == IF page # <<>> THEN [st |-> "loop", after |-> sub.after + Len(page)]
                ELSE IF sub.failure THEN NoSub
                ELSE [st |-> "wait", after |-> sub.after, changed |-> sub.changed]
           w == f.wire \o page
           g == [f EXCEPT !.sub = u, !.wire = w]
<1>4. fx' = [fx EXCEPT ![x] = g]
  <2> HIDE DEF u
  <2>1. fx' = [fx EXCEPT ![x].sub = u, ![x].wire = @ \o page]
    BY <1>3 DEF u
  <2>2. QED
    BY <2>1, <1>1
<1>5. /\ Live(f) /\ Follows(f) /\ ~ f.aborted /\ FollowOK(f, current, journal, durable, gen)
  BY <1>2, SubscriptionIsLive
<1>6. /\ page \in Seq(Message)
      /\ \A i \in 1 .. Len(page) :
            page[i].seq = sub.after + i /\ Fresh(f, page[i], current.host, journal, gen)
  BY <1>2, PageFacts
<1> HIDE DEF f
<1>7. sub.after \in Nat /\ sub.changed \in Nat
  BY <1>1, <1>2 DEF Effect, Subscription, NoSub
<1>8. /\ f.base <= sub.after
      /\ gen = 0 => ChainOK(f, current, journal)
  BY <1>2, <1>5 DEF FollowOK
<1>9. Len(page) \in Nat /\ (page = <<>> => Len(page) = 0)
  BY <1>6
<1> HIDE DEF sub
<1>10. /\ u \in Subscription
       /\ u # NoSub => u.after = sub.after + Len(page)
       /\ u.st # "read"
  BY <1>7, <1>9 DEF Subscription, NoSub
<1> HIDE DEF u
<1>11. /\ w \in Seq(Message \cup {Reset}) /\ Len(w) = Len(f.wire) + Len(page)
       /\ Len(f.wire) \in Nat
       /\ \A i \in 1 .. Len(f.wire) : w[i] = f.wire[i]
       /\ \A i \in 1 .. Len(w) : i \in 1 .. Len(f.wire)
             \/ (i - Len(f.wire) \in 1 .. Len(page) /\ w[i] = page[i - Len(f.wire)])
  <2>1. f.wire \in Seq(Message \cup {Reset})
    BY <1>1 DEF Effect
  <2>2. page \in Seq(Message \cup {Reset})
    BY <1>6
  <2>3. QED
    BY <2>1, <2>2, ConcatFacts
<1> HIDE DEF w
<1>12. /\ g \in Effect /\ g.sub = u /\ g.wire = w /\ g.conn = f.conn
       /\ g.session = f.session /\ g.active = f.active /\ g.invalid = f.invalid
       /\ g.phase = f.phase /\ g.reply = f.reply /\ g.base = f.base /\ g.lastId = f.lastId
       /\ g.aborted = f.aborted /\ g.queue = f.queue /\ g.frame = f.frame
  BY <1>1, <1>10, <1>11 DEF Effect
<1> HIDE DEF g
<1>13. EffectOK(g)
  <2>1. f.conn # "down" /\ f.phase = "follow"
    BY <1>1, <1>2, <1>5 DEF EffectOK, QuietOK, Follows, sub
  <2>2. QED
    BY <1>1, <1>5, <1>10, <1>12, <2>1 DEF EffectOK, QuietOK, Live
<1>14. ReplyOK(g, journal, gen)
  BY <1>1, <1>12, Zenon DEF ReplyOK
<1>15. gen = 0 => ChainOK(g, current, journal)
  <2> SUFFICES ASSUME gen = 0 PROVE ChainOK(g, current, journal)
    OBVIOUS
  <2>1. PICK first \in Nat :
          /\ first = f.lastId \/ first + 1 = f.lastId
          /\ \A i \in 1 .. Len(f.wire) : f.wire[i] # Reset /\ f.wire[i].seq = first + i
          /\ f.sub # NoSub => f.sub.after = first + Len(f.wire)
    BY <1>8 DEF ChainOK
  <2>2. sub.after = first + Len(f.wire)
    BY <1>2, <2>1 DEF sub
  <2>3. ASSUME NEW i \in 1 .. Len(w)
        PROVE  w[i] # Reset /\ w[i].seq = first + i
    <3>1. CASE i \in 1 .. Len(f.wire)
      BY <1>11, <2>1, <3>1
    <3>2. CASE i \notin 1 .. Len(f.wire)
      <4>1. i - Len(f.wire) \in 1 .. Len(page) /\ w[i] = page[i - Len(f.wire)]
        BY <1>11, <3>2
      <4>2. w[i] \in Message /\ w[i].seq = sub.after + (i - Len(f.wire))
        BY <1>6, <4>1
      <4>3. QED
        <5> DEFINE n == Len(f.wire)
        <5>1. n \in Nat /\ sub.after = first + n /\ i \in Int /\ w[i].seq = sub.after + (i - n)
          BY <1>11, <2>2, <4>2
        <5> HIDE DEF n
        <5>2. w[i].seq = first + i
          BY <5>1
        <5>3. QED
          BY <4>2, <5>2, MessageIsNotReset
    <3>3. QED
      BY <3>1, <3>2
  <2>4. u # NoSub => u.after = first + Len(w)
    BY <1>9, <1>10, <1>11, <2>2
  <2>5. QED
    BY <1>8, <1>12, <2>1, <2>3, <2>4 DEF ChainOK
<1>16. \A i \in 1 .. Len(w) : w[i] = Reset \/ Fresh(f, w[i], current.host, journal, gen)
  BY <1>5, <1>6, <1>11 DEF FollowOK
<1>17. u # NoSub => f.base <= u.after
  BY <1>1, <1>7, <1>8, <1>9, <1>10 DEF Effect
<1>18. FollowOK(g, current, journal, durable, gen)
  BY <1>5, <1>10, <1>12, <1>15, <1>16, <1>17 DEF FollowOK, Fresh
<1>19. QED
  BY <1>1, <1>2, <1>4, <1>12, <1>13, <1>14, <1>18, EffectStep DEF f

LEMMA StreamEndsKeeps ==
  ASSUME IInv, NEW x \in Effects, StreamEnds(x)
  PROVE  IInv'
<1> DEFINE f == [fx[x] EXCEPT !.conn = "down", !.wire = <<>>, !.sub = NoSub]
<1>1. /\ fx[x] \in Effect /\ EffectOK(fx[x]) /\ ReplyOK(fx[x], journal, gen)
      /\ current \in State /\ DisplayOK(current, journal, gen)
      /\ gen = 0 => connection # "invalid"
  BY EffectFacts
<1>2. /\ Still /\ session' = session /\ effects' = effects /\ current' = current
      /\ fx[x].aborted
  BY DEF StreamEnds, Still, host
<1>3. /\ f \in Effect /\ f.conn = "down" /\ f.wire = <<>> /\ f.sub = NoSub
      /\ f.session = fx[x].session /\ f.active = fx[x].active /\ f.invalid = fx[x].invalid
      /\ f.reply = fx[x].reply /\ f.queue = fx[x].queue /\ f.frame = fx[x].frame
      /\ f.resets = fx[x].resets
  <2>1. NoSub \in Subscription /\ <<>> \in Seq(Message \cup {Reset})
    BY DEF Subscription
  <2>2. QED
    BY <1>1, <2>1 DEF Effect
<1>4. CASE ~ f.reset \/ ~ Live(f)
  <2>1. fx' = [fx EXCEPT ![x] = Returned(f)] /\ connection' = connection
    BY <1>4, Zenon DEF StreamEnds
  <2> HIDE DEF f
  <2>2. QED
    BY <1>1, <1>2, <1>3, <2>1, ReturnStep
<1>5. CASE ~ (~ f.reset \/ ~ Live(f)) /\ f.resets + 1 > ResetLimit
  <2> DEFINE h == Failed(f)
  <2>1. fx' = [fx EXCEPT ![x] = Returned(h)] /\ connection' = "refused"
    BY <1>5, Zenon DEF StreamEnds
  <2> HIDE DEF f
  <2>2. h \in Effect /\ h.session = f.session /\ h.active = f.active
    BY <1>3, FailedFacts
  <2> HIDE DEF h
  <2>3. QED
    BY <1>1, <1>2, <1>3, <2>1, <2>2, ReturnStep
<1>6. CASE ~ (~ f.reset \/ ~ Live(f)) /\ ~ (f.resets + 1 > ResetLimit)
  <2> DEFINE n == f.resets + 1
             g == [f EXCEPT !.phase = "seed", !.resets = n, !.reset = FALSE, !.aborted = FALSE]
  <2>1. fx' = [fx EXCEPT ![x] = g] /\ connection' = connection
    <3>1. /\ fx' = [fx EXCEPT ![x] = [f EXCEPT !.phase = "seed", !.resets = @ + 1,
                                               !.reset = FALSE, !.aborted = FALSE]]
          /\ connection' = connection
      BY <1>6, Zenon DEF StreamEnds
    <3> HIDE DEF f
    <3>2. QED
      BY <3>1
  <2> HIDE DEF f
  <2>2. n \in Nat
    BY <1>3 DEF Effect
  <2> HIDE DEF n
  <2>3. /\ g \in Effect /\ g.phase = "seed" /\ g.aborted = FALSE
        /\ g.conn = f.conn /\ g.wire = f.wire /\ g.sub = f.sub /\ g.session = f.session
        /\ g.active = f.active /\ g.invalid = f.invalid
        /\ g.reply = f.reply /\ g.queue = f.queue /\ g.frame = f.frame
    BY <1>3, <2>2 DEF Effect
  <2> HIDE DEF g
  <2>4. EffectOK(g) /\ ~ Follows(g)
    BY <1>1, <1>2, <1>3, <2>3, StreamAssumption DEF EffectOK, QuietOK, Follows, NoSub
  <2>5. ReplyOK(g, journal, gen)
    BY <1>1, <1>3, <2>3, Zenon DEF ReplyOK
  <2>6. QED
    BY <1>1, <1>2, <1>3, <2>1, <2>3, <2>4, <2>5, EffectStep
<1>7. QED
  BY <1>4, <1>5, <1>6

\* A step that ends an effect with a failure.
LEMMA FailStep ==
  ASSUME IInv, Still, session' = session, effects' = effects, current' = current,
         NEW x \in Effects, NEW f \in Effect, fx' = [fx EXCEPT ![x] = Failed(f)],
         f.session = fx[x].session, f.active = fx[x].active,
         QuietOK(f), ReplyOK(f, journal, gen), gen = 0 => connection' # "invalid"
  PROVE  IInv'
<1> DEFINE g == Failed(f)
<1>1. fx' = [fx EXCEPT ![x] = g]
  OBVIOUS
<1>2. /\ current \in State /\ DisplayOK(current, journal, gen)
  BY EffectFacts
<1>3. /\ g \in Effect
      /\ g.invalid = TRUE
      /\ g.aborted = TRUE /\ g.sub = NoSub /\ g.queue = <<>> /\ g.frame = FALSE
      /\ g.session = f.session /\ g.active = f.active
      /\ g.phase = f.phase /\ g.reply = f.reply
      /\ g.conn = f.conn /\ g.wire = f.wire
  BY FailedFacts
<1> HIDE DEF g
<1>4. EffectOK(g) /\ ~ Follows(g)
  BY <1>3, StreamAssumption DEF EffectOK, QuietOK, Follows, Live, NoSub
<1>5. ReplyOK(g, journal, gen)
  BY <1>3, Zenon DEF ReplyOK
<1>6. QED
  BY <1>1, <1>2, <1>3, <1>4, <1>5, EffectStep

\* The queue of a live effect as applyEvent takes it.
LEMMA QueueFacts ==
  ASSUME TypeOK, JournalsOK, current.ok, NEW f \in Effect, f.session = current.session,
         StateOK(current, journal, gen), FollowOK(f, current, journal, durable, gen), ~ f.aborted,
         NEW state, state = Flushed(f)
  PROVE  /\ state \in State /\ StateOK(state, journal, gen)
         /\ state.session = current.session /\ state.recentFrom = current.recentFrom
         /\ state.host = current.host
         /\ gen = 0 => state.ok /\ Cursor(state) = LastSeq(Cursor(current), f.queue)
<1>1. current \in State /\ f.queue \in Seq(Message) /\ f.base \in Nat
  BY DEF TypeOK, Effect
<1>2. \A i \in 1 .. Len(f.queue) : f.queue[i].seq \in Nat
  <2> TAKE i \in 1 .. Len(f.queue)
  <2>1. f.queue[i] \in Message
    BY <1>1
  <2>2. QED
    BY <2>1 DEF Message
<1>3. \A i \in 1 .. Len(f.queue) :
         /\ f.queue[i].seq >= current.recentFrom
         /\ Genuine(journal[current.session], gen, f.queue[i].seq, f.queue[i].event)
         /\ f.queue[i].event.gen >= current.host
  BY <1>1, <1>2 DEF FollowOK, Fresh
<1>4. state = Applied(current, f.queue)
  BY DEF Flushed
<1>5. gen = 0 => Steps(Cursor(current), f.queue)
  BY DEF FollowOK, ChainOK
<1>6. /\ state \in State /\ StateOK(state, journal, gen)
      /\ state.session = current.session /\ state.recentFrom = current.recentFrom
      /\ state.host = current.host
  BY <1>1, <1>3, <1>4, AppliedGood
<1>7. gen = 0 => state.ok /\ Cursor(state) = LastSeq(Cursor(current), f.queue)
  BY <1>1, <1>3, <1>4, <1>5, AppliedValid
<1>8. QED
  BY <1>6, <1>7

\* flush of a live effect.
LEMMA FlushKeeps ==
  ASSUME IInv, Still, session' = session, effects' = effects,
         NEW x \in Effects, NEW f \in Effect, FlushTo(x, f), Live(f), Live(fx[x]),
         f.phase = "follow", ~ f.aborted,
         f.session = fx[x].session, f.active = fx[x].active, QuietOK(f),
         ReplyOK(f, journal, gen), FollowOK(f, current, journal, durable, gen)
  PROVE  IInv'
<1> DEFINE state == Flushed(f)
<1>1. /\ current \in State /\ DisplayOK(current, journal, gen) /\ StateOK(current, journal, gen)
      /\ gen = 0 => connection # "invalid"
      /\ current.session = f.session /\ current.session # NoSession
      /\ TypeOK /\ JournalsOK
  BY EffectFacts DEF Live, IInv
<1>2. /\ state \in State /\ StateOK(state, journal, gen)
      /\ state.session = current.session /\ state.recentFrom = current.recentFrom
      /\ state.host = current.host
      /\ gen = 0 => state.ok /\ Cursor(state) = LastSeq(Cursor(current), f.queue)
  BY <1>1, QueueFacts DEF DisplayOK
<1>3. CASE state.ok
  <2> DEFINE g == [f EXCEPT !.frame = FALSE, !.queue = <<>>]
  <2>1. current' = state /\ fx' = [fx EXCEPT ![x] = g] /\ connection' = connection
    BY <1>3, Zenon DEF FlushTo, Live
  <2> HIDE DEF state
  <2>2. /\ g \in Effect /\ g.frame = FALSE /\ g.queue = <<>>
        /\ g.session = f.session /\ g.active = f.active /\ g.invalid = f.invalid
        /\ g.aborted = f.aborted /\ g.sub = f.sub /\ g.base = f.base /\ g.lastId = f.lastId
        /\ g.phase = f.phase /\ g.reply = f.reply
        /\ g.conn = f.conn /\ g.wire = f.wire
    <3>1. <<>> \in Seq(Message)
      OBVIOUS
    <3>2. QED
      BY <3>1 DEF Effect
  <2> HIDE DEF g
  <2>3. EffectOK(g)
    BY <2>2, StreamAssumption DEF EffectOK, QuietOK, Live
  <2>4. ReplyOK(g, journal, gen)
    BY <2>2, Zenon DEF ReplyOK
  <2>5. gen = 0 => ChainOK(g, state, journal)
    <3> SUFFICES ASSUME gen = 0 PROVE ChainOK(g, state, journal)
      OBVIOUS
    <3>1. ChainOK(f, current, journal)
      BY Zenon DEF FollowOK
    <3>2. Cursor(state) = f.lastId
      BY <1>2, <3>1 DEF ChainOK
    <3>3. QED
      BY <2>2, <3>1, <3>2 DEF ChainOK, LastSeq, Steps
  <2>6. FollowOK(g, state, journal, durable, gen)
    BY <1>2, <2>2, <2>5 DEF FollowOK, Fresh
  <2>7. DisplayOK(state, journal, gen)
    BY <1>1, <1>2, <1>3 DEF DisplayOK
  <2>8. QED
    BY <1>1, <1>2, <2>1, <2>2, <2>3, <2>4, <2>6, <2>7, EffectStep
<1>4. CASE ~ state.ok
  <2>1. fx' = [fx EXCEPT ![x] = Failed(f)] /\ current' = current
    BY <1>4, Zenon DEF FlushTo, Live
  <2>2. gen # 0
    BY <1>2, <1>4
  <2>3. QED
    BY <2>1, <2>2, FailStep
<1>5. QED
  BY <1>3, <1>4

LEMMA FrameFiresKeeps ==
  ASSUME IInv, NEW x \in Effects, FrameFires(x)
  PROVE  IInv'
<1>1. /\ fx[x] \in Effect /\ EffectOK(fx[x]) /\ ReplyOK(fx[x], journal, gen)
      /\ Follows(fx[x]) => FollowOK(fx[x], current, journal, durable, gen)
  BY EffectFacts
<1>2. /\ Still /\ session' = session /\ effects' = effects /\ fx[x].frame /\ FlushTo(x, fx[x])
  BY DEF FrameFires, Still, host
<1>3. QuietOK(fx[x]) /\ fx[x].phase = "follow" /\ ~ fx[x].aborted /\ Live(fx[x])
  BY <1>1, <1>2 DEF EffectOK, QuietOK
<1>4. FollowOK(fx[x], current, journal, durable, gen)
  BY <1>1, <1>3 DEF Follows
<1>5. QED
  BY <1>1, <1>2, <1>3, <1>4, FlushKeeps

LEMMA TailFacts ==
  ASSUME NEW S, NEW w \in Seq(S), w # <<>>
  PROVE  /\ Head(w) = w[1] /\ Head(w) \in S /\ 1 \in 1 .. Len(w)
         /\ Tail(w) \in Seq(S) /\ Len(Tail(w)) + 1 = Len(w) /\ Len(Tail(w)) \in Nat
         /\ \A i \in 1 .. Len(Tail(w)) : i + 1 \in 1 .. Len(w) /\ Tail(w)[i] = w[i + 1]
  OBVIOUS

\* The number of the next message, and what is left of the chain.
LEMMA ChainHead ==
  ASSUME NEW f \in Effect, f.wire # <<>>, NEW state, NEW js, ChainOK(f, state, js),
         NEW m, m = Head(f.wire)
  PROVE  /\ m # Reset /\ (m.seq = f.lastId \/ m.seq = f.lastId + 1)
         /\ \A i \in 1 .. Len(Tail(f.wire)) :
               Tail(f.wire)[i] # Reset /\ Tail(f.wire)[i].seq = m.seq + i
         /\ f.sub # NoSub => f.sub.after = m.seq + Len(Tail(f.wire))
<1>1. f.wire \in Seq(Message \cup {Reset}) /\ f.lastId \in Nat
  BY DEF Effect
<1>2. PICK first \in Nat :
        /\ first = f.lastId \/ first + 1 = f.lastId
        /\ \A i \in 1 .. Len(f.wire) : f.wire[i] # Reset /\ f.wire[i].seq = first + i
        /\ f.sub # NoSub => f.sub.after = first + Len(f.wire)
  BY DEF ChainOK
<1> DEFINE w == f.wire
           rest == Tail(w)
<1>3. /\ m = w[1] /\ 1 \in 1 .. Len(w) /\ Len(rest) + 1 = Len(w) /\ Len(rest) \in Nat
      /\ \A i \in 1 .. Len(rest) : i + 1 \in 1 .. Len(w) /\ rest[i] = w[i + 1]
  BY <1>1, TailFacts
<1>4. /\ \A i \in 1 .. Len(w) : w[i] # Reset /\ w[i].seq = first + i
      /\ f.sub # NoSub => f.sub.after = first + Len(w)
  BY <1>2
<1> HIDE DEF w, rest
<1>5. m # Reset /\ m.seq = first + 1
  BY <1>3, <1>4
<1>6. \A i \in 1 .. Len(rest) : rest[i] # Reset /\ rest[i].seq = m.seq + i
  <2> TAKE i \in 1 .. Len(rest)
  <2>1. rest[i] # Reset /\ rest[i].seq = first + (i + 1)
    BY <1>3, <1>4
  <2>2. first + (i + 1) = (first + 1) + i
    BY <1>3
  <2>3. QED
    BY <1>5, <2>1, <2>2, Zenon
<1>7. f.sub # NoSub => f.sub.after = m.seq + Len(rest)
  <2>1. Len(w) = Len(rest) + 1 /\ first + (Len(rest) + 1) = (first + 1) + Len(rest)
    BY <1>3
  <2>2. QED
    BY <1>4, <1>5, <2>1
<1>8. QED
  BY <1>1, <1>2, <1>5, <1>6, <1>7 DEF w, rest

\* A message joins the queue of an effect that follows.
LEMMA QueuedKeeps ==
  ASSUME TypeOK, NEW f \in Effect, f.wire # <<>>, ~ f.aborted, f.session \in Sessions,
         FollowOK(f, current, journal, durable, gen),
         NEW m \in Message, m = Head(f.wire), Fresh(f, m, current.host, journal, gen),
         NEW queue \in Seq(Message), NEW state \in State,
         state.recentFrom = current.recentFrom, state.host = current.host,
         \A i \in 1 .. Len(queue) : Fresh(f, queue[i], current.host, journal, gen),
         gen = 0 => f.lastId = LastSeq(Cursor(state), queue) /\ Steps(Cursor(state), queue),
         NEW g \in Effect, g.queue = Append(queue, m), g.wire = Tail(f.wire), g.lastId = m.seq,
         g.session = f.session, g.base = f.base, g.sub = f.sub, g.aborted = f.aborted
  PROVE  FollowOK(g, state, journal, durable, gen)
<1> DEFINE longer == Append(queue, m)
           rest == Tail(f.wire)
<1>1. /\ m.seq \in Nat /\ f.base \in Nat /\ m.seq > f.base /\ m.event \in Event
      /\ Genuine(journal[f.session], gen, m.seq, m.event)
  BY DEF Message, Effect, Fresh
<1>2. /\ longer \in Seq(Message) /\ Len(longer) = Len(queue) + 1 /\ Len(queue) \in Nat
      /\ longer[Len(queue) + 1] = m
      /\ \A i \in 1 .. Len(queue) : longer[i] = queue[i]
  BY AppendFacts
<1>3. f.wire \in Seq(Message \cup {Reset})
  BY DEF Effect
<1>4. /\ Len(rest) \in Nat
      /\ \A i \in 1 .. Len(rest) : i + 1 \in 1 .. Len(f.wire) /\ rest[i] = f.wire[i + 1]
  BY <1>3, TailFacts
<1> HIDE DEF longer, rest
<1>5. \A i \in 1 .. Len(longer) : Fresh(f, longer[i], current.host, journal, gen)
  <2> TAKE i \in 1 .. Len(longer)
  <2>1. i = Len(queue) + 1 \/ i \in 1 .. Len(queue)
    BY <1>2
  <2>2. QED
    BY <1>2, <2>1
<1>6. \A i \in 1 .. Len(rest) : rest[i] = Reset \/ Fresh(f, rest[i], current.host, journal, gen)
  BY <1>4 DEF FollowOK
<1>7. gen = 0 => ChainOK(g, state, journal)
  <2> SUFFICES ASSUME gen = 0 PROVE ChainOK(g, state, journal)
    OBVIOUS
  <2>1. ChainOK(f, current, journal)
    BY Zenon DEF FollowOK
  <2>2. /\ m.seq = f.lastId \/ m.seq = f.lastId + 1
        /\ \A i \in 1 .. Len(rest) : rest[i] # Reset /\ rest[i].seq = m.seq + i
        /\ f.sub # NoSub => f.sub.after = m.seq + Len(rest)
    BY <2>1, ChainHead DEF rest
  <2>3. m.seq <= Len(journal[f.session])
    <3>1. m.seq \in 1 .. Len(journal[f.session])
      BY <1>1, GenuineIsJournal
    <3>2. QED
      BY <3>1
  <2>4. LastSeq(Cursor(state), longer) = m.seq
    <3>1. longer # <<>>
      BY <1>2
    <3>2. QED
      BY <1>2, <3>1 DEF LastSeq
  <2>5. Steps(Cursor(state), longer)
    <3> SUFFICES ASSUME NEW i \in 1 .. Len(longer)
                 PROVE  LET last == IF i = 1 THEN Cursor(state) ELSE longer[i - 1].seq
                        IN  longer[i].seq = last \/ longer[i].seq = last + 1
      BY DEF Steps
    <3>1. CASE i \in 1 .. Len(queue)
      <4>1. longer[i] = queue[i] /\ (i # 1 => longer[i - 1] = queue[i - 1])
        BY <1>2, <3>1
      <4>2. QED
        BY <3>1, <4>1 DEF Steps
    <3>2. CASE i = Len(queue) + 1
      <4>1. (IF i = 1 THEN Cursor(state) ELSE longer[i - 1].seq) = f.lastId
        <5>1. CASE queue = <<>>
          BY <1>2, <3>2, <5>1 DEF LastSeq
        <5>2. CASE queue # <<>>
          <6>1. Len(queue) \in 1 .. Len(queue) /\ i # 1 /\ i - 1 = Len(queue)
            BY <1>2, <3>2, <5>2
          <6>2. QED
            BY <1>2, <5>2, <6>1 DEF LastSeq
        <5>3. QED
          BY <5>1, <5>2
      <4>2. QED
        BY <1>2, <2>2, <3>2, <4>1
    <3>3. QED
      BY <1>2, <3>1, <3>2
  <2>6. QED
    BY <1>1, <2>2, <2>3, <2>4, <2>5 DEF ChainOK, longer, rest
<1>8. QED
  BY <1>1, <1>5, <1>6, <1>7 DEF FollowOK, Fresh, longer, rest

\* onReset: the queue and the subscription are gone, the rest of the stream is ignored.
LEMMA OnResetKeeps ==
  ASSUME IInv, Still, session' = session, effects' = effects, NEW x \in Effects,
         fx[x].conn = "open", fx[x].wire # <<>>,
         NEW f \in Effect, OnReset(x, f), f.wire = Tail(fx[x].wire),
         f.session = fx[x].session, f.active = fx[x].active, f.invalid = fx[x].invalid,
         f.aborted = fx[x].aborted, f.sub = fx[x].sub, f.base = fx[x].base,
         f.lastId = fx[x].lastId, f.phase = fx[x].phase, f.reply = fx[x].reply,
         f.conn = fx[x].conn, f.queue = fx[x].queue, f.frame = fx[x].frame
  PROVE  IInv'
<1>1. /\ fx[x] \in Effect /\ EffectOK(fx[x]) /\ ReplyOK(fx[x], journal, gen)
      /\ Follows(fx[x]) => FollowOK(fx[x], current, journal, durable, gen)
      /\ current \in State /\ DisplayOK(current, journal, gen)
      /\ gen = 0 => connection # "invalid"
  BY EffectFacts
<1>2. fx[x].wire \in Seq(Message \cup {Reset})
  BY <1>1 DEF Effect
<1>3. EffectOK(f) /\ ReplyOK(f, journal, gen)
  BY <1>1 DEF EffectOK, QuietOK, Live, ReplyOK
<1>4. CASE ~ Live(f)
  <2>1. fx' = [fx EXCEPT ![x] = f] /\ current' = current /\ connection' = connection
    BY <1>4, Zenon DEF OnReset
  <2>2. QED
    BY <1>1, <1>3, <1>4, <2>1, EffectStep DEF Follows
<1>5. CASE Live(f)
  <2> DEFINE a == Aborted(f)
             g == [a EXCEPT !.reset = TRUE]
  <2>1. fx' = [fx EXCEPT ![x] = g] /\ current' = current /\ connection' = "connecting"
    BY <1>5, Zenon DEF OnReset
  <2>2. /\ a \in Effect
        /\ a.aborted = TRUE /\ a.sub = NoSub /\ a.queue = <<>> /\ a.frame = FALSE
        /\ a.session = f.session /\ a.active = f.active /\ a.invalid = f.invalid
        /\ a.phase = f.phase /\ a.reply = f.reply /\ a.base = f.base /\ a.lastId = f.lastId
        /\ a.conn = f.conn /\ a.wire = f.wire
    BY AbortedFacts, Zenon
  <2> HIDE DEF a
  <2>3. /\ g \in Effect
        /\ g.aborted = TRUE /\ g.sub = NoSub /\ g.queue = <<>> /\ g.frame = FALSE
        /\ g.session = f.session /\ g.active = f.active /\ g.invalid = f.invalid
        /\ g.phase = f.phase /\ g.reply = f.reply /\ g.base = f.base /\ g.lastId = f.lastId
        /\ g.conn = f.conn /\ g.wire = f.wire
    BY <2>2 DEF Effect
  <2> HIDE DEF g
  <2>4. EffectOK(g)
    BY <1>3, <2>3, StreamAssumption DEF EffectOK, QuietOK, NoSub, Live
  <2>5. ReplyOK(g, journal, gen)
    BY <1>3, <2>3, Zenon DEF ReplyOK
  <2>6. Follows(fx[x])
    BY <1>1, <1>5 DEF EffectOK, QuietOK, Follows, Live
  <2>7. \A i \in 1 .. Len(g.wire) :
           i + 1 \in 1 .. Len(fx[x].wire) /\ g.wire[i] = fx[x].wire[i + 1]
    BY <1>2, <2>3, TailFacts
  <2>8. FollowOK(g, current, journal, durable, gen)
    BY <1>1, <2>3, <2>6, <2>7 DEF FollowOK, Fresh, NoSub
  <2>9. g.session = fx[x].session /\ g.active = fx[x].active
    BY <2>3
  <2>10. gen = 0 => connection' # "invalid"
    BY <2>1
  <2>11. QED
    BY <1>1, <2>1, <2>3, <2>4, <2>5, <2>8, <2>9, <2>10, EffectStep
<1>6. QED
  BY <1>4, <1>5

LEMMA FollowChain ==
  ASSUME NEW f, NEW state, NEW js, NEW ds, NEW g, FollowOK(f, state, js, ds, g), g = 0, ~ f.aborted
  PROVE  ChainOK(f, state, js)
  BY DEF FollowOK

LEMMA SameChain ==
  ASSUME NEW f, NEW g, NEW state, NEW js, ChainOK(f, state, js),
         g.lastId = f.lastId, g.queue = f.queue, g.wire = f.wire, g.sub = f.sub,
         g.session = f.session
  PROVE  ChainOK(g, state, js)
  BY Zenon DEF ChainOK

\* onEvent of a live effect: the event is after the seed and joins the queue, the
\* queue before it or the whole of it goes through applyEvent when it is full.
LEMMA OnEventKeeps ==
  ASSUME IInv, Still, session' = session, effects' = effects, NEW x \in Effects,
         fx[x].conn = "open", fx[x].wire # <<>>,
         NEW m \in Message, m = Head(fx[x].wire), NEW f \in Effect, OnEvent(x, f, m),
         f.wire = Tail(fx[x].wire), f.lastId = m.seq,
         f.session = fx[x].session, f.active = fx[x].active, f.invalid = fx[x].invalid,
         f.aborted = fx[x].aborted, f.sub = fx[x].sub, f.base = fx[x].base,
         f.phase = fx[x].phase, f.reply = fx[x].reply,
         f.conn = fx[x].conn, f.queue = fx[x].queue, f.frame = fx[x].frame
  PROVE  IInv'
<1> DEFINE f0 == fx[x]
<1>1. /\ f0 \in Effect /\ EffectOK(f0) /\ ReplyOK(f0, journal, gen)
      /\ Follows(f0) => FollowOK(f0, current, journal, durable, gen)
      /\ current \in State /\ DisplayOK(current, journal, gen)
      /\ gen = 0 => connection # "invalid"
      /\ TypeOK /\ JournalsOK /\ QueueLimit \in Nat
  BY EffectFacts, StreamAssumption DEF IInv
<1>2. f0.wire \in Seq(Message \cup {Reset}) /\ f0.queue \in Seq(Message)
  BY <1>1 DEF Effect
<1>3. /\ f.wire = Tail(f0.wire) /\ f.lastId = m.seq
      /\ f.session = f0.session /\ f.active = f0.active /\ f.invalid = f0.invalid
      /\ f.aborted = f0.aborted /\ f.sub = f0.sub /\ f.base = f0.base
      /\ f.phase = f0.phase /\ f.reply = f0.reply
      /\ f.conn = f0.conn /\ f.queue = f0.queue /\ f.frame = f0.frame
  OBVIOUS
<1>4. EffectOK(f) /\ ReplyOK(f, journal, gen)
  BY <1>1, <1>3 DEF EffectOK, QuietOK, Live, ReplyOK
<1>5. f0.phase = "follow"
  BY <1>1 DEF EffectOK, QuietOK
<1>6. ASSUME Live(f0)
      PROVE  /\ FollowOK(f0, current, journal, durable, gen)
             /\ Fresh(f0, m, current.host, journal, gen)
             /\ f0.session \in Sessions /\ f0.session = current.session
             /\ StateOK(current, journal, gen)
  <2>1. FollowOK(f0, current, journal, durable, gen)
    BY <1>1, <1>5, <1>6 DEF Follows
  <2>2. 1 \in 1 .. Len(f0.wire) /\ m = f0.wire[1] /\ m # Reset
    BY <1>2, TailFacts, MessageIsNotReset
  <2>3. Fresh(f0, m, current.host, journal, gen)
    BY <2>1, <2>2 DEF FollowOK
  <2>4. f0.active
    BY <1>6 DEF Live
  <2>5. QED
    BY <2>1, <2>3, <2>4, EffectFacts
<1>7. CASE ~ Live(f) \/ f.aborted
  <2>1. fx' = [fx EXCEPT ![x] = f] /\ current' = current /\ connection' = connection
    BY <1>7, Zenon DEF OnEvent
  <2>2. ASSUME Follows(f)
        PROVE  FollowOK(f, current, journal, durable, gen)
    <3>1. Live(f0) /\ f.aborted
      BY <1>3, <1>7, <2>2 DEF Follows, Live
    <3>2. /\ FollowOK(f0, current, journal, durable, gen)
          /\ Fresh(f0, m, current.host, journal, gen)
      BY <1>6, <3>1
    <3>3. \A i \in 1 .. Len(f.wire) :
             i + 1 \in 1 .. Len(f0.wire) /\ f.wire[i] = f0.wire[i + 1]
      BY <1>2, <1>3, TailFacts
    <3>4. f.base <= f.lastId
      BY <1>1, <1>3, <3>2 DEF Fresh, Message, Effect
    <3>5. f.aborted = f0.aborted /\ f.queue = f0.queue /\ f.sub = f0.sub /\ f.base = f0.base
          /\ f.session = f0.session
      BY <1>3
    <3> HIDE DEF f0
    <3>6. \A i \in 1 .. Len(f.wire) :
             f.wire[i] = Reset \/ Fresh(f0, f.wire[i], current.host, journal, gen)
      BY <3>2, <3>3 DEF FollowOK
    <3>7. QED
      BY <3>1, <3>2, <3>4, <3>5, <3>6 DEF FollowOK, Fresh
  <2>3. QED
    BY <1>1, <1>3, <1>4, <2>1, <2>2, EffectStep
<1>8. CASE Live(f) /\ ~ f.aborted
  <2>1. Live(f0) /\ ~ f0.aborted /\ current.ok
    BY <1>1, <1>3, <1>8 DEF Live, DisplayOK
  <2>2. /\ FollowOK(f0, current, journal, durable, gen)
        /\ Fresh(f0, m, current.host, journal, gen)
        /\ f0.session \in Sessions /\ f0.session = current.session
        /\ StateOK(current, journal, gen)
    BY <1>6, <2>1
  <2>3. ~ BelowSeed(f, m)
    BY <1>1, <1>3, <2>2 DEF BelowSeed, Fresh, Message, Effect
  <2> DEFINE full == m.seq \in LargeSeqs /\ f.queue # <<>>
             state == IF full THEN Flushed(f) ELSE current
             before == IF full THEN <<>> ELSE f.queue
             queue == IF full THEN <<m>> ELSE Append(f.queue, m)
             frame == IF full THEN FALSE ELSE f.frame
             g == [f EXCEPT !.queue = queue, !.frame = frame]
  <2>4. Flushed(f) = Flushed(f0)
    BY <1>3, Zenon DEF Flushed
  <2>5. /\ state \in State /\ StateOK(state, journal, gen)
        /\ state.session = current.session /\ state.recentFrom = current.recentFrom
        /\ state.host = current.host
        /\ gen = 0 => state.ok
        /\ f0.session # NoSession
        /\ ~ full => state = current
    <3> DEFINE flushed == Flushed(f0)
    <3>1. /\ flushed \in State /\ StateOK(flushed, journal, gen)
          /\ flushed.session = current.session /\ flushed.recentFrom = current.recentFrom
          /\ flushed.host = current.host
          /\ gen = 0 => flushed.ok
      BY <1>1, <2>1, <2>2, QueueFacts
    <3>2. f0.session # NoSession
      BY <2>2, StreamAssumption
    <3>3. (state = flushed \/ state = current) /\ (~ full => state = current)
      BY <2>4
    <3> HIDE DEF state, flushed, full
    <3>4. QED
      BY <1>1, <2>1, <2>2, <3>1, <3>2, <3>3
  <2>6. gen = 0 => f0.lastId = LastSeq(Cursor(state), before) /\ Steps(Cursor(state), before)
    <3> SUFFICES ASSUME gen = 0
                 PROVE  f0.lastId = LastSeq(Cursor(state), before) /\ Steps(Cursor(state), before)
      OBVIOUS
    <3>1. /\ f0.lastId = LastSeq(Cursor(current), f0.queue)
          /\ Steps(Cursor(current), f0.queue)
      BY <2>1, <2>2 DEF FollowOK, ChainOK
    <3>2. CASE full
      <4>1. state = Flushed(f0) /\ before = <<>>
        BY <2>4, <3>2
      <4>2. Cursor(state) = LastSeq(Cursor(current), f0.queue)
        <5> HIDE DEF state
        <5> QED
          BY <1>1, <2>1, <2>2, <4>1, QueueFacts
      <4> HIDE DEF state, before
      <4>3. QED
        BY <3>1, <4>1, <4>2 DEF LastSeq, Steps
    <3>3. CASE ~ full
      <4>1. state = current /\ before = f0.queue
        BY <1>3, <3>3
      <4> HIDE DEF state, before
      <4>2. QED
        BY <3>1, <4>1
    <3>4. QED
      BY <3>2, <3>3
  <2>7. /\ before \in Seq(Message) /\ queue = Append(before, m)
        /\ \A i \in 1 .. Len(before) : Fresh(f0, before[i], current.host, journal, gen)
        /\ frame \in BOOLEAN
        /\ full => Len(queue) < QueueLimit
        /\ queue \in Seq(Message)
    <3>1. CASE full
      <4>1. before = <<>> /\ queue = <<m>> /\ frame = FALSE
        BY <3>1
      <4>2. Len(f0.queue) > 0 /\ Len(f0.queue) < QueueLimit /\ Len(f0.queue) \in Nat
        BY <1>1, <1>2, <1>3, <3>1 DEF EffectOK
      <4>3. 1 < QueueLimit
        BY <1>1, <4>2
      <4>4. queue = Append(before, m) /\ queue \in Seq(Message) /\ Len(queue) = 1
        <5>1. <<m>> = Append(<<>>, m) /\ <<m>> \in Seq(Message) /\ Len(<<m>>) = 1
          OBVIOUS
        <5> HIDE DEF queue, before
        <5>2. QED
          BY <4>1, <5>1
      <4>5. \A i \in 1 .. Len(before) : FALSE
        BY <4>1
      <4>6. before \in Seq(Message)
        <5>1. <<>> \in Seq(Message)
          OBVIOUS
        <5> HIDE DEF before
        <5>2. QED
          BY <4>1, <5>1
      <4> HIDE DEF queue, before, frame, full
      <4>7. QED
        BY <4>1, <4>3, <4>4, <4>5, <4>6
    <3>2. CASE ~ full
      <4>1. before = f0.queue /\ queue = Append(f0.queue, m) /\ frame = f0.frame
        BY <1>3, <3>2
      <4>2. f0.frame \in BOOLEAN
        BY <1>1 DEF Effect
      <4>3. QED
        BY <1>2, <2>2, <3>2, <4>1, <4>2, AppendFacts DEF FollowOK
    <3>3. QED
      BY <3>1, <3>2
  <2> HIDE DEF before, f0
  <2>8. \/ fx' = [fx EXCEPT ![x] = Failed(f)] /\ current' = current /\ ~ state.ok
        \/ FlushTo(x, g) /\ Len(g.queue) >= QueueLimit
        \/ /\ fx' = [fx EXCEPT ![x] = [g EXCEPT !.frame = TRUE]]
           /\ current' = state /\ connection' = connection
           /\ state.ok /\ ~ (Len(g.queue) >= QueueLimit)
    BY <1>8, <2>3, Zenon DEF OnEvent
  <2> HIDE DEF state, queue, frame, full
  <2>9. /\ g \in Effect /\ g.queue = queue /\ g.frame = frame /\ g.wire = f.wire
        /\ g.lastId = f.lastId /\ g.session = f.session /\ g.active = f.active
        /\ g.invalid = f.invalid /\ g.aborted = f.aborted /\ g.sub = f.sub
        /\ g.base = f.base /\ g.phase = f.phase /\ g.reply = f.reply /\ g.conn = f.conn
    BY <2>7 DEF Effect
  <2> HIDE DEF g
  <2>10. FollowOK(g, state, journal, durable, gen)
    <3>1. /\ TypeOK /\ f0 \in Effect /\ f0.wire # <<>> /\ ~ f0.aborted /\ f0.session \in Sessions
          /\ FollowOK(f0, current, journal, durable, gen)
          /\ m = Head(f0.wire) /\ Fresh(f0, m, current.host, journal, gen)
      BY <1>1, <1>3, <1>8, <2>1, <2>2 DEF f0
    <3>2. /\ before \in Seq(Message) /\ state \in State
          /\ state.recentFrom = current.recentFrom /\ state.host = current.host
          /\ \A i \in 1 .. Len(before) : Fresh(f0, before[i], current.host, journal, gen)
          /\ gen = 0 => f0.lastId = LastSeq(Cursor(state), before) /\ Steps(Cursor(state), before)
      BY <2>5, <2>6, <2>7
    <3>3. /\ g.queue = Append(before, m) /\ g.wire = Tail(f0.wire) /\ g.lastId = m.seq
          /\ g.session = f0.session /\ g.base = f0.base /\ g.sub = f0.sub
          /\ g.aborted = f0.aborted
      BY <1>3, <2>7, <2>9
    <3>4. QED
      BY <2>9, <3>1, <3>2, <3>3, QueuedKeeps
  <2>11. QuietOK(g) /\ ReplyOK(g, journal, gen)
    <3>1. QuietOK(f) /\ f.phase = "follow"
      BY <1>3, <1>4, <1>5 DEF EffectOK
    <3>2. QuietOK(g)
      BY <1>8, <2>9, <3>1 DEF QuietOK, Live
    <3>3. QED
      BY <1>4, <2>9, <3>2, Zenon DEF ReplyOK
  <2>12. g.session = fx[x].session /\ g.active = fx[x].active /\ Live(fx[x]) /\ Live(g)
    BY <1>3, <1>8, <2>1, <2>9 DEF Live, f0
  <2>13. CASE fx' = [fx EXCEPT ![x] = Failed(f)] /\ current' = current /\ ~ state.ok
    <3>1. QuietOK(f) /\ gen # 0
      BY <1>4, <2>5, <2>13 DEF EffectOK
    <3>2. f.session = fx[x].session /\ f.active = fx[x].active
      BY <1>3 DEF f0
    <3>3. QED
      BY <1>4, <2>13, <3>1, <3>2, FailStep
  <2>14. CASE FlushTo(x, g) /\ Len(g.queue) >= QueueLimit
    <3>1. state = current
      <4>1. Len(g.queue) \in Nat
        BY <2>7, <2>9
      <4>2. ~ full
        BY <1>1, <2>7, <2>9, <2>14, <4>1
      <4>3. QED
        BY <2>5, <4>2
    <3>2. g.phase = "follow" /\ ~ g.aborted
      BY <1>3, <1>5, <1>8, <2>9 DEF f0
    <3>3. QED
      BY <2>9, <2>10, <2>11, <2>12, <2>14, <3>1, <3>2, FlushKeeps
  <2>15. CASE /\ fx' = [fx EXCEPT ![x] = [g EXCEPT !.frame = TRUE]]
              /\ current' = state /\ connection' = connection
              /\ state.ok /\ ~ (Len(g.queue) >= QueueLimit)
    <3> DEFINE h == [g EXCEPT !.frame = TRUE]
    <3>1. /\ h \in Effect /\ h.queue = g.queue /\ h.frame = TRUE /\ h.wire = g.wire
          /\ h.lastId = g.lastId /\ h.session = g.session /\ h.active = g.active
          /\ h.invalid = g.invalid /\ h.aborted = g.aborted /\ h.sub = g.sub
          /\ h.base = g.base /\ h.phase = g.phase /\ h.reply = g.reply /\ h.conn = g.conn
      BY <2>9 DEF Effect
    <3>2. fx' = [fx EXCEPT ![x] = h]
      BY <2>15
    <3> HIDE DEF h
    <3>3. Len(h.queue) < QueueLimit
      <4>1. Len(g.queue) \in Nat
        BY <2>7, <2>9
      <4>2. QED
        BY <1>1, <2>15, <3>1, <4>1
    <3>4. QuietOK(h)
      <4>1. h.phase = "follow" /\ ~ h.aborted /\ ~ h.invalid
        BY <1>3, <1>5, <1>8, <2>9, <3>1 DEF Live, f0
      <4>2. QED
        BY <2>11, <2>12, <3>1, <4>1 DEF QuietOK, Live
    <3>5. EffectOK(h) /\ ReplyOK(h, journal, gen)
      BY <2>11, <3>1, <3>3, <3>4 DEF EffectOK, ReplyOK
    <3>6. gen = 0 /\ ~ h.aborted => ChainOK(h, state, journal)
      <4> SUFFICES ASSUME gen = 0, ~ h.aborted PROVE ChainOK(h, state, journal)
        OBVIOUS
      <4>1. ChainOK(g, state, journal)
        <5>1. ~ g.aborted
          BY <3>1
        <5>2. QED
          BY <2>10, <5>1, FollowChain
      <4>2. /\ h.lastId = g.lastId /\ h.queue = g.queue /\ h.wire = g.wire
            /\ h.sub = g.sub /\ h.session = g.session
        BY <3>1
      <4>3. QED
        BY <4>1, <4>2, SameChain
    <3>7. FollowOK(h, state, journal, durable, gen)
      BY <2>10, <3>1, <3>6 DEF FollowOK, Fresh
    <3>8. DisplayOK(state, journal, gen) /\ state.session = current.session
      BY <2>2, <2>5, <2>15 DEF DisplayOK
    <3>9. h.session = fx[x].session /\ h.active = fx[x].active /\ Live(fx[x])
      BY <2>12, <3>1
    <3>10. gen = 0 => connection' # "invalid"
      BY <1>1, <2>15
    <3>11. state \in State
      BY <2>5
    <3>12. QED
      BY <2>15, <3>1, <3>2, <3>5, <3>7, <3>8, <3>9, <3>10, <3>11, EffectStep
  <2>16. QED
    BY <2>8, <2>13, <2>14, <2>15
<1>9. QED
  BY <1>7, <1>8

LEMMA DeliverKeeps ==
  ASSUME IInv, NEW x \in Effects, Deliver(x)
  PROVE  IInv'
<1> DEFINE m == Head(fx[x].wire)
           f == [fx[x] EXCEPT !.wire = Tail(fx[x].wire)]
           e == [fx[x] EXCEPT !.wire = Tail(fx[x].wire), !.lastId = m.seq]
<1>1. fx[x] \in Effect
  BY EffectFacts
<1>2. /\ Still /\ session' = session /\ effects' = effects
      /\ fx[x].conn = "open" /\ fx[x].wire # <<>>
  BY DEF Deliver, Still, host
<1>3. fx[x].wire \in Seq(Message \cup {Reset})
  BY <1>1 DEF Effect
<1>4. m \in Message \cup {Reset} /\ Tail(fx[x].wire) \in Seq(Message \cup {Reset})
  BY <1>2, <1>3, TailFacts
<1>5. /\ f \in Effect /\ f.wire = Tail(fx[x].wire)
      /\ f.session = fx[x].session /\ f.active = fx[x].active /\ f.invalid = fx[x].invalid
      /\ f.aborted = fx[x].aborted /\ f.sub = fx[x].sub /\ f.base = fx[x].base
      /\ f.lastId = fx[x].lastId /\ f.phase = fx[x].phase /\ f.reply = fx[x].reply
      /\ f.conn = fx[x].conn /\ f.queue = fx[x].queue /\ f.frame = fx[x].frame
  BY <1>1, <1>4 DEF Effect
<1>6. CASE m = Reset
  <2>1. OnReset(x, f)
    BY <1>6 DEF Deliver
  <2> HIDE DEF f
  <2>2. QED
    BY <1>2, <1>5, <2>1, OnResetKeeps
<1>7. CASE m # Reset
  <2>1. m \in Message /\ m.seq \in Nat
    BY <1>4, <1>7 DEF Message
  <2> DEFINE n == m.seq
             w == Tail(fx[x].wire)
  <2>2. /\ e \in Effect /\ e.wire = w /\ e.lastId = n
        /\ e.session = fx[x].session /\ e.active = fx[x].active /\ e.invalid = fx[x].invalid
        /\ e.aborted = fx[x].aborted /\ e.sub = fx[x].sub /\ e.base = fx[x].base
        /\ e.phase = fx[x].phase /\ e.reply = fx[x].reply
        /\ e.conn = fx[x].conn /\ e.queue = fx[x].queue /\ e.frame = fx[x].frame
    <3> HIDE DEF m
    <3>1. QED
      BY <1>1, <1>4, <2>1 DEF Effect
  <2>3. OnEvent(x, e, m)
    <3>1. OnEvent(x, [f EXCEPT !.lastId = m.seq], m)
      BY <1>7, Zenon DEF Deliver
    <3>2. [f EXCEPT !.lastId = m.seq] = e
      OBVIOUS
    <3>3. QED
      BY <3>1, <3>2
  <2> HIDE DEF e
  <2>4. QED
    BY <1>2, <2>1, <2>2, <2>3, OnEventKeeps
<1>8. QED
  BY <1>6, <1>7

-----------------------------------------------------------------------------
(* The steps of the host                                                   *)

\* What was genuine stays so, and what was written later stays later.
Onward(j, g, j2, g2) ==
    /\ \A q \in Nat, e \in Event : Genuine(j, g, q, e) => Genuine(j2, g2, q, e)
    /\ \A n \in Nat, h \in Nat : h <= g /\ LaterThan(j, n, h) => LaterThan(j2, n, h)

LEMMA StateOnward ==
  ASSUME NEW state \in State, NEW js, NEW g \in Nat, NEW js2, NEW g2 \in Nat, g <= g2,
         \A s \in Sessions : Onward(js[s], g, js2[s], g2), StateOK(state, js, g)
  PROVE  StateOK(state, js2, g2)
<1>1. /\ state.session \in Sessions /\ state.host \in Nat /\ state.host <= g2
      /\ Len(state.shown) \in Nat
      /\ \A q \in 1 .. Len(state.shown) : q \in Nat /\ state.shown[q] \in Event
  BY ShownFacts DEF StateOK
<1>2. \A q \in 1 .. Len(state.shown) : Genuine(js2[state.session], g2, q, state.shown[q])
  BY <1>1 DEF StateOK, Onward
<1>3. QED
  BY <1>1, <1>2 DEF StateOK

LEMMA FreshOnward ==
  ASSUME NEW f, f.session \in Sessions, NEW m \in Message, NEW host0, NEW js, NEW g,
         NEW js2, NEW g2, \A s \in Sessions : Onward(js[s], g, js2[s], g2),
         Fresh(f, m, host0, js, g)
  PROVE  Fresh(f, m, host0, js2, g2)
<1>1. m.seq \in Nat /\ m.event \in Event
  BY DEF Message
<1>2. QED
  BY <1>1 DEF Fresh, Onward

LEMMA FollowOnward ==
  ASSUME NEW f \in Effect, f.session \in Sessions, NEW state \in State,
         NEW js, NEW ds, NEW g \in Nat, NEW js2, NEW ds2, NEW g2 \in Nat, g <= g2,
         \A s \in Sessions : /\ Onward(js[s], g, js2[s], g2)
                             /\ ds[s] \in Nat /\ ds2[s] \in Nat /\ ds[s] <= ds2[s]
                             /\ Len(js[s]) \in Nat /\ Len(js2[s]) \in Nat
                             /\ g2 = 0 => Len(js[s]) <= Len(js2[s]),
         state.host <= g, FollowOK(f, state, js, ds, g)
  PROVE  FollowOK(f, state, js2, ds2, g2)
<1>1. /\ f.base \in Nat /\ f.lastId \in Nat /\ state.host \in Nat
      /\ f.queue \in Seq(Message) /\ f.wire \in Seq(Message \cup {Reset})
      /\ f.sub \in Subscription
  BY DEF Effect, State
<1>2. LaterThan(js2[f.session], f.base, state.host)
  BY <1>1 DEF FollowOK, Onward
<1>3. \A i \in 1 .. Len(f.queue) : Fresh(f, f.queue[i], state.host, js2, g2)
  <2> TAKE i \in 1 .. Len(f.queue)
  <2>1. f.queue[i] \in Message /\ Fresh(f, f.queue[i], state.host, js, g)
    BY <1>1 DEF FollowOK
  <2>2. QED
    BY <2>1, FreshOnward
<1>4. \A i \in 1 .. Len(f.wire) : f.wire[i] = Reset \/ Fresh(f, f.wire[i], state.host, js2, g2)
  <2> SUFFICES ASSUME NEW i \in 1 .. Len(f.wire), f.wire[i] # Reset
               PROVE  Fresh(f, f.wire[i], state.host, js2, g2)
    OBVIOUS
  <2>1. f.wire[i] \in Message /\ Fresh(f, f.wire[i], state.host, js, g)
    BY <1>1 DEF FollowOK
  <2>2. QED
    BY <2>1, FreshOnward
<1>5. f.sub.st = "read" =>
        /\ f.sub.durable <= ds2[f.session]
        /\ \A i \in 1 .. Len(f.sub.tail) : Fresh(f, f.sub.tail[i], state.host, js2, g2)
  <2> SUFFICES ASSUME f.sub.st = "read"
               PROVE  /\ f.sub.durable <= ds2[f.session]
                      /\ \A i \in 1 .. Len(f.sub.tail) : Fresh(f, f.sub.tail[i], state.host, js2, g2)
    OBVIOUS
  <2>1. f.sub.durable \in Nat /\ f.sub.tail \in Seq(Message)
    BY <1>1 DEF Subscription, NoSub
  <2>2. f.sub.durable <= ds2[f.session]
    BY <2>1 DEF FollowOK
  <2>3. ASSUME NEW i \in 1 .. Len(f.sub.tail)
        PROVE  Fresh(f, f.sub.tail[i], state.host, js2, g2)
    <3>1. f.sub.tail[i] \in Message /\ Fresh(f, f.sub.tail[i], state.host, js, g)
      BY <2>1 DEF FollowOK
    <3>2. QED
      BY <3>1, FreshOnward
  <2>4. QED
    BY <2>2, <2>3
<1>6. g2 = 0 /\ ~ f.aborted => ChainOK(f, state, js2)
  <2> SUFFICES ASSUME g2 = 0, ~ f.aborted PROVE ChainOK(f, state, js2)
    OBVIOUS
  <2>1. ChainOK(f, state, js)
    BY DEF FollowOK
  <2>2. f.lastId <= Len(js2[f.session])
    BY <1>1, <2>1 DEF ChainOK
  <2>3. QED
    BY <2>1, <2>2, Zenon DEF ChainOK
<1>7. QED
  BY <1>2, <1>3, <1>4, <1>5, <1>6 DEF FollowOK

\* A step of the host changes no effect, unless its death ends their subscriptions.
LEMMA HostStep ==
  ASSUME IInv, TypeOK', JournalsOK', session' = session, effects' = effects,
         current' = current, connection' = connection, gen <= gen',
         \A x \in Effects :
            \/ fx'[x] = fx[x]
            \/ gen' # 0 /\ fx'[x] = [fx[x] EXCEPT !.sub = NoSub],
         \A s \in Sessions : /\ Onward(journal[s], gen, journal'[s], gen')
                             /\ durable[s] <= durable'[s]
                             /\ gen' = 0 => Len(journal[s]) <= Len(journal'[s])
  PROVE  IInv'
<1>1. /\ gen \in Nat /\ gen' \in Nat /\ gen <= gen' /\ current \in State
      /\ \A s \in Sessions : Onward(journal[s], gen, journal'[s], gen')
      /\ \A s \in Sessions : /\ Onward(journal[s], gen, journal'[s], gen')
                             /\ durable[s] \in Nat /\ durable'[s] \in Nat /\ durable[s] <= durable'[s]
                             /\ Len(journal[s]) \in Nat /\ Len(journal'[s]) \in Nat
                             /\ gen' = 0 => Len(journal[s]) <= Len(journal'[s])
  BY DEF IInv, TypeOK
<1>2. ASSUME NEW x \in Effects, NEW g, g = [fx[x] EXCEPT !.sub = NoSub]
      PROVE  /\ g \in Effect /\ g.sub = NoSub
             /\ g.aborted = fx[x].aborted /\ g.queue = fx[x].queue /\ g.frame = fx[x].frame
             /\ g.session = fx[x].session /\ g.active = fx[x].active /\ g.invalid = fx[x].invalid
             /\ g.phase = fx[x].phase /\ g.reply = fx[x].reply /\ g.base = fx[x].base
             /\ g.lastId = fx[x].lastId /\ g.conn = fx[x].conn /\ g.wire = fx[x].wire
  <2>1. fx[x] \in Effect /\ NoSub \in Subscription
    BY <1>2, EffectFacts DEF Subscription
  <2>2. QED
    BY <1>2, <2>1 DEF Effect
<1>3. DisplayOK(current, journal', gen')
  <2>1. DisplayOK(current, journal, gen)
    BY DEF IInv
  <2>2. QED
    BY <1>1, <2>1, StateOnward DEF DisplayOK
<1>4. ASSUME NEW x \in Effects
      PROVE  /\ EffectOK(fx[x]) /\ ReplyOK(fx[x], journal', gen')
             /\ Follows(fx[x]) => FollowOK(fx[x], current, journal', durable', gen')
  <2>1. /\ fx[x] \in Effect /\ EffectOK(fx[x]) /\ ReplyOK(fx[x], journal, gen)
        /\ Follows(fx[x]) => FollowOK(fx[x], current, journal, durable, gen)
        /\ fx[x].active => fx[x].session \in Sessions /\ StateOK(current, journal, gen)
    BY EffectFacts
  <2>2. ReplyOK(fx[x], journal', gen')
    <3> SUFFICES ASSUME fx[x].reply.st = "seed" PROVE ReplyOK(fx[x], journal', gen')
      BY DEF ReplyOK
    <3> DEFINE state == fx[x].reply.state
    <3>1. state \in State
      BY <2>1 DEF Effect, Reply, NoReply
    <3>2. /\ StateOK(state, journal, gen) /\ state.ok /\ state.session = fx[x].session
          /\ state.recentFrom = Len(state.shown) + 1
          /\ LaterThan(journal[fx[x].session], Len(state.shown), state.host)
      BY <2>1 DEF ReplyOK
    <3> HIDE DEF state
    <3>3. StateOK(state, journal', gen')
      BY <1>1, <3>1, <3>2, StateOnward
    <3>4. LaterThan(journal'[fx[x].session], Len(state.shown), state.host)
      <4>1. Len(state.shown) \in Nat /\ state.host \in Nat /\ state.host <= gen
            /\ fx[x].session \in Sessions
        BY <3>1, <3>2, ShownFacts DEF StateOK
      <4>2. QED
        BY <1>1, <3>2, <4>1 DEF Onward
    <3>5. QED
      BY <3>2, <3>3, <3>4 DEF ReplyOK, state
  <2>3. ASSUME Follows(fx[x])
        PROVE  FollowOK(fx[x], current, journal', durable', gen')
    <3>1. fx[x].session \in Sessions /\ current.host <= gen
      BY <2>1, <2>3 DEF Follows, Live, StateOK
    <3>2. QED
      BY <1>1, <2>1, <2>3, <3>1, FollowOnward
  <2>4. QED
    BY <2>1, <2>2, <2>3
<1>5. OwnerOK'
  <2> SUFFICES ASSUME NEW x \in Effects, fx'[x].active
               PROVE  /\ x = effects' /\ fx'[x].session = session' /\ session' \in Sessions
                      /\ current'.session = session'
    BY DEF OwnerOK
  <2>1. fx'[x].active = fx[x].active /\ fx'[x].session = fx[x].session
    BY <1>2, Zenon
  <2>2. QED
    BY <2>1, EffectFacts
<1>6. ASSUME NEW x \in Effects
      PROVE  /\ EffectOK(fx'[x]) /\ ReplyOK(fx'[x], journal', gen')
             /\ Follows(fx'[x]) => FollowOK(fx'[x], current, journal', durable', gen')
  <2>1. CASE fx'[x] = fx[x]
    BY <1>4, <2>1
  <2>2. CASE gen' # 0 /\ fx'[x] = [fx[x] EXCEPT !.sub = NoSub]
    <3> DEFINE f == fx[x]
               g == fx'[x]
    <3>1. /\ g.sub = NoSub
          /\ g.aborted = f.aborted /\ g.queue = f.queue /\ g.frame = f.frame
          /\ g.session = f.session /\ g.active = f.active /\ g.invalid = f.invalid
          /\ g.phase = f.phase /\ g.reply = f.reply /\ g.base = f.base
          /\ g.lastId = f.lastId /\ g.conn = f.conn /\ g.wire = f.wire
      BY <1>2, <2>2
    <3>2. /\ EffectOK(f) /\ ReplyOK(f, journal', gen')
          /\ Follows(f) => FollowOK(f, current, journal', durable', gen')
      BY <1>4
    <3>3. gen' # 0
      BY <2>2
    <3> HIDE DEF f, g
    <3>4. EffectOK(g)
      BY <3>1, <3>2 DEF EffectOK, QuietOK, Live, NoSub
    <3>5. ReplyOK(g, journal', gen')
      BY <3>1, <3>2, Zenon DEF ReplyOK
    <3>6. Follows(g) => FollowOK(g, current, journal', durable', gen')
      BY <3>1, <3>2, <3>3 DEF Follows, Live, FollowOK, Fresh, NoSub
    <3>7. QED
      BY <3>4, <3>5, <3>6 DEF g
  <2>3. QED
    BY <2>1, <2>2
<1>7. gen' = 0 => connection' # "invalid"
  BY <1>1 DEF IInv
<1>8. QED
  BY <1>3, <1>5, <1>6, <1>7 DEF IInv

\* A journal that stays is the journal of the same host.
LEMMA SameOnward ==
  ASSUME NEW j, NEW g
  PROVE  Onward(j, g, j, g)
  BY DEF Onward

LEMMA BroadcastType ==
  ASSUME changed \in [Sessions -> Nat], NEW s \in Sessions, changed' = Broadcast(s)
  PROVE  changed' \in [Sessions -> Nat]
  BY DEF Broadcast

LEMMA FlushJournalKeeps ==
  ASSUME IInv, NEW s \in Sessions, Flush(s)
  PROVE  IInv'
<1>1. /\ TypeOK /\ JournalsOK
      /\ journal' = journal /\ gen' = gen /\ fx' = fx
      /\ UNCHANGED <<storageErr, changed, session, effects, current, connection>>
  BY DEF IInv, Flush
<1>2. PICK n \in (durable[s] + 1) .. Len(journal[s]) : durable' = [durable EXCEPT ![s] = n]
  BY DEF Flush
<1>3. durable[s] \in Nat /\ Len(journal[s]) \in Nat /\ durable \in [Sessions -> Nat]
  BY <1>1 DEF TypeOK
<1>4. n \in Nat /\ durable[s] <= n /\ n <= Len(journal[s])
  BY <1>2, <1>3
<1>5. /\ durable' \in [Sessions -> Nat]
      /\ \A r \in Sessions : /\ durable[r] <= durable'[r]
                             /\ durable'[r] = durable[r] \/ (r = s /\ durable'[r] = n)
  BY <1>2, <1>3, <1>4
<1>6. TypeOK'
  BY <1>1, <1>5 DEF TypeOK
<1>7. JournalsOK'
  <2> SUFFICES ASSUME NEW r \in Sessions PROVE JournalOK(journal[r], durable'[r], gen)
    BY <1>1 DEF JournalsOK
  <2>1. JournalOK(journal[r], durable[r], gen)
    BY <1>1 DEF JournalsOK
  <2>2. QED
    BY <1>4, <1>5, <2>1 DEF JournalOK
<1>8. \A r \in Sessions : Onward(journal[r], gen, journal'[r], gen') /\ Len(journal[r]) \in Nat
  BY <1>1, SameOnward DEF TypeOK
<1>9. gen \in Nat
  BY <1>1 DEF TypeOK
<1>10. QED
  BY <1>1, <1>5, <1>6, <1>7, <1>8, <1>9, HostStep

LEMMA FlushFailsKeeps ==
  ASSUME IInv, NEW s \in Sessions, FlushFails(s)
  PROVE  IInv'
<1>1. /\ TypeOK /\ JournalsOK /\ changed \in [Sessions -> Nat]
      /\ journal' = journal /\ gen' = gen /\ fx' = fx /\ durable' = durable
      /\ storageErr' = [storageErr EXCEPT ![s] = TRUE] /\ changed' = Broadcast(s)
      /\ UNCHANGED <<session, effects, current, connection>>
  BY DEF IInv, FlushFails, TypeOK
<1>2. changed' \in [Sessions -> Nat]
  BY <1>1, BroadcastType
<1>3. TypeOK'
  BY <1>1, <1>2 DEF TypeOK
<1>4. JournalsOK'
  BY <1>1 DEF JournalsOK
<1>5. \A r \in Sessions : /\ Onward(journal[r], gen, journal'[r], gen')
                          /\ Len(journal[r]) \in Nat /\ durable[r] \in Nat
  BY <1>1, SameOnward DEF TypeOK
<1>6. gen \in Nat
  BY <1>1 DEF TypeOK
<1>7. QED
  BY <1>1, <1>3, <1>4, <1>5, <1>6, HostStep

LEMMA AppendEventKeeps ==
  ASSUME IInv, NEW s \in Sessions, NEW kind \in Kinds, AppendEvent(s, kind)
  PROVE  IInv'
<1> DEFINE j == journal[s]
           rt == IF kind = "runtime" THEN <<gen, Len(j) + 1>> ELSE RuntimeOf(j)
           e == [kind |-> kind, rt |-> rt, gen |-> gen]
           longer == Append(j, e)
<1>1. /\ TypeOK /\ JournalsOK /\ gen \in Nat /\ changed \in [Sessions -> Nat]
      /\ durable[s] \in Nat /\ j \in Seq(Event) /\ Len(j) \in Nat
      /\ JournalOK(j, durable[s], gen)
  BY DEF IInv, TypeOK, JournalsOK
<1>2. /\ journal' = [journal EXCEPT ![s] = longer]
      /\ changed' = Broadcast(s) /\ gen' = gen /\ fx' = fx /\ durable' = durable
      /\ UNCHANGED <<storageErr, session, effects, current, connection>>
  BY DEF AppendEvent
<1>3. RuntimeOf(j) \in Nat \X Nat /\ Announced(j, RuntimeOf(j), Len(j))
  <2> HIDE DEF j
  <2>1. QED
    BY <1>1, RuntimeFacts
<1>4. e \in Event /\ e.gen = gen /\ e.kind = kind /\ e.rt = rt
  <2>1. rt \in Nat \X Nat
    BY <1>1, <1>3
  <2> HIDE DEF rt
  <2>2. QED
    BY <1>1, <2>1 DEF Event
<1>5. e.kind = "runtime" \/ e.rt = RuntimeOf(j)
  BY <1>4
<1>6. RuntimeOf(j) = RuntimeAt(j, Len(j))
  BY <1>1, RuntimeIsLast DEF JournalOK
<1> HIDE DEF e, j
<1>7. /\ longer \in Seq(Event) /\ Len(longer) = Len(j) + 1 /\ longer[Len(j) + 1] = e
      /\ \A q \in 1 .. Len(j) : longer[q] = j[q]
  BY <1>1, <1>4, AppendFacts
<1>8. AllAnnounced(longer)
  BY <1>1, <1>3, <1>4, <1>5, AppendAnnounced DEF JournalOK
<1> HIDE DEF longer
<1>9. \A q \in 1 .. Len(longer) : q \in 1 .. Len(j) \/ q = Len(j) + 1
  BY <1>1, <1>7
<1>10. JournalOK(longer, durable[s], gen)
  <2>1. durable[s] <= Len(longer)
    BY <1>1, <1>7 DEF JournalOK
  <2>2. ASSUME NEW q \in 1 .. Len(longer)
        PROVE  longer[q].gen <= gen
    <3>1. CASE q \in 1 .. Len(j)
      BY <1>1, <1>7, <3>1 DEF JournalOK
    <3>2. CASE q = Len(j) + 1
      BY <1>1, <1>4, <1>7, <3>2
    <3>3. QED
      BY <1>9, <3>1, <3>2
  <2>3. ASSUME NEW q \in 1 .. Len(longer)
        PROVE  longer[q].kind = "runtime" \/ longer[q].rt = RuntimeAt(longer, q - 1)
    <3>1. RuntimeAt(longer, q - 1) = RuntimeAt(j, q - 1)
      <4>1. q - 1 = 0 \/ q - 1 \in 1 .. Len(j)
        BY <1>1, <1>7
      <4>2. QED
        BY <1>7, <4>1 DEF RuntimeAt
    <3>2. CASE q \in 1 .. Len(j)
      BY <1>1, <1>7, <3>1, <3>2 DEF JournalOK, InRuntimes
    <3>3. CASE q = Len(j) + 1
      <4>1. q - 1 = Len(j) /\ longer[q] = e
        BY <1>1, <1>7, <3>3
      <4>2. QED
        BY <1>5, <1>6, <3>1, <4>1
    <3>4. QED
      BY <1>9, <3>2, <3>3
  <2>4. QED
    BY <1>8, <2>1, <2>2, <2>3 DEF JournalOK, InRuntimes
<1>11. Onward(j, gen, longer, gen)
  <2>1. ASSUME NEW q \in Nat, NEW d \in Event, Genuine(j, gen, q, d)
        PROVE  Genuine(longer, gen, q, d)
    <3>1. CASE q \in 1 .. Len(j)
      BY <1>1, <1>7, <2>1, <3>1 DEF Genuine
    <3>2. CASE q \notin 1 .. Len(j)
      <4>1. d.gen < gen
        BY <2>1, <3>2 DEF Genuine
      <4>2. q \in 1 .. Len(longer) => longer[q].gen > d.gen
        BY <1>4, <1>7, <1>9, <3>2, <4>1
      <4>3. QED
        BY <4>1, <4>2 DEF Genuine
    <3>3. QED
      BY <3>1, <3>2
  <2>2. ASSUME NEW n \in Nat, NEW h \in Nat, h <= gen, LaterThan(j, n, h)
        PROVE  LaterThan(longer, n, h)
    BY <1>1, <1>4, <1>7, <1>9, <2>2 DEF LaterThan
  <2>3. QED
    BY <2>1, <2>2 DEF Onward
<1>12. /\ journal' \in [Sessions -> Seq(Event)] /\ journal'[s] = longer
       /\ \A r \in Sessions : r # s => journal'[r] = journal[r]
  BY <1>1, <1>2, <1>7 DEF TypeOK
<1>13. TypeOK'
  <2>1. changed' \in [Sessions -> Nat]
    BY <1>1, <1>2, BroadcastType
  <2>2. QED
    BY <1>1, <1>2, <1>12, <2>1 DEF TypeOK
<1>14. JournalsOK'
  <2> SUFFICES ASSUME NEW r \in Sessions PROVE JournalOK(journal'[r], durable[r], gen)
    BY <1>2 DEF JournalsOK
  <2>1. QED
    BY <1>1, <1>10, <1>12 DEF JournalsOK
<1>15. ASSUME NEW r \in Sessions
       PROVE  /\ Onward(journal[r], gen, journal'[r], gen')
              /\ durable[r] <= durable'[r] /\ Len(journal[r]) <= Len(journal'[r])
  <2>1. durable[r] \in Nat /\ Len(journal[r]) \in Nat
    BY <1>1 DEF TypeOK
  <2>2. CASE r = s
    BY <1>1, <1>2, <1>7, <1>11, <1>12, <2>1, <2>2 DEF j
  <2>3. CASE r # s
    BY <1>2, <1>12, <2>1, <2>3, SameOnward
  <2>4. QED
    BY <2>2, <2>3
<1>16. QED
  BY <1>1, <1>2, <1>13, <1>14, <1>15, HostStep

\* The events of a journal a crash leaves: its first n.
LEMMA PrefixFacts ==
  ASSUME NEW S, NEW j \in Seq(S), NEW n \in Nat, n <= Len(j), NEW p, p = SubSeq(j, 1, n)
  PROVE  p \in Seq(S) /\ Len(p) = n /\ \A q \in 1 .. n : p[q] = j[q] /\ q \in 1 .. Len(j)
  OBVIOUS

\* An event the crash lost is older than the next host, and so is every event there is.
LEMMA PrefixOnward ==
  ASSUME NEW j \in Seq(Event), NEW n \in Nat, NEW g \in Nat, JournalOK(j, n, g),
         NEW p, p = SubSeq(j, 1, n)
  PROVE  /\ p \in Seq(Event) /\ JournalOK(p, n, g + 1)
         /\ Onward(j, g, p, g + 1)
<1>1. /\ n <= Len(j) /\ p \in Seq(Event) /\ Len(p) = n /\ Len(j) \in Nat
      /\ \A q \in 1 .. n : p[q] = j[q] /\ q \in 1 .. Len(j)
  BY PrefixFacts DEF JournalOK
<1>2. \A q \in 1 .. Len(j) : j[q] \in Event /\ j[q].gen \in Nat /\ j[q].gen <= g
  <2> TAKE q \in 1 .. Len(j)
  <2>1. j[q] \in Event
    BY <1>1
  <2>2. j[q].gen \in Nat
    BY <2>1 DEF Event
  <2>3. QED
    BY <2>1, <2>2 DEF JournalOK
<1>3. AllAnnounced(p)
  <2> SUFFICES ASSUME NEW q \in 1 .. n PROVE Announced(p, p[q].rt, q)
    BY <1>1 DEF AllAnnounced
  <2>1. Announced(j, j[q].rt, q)
    BY <1>1 DEF JournalOK, AllAnnounced
  <2>2. \A k \in 1 .. q : k \in 1 .. n
    OBVIOUS
  <2>3. QED
    BY <1>1, <2>1, <2>2, Zenon DEF Announced
<1>4. JournalOK(p, n, g + 1)
  <2>1. g + 1 # 0 /\ \A q \in 1 .. n : p[q].gen <= g + 1
    BY <1>1, <1>2
  <2>2. n <= Len(p)
    BY <1>1
  <2>3. ASSUME NEW q \in 1 .. n
        PROVE  p[q].kind = "runtime" \/ p[q].rt = RuntimeAt(p, q - 1)
    <3>1. q - 1 = 0 \/ q - 1 \in 1 .. n
      OBVIOUS
    <3>2. RuntimeAt(p, q - 1) = RuntimeAt(j, q - 1)
      BY <1>1, <3>1 DEF RuntimeAt
    <3>3. QED
      BY <1>1, <3>2 DEF JournalOK, InRuntimes
  <2>4. QED
    BY <1>1, <1>3, <2>1, <2>2, <2>3 DEF JournalOK, InRuntimes
<1>5. ASSUME NEW q \in Nat, NEW d \in Event, Genuine(j, g, q, d)
      PROVE  Genuine(p, g + 1, q, d)
  <2>1. CASE q \in 1 .. Len(j) /\ d = j[q]
    <3>1. CASE q \in 1 .. n
      BY <1>1, <2>1, <3>1 DEF Genuine
    <3>2. CASE q \notin 1 .. n
      BY <1>1, <1>2, <2>1, <3>2 DEF Genuine
    <3>3. QED
      BY <3>1, <3>2
  <2>2. CASE d.gen < g /\ (q \in 1 .. Len(j) => j[q].gen > d.gen)
    <3>1. d.gen \in Nat
      BY DEF Event
    <3>2. QED
      BY <1>1, <2>2, <3>1 DEF Genuine
  <2>3. QED
    BY <1>5, <2>1, <2>2 DEF Genuine
<1>6. ASSUME NEW m \in Nat, NEW h \in Nat, LaterThan(j, m, h)
      PROVE  LaterThan(p, m, h)
  BY <1>1, <1>6 DEF LaterThan
<1>7. QED
  BY <1>1, <1>4, <1>5, <1>6 DEF Onward

LEMMA CrashKeeps ==
  ASSUME IInv, Crash
  PROVE  IInv'
<1>1. /\ TypeOK /\ JournalsOK /\ gen \in Nat /\ gen' = gen + 1
      /\ journal' = [s \in Sessions |-> SubSeq(journal[s], 1, durable[s])]
      /\ storageErr' = [s \in Sessions |-> FALSE]
      /\ changed' = [s \in Sessions |-> 0]
      /\ fx' = [x \in Effects |-> [fx[x] EXCEPT !.sub = NoSub]]
      /\ UNCHANGED <<durable, session, effects, current, connection>>
  BY DEF IInv, Crash, TypeOK
<1>2. gen <= gen' /\ gen' # 0 /\ gen' \in Nat
  BY <1>1
<1>3. ASSUME NEW s \in Sessions
      PROVE  /\ journal'[s] \in Seq(Event) /\ JournalOK(journal'[s], durable[s], gen + 1)
             /\ Onward(journal[s], gen, journal'[s], gen + 1)
             /\ durable[s] <= durable'[s]
  <2>1. journal'[s] = SubSeq(journal[s], 1, durable[s])
    BY <1>1
  <2>2. /\ journal[s] \in Seq(Event) /\ durable[s] \in Nat
        /\ JournalOK(journal[s], durable[s], gen)
    BY <1>1 DEF TypeOK, JournalsOK
  <2> DEFINE j == journal[s]
             n == durable[s]
             p == journal'[s]
  <2>3. p = SubSeq(j, 1, n) /\ j \in Seq(Event) /\ n \in Nat /\ JournalOK(j, n, gen)
    BY <2>1, <2>2
  <2> HIDE DEF j, n, p
  <2>4. p \in Seq(Event) /\ JournalOK(p, n, gen + 1) /\ Onward(j, gen, p, gen + 1)
    BY <1>1, <2>3, PrefixOnward
  <2>5. n <= n
    BY <2>3
  <2>6. QED
    BY <1>1, <2>4, <2>5 DEF j, n, p
<1>4. \A x \in Effects : fx'[x] = [fx[x] EXCEPT !.sub = NoSub]
  BY <1>1, Zenon
<1>5. TypeOK'
  <2>1. journal' \in [Sessions -> Seq(Event)]
    <3>1. journal' = [s \in Sessions |-> journal'[s]]
      BY <1>1
    <3>2. QED
      BY <1>3, <3>1
  <2>2. fx' \in [Effects -> Effect]
    <3>1. ASSUME NEW x \in Effects
          PROVE  [fx[x] EXCEPT !.sub = NoSub] \in Effect
      <4>1. fx[x] \in Effect /\ NoSub \in Subscription
        BY EffectFacts DEF Subscription
      <4>2. QED
        BY <4>1 DEF Effect
    <3>2. QED
      BY <1>1, <3>1, Zenon
  <2>3. QED
    BY <1>1, <1>2, <2>1, <2>2 DEF TypeOK
<1>6. JournalsOK'
  BY <1>1, <1>3 DEF JournalsOK
<1>7. QED
  BY <1>1, <1>2, <1>3, <1>4, <1>5, <1>6, HostStep

-----------------------------------------------------------------------------
(* Init, Render and the next-state relation                                *)

LEMMA InitIInv ==
  ASSUME Init
  PROVE  IInv
<1>1. /\ MaxSeq \in [Sessions -> Nat] /\ MaxEffects \in Nat /\ NoSession \notin Sessions
      /\ 0 \in 0 .. MaxEffects
  BY StreamAssumption
<1>2. \A x \in Effects : fx[x] = NoEffect
  BY DEF Init
<1>3. NoEffect \in Effect /\ EffectOK(NoEffect) /\ ReplyOK(NoEffect, journal, gen)
  BY NoEffectFacts
<1>4. NoEffect.active = FALSE
  BY DEF NoEffect
<1>5. gen = 0 /\ current \in State /\ DisplayOK(current, journal, gen)
  BY EmptyState DEF Init
<1>6. Earlier \in [Sessions -> Nat] /\ FirstItem \in Event
  <2>1. FirstRuntime \in Nat \X Nat
    BY DEF FirstRuntime
  <2>2. QED
    BY <2>1, StreamAssumption DEF FirstItem, Event, Kinds
<1>7. ASSUME NEW s \in Sessions
      PROVE  /\ journal[s] \in Seq(Event) /\ Len(journal[s]) = Earlier[s]
             /\ \A q \in 1 .. Earlier[s] : journal[s][q] = FirstItem
  <2>1. journal[s] = [i \in 1 .. Earlier[s] |-> FirstItem] /\ Earlier[s] \in Nat
    BY <1>6 DEF Init
  <2> HIDE DEF FirstItem
  <2>2. QED
    BY <1>6, <2>1
<1>8. TypeOK
  <2>1. journal \in [Sessions -> Seq(Event)]
    BY <1>7 DEF Init
  <2>2. fx \in [Effects -> Effect]
    BY <1>3, Zenon DEF Init
  <2>3. QED
    BY <1>1, <1>5, <1>6, <2>1, <2>2 DEF TypeOK, Init
<1>9. JournalsOK
  <2> SUFFICES ASSUME NEW s \in Sessions PROVE JournalOK(journal[s], durable[s], gen)
    BY DEF JournalsOK
  <2>1. durable[s] = Earlier[s] /\ Earlier[s] \in Nat
    BY <1>6 DEF Init
  <2>2. /\ FirstItem.rt = FirstRuntime /\ FirstItem.gen = 0
    BY DEF FirstItem
  <2>3. \A q \in 1 .. Earlier[s] : RuntimeAt(journal[s], q - 1) = FirstRuntime
    BY <1>7, <2>1, <2>2 DEF RuntimeAt
  <2>4. QED
    BY <1>5, <1>7, <2>1, <2>2, <2>3 DEF JournalOK, AllAnnounced, Announced, InRuntimes
<1>10. OwnerOK
  BY <1>2, <1>4 DEF OwnerOK
<1>11. \A x \in Effects : EffectOK(fx[x]) /\ ReplyOK(fx[x], journal, gen) /\ ~ Follows(fx[x])
  BY <1>2, <1>3, <1>4, Zenon DEF Follows, Live
<1>12. connection # "invalid"
  BY DEF Init
<1>13. QED
  BY <1>5, <1>8, <1>9, <1>10, <1>11, <1>12, Zenon DEF IInv

\* After the cleanup of the last effect no effect is active.
LEMMA CleanedFacts ==
  ASSUME IInv, NEW cleaned,
         cleaned = IF effects = 0 THEN fx ELSE [fx EXCEPT ![effects] = Cleanup(@)]
  PROVE  /\ cleaned \in [Effects -> Effect]
         /\ \A x \in Effects : /\ EffectOK(cleaned[x]) /\ ReplyOK(cleaned[x], journal, gen)
                               /\ ~ cleaned[x].active
<1>1. fx \in [Effects -> Effect] /\ effects \in 0 .. MaxEffects
  BY DEF IInv, TypeOK
<1>2. effects = 0 \/ effects \in Effects
  BY <1>1 DEF Effects
<1>3. ASSUME NEW x \in Effects
      PROVE  /\ cleaned[x] \in Effect
             /\ EffectOK(cleaned[x]) /\ ReplyOK(cleaned[x], journal, gen) /\ ~ cleaned[x].active
  <2>1. /\ fx[x] \in Effect /\ EffectOK(fx[x]) /\ ReplyOK(fx[x], journal, gen)
        /\ fx[x].active => x = effects
    BY EffectFacts
  <2>2. CASE x = effects
    <3> DEFINE f == fx[x]
               g == cleaned[x]
    <3>1. g = Cleanup(f)
      <4>1. effects # 0
        BY <2>2 DEF Effects
      <4>2. cleaned = [fx EXCEPT ![effects] = Cleanup(fx[effects])]
        BY <4>1
      <4> HIDE DEF Effects
      <4>3. QED
        BY <1>1, <2>2, <4>2
    <3>2. f \in Effect /\ EffectOK(f) /\ ReplyOK(f, journal, gen)
      BY <2>1
    <3> HIDE DEF f, g
    <3>3. /\ g \in Effect /\ g.active = FALSE
          /\ g.aborted = TRUE /\ g.sub = NoSub /\ g.queue = <<>> /\ g.frame = FALSE
          /\ g.session = f.session /\ g.phase = f.phase /\ g.reply = f.reply
          /\ g.conn = f.conn /\ g.wire = f.wire
      BY <3>1, <3>2, CleanupFacts
    <3>4. EffectOK(g)
      <4>1. Len(<<>>) = 0 /\ 0 < QueueLimit
        BY StreamAssumption
      <4>2. QED
        BY <3>2, <3>3, <4>1 DEF EffectOK, QuietOK, NoSub
    <3>5. ReplyOK(g, journal, gen)
      BY <3>2, <3>3, Zenon DEF ReplyOK
    <3>6. QED
      BY <3>3, <3>4, <3>5 DEF g
  <2>3. CASE x # effects
    <3>1. cleaned[x] = fx[x]
      BY <1>1, <2>3, Zenon
    <3>2. QED
      BY <2>1, <2>3, <3>1
  <2>4. QED
    BY <2>2, <2>3
<1>4. cleaned = [x \in Effects |-> cleaned[x]]
  BY <1>1
<1>5. QED
  <2>1. \A x \in Effects : cleaned[x] \in Effect
    BY <1>3
  <2>2. cleaned \in [Effects -> Effect]
    BY <1>4, <2>1, Zenon
  <2>3. QED
    BY <1>3, <2>2

LEMMA RenderKeeps ==
  ASSUME IInv, NEW s \in Sessions \cup {NoSession}, NEW reload \in BOOLEAN, Render(s, reload)
  PROVE  IInv'
<1> DEFINE cleaned == IF effects = 0 THEN fx ELSE [fx EXCEPT ![effects] = Cleanup(@)]
           new == [NoEffect EXCEPT !.session = s, !.active = TRUE, !.phase = "seed"]
<1>1. /\ Still /\ TypeOK /\ JournalsOK /\ session' = s /\ effects < MaxEffects
      /\ \/ /\ s = NoSession /\ fx' = cleaned
            /\ effects' = effects /\ current' = current /\ connection' = connection
         \/ /\ s # NoSession /\ effects' = effects + 1
            /\ fx' = [cleaned EXCEPT ![effects'] = new]
            /\ current' = IF current.session # s \/ reload THEN emptyStream(s) ELSE current
            /\ connection' = "connecting"
  BY DEF Render, Still, host, IInv
<1>2. /\ cleaned \in [Effects -> Effect]
      /\ \A x \in Effects : /\ EffectOK(cleaned[x]) /\ ReplyOK(cleaned[x], journal, gen)
                            /\ ~ cleaned[x].active
  BY CleanedFacts
<1> HIDE DEF cleaned
<1>3. /\ effects \in 0 .. MaxEffects /\ MaxEffects \in Nat /\ gen \in Nat
      /\ current \in State /\ DisplayOK(current, journal, gen)
      /\ gen = 0 => connection # "invalid"
  BY <1>1, StreamAssumption DEF IInv, TypeOK
<1>4. JournalsOK'
  BY <1>1 DEF JournalsOK, Still
<1>5. ASSUME fx' \in [Effects -> Effect], current' \in State, effects' \in 0 .. MaxEffects
      PROVE  TypeOK'
  BY <1>1, <1>5 DEF TypeOK, Still
<1>6. CASE s = NoSession
  <2>1. /\ fx' = cleaned /\ effects' = effects /\ current' = current /\ connection' = connection
    BY <1>1, <1>6
  <2>2. TypeOK'
    BY <1>2, <1>3, <1>5, <2>1
  <2>3. OwnerOK'
    BY <1>2, <2>1 DEF OwnerOK
  <2>4. ASSUME NEW x \in Effects
        PROVE  EffectOK(fx'[x]) /\ ReplyOK(fx'[x], journal', gen') /\ ~ Follows(fx'[x])
    BY <1>1, <1>2, <2>1, Zenon DEF Still, Follows, Live
  <2>5. DisplayOK(current', journal', gen') /\ (gen' = 0 => connection' # "invalid")
    BY <1>1, <1>3, <2>1 DEF Still
  <2>6. QED
    BY <1>4, <2>2, <2>3, <2>4, <2>5 DEF IInv
<1>7. CASE s # NoSession
  <2>1. /\ s \in Sessions /\ effects' = effects + 1
        /\ fx' = [cleaned EXCEPT ![effects'] = new]
        /\ current' = IF current.session # s \/ reload THEN emptyStream(s) ELSE current
        /\ connection' = "connecting"
    BY <1>1, <1>7
  <2>2. effects' \in Effects /\ effects' \in 0 .. MaxEffects
    BY <1>1, <1>3, <2>1 DEF Effects
  <2>3. /\ new \in Effect /\ new.session = s /\ new.phase = "seed"
        /\ new.reply = NoEffect.reply /\ new.sub = NoEffect.sub /\ new.queue = NoEffect.queue
        /\ new.wire = NoEffect.wire /\ new.conn = NoEffect.conn /\ new.frame = NoEffect.frame
        /\ new.aborted = NoEffect.aborted /\ new.invalid = NoEffect.invalid
    BY NoEffectFacts DEF Effect
  <2> HIDE DEF new
  <2>4. EffectOK(new) /\ ReplyOK(new, journal, gen) /\ ~ Follows(new)
    <3>1. EffectOK(new)
      BY <2>3, NoEffectFacts DEF EffectOK, QuietOK, NoEffect, NoSub
    <3>2. ReplyOK(new, journal, gen)
      BY <2>3, NoEffectFacts DEF ReplyOK, NoEffect, NoReply
    <3>3. QED
      BY <2>3, <3>1, <3>2 DEF Follows
  <2>5. /\ fx' \in [Effects -> Effect] /\ fx'[effects'] = new
        /\ \A x \in Effects : x # effects' => fx'[x] = cleaned[x]
    <3> HIDE DEF Effects
    <3>1. QED
      BY <1>2, <2>1, <2>2, <2>3
  <2>6. /\ current' \in State /\ current'.session = s /\ DisplayOK(current', journal, gen)
    <3> DEFINE r == emptyStream(s)
    <3>1. r \in State /\ r.session = s /\ DisplayOK(r, journal, gen)
      BY <1>3, <2>1, EmptyState
    <3>2. CASE current.session # s \/ reload
      BY <2>1, <3>1, <3>2
    <3>3. CASE ~ (current.session # s \/ reload)
      BY <1>3, <2>1, <3>3
    <3>4. QED
      BY <3>2, <3>3
  <2>7. TypeOK'
    BY <1>5, <2>2, <2>5, <2>6
  <2>8. OwnerOK'
    <3> SUFFICES ASSUME NEW x \in Effects, fx'[x].active
                 PROVE  /\ x = effects' /\ fx'[x].session = session' /\ session' \in Sessions
                        /\ current'.session = session'
      BY DEF OwnerOK
    <3>1. x = effects'
      BY <1>2, <2>5
    <3>2. QED
      BY <1>1, <2>1, <2>3, <2>5, <2>6, <3>1
  <2>9. ASSUME NEW x \in Effects
        PROVE  EffectOK(fx'[x]) /\ ReplyOK(fx'[x], journal', gen') /\ ~ Follows(fx'[x])
    <3>1. CASE x = effects'
      BY <1>1, <2>4, <2>5, <3>1 DEF Still
    <3>2. CASE x # effects'
      BY <1>1, <1>2, <2>5, <3>2 DEF Still, Follows, Live
    <3>3. QED
      BY <3>1, <3>2
  <2>10. DisplayOK(current', journal', gen') /\ connection' # "invalid"
    BY <1>1, <2>1, <2>6 DEF Still
  <2>11. QED
    BY <1>4, <2>7, <2>8, <2>9, <2>10 DEF IInv
<1>8. QED
  BY <1>6, <1>7

\* What a step of the host may be.
HostStepsOf(s) == (\E kind \in Kinds : AppendEvent(s, kind)) \/ Flush(s) \/ FlushFails(s)

\* What a step of one effect may be.
EffectStepsOf(x) ==
    \/ Current(x) \/ SeedArrives(x)
    \/ Open(x) \/ OpenRefused(x) \/ ReplayLocked(x) \/ ReplayEmits(x) \/ SubscriberWakes(x)
    \/ Deliver(x) \/ FrameFires(x) \/ Drop(x) \/ EndNoticed(x) \/ StreamEnds(x)

LEMMA NextSteps ==
  ASSUME Next
  PROVE  \/ \E s \in Sessions : HostStepsOf(s)
         \/ Crash
         \/ \E s \in Sessions \cup {NoSession}, reload \in BOOLEAN : Render(s, reload)
         \/ \E x \in Effects : EffectStepsOf(x)
  BY Zenon DEF Next, HostStepsOf, EffectStepsOf

LEMMA StutterKeeps ==
  ASSUME IInv, UNCHANGED vars
  PROVE  IInv'
<1>1. /\ journal' = journal /\ durable' = durable /\ storageErr' = storageErr
      /\ changed' = changed /\ gen' = gen /\ session' = session /\ effects' = effects
      /\ fx' = fx /\ current' = current /\ connection' = connection
  BY DEF vars, host
<1>2. TypeOK' /\ JournalsOK' /\ OwnerOK'
  BY <1>1 DEF IInv, TypeOK, JournalsOK, OwnerOK
<1>3. QED
  BY <1>1, <1>2, Zenon DEF IInv

LEMMA EffectStepsKeep ==
  ASSUME IInv, NEW x \in Effects, EffectStepsOf(x)
  PROVE  IInv'
<1>1. CASE Current(x)
  BY <1>1, CurrentKeeps
<1>2. CASE SeedArrives(x)
  BY <1>2, SeedArrivesKeeps
<1>3. CASE Open(x)
  BY <1>3, OpenKeeps
<1>4. CASE OpenRefused(x)
  BY <1>4, OpenRefusedKeeps
<1>5. CASE ReplayLocked(x)
  BY <1>5, ReplayLockedKeeps
<1>6. CASE ReplayEmits(x)
  BY <1>6, ReplayEmitsKeeps
<1>7. CASE SubscriberWakes(x)
  BY <1>7, SubscriberWakesKeeps
<1>8. CASE Deliver(x)
  BY <1>8, DeliverKeeps
<1>9. CASE FrameFires(x)
  BY <1>9, FrameFiresKeeps
<1>10. CASE Drop(x)
  <2>1. PICK status \in {"interrupted", "draining"} : Disconnect(x, status)
    BY <1>10 DEF Drop
  <2>2. status # "invalid"
    OBVIOUS
  <2>3. QED
    BY <2>1, <2>2, DisconnectKeeps
<1>11. CASE EndNoticed(x)
  <2>1. Disconnect(x, "interrupted") /\ "interrupted" # "invalid"
    BY <1>11 DEF EndNoticed
  <2>2. QED
    BY <2>1, DisconnectKeeps
<1>12. CASE StreamEnds(x)
  BY <1>12, StreamEndsKeeps
<1>13. QED
  BY <1>1, <1>2, <1>3, <1>4, <1>5, <1>6, <1>7, <1>8, <1>9, <1>10, <1>11, <1>12, Zenon
     DEF EffectStepsOf

LEMMA NextIInv ==
  ASSUME IInv, [Next]_vars
  PROVE  IInv'
<1>1. CASE \E s \in Sessions : HostStepsOf(s)
  BY <1>1, AppendEventKeeps, FlushJournalKeeps, FlushFailsKeeps, Zenon DEF HostStepsOf
<1>2. CASE Crash
  BY <1>2, CrashKeeps
<1>3. CASE \E s \in Sessions \cup {NoSession}, reload \in BOOLEAN : Render(s, reload)
  BY <1>3, RenderKeeps, Zenon
<1>4. CASE \E x \in Effects : EffectStepsOf(x)
  BY <1>4, EffectStepsKeep, Zenon
<1>5. CASE UNCHANGED vars
  BY <1>5, StutterKeeps
<1>6. QED
  BY <1>1, <1>2, <1>3, <1>4, <1>5, NextSteps

-----------------------------------------------------------------------------
(* The theorems                                                            *)

\* replayContext, useAgentStream and applyEvent: the inductive invariant holds in
\* every reachable state. Whatever is queued, on the wire, in a page being read
\* or in an answer to getNativeCurrent is the journal's, or was lost by a crash.
THEOREM Inductive == Spec => []IInv
  BY InitIInv, NextIInv, PTL DEF Spec

\* useAgentStream and applyEvent: for any journal, any number of effects, resets,
\* reconnections and crashes, every event a page shows is the event of the journal
\* with its number, or one that a crash lost and that nothing of its time follows.
THEOREM ShownCorrect == Spec => []ShownIsJournal
<1>1. IInv => ShownIsJournal
  <2> SUFFICES ASSUME IInv, current.session # NoSession,
                      NEW q \in DOMAIN current.shown
               PROVE  LET j == journal[current.session]
                      IN  /\ \/ q \in DOMAIN j /\ current.shown[q] = j[q]
                             \/ /\ current.shown[q].gen < gen
                                /\ q \in DOMAIN j => j[q].gen > current.shown[q].gen
                          /\ q >= current.recentFrom => current.shown[q].gen >= current.host
    BY DEF ShownIsJournal
  <2>1. StateOK(current, journal, gen) /\ current \in State
    BY DEF IInv, DisplayOK, TypeOK
  <2>2. q \in 1 .. Len(current.shown)
    BY <2>1, ShownFacts
  <2>3. journal[current.session] \in Seq(Event)
    BY <2>1 DEF IInv, TypeOK, StateOK
  <2>4. DOMAIN journal[current.session] = 1 .. Len(journal[current.session])
    BY <2>3
  <2>5. QED
    BY <2>1, <2>2, <2>4 DEF StateOK, Genuine
<1>2. QED
  BY <1>1, Inductive, PTL

\* replayContext and reduceEvent: before a first crash nothing a stream delivers
\* fails validation, and a display never mixes two runtimes.
THEOREM ReplayCorrect == Spec => []ReplayIsConsistent
<1>1. IInv => ReplayIsConsistent
  <2> SUFFICES ASSUME IInv PROVE ValidUnlessLost /\ RuntimesAnnounced
    BY DEF ReplayIsConsistent
  <2>1. ValidUnlessLost
    BY DEF IInv, ValidUnlessLost
  <2>2. AllAnnounced(current.shown) /\ DOMAIN current.shown = 1 .. Len(current.shown)
    <3>1. DisplayOK(current, journal, gen) /\ DOMAIN current.shown = 1 .. Len(current.shown)
      BY ShownFacts DEF IInv, TypeOK
    <3>2. CASE current.session = NoSession
      <4>1. current.shown = <<>>
        BY <3>1, <3>2 DEF DisplayOK
      <4>2. Len(current.shown) = 0
        BY <4>1
      <4>3. QED
        BY <3>1, <4>2 DEF AllAnnounced
    <3>3. CASE current.session # NoSession
      BY <3>1, <3>3 DEF DisplayOK, StateOK
    <3>4. QED
      BY <3>2, <3>3
  <2>3. RuntimesAnnounced
    BY <2>2, Zenon DEF AllAnnounced, Announced, RuntimesAnnounced
  <2>4. QED
    BY <2>1, <2>3
<1>2. QED
  BY <1>1, Inductive, PTL

\* A step of an effect that has ended leaves the display and the status alone.
LEMMA EndedStep ==
  ASSUME IInv, NEW x \in Effects, EffectStepsOf(x), ~ Live(fx[x])
  PROVE  UNCHANGED <<current, connection>>
<1> DEFINE f0 == fx[x]
<1>1. /\ f0 \in Effect /\ EffectOK(f0)
      /\ f0.phase = "follow" => f0.aborted
      /\ f0.invalid => ~ f0.frame
      /\ f0.phase # "follow" => ~ f0.frame
  BY EffectFacts DEF EffectOK, QuietOK
<1>2. CASE Current(x) \/ ReplayLocked(x) \/ ReplayEmits(x) \/ SubscriberWakes(x)
  BY <1>2 DEF Current, ReplayLocked, ReplayEmits, SubscriberWakes
<1>3. CASE SeedArrives(x)
  <2> DEFINE f == [fx[x] EXCEPT !.reply = NoReply]
  <2>1. f.active = f0.active /\ f.invalid = f0.invalid
    BY <1>1 DEF Effect
  <2>2. ~ Live(f)
    BY <2>1 DEF Live
  <2>3. QED
    BY <1>3, <2>2, Zenon DEF SeedArrives
<1>4. CASE Open(x) \/ Drop(x) \/ EndNoticed(x)
  BY <1>4 DEF Open, Drop, EndNoticed, Disconnect
<1>5. CASE OpenRefused(x)
  BY <1>1, <1>5 DEF OpenRefused
<1>6. CASE Deliver(x)
  <2> DEFINE m == Head(fx[x].wire)
             f == [fx[x] EXCEPT !.wire = Tail(@)]
             e == [f EXCEPT !.lastId = m.seq]
  <2>1. f.active = f0.active /\ f.invalid = f0.invalid
    BY <1>1 DEF Effect
  <2>2. e.active = f.active /\ e.invalid = f.invalid
    BY <1>1 DEF Effect
  <2>3. ~ Live(f) /\ ~ Live(e)
    BY <2>1, <2>2 DEF Live
  <2>4. OnReset(x, f) \/ OnEvent(x, e, m)
    BY <1>6, Zenon DEF Deliver
  <2> HIDE DEF f, e, m
  <2>5. QED
    BY <2>3, <2>4, Zenon DEF OnReset, OnEvent
<1>7. CASE FrameFires(x)
  <2>1. f0.frame /\ ~ f0.active /\ FlushTo(x, f0)
    BY <1>1, <1>7 DEF FrameFires, Live
  <2> HIDE DEF f0
  <2>2. QED
    BY <2>1, Zenon DEF FlushTo
<1>8. CASE StreamEnds(x)
  <2> DEFINE f == [fx[x] EXCEPT !.conn = "down", !.wire = <<>>, !.sub = NoSub]
  <2>1. f.active = f0.active /\ f.invalid = f0.invalid
    BY <1>1 DEF Effect
  <2>2. ~ Live(f)
    BY <2>1 DEF Live
  <2>3. QED
    BY <1>8, <2>2, Zenon DEF StreamEnds
<1>9. QED
  BY <1>2, <1>3, <1>4, <1>5, <1>6, <1>7, <1>8, Zenon DEF EffectStepsOf

\* A step of an effect leaves every other effect alone.
LEMMA OthersStay ==
  ASSUME IInv, NEW y \in Effects, EffectStepsOf(y), NEW x \in Effects, x # y
  PROVE  fx'[x] = fx[x]
<1>1. fx \in [Effects -> Effect]
  BY DEF IInv, TypeOK
<1>2. \A g : fx' = [fx EXCEPT ![y] = g] => fx'[x] = fx[x]
  BY <1>1, Zenon
<1> HIDE DEF Effects
<1>3. CASE Current(y) \/ SeedArrives(y) \/ Open(y) \/ OpenRefused(y)
  BY <1>1, <1>2, <1>3 DEF Current, SeedArrives, Open, OpenRefused
<1>4. CASE ReplayLocked(y) \/ ReplayEmits(y) \/ SubscriberWakes(y)
  BY <1>1, <1>2, <1>4 DEF ReplayLocked, ReplayEmits, SubscriberWakes
<1>5. CASE Drop(y) \/ EndNoticed(y)
  BY <1>1, <1>5 DEF Drop, EndNoticed, Disconnect
<1>6. CASE StreamEnds(y)
  BY <1>2, <1>6, Zenon DEF StreamEnds
<1>7. \A g : FlushTo(y, g) => fx'[x] = fx[x]
  BY <1>2, Zenon DEF FlushTo
<1>8. CASE Deliver(y)
  <2>1. \A g : OnReset(y, g) => fx'[x] = fx[x]
    BY <1>2, Zenon DEF OnReset
  <2>2. \A g, m : OnEvent(y, g, m) => fx'[x] = fx[x]
    BY <1>2, <1>7, Zenon DEF OnEvent
  <2>3. QED
    BY <1>8, <2>1, <2>2, Zenon DEF Deliver
<1>9. CASE FrameFires(y)
  BY <1>7, <1>9, Zenon DEF FrameFires
<1>10. QED
  BY <1>3, <1>4, <1>5, <1>6, <1>8, <1>9, Zenon DEF EffectStepsOf

\* useAgentStream: an effect that was cleaned up or has failed touches neither the
\* display nor the status with its late answers, callbacks and frames, for any
\* number of effects and in any order.
THEOREM SilentCorrect == Spec => EndedEffectIsSilent
<1> DEFINE Silent == \A x \in Effects :
             (fx'[x] # fx[x] /\ ~ Live(fx[x]) /\ fx[x].session # NoSession /\ effects' = effects)
                => UNCHANGED <<current, connection>>
<1>1. IInv /\ [Next]_vars => [Silent]_vars
  <2> SUFFICES ASSUME IInv, [Next]_vars, NEW x \in Effects, fx'[x] # fx[x],
                      ~ Live(fx[x]), effects' = effects
               PROVE  UNCHANGED <<current, connection>>
    OBVIOUS
  <2>1. CASE \E s \in Sessions : HostStepsOf(s)
    BY <2>1 DEF HostStepsOf, AppendEvent, Flush, FlushFails
  <2>2. CASE Crash
    BY <2>2 DEF Crash
  <2>3. CASE \E s \in Sessions \cup {NoSession}, reload \in BOOLEAN : Render(s, reload)
    <3>1. effects \in Nat
      BY StreamAssumption DEF IInv, TypeOK
    <3>2. effects' # effects + 1
      BY <3>1
    <3>3. QED
      BY <2>3, <3>2, Zenon DEF Render
  <2>4. CASE \E y \in Effects : EffectStepsOf(y)
    <3>1. PICK y \in Effects : EffectStepsOf(y)
      BY <2>4
    <3>2. x = y
      BY <3>1, OthersStay
    <3>3. QED
      BY <3>1, <3>2, EndedStep
  <2>5. CASE UNCHANGED vars
    BY <2>5 DEF vars
  <2>6. QED
    BY <2>1, <2>2, <2>3, <2>4, <2>5, NextSteps
<1>2. QED
  BY <1>1, Inductive, PTL DEF Spec, EndedEffectIsSilent
=============================================================================
