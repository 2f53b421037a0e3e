----------------------------- MODULE StopProofs -----------------------------
(***************************************************************************)
(* Proofs about the StopDelivery module, for every number of turns and of  *)
(* calls of Cancel.                                                        *)
(***************************************************************************)
EXTENDS StopDelivery, TLAPS

Runs == {"none", "admitted", "check", "options", "start", "starting", "deliver",
         "wait", "end", "finish", "lost"}

\* The prompt of the turn is on the stream, or was.
Prompted == {"starting", "deliver", "wait"}

Delivery == [pc: {"none", "record", "check", "write", "call", "ok", "err", "done"},
             turn: Nat, native: Nat]

Driver == [stop: Nat, stopSent: Nat, turn: Nat, nativeTurn: Nat, promptSent: BOOLEAN]

ToClient == [kind: {"start", "stop"}, turn: Nat, native: Nat, by: Goroutines]
ToDriver == [kind: {"reply", "stopped", "started", "completed"}, turn: Nat,
             by: Goroutines, status: {"ok", "err"}]

TypeOK ==
    /\ protocol \in {"codex", "acp"}
    /\ current \in Nat /\ begun \in 0..MaxTurns
    /\ d \in Driver
    /\ run \in Runs
    /\ deliver \in [Goroutines -> Delivery]
    /\ toClient \in Seq(ToClient) /\ toDriver \in Seq(ToDriver)
    /\ native \in Nat /\ owes \subseteq {"reply", "started"}
    /\ put \subseteq 1..begun
    /\ stops \in [Turns -> Nat]
    /\ protocol = "codex" => terminal \subseteq put

\* The turn of the broker, of the driver and the place of PromptWithOptions.
TurnOK ==
    /\ current # NoTurn => current = begun
    /\ run = "none" <=> current = NoTurn
    /\ d.turn = IF run \in {"none", "admitted"} THEN NoTurn ELSE current
    /\ run \in {"admitted", "check", "options", "start"} => current \notin put
    /\ run \in Prompted => current \in put
    /\ d.promptSent => d.turn \in put
    /\ deliver[Prompter].pc = "check" => run = "deliver"

\* A goroutine between its look and its write delivers the one stop of its turn.
WriteOK ==
    /\ d.stopSent <= begun
    /\ \A g \in Goroutines:
         /\ deliver[g].pc # "none" /\ deliver[g].pc # "done" => deliver[g].turn \in 1..begun
         /\ deliver[g].pc = "write" =>
              /\ deliver[g].turn <= d.stopSent
              /\ deliver[g].turn \in put
              /\ stops[deliver[g].turn] = 0
    /\ \A g, h \in Goroutines:
         deliver[g].pc = "write" /\ deliver[h].pc = "write" /\ deliver[g].turn = deliver[h].turn
         => g = h
    /\ \A t \in Turns: stops[t] > 0 => stops[t] = 1 /\ t <= d.stopSent /\ t \in put

\* Nothing of a prompt that Codex has still to report as started is on its way.
NothingStarts ==
    /\ \A i \in 1..Len(toClient): toClient[i].kind # "start"
    /\ "started" \notin owes
    /\ \A i \in 1..Len(toDriver): toDriver[i].kind # "started"

\* While the stream works, what Codex is sent to start and reports as started is
\* the driver's turn, and it reports so before it reports that the turn is over.
WireOK ==
    /\ \A i \in 1..Len(toClient):
         toClient[i].kind = "start" => toClient[i].turn = d.turn /\ d.turn \in put
    /\ \A i, j \in 1..Len(toClient):
         toClient[i].kind = "start" /\ toClient[j].kind = "start" => i = j
    /\ native # NoTurn => native \in put
    /\ "started" \in owes => native = d.turn /\ native # NoTurn
    /\ native = d.turn /\ native # NoTurn =>
         \A i \in 1..Len(toClient): toClient[i].kind # "start"
    /\ \A i \in 1..Len(toDriver):
         /\ toDriver[i].kind = "started" => toDriver[i].turn = d.turn /\ d.turn \in put
         /\ toDriver[i].kind = "completed" => toDriver[i].turn \in put
         /\ toDriver[i].kind = "completed" /\ toDriver[i].turn = d.turn =>
              /\ \A j \in 1..Len(toClient): toClient[j].kind # "start"
              /\ "started" \notin owes
              /\ \A j \in 1..Len(toDriver): toDriver[j].kind = "started" => j < i
    /\ run \notin Prompted \cup {"lost"} => NothingStarts
    /\ d.turn # NoTurn /\ d.turn \in terminal => NothingStarts

\* Every stop for Codex names the native turn of the turn it is for.
NamedOK ==
    /\ d.nativeTurn # NoTurn => d.nativeTurn = d.turn /\ d.turn \in put
    /\ \A g \in Goroutines: deliver[g].pc = "write" => deliver[g].native = deliver[g].turn
    /\ \A i \in 1..Len(toClient):
         toClient[i].kind = "stop" => toClient[i].native = toClient[i].turn
    /\ \A h \in hits: h.asked = h.stopped

IInv ==
    /\ TypeOK /\ TurnOK /\ WriteOK
    /\ ~up => toClient = <<>> /\ toDriver = <<>>
    /\ Codex => NamedOK
    /\ Codex /\ up => WireOK

-----------------------------------------------------------------------------
(* Types                                                                   *)

LEMMA GoroutineFacts ==
  /\ Prompter \in Goroutines /\ Callers \subseteq Goroutines
  /\ Prompter \notin Callers
  /\ \A t \in Turns: <<"started", t>> \in Goroutines /\ <<"started", t>> # Prompter
  BY DEF Goroutines, Prompter, Callers, Started

\* The fields of the driver that PromptWithOptions writes.
LEMMA DriverTurn ==
  ASSUME NEW t \in Nat, d \in Driver
  PROVE  LET e == [d EXCEPT !.turn = t, !.nativeTurn = NoTurn, !.promptSent = FALSE] IN
         /\ e \in Driver /\ e.turn = t /\ e.nativeTurn = NoTurn /\ ~e.promptSent
         /\ e.stop = d.stop /\ e.stopSent = d.stopSent
<1>1. NoTurn \in Nat
  BY DEF NoTurn
<1>2. QED
  BY <1>1, Zenon DEF Driver

LEMMA DriverNative ==
  ASSUME NEW t \in Nat, d \in Driver
  PROVE  LET e == [d EXCEPT !.nativeTurn = t] IN
         /\ e \in Driver /\ e.turn = d.turn /\ e.nativeTurn = t
         /\ e.promptSent = d.promptSent /\ e.stop = d.stop /\ e.stopSent = d.stopSent
  BY Zenon DEF Driver

LEMMA DriverStop ==
  ASSUME NEW t \in Nat, d \in Driver
  PROVE  LET e == [d EXCEPT !.stop = t] IN
         /\ e \in Driver /\ e.turn = d.turn /\ e.nativeTurn = d.nativeTurn
         /\ e.promptSent = d.promptSent /\ e.stopSent = d.stopSent
  BY Zenon DEF Driver

LEMMA DriverSent ==
  ASSUME NEW t \in Nat, NEW b \in BOOLEAN, d \in Driver
  PROVE  LET e == [d EXCEPT !.promptSent = b, !.stopSent = t] IN
         /\ e \in Driver /\ e.turn = d.turn /\ e.nativeTurn = d.nativeTurn
         /\ e.promptSent = b /\ e.stop = d.stop /\ e.stopSent = t
  BY Zenon DEF Driver

\* Where a goroutine can be put.
LEMMA DeliveryFacts ==
  /\ Idle \in Delivery /\ Idle.pc = "none"
  /\ [Idle EXCEPT !.pc = "done"] \in Delivery
  /\ [Idle EXCEPT !.pc = "done"].pc = "done"
  /\ \A t \in Nat, pc \in {"check", "record"}:
       LET x == [Idle EXCEPT !.pc = pc, !.turn = t] IN
       x \in Delivery /\ x.pc = pc /\ x.turn = t
  BY DEF Idle, Delivery, NoTurn

\* Messages at the end of the stream and behind its first.
LEMMA AppendFacts ==
  ASSUME NEW S, NEW q \in Seq(S), NEW m \in S
  PROVE  /\ Append(q, m) \in Seq(S) /\ Len(Append(q, m)) = Len(q) + 1
         /\ \A i \in 1..Len(q): Append(q, m)[i] = q[i]
         /\ Append(q, m)[Len(q) + 1] = m
  OBVIOUS

LEMMA TailFacts ==
  ASSUME NEW S, NEW q \in Seq(S), q # <<>>
  PROVE  /\ Tail(q) \in Seq(S) /\ Len(Tail(q)) = Len(q) - 1 /\ Len(q) \in Nat \ {0}
         /\ Head(q) = q[1] /\ Head(q) \in S
         /\ \A i \in 1..Len(Tail(q)): Tail(q)[i] = q[i + 1] /\ i + 1 \in 1..Len(q)
  OBVIOUS

-----------------------------------------------------------------------------
(* Steps that leave most of the state alone                                *)

\* No goroutine comes to a write.
NoNewWrite ==
    \A g \in Goroutines:
        \/ deliver'[g] = deliver[g]
        \/ /\ deliver'[g].pc # "write"
           /\ deliver'[g].pc \in {"none", "done"} \/ deliver'[g].turn \in 1..begun

LEMMA TurnFrame ==
  ASSUME IInv, UNCHANGED <<current, begun, run, put>>,
         d'.turn = d.turn, d'.promptSent = d.promptSent,
         deliver'[Prompter].pc = "check" => deliver[Prompter].pc = "check"
  PROVE  TurnOK'
  BY DEF IInv, TurnOK

LEMMA WriteFrame ==
  ASSUME IInv, UNCHANGED <<begun, stops>>, d'.stopSent = d.stopSent, put \subseteq put',
         NoNewWrite
  PROVE  WriteOK'
<1> USE DEF IInv, WriteOK
<1>1. d'.stopSent <= begun'
  OBVIOUS
<1>2. ASSUME NEW g \in Goroutines
      PROVE  /\ deliver'[g].pc # "none" /\ deliver'[g].pc # "done" =>
                  deliver'[g].turn \in 1..begun'
             /\ deliver'[g].pc = "write" => /\ deliver'[g].turn <= d'.stopSent
                                            /\ deliver'[g].turn \in put'
                                            /\ stops'[deliver'[g].turn] = 0
  BY DEF NoNewWrite
<1>3. ASSUME NEW g \in Goroutines, NEW h \in Goroutines,
             deliver'[g].pc = "write", deliver'[h].pc = "write",
             deliver'[g].turn = deliver'[h].turn
      PROVE  g = h
  BY <1>3 DEF NoNewWrite
<1>4. \A t \in Turns: stops'[t] > 0 => stops'[t] = 1 /\ t <= d'.stopSent /\ t \in put'
  OBVIOUS
<1>5. QED
  BY <1>1, <1>2, <1>3, <1>4

LEMMA NamedFrame ==
  ASSUME IInv, Codex, UNCHANGED <<toClient, hits>>, put \subseteq put', NoNewWrite,
         d'.nativeTurn = d.nativeTurn, d'.turn = d.turn
  PROVE  NamedOK'
  BY DEF IInv, NamedOK, NoNewWrite

LEMMA WireFrame ==
  ASSUME IInv, Codex, up, UNCHANGED <<toClient, toDriver, native, owes, put, terminal>>,
         d'.turn = d.turn,
         run' \in Prompted \cup {"lost"} \/ run \notin Prompted \cup {"lost"} \/ NothingStarts
  PROVE  WireOK'
  BY DEF IInv, WireOK, NothingStarts

\* PromptWithOptions goes on; nothing but its place changes.
LEMMA RunMove ==
  ASSUME IInv,
         UNCHANGED <<protocol, current, begun, d, deliver, terminal, stream, native,
                     owes, put, stops, hits>>,
         run \in Runs \ {"none", "admitted", "deliver"},
         run' \in Runs \ {"none", "admitted"},
         run' \in {"check", "options", "start"} => run \in {"check", "options", "start"},
         run' \in Prompted => run \in Prompted,
         \/ run' \in Prompted \cup {"lost"} \/ run \notin Prompted \cup {"lost"}
         \/ Codex => d.turn \in terminal
  PROVE  IInv'
<1>1. TypeOK'
  BY DEF IInv, TypeOK, stream
<1>2. TurnOK'
  BY DEF IInv, TurnOK
<1>3. NoNewWrite
  BY DEF NoNewWrite
<1>4. WriteOK'
  BY <1>3, WriteFrame
<1>5. (~up => toClient = <<>> /\ toDriver = <<>>)'
  BY DEF IInv, stream
<1>6. Codex' => NamedOK'
  BY <1>3, NamedFrame DEF Codex, stream
<1>7. (Codex /\ up => WireOK)'
  <2> SUFFICES ASSUME Codex, up PROVE WireOK'
    BY DEF Codex, stream
  <2>1. CASE run' \in Prompted \cup {"lost"} \/ run \notin Prompted \cup {"lost"}
    BY <2>1, WireFrame DEF stream
  <2>2. CASE d.turn \in terminal
    <3>1. d.turn # NoTurn
      BY <2>2 DEF IInv, TypeOK, NoTurn, Codex
    <3>2. NothingStarts
      BY <2>2, <3>1 DEF IInv, WireOK
    <3>3. QED
      BY <3>2, WireFrame DEF stream
  <2>3. QED
    BY <2>1, <2>2
<1>8. QED
  BY <1>1, <1>2, <1>4, <1>5, <1>6, <1>7 DEF IInv

LEMMA MoveStep ==
  ASSUME IInv, Check \/ Options \/ Ends \/ Loses \/ Emit PROVE IInv'
<1>1. UNCHANGED <<protocol, current, begun, d, deliver, terminal, stream, native,
                  owes, put, stops, hits>>
  BY DEF Check, Options, Ends, Loses, Emit, broker, client, history
<1>2. CASE Check
  BY <1>1, <1>2, RunMove DEF Check, Runs, Prompted
<1>3. CASE Options
  BY <1>1, <1>3, RunMove DEF Options, Runs, Prompted
<1>4. CASE Ends
  BY <1>1, <1>4, RunMove DEF Ends, Runs, Prompted
<1>5. CASE Loses
  BY <1>1, <1>5, RunMove DEF Loses, Runs, Prompted
<1>6. CASE Emit
  BY <1>1, <1>6, RunMove DEF Emit, Runs, Prompted
<1>7. QED
  BY <1>2, <1>3, <1>4, <1>5, <1>6

\* One goroutine moves, not to a write; the driver may note a stop, and its
\* prompt may go on from deliverStop.
LEMMA DeliverMove ==
  ASSUME IInv, NEW g \in Goroutines, NEW x \in Delivery,
         deliver' = [deliver EXCEPT ![g] = x],
         x.pc # "write", x.pc \in {"none", "done"} \/ x.turn \in 1..begun,
         g = Prompter => x.pc # "check",
         d' \in Driver, d'.turn = d.turn, d'.nativeTurn = d.nativeTurn,
         d'.promptSent = d.promptSent, d'.stopSent = d.stopSent,
         UNCHANGED <<protocol, current, begun, terminal, stream, native, owes, put,
                     stops, hits>>,
         run' = run \/ (run = "deliver" /\ run' = "wait" /\ g = Prompter)
  PROVE  IInv'
<1>1. TypeOK'
  BY DEF IInv, TypeOK, stream, Runs
<1>2. TurnOK'
  <2>1. deliver'[Prompter].pc = "check" => deliver[Prompter].pc = "check" /\ g # Prompter
    BY GoroutineFacts DEF IInv, TypeOK
  <2>2. QED
    BY <2>1 DEF IInv, TurnOK, Prompted
<1>3. NoNewWrite
  BY DEF NoNewWrite, IInv, TypeOK
<1>4. WriteOK'
  BY <1>3, WriteFrame
<1>5. (~up => toClient = <<>> /\ toDriver = <<>>)'
  BY DEF IInv, stream
<1>6. Codex' => NamedOK'
  BY <1>3, NamedFrame DEF Codex, stream
<1>7. (Codex /\ up => WireOK)'
  BY WireFrame DEF Codex, stream, Prompted
<1>8. QED
  BY <1>1, <1>2, <1>4, <1>5, <1>6, <1>7 DEF IInv

LEMMA CancelStep == ASSUME IInv, NEW c \in Callers, Cancel(c) PROVE IInv'
<1> DEFINE x == [Idle EXCEPT !.pc = "record", !.turn = current]
<1>1. /\ deliver' = [deliver EXCEPT ![c] = x] /\ current # NoTurn
      /\ UNCHANGED <<protocol, current, begun, d, run, terminal, stream, native,
                     owes, put, stops, hits>>
  BY DEF Cancel, broker, client, history
<1>2. current \in 1..begun /\ current \in Nat /\ d \in Driver
  BY <1>1 DEF IInv, TypeOK, TurnOK, NoTurn
<1>3. x \in Delivery /\ x.pc = "record" /\ x.turn = current
  BY <1>2, DeliveryFacts
<1> HIDE DEF x
<1>4. c \in Goroutines
  BY GoroutineFacts
<1>5. QED
  BY <1>1, <1>2, <1>3, <1>4, DeliverMove

LEMMA RecordStep == ASSUME IInv, NEW c \in Callers, Record(c) PROVE IInv'
<1> DEFINE x == [deliver[c] EXCEPT !.pc = "check"]
<1>1. c \in Goroutines /\ c # Prompter
  BY GoroutineFacts
<1>2. deliver[c] \in Delivery /\ deliver[c].pc = "record" /\ d \in Driver
  BY <1>1 DEF IInv, TypeOK, Record
<1>3. deliver[c].turn \in 1..begun /\ deliver[c].turn \in Nat
  BY <1>1, <1>2 DEF IInv, WriteOK, Delivery
<1>4. /\ deliver' = [deliver EXCEPT ![c] = x] /\ d' = [d EXCEPT !.stop = deliver[c].turn]
      /\ UNCHANGED <<protocol, current, begun, run, terminal, stream, native,
                     owes, put, stops, hits>>
  BY DEF Record, broker, client, history
<1>5. x \in Delivery /\ x.pc = "check" /\ x.turn = deliver[c].turn
  BY <1>2 DEF Delivery
<1> HIDE DEF x
<1>6. /\ d' \in Driver /\ d'.turn = d.turn /\ d'.nativeTurn = d.nativeTurn
      /\ d'.promptSent = d.promptSent /\ d'.stopSent = d.stopSent
  BY <1>2, <1>3, <1>4, DriverStop
<1>7. QED
  BY <1>1, <1>3, <1>4, <1>5, <1>6, DeliverMove

LEMMA UnansweredStep == ASSUME IInv, NEW g \in Goroutines, Unanswered(g) PROVE IInv'
<1> DEFINE x == [deliver[g] EXCEPT !.pc = "err"]
<1>1. deliver[g] \in Delivery /\ deliver[g].pc = "call" /\ d \in Driver
  BY DEF IInv, TypeOK, Unanswered
<1>2. deliver[g].turn \in 1..begun
  BY <1>1 DEF IInv, WriteOK
<1>3. /\ deliver' = [deliver EXCEPT ![g] = x]
      /\ UNCHANGED <<protocol, current, begun, d, run, terminal, stream, native,
                     owes, put, stops, hits>>
  BY DEF Unanswered, broker, client, history
<1>4. x \in Delivery /\ x.pc = "err" /\ x.turn = deliver[g].turn
  BY <1>1 DEF Delivery
<1> HIDE DEF x
<1>5. QED
  BY <1>1, <1>2, <1>3, <1>4, DeliverMove

LEMMA AcceptStep == ASSUME IInv, NEW c \in Callers, Accept(c) PROVE IInv'
<1> DEFINE x == [Idle EXCEPT !.pc = "done"]
<1>1. c \in Goroutines /\ x \in Delivery /\ x.pc = "done" /\ d \in Driver
  BY GoroutineFacts, DeliveryFacts DEF IInv, TypeOK
<1>2. /\ deliver' = [deliver EXCEPT ![c] = x]
      /\ UNCHANGED <<protocol, current, begun, d, run, terminal, stream, native,
                     owes, put, stops, hits>>
  BY DEF Accept, client, history
<1> HIDE DEF x
<1>3. QED
  BY <1>1, <1>2, DeliverMove

LEMMA DeliveredStep == ASSUME IInv, Delivered PROVE IInv'
<1>1. Prompter \in Goroutines /\ Idle \in Delivery /\ Idle.pc = "none" /\ d \in Driver
  BY GoroutineFacts, DeliveryFacts DEF IInv, TypeOK
<1>2. /\ deliver' = [deliver EXCEPT ![Prompter] = Idle] /\ run = "deliver" /\ run' = "wait"
      /\ UNCHANGED <<protocol, current, begun, d, terminal, stream, native,
                     owes, put, stops, hits>>
  BY DEF Delivered, broker, client, history
<1>3. QED
  BY <1>1, <1>2, DeliverMove

-----------------------------------------------------------------------------
(* The turn                                                                *)

LEMMA AdmitStep == ASSUME IInv, Admit PROVE IInv'
<1>1. /\ current = NoTurn /\ begun < MaxTurns /\ begun' = begun + 1
      /\ current' = begun + 1 /\ run' = "admitted"
      /\ UNCHANGED <<protocol, d, deliver, terminal, stream, native, owes, put,
                     stops, hits>>
  BY DEF Admit, client, history
<1>2. begun \in 0..MaxTurns /\ MaxTurns \in Nat /\ put \subseteq 1..begun
  BY StopAssumption DEF IInv, TypeOK
<1>3. TypeOK'
  BY <1>1, <1>2 DEF IInv, TypeOK, stream, Runs
<1>4. run = "none" /\ d.turn = NoTurn
  BY <1>1 DEF IInv, TurnOK
<1>5. TurnOK'
  BY <1>1, <1>2, <1>4 DEF IInv, TurnOK, Prompted, NoTurn
<1>6. WriteOK'
  <2>1. d.stopSent \in Nat
    BY DEF IInv, TypeOK, Driver
  <2>2. QED
    BY <1>1, <1>2, <2>1 DEF IInv, WriteOK
<1>7. Codex' => NamedOK'
  BY <1>1 DEF IInv, NamedOK, Codex, stream
<1>8. (Codex /\ up => WireOK)'
  BY <1>1, <1>4, WireFrame DEF Codex, stream, Prompted
<1>9. QED
  BY <1>1, <1>3, <1>5, <1>6, <1>7, <1>8 DEF IInv, stream

LEMMA BeginStep == ASSUME IInv, Begin PROVE IInv'
<1>1. /\ run = "admitted" /\ run' = "check" /\ terminal' = {}
      /\ d' = [d EXCEPT !.turn = current, !.nativeTurn = NoTurn, !.promptSent = FALSE]
      /\ UNCHANGED <<protocol, current, begun, deliver, stream, native, owes, put,
                     stops, hits>>
  BY DEF Begin, broker, client, history
<1>2. /\ d' \in Driver /\ d'.turn = current /\ d'.nativeTurn = NoTurn
      /\ ~d'.promptSent /\ d'.stopSent = d.stopSent
  BY <1>1, DriverTurn DEF IInv, TypeOK
<1>3. TypeOK'
  BY <1>1, <1>2 DEF IInv, TypeOK, stream, Runs
<1>4. TurnOK'
  BY <1>1, <1>2 DEF IInv, TurnOK, Prompted
<1>5. NoNewWrite
  BY <1>1 DEF NoNewWrite
<1>6. WriteOK'
  BY <1>1, <1>2, <1>5, WriteFrame
<1>7. Codex' => NamedOK'
  BY <1>1, <1>2 DEF IInv, NamedOK, Codex, stream
<1>8. (Codex /\ up => WireOK)'
  <2> SUFFICES ASSUME Codex, up PROVE WireOK'
    BY <1>1 DEF Codex, stream
  <2>1. NothingStarts /\ NothingStarts'
    BY <1>1 DEF IInv, WireOK, NothingStarts, Prompted, stream
  <2>2. current \notin put /\ current # NoTurn
    BY <1>1 DEF IInv, TurnOK
  <2>3. QED
    BY <1>1, <1>2, <2>1, <2>2 DEF IInv, WireOK, NothingStarts, stream
<1>9. QED
  BY <1>1, <1>3, <1>4, <1>6, <1>7, <1>8 DEF IInv, stream

LEMMA FinishStep == ASSUME IInv, Finish PROVE IInv'
<1>1. /\ run \in {"finish", "lost"} /\ run' = "none" /\ current' = NoTurn
      /\ d' = [d EXCEPT !.turn = NoTurn, !.nativeTurn = NoTurn, !.promptSent = FALSE]
      /\ UNCHANGED <<protocol, begun, deliver, terminal, native, owes, put, stops, hits>>
      /\ \/ run = "finish" /\ UNCHANGED stream
         \/ up' = FALSE /\ toClient' = <<>> /\ toDriver' = <<>>
  BY DEF Finish, Disconnect, broker, client, history
<1>2. NoTurn \in Nat
  BY DEF NoTurn
<1>3. /\ d' \in Driver /\ d'.turn = NoTurn /\ d'.nativeTurn = NoTurn
      /\ ~d'.promptSent /\ d'.stopSent = d.stopSent
  BY <1>1, <1>2, DriverTurn DEF IInv, TypeOK
<1>4. TypeOK'
  <2>1. toClient' \in Seq(ToClient) /\ toDriver' \in Seq(ToDriver)
    <3>1. CASE UNCHANGED stream
      BY <3>1 DEF IInv, TypeOK, stream
    <3>2. CASE toClient' = <<>> /\ toDriver' = <<>>
      BY <3>2
    <3>3. QED
      BY <1>1, <3>1, <3>2
  <2>2. QED
    BY <1>1, <1>2, <1>3, <2>1 DEF IInv, TypeOK, Runs
<1>5. TurnOK'
  BY <1>1, <1>3 DEF IInv, TurnOK, Prompted
<1>6. NoNewWrite
  BY <1>1 DEF NoNewWrite
<1>7. WriteOK'
  BY <1>1, <1>3, <1>6, WriteFrame
<1>8. (~up => toClient = <<>> /\ toDriver = <<>>)'
  BY <1>1 DEF IInv, stream
<1>9. Codex' => NamedOK'
  <2>1. toClient' = toClient \/ toClient' = <<>>
    BY <1>1 DEF stream
  <2>2. QED
    BY <1>1, <1>3, <2>1 DEF IInv, NamedOK, Codex
<1>10. (Codex /\ up => WireOK)'
  <2> SUFFICES ASSUME Codex, up, run = "finish", UNCHANGED stream PROVE WireOK'
    BY <1>1 DEF Codex, stream
  <2>1. NothingStarts /\ NothingStarts'
    BY <1>1 DEF IInv, WireOK, NothingStarts, Prompted, stream
  <2>2. NoTurn \notin put
    BY DEF IInv, TypeOK, NoTurn
  <2>3. QED
    BY <1>1, <1>3, <2>1, <2>2 DEF IInv, WireOK, NothingStarts, stream
<1>11. QED
  BY <1>4, <1>5, <1>7, <1>8, <1>9, <1>10 DEF IInv

LEMMA StartStep == ASSUME IInv, Start PROVE IInv'
<1> DEFINE m == [kind |-> "start", turn |-> d.turn, native |-> NoTurn, by |-> Prompter]
           x == [Idle EXCEPT !.pc = "check", !.turn = d.turn]
<1>1. /\ run = "start"
      /\ UNCHANGED <<protocol, current, begun, d, terminal, toDriver, up, native, owes,
                     stops, hits>>
  BY DEF Start, broker, client, history
<1>2. d.turn = current /\ d.turn \notin put /\ d.turn = begun /\ d.turn \in 1..begun /\ d \in Driver
  BY <1>1 DEF IInv, TypeOK, TurnOK, NoTurn
<1> d.turn \in Nat
  BY <1>2 DEF Driver
<1>3. CASE ~up
  <2>1. run' = "lost" /\ UNCHANGED <<toClient, put, deliver>>
    BY <1>3 DEF Start
  <2>2. QED
    BY <1>1, <2>1, RunMove DEF Runs, Prompted, stream
<1>4. CASE up
  <2>1. /\ toClient' = Append(toClient, m) /\ put' = put \cup {d.turn}
        /\ Codex => run' = "starting" /\ deliver' = deliver
        /\ ~Codex => run' = "deliver" /\ deliver' = [deliver EXCEPT ![Prompter] = x]
    BY <1>4 DEF Start
  <2>2. /\ m \in ToClient /\ m.kind = "start" /\ m.turn = d.turn
        /\ toClient \in Seq(ToClient)
    BY <1>2, GoroutineFacts DEF ToClient, NoTurn, IInv, TypeOK
  <2>3. x \in Delivery /\ x.pc = "check" /\ x.turn = d.turn
    BY <1>2, DeliveryFacts
  <2> HIDE DEF x, m
  <2>4. TypeOK'
    <3>1. toClient' \in Seq(ToClient)
      BY <2>1, <2>2, AppendFacts
    <3>2. put' \subseteq 1..begun /\ (protocol = "codex" => terminal' \subseteq put')
      BY <1>1, <1>2, <2>1 DEF IInv, TypeOK
    <3>3. deliver' \in [Goroutines -> Delivery] /\ run' \in Runs
      BY <2>1, <2>3 DEF IInv, TypeOK, Runs
    <3>4. QED
      BY <1>1, <3>1, <3>2, <3>3 DEF IInv, TypeOK
  <2>5. TurnOK'
    BY <1>1, <1>2, <2>1 DEF IInv, TurnOK, Prompted
  <2>6. NoNewWrite
    BY <1>2, <2>1, <2>3 DEF NoNewWrite, IInv, TypeOK
  <2>7. WriteOK'
    BY <1>1, <2>1, <2>6, WriteFrame
  <2>8. Codex' => NamedOK'
    <3> SUFFICES ASSUME Codex PROVE NamedOK'
      BY <1>1 DEF Codex
    <3>1. \A i \in 1..Len(toClient'):
            toClient'[i].kind = "stop" => toClient'[i].native = toClient'[i].turn
      BY <2>1, <2>2, AppendFacts DEF IInv, NamedOK
    <3>2. QED
      BY <1>1, <2>1, <3>1 DEF IInv, NamedOK
  <2>9. Codex' => WireOK'
    <3> SUFFICES ASSUME Codex PROVE WireOK'
      BY <1>1 DEF Codex
    <3>1. NothingStarts /\ WireOK
      BY <1>1, <1>4 DEF IInv, WireOK, Prompted
    <3>2. /\ Len(toClient') = Len(toClient) + 1 /\ Len(toClient) \in Nat
          /\ \A i \in 1..Len(toClient'): toClient'[i].kind = "start" =>
                i = Len(toClient') /\ toClient'[i].turn = d.turn
      BY <2>1, <2>2, <3>1, AppendFacts DEF NothingStarts
    <3>3. native # d.turn
      BY <1>2, <3>1 DEF WireOK, NoTurn
    <3>4. d.turn \notin terminal
      BY <1>2 DEF IInv, TypeOK, Codex
    <3>5. \A i \in 1..Len(toDriver): toDriver[i].kind # "started" /\
            (toDriver[i].kind = "completed" => toDriver[i].turn \in put /\ toDriver[i].turn # d.turn)
      BY <1>2, <3>1 DEF WireOK, NothingStarts
    <3>6. run' \in Prompted /\ "started" \notin owes /\ d.turn \in put'
      BY <2>1, <3>1 DEF Prompted, NothingStarts
    <3>7. QED
      BY <1>1, <2>1, <3>1, <3>2, <3>3, <3>4, <3>5, <3>6 DEF WireOK
  <2>10. QED
    BY <1>1, <1>4, <2>4, <2>5, <2>7, <2>8, <2>9 DEF IInv
<1>5. QED
  BY <1>3, <1>4

LEMMA AcknowledgedStep == ASSUME IInv, Acknowledged PROVE IInv'
<1> DEFINE n == IF d.nativeTurn = NoTurn THEN d.turn ELSE d.nativeTurn
           x == [Idle EXCEPT !.pc = "check", !.turn = d.turn]
<1>1. /\ run = "starting" /\ d' = [d EXCEPT !.nativeTurn = n]
      /\ \/ run' = "lost" /\ deliver' = deliver
         \/ run' = "deliver" /\ deliver' = [deliver EXCEPT ![Prompter] = x]
      /\ UNCHANGED <<protocol, current, begun, terminal, stream, native, owes, put,
                     stops, hits>>
  BY DEF Acknowledged, broker, client, history
<1>2. d.turn = current /\ d.turn \in put /\ d.turn \in 1..begun /\ d \in Driver
  BY <1>1 DEF IInv, TypeOK, TurnOK, Prompted
<1> d.turn \in Nat
  BY <1>2 DEF Driver
<1>3. n \in Nat /\ (n = d.turn \/ n = d.nativeTurn)
  BY <1>2 DEF Driver
<1>4. x \in Delivery /\ x.pc = "check" /\ x.turn = d.turn
  BY <1>2, DeliveryFacts
<1> HIDE DEF n, x
<1>5. /\ d' \in Driver /\ d'.turn = d.turn /\ d'.nativeTurn = n
      /\ d'.promptSent = d.promptSent /\ d'.stopSent = d.stopSent
  BY <1>1, <1>2, <1>3, DriverNative
<1>6. TypeOK'
  BY <1>1, <1>4, <1>5 DEF IInv, TypeOK, stream, Runs
<1>7. TurnOK'
  BY <1>1, <1>2, <1>5 DEF IInv, TurnOK, Prompted
<1>8. NoNewWrite
  BY <1>1, <1>2, <1>4 DEF NoNewWrite, IInv, TypeOK
<1>9. WriteOK'
  BY <1>1, <1>5, <1>8, WriteFrame
<1>10. Codex' => NamedOK'
  BY <1>1, <1>2, <1>3, <1>5, <1>8 DEF IInv, NamedOK, NoNewWrite, Codex, stream, NoTurn
<1>11. (Codex /\ up => WireOK)'
  BY <1>1, <1>5, WireFrame DEF Codex, stream, Prompted
<1>12. QED
  BY <1>1, <1>6, <1>7, <1>9, <1>10, <1>11 DEF IInv, stream

-----------------------------------------------------------------------------
(* deliverStop                                                             *)

LEMMA LookStep == ASSUME IInv, NEW g \in Goroutines, Look(g) PROVE IInv'
<1> DEFINE t == deliver[g].turn
           sent == g = Prompter /\ ~Codex
           due == Due(t, sent)
           b == d.promptSent \/ sent
           n == IF due THEN t ELSE d.stopSent
           pc == IF due THEN "write" ELSE "ok"
           x == [deliver[g] EXCEPT !.pc = pc, !.native = d.nativeTurn]
<1>1. /\ deliver[g].pc = "check" /\ deliver' = [deliver EXCEPT ![g] = x]
      /\ d' = [d EXCEPT !.promptSent = b, !.stopSent = n]
      /\ UNCHANGED <<protocol, current, begun, run, terminal, stream, native, owes, put,
                     stops, hits>>
  BY DEF Look, broker, client, history
<1>2. /\ deliver[g] \in Delivery /\ d \in Driver /\ begun \in Nat
      /\ t \in 1..begun /\ d.stopSent \in Nat /\ d.stopSent <= begun /\ d.nativeTurn \in Nat
  BY <1>1 DEF IInv, TypeOK, WriteOK, Driver
<1>3. b \in BOOLEAN /\ n \in Nat /\ n <= begun /\ pc \in {"write", "ok"}
  BY <1>2
<1>4. due => /\ d.stopSent # t /\ d.turn = t /\ t = begun /\ t \in put
             /\ Codex => d.nativeTurn = t
  <2> SUFFICES ASSUME due PROVE /\ d.stopSent # t /\ d.turn = t /\ t = begun /\ t \in put
                                /\ Codex => d.nativeTurn = t
    OBVIOUS
  <2>1. d.stopSent # t /\ d.turn = t
    BY DEF Due
  <2>2. t # NoTurn /\ t = current /\ t = begun
    BY <1>2, <2>1 DEF IInv, TurnOK, NoTurn
  <2>3. CASE Codex
    BY <2>1, <2>2, <2>3 DEF Due, IInv, NamedOK
  <2>4. CASE ~Codex /\ d.promptSent
    BY <2>1, <2>2, <2>4 DEF IInv, TurnOK
  <2>5. CASE ~Codex /\ sent
    BY <1>1, <2>1, <2>2, <2>5 DEF IInv, TurnOK, Prompted
  <2>6. QED
    BY <2>1, <2>2, <2>3, <2>4, <2>5 DEF Due
<1>5. sent => d.turn \in put
  BY <1>1 DEF IInv, TurnOK, Prompted
<1> HIDE DEF due
<1>6. /\ x \in Delivery /\ x.pc = pc /\ x.turn = t /\ x.native = d.nativeTurn
  BY <1>2, <1>3 DEF Delivery
<1> HIDE DEF x, b, n
<1>7. /\ d' \in Driver /\ d'.turn = d.turn /\ d'.nativeTurn = d.nativeTurn
      /\ d'.promptSent = b /\ d'.stopSent = n
  BY <1>1, <1>2, <1>3, DriverSent
<1>8. TypeOK'
  BY <1>1, <1>6, <1>7 DEF IInv, TypeOK, stream
<1>9. TurnOK'
  <2>1. d'.promptSent => d.turn \in put
    BY <1>5, <1>7 DEF b, IInv, TurnOK
  <2>2. deliver'[Prompter].pc = "check" => deliver[Prompter].pc = "check"
    BY <1>1, <1>3, <1>6, GoroutineFacts DEF IInv, TypeOK
  <2>3. QED
    BY <1>1, <1>7, <2>1, <2>2 DEF IInv, TurnOK
<1>10. d.stopSent <= n /\ (due => n = t /\ d.stopSent < t)
  BY <1>2, <1>4 DEF n
<1>11. WriteOK'
  <2>1. ASSUME due, NEW h \in Goroutines, deliver[h].pc = "write" PROVE deliver[h].turn # t
    BY <1>2, <1>10, <2>1 DEF IInv, WriteOK
  <2>2. due => stops[t] = 0
    <3>1. t \in Turns
      BY <1>2, StopAssumption DEF IInv, TypeOK, Turns
    <3>2. QED
      BY <1>2, <1>10, <3>1 DEF IInv, TypeOK, WriteOK
  <2>3. ASSUME NEW h \in Goroutines
        PROVE  /\ deliver'[h].pc # "none" /\ deliver'[h].pc # "done" =>
                    deliver'[h].turn \in 1..begun'
               /\ deliver'[h].pc = "write" => /\ deliver'[h].turn <= d'.stopSent
                                              /\ deliver'[h].turn \in put'
                                              /\ stops'[deliver'[h].turn] = 0
    <3>1. CASE h = g
      BY <1>1, <1>2, <1>4, <1>6, <1>7, <1>10, <2>2, <3>1 DEF IInv, TypeOK
    <3>2. CASE h # g
      <4>1. deliver'[h] = deliver[h] /\ deliver[h].turn \in Nat
        BY <1>1, <3>2 DEF IInv, TypeOK, Delivery
      <4>2. QED
        BY <1>1, <1>2, <1>3, <1>7, <1>10, <4>1 DEF IInv, WriteOK
    <3>3. QED
      BY <3>1, <3>2
  <2>4. ASSUME NEW h \in Goroutines, NEW k \in Goroutines,
               deliver'[h].pc = "write", deliver'[k].pc = "write",
               deliver'[h].turn = deliver'[k].turn
        PROVE  h = k
    BY <1>1, <1>6, <2>1, <2>4 DEF IInv, TypeOK, WriteOK
  <2>5. \A y \in Turns: stops'[y] > 0 => stops'[y] = 1 /\ y <= d'.stopSent /\ y \in put'
    BY <1>1, <1>2, <1>3, <1>7, <1>10 DEF IInv, WriteOK, Turns
  <2>6. QED
    BY <1>1, <1>3, <1>7, <2>3, <2>4, <2>5 DEF WriteOK
<1>12. Codex' => NamedOK'
  BY <1>1, <1>4, <1>6, <1>7 DEF IInv, TypeOK, NamedOK, Codex, stream
<1>13. (Codex /\ up => WireOK)'
  BY <1>1, <1>7, WireFrame DEF Codex, stream
<1>14. QED
  BY <1>1, <1>8, <1>9, <1>11, <1>12, <1>13 DEF IInv, stream

LEMMA WriteStep == ASSUME IInv, NEW g \in Goroutines, Write(g) PROVE IInv'
<1> DEFINE t == deliver[g].turn
           m == [kind |-> "stop", turn |-> t, native |-> deliver[g].native, by |-> g]
           pc == IF up THEN IF Codex THEN "call" ELSE "ok" ELSE "err"
           x == [deliver[g] EXCEPT !.pc = pc]
<1>1. /\ deliver[g].pc = "write" /\ deliver' = [deliver EXCEPT ![g] = x]
      /\ UNCHANGED <<protocol, current, begun, d, run, terminal, toDriver, up, native,
                     owes, put, hits>>
  BY DEF Write, broker, client
<1>2. /\ deliver[g] \in Delivery /\ d \in Driver
      /\ t \in 1..begun /\ t <= d.stopSent /\ t \in put /\ stops[t] = 0 /\ t \in Turns
  <2>1. /\ deliver[g] \in Delivery /\ d \in Driver
        /\ t \in 1..begun /\ t <= d.stopSent /\ t \in put /\ stops[t] = 0
    BY <1>1 DEF IInv, TypeOK, WriteOK
  <2>2. t \in Turns
    BY <2>1, StopAssumption DEF IInv, TypeOK, Turns
  <2>3. QED
    BY <2>1, <2>2
<1>3. x \in Delivery /\ x.pc = pc /\ x.turn = t /\ x.pc \in {"call", "ok", "err"}
  BY <1>2 DEF Delivery
<1>4. CASE ~up
  <2>1. UNCHANGED <<toClient, stops>>
    BY <1>4 DEF Write
  <2> HIDE DEF x
  <2>2. QED
    BY <1>1, <1>2, <1>3, <2>1, DeliverMove DEF stream
<1>5. CASE up
  <2>1. toClient' = Append(toClient, m) /\ stops' = [stops EXCEPT ![t] = @ + 1]
    BY <1>5 DEF Write
  <2>2. /\ m \in ToClient /\ m.kind = "stop" /\ m.turn = t /\ m.native = deliver[g].native
        /\ toClient \in Seq(ToClient)
    BY <1>2 DEF Delivery, ToClient, IInv, TypeOK
  <2> HIDE DEF x, m
  <2>3. /\ toClient' \in Seq(ToClient) /\ Len(toClient') = Len(toClient) + 1
        /\ Len(toClient) \in Nat
        /\ \A i \in 1..Len(toClient'): toClient'[i] = IF i <= Len(toClient) THEN toClient[i] ELSE m
    BY <2>1, <2>2, AppendFacts
  <2>4. TypeOK'
    BY <1>1, <1>2, <1>3, <2>1, <2>3 DEF IInv, TypeOK
  <2>5. TurnOK'
    BY <1>1, <1>3, TurnFrame, GoroutineFacts DEF IInv, TypeOK
  <2>6. WriteOK'
    <3>1. ASSUME NEW h \in Goroutines, deliver'[h].pc = "write"
          PROVE  h # g /\ deliver'[h] = deliver[h] /\ deliver[h].turn # t
      BY <1>1, <1>3, <3>1 DEF IInv, TypeOK, WriteOK
    <3>2. ASSUME NEW h \in Goroutines
          PROVE  /\ deliver'[h].pc # "none" /\ deliver'[h].pc # "done" =>
                      deliver'[h].turn \in 1..begun'
                 /\ deliver'[h].pc = "write" => /\ deliver'[h].turn <= d'.stopSent
                                                /\ deliver'[h].turn \in put'
                                                /\ stops'[deliver'[h].turn] = 0
      <4>1. deliver'[h].pc # "none" /\ deliver'[h].pc # "done" => deliver'[h].turn \in 1..begun
        BY <1>1, <1>2, <1>3 DEF IInv, TypeOK, WriteOK
      <4>2. ASSUME deliver'[h].pc = "write" PROVE stops'[deliver[h].turn] = stops[deliver[h].turn]
        <5>1. deliver[h].turn # t
          BY <3>1, <4>2
        <5>2. QED
          BY <2>1, <5>1 DEF IInv, TypeOK
      <4>3. QED
        BY <1>1, <3>1, <4>1, <4>2 DEF IInv, WriteOK
    <3>3. ASSUME NEW h \in Goroutines, NEW k \in Goroutines,
                 deliver'[h].pc = "write", deliver'[k].pc = "write",
                 deliver'[h].turn = deliver'[k].turn
          PROVE  h = k
      BY <3>1, <3>3 DEF IInv, WriteOK
    <3>4. \A y \in Turns: stops'[y] > 0 => stops'[y] = 1 /\ y <= d'.stopSent /\ y \in put'
      BY <1>1, <1>2, <2>1 DEF IInv, TypeOK, WriteOK
    <3>5. QED
      BY <1>1, <3>2, <3>3, <3>4 DEF IInv, WriteOK
  <2>7. Codex' => NamedOK'
    <3> SUFFICES ASSUME Codex PROVE NamedOK'
      BY <1>1 DEF Codex
    <3>1. deliver[g].native = t
      BY <1>1 DEF IInv, NamedOK
    <3>2. \A i \in 1..Len(toClient'):
            toClient'[i].kind = "stop" => toClient'[i].native = toClient'[i].turn
      BY <2>2, <2>3, <3>1 DEF IInv, NamedOK
    <3>3. \A h \in Goroutines: deliver'[h].pc = "write" => deliver'[h].native = deliver'[h].turn
      BY <1>1, <1>3 DEF IInv, TypeOK, NamedOK
    <3>4. QED
      BY <1>1, <3>2, <3>3 DEF IInv, NamedOK
  <2>8. Codex' => WireOK'
    <3> SUFFICES ASSUME Codex PROVE WireOK'
      BY <1>1 DEF Codex
    <3>1. /\ \A i \in 1..Len(toClient): i \in 1..Len(toClient')
          /\ \A i \in 1..Len(toClient'): toClient'[i].kind = "start" =>
                i \in 1..Len(toClient) /\ toClient'[i] = toClient[i]
      BY <2>2, <2>3
    <3>2. WireOK
      BY <1>5 DEF IInv
    <3>3. QED
      BY <1>1, <3>1, <3>2 DEF WireOK, NothingStarts
  <2>9. QED
    BY <1>1, <1>5, <2>4, <2>5, <2>6, <2>7, <2>8 DEF IInv
<1>6. QED
  BY <1>4, <1>5

-----------------------------------------------------------------------------
(* The native client                                                       *)

\* A step of the client changes only the stream and the client.
LEMMA ClientMove ==
  ASSUME IInv, up, up' = up,
         UNCHANGED <<protocol, current, begun, d, run, deliver, terminal, put, stops>>,
         toClient' \in Seq(ToClient), toDriver' \in Seq(ToDriver),
         native' \in Nat, owes' \subseteq {"reply", "started"},
         Codex => NamedOK' /\ WireOK'
  PROVE  IInv'
<1>1. TypeOK'
  BY DEF IInv, TypeOK
<1>2. TurnOK'
  BY TurnFrame
<1>3. NoNewWrite
  BY DEF NoNewWrite
<1>4. WriteOK'
  BY <1>3, WriteFrame
<1>5. QED
  BY <1>1, <1>2, <1>4 DEF IInv, Codex

\* The first message for the client is taken; the rest move up.
LEMMA ClientTakes ==
  ASSUME IInv, toClient # <<>>, toClient' = Tail(toClient)
  PROVE  /\ toClient' \in Seq(ToClient) /\ Len(toClient) \in Nat \ {0}
         /\ Len(toClient') = Len(toClient) - 1
         /\ Head(toClient) \in ToClient /\ Head(toClient) = toClient[1]
         /\ 1 \in 1..Len(toClient)
         /\ \A i \in 1..Len(toClient'): toClient'[i] = toClient[i + 1] /\ i + 1 \in 1..Len(toClient)
  BY TailFacts DEF IInv, TypeOK

LEMMA ClientSpeaks ==
  ASSUME IInv, NEW m \in ToDriver, toDriver' = Append(toDriver, m)
  PROVE  /\ toDriver' \in Seq(ToDriver) /\ Len(toDriver) \in Nat
         /\ Len(toDriver') = Len(toDriver) + 1
         /\ \A i \in 1..Len(toDriver'):
              toDriver'[i] = IF i <= Len(toDriver) THEN toDriver[i] ELSE m
  BY AppendFacts DEF IInv, TypeOK

LEMMA ClientStartsStep == ASSUME IInv, ClientStarts PROVE IInv'
<1> DEFINE m == [kind |-> "reply", turn |-> Head(toClient).turn, by |-> Prompter, status |-> "err"]
<1>1. /\ up /\ toClient # <<>> /\ Head(toClient).kind = "start" /\ toClient' = Tail(toClient)
      /\ UNCHANGED <<protocol, current, begun, d, run, deliver, terminal, up, put, stops, hits>>
      /\ \/ /\ native' = Head(toClient).turn
            /\ owes' = (IF Codex THEN {"reply", "started"} ELSE {})
            /\ toDriver' = toDriver
         \/ toDriver' = Append(toDriver, m) /\ UNCHANGED <<native, owes>>
  BY DEF ClientStarts, Says, broker, client, history
<1>2. /\ toClient' \in Seq(ToClient) /\ Len(toClient) \in Nat \ {0}
      /\ Len(toClient') = Len(toClient) - 1
      /\ Head(toClient) \in ToClient /\ Head(toClient) = toClient[1]
      /\ 1 \in 1..Len(toClient)
      /\ \A i \in 1..Len(toClient'): toClient'[i] = toClient[i + 1] /\ i + 1 \in 1..Len(toClient)
  BY <1>1, ClientTakes
<1>3. Head(toClient).turn \in Nat
  BY <1>2 DEF ToClient
<1>4. m \in ToDriver /\ m.kind = "reply"
  BY <1>3, GoroutineFacts DEF ToDriver
<1> HIDE DEF m
<1>5. /\ toDriver' \in Seq(ToDriver)
      /\ \A i \in 1..Len(toDriver): i \in 1..Len(toDriver') /\ toDriver'[i] = toDriver[i]
      /\ \A i \in 1..Len(toDriver'): toDriver'[i].kind \in {"started", "completed"} =>
            i \in 1..Len(toDriver) /\ toDriver'[i] = toDriver[i]
  <2>1. CASE toDriver' = toDriver
    BY <2>1 DEF IInv, TypeOK
  <2>2. CASE toDriver' = Append(toDriver, m)
    BY <1>4, <2>2, ClientSpeaks
  <2>3. QED
    BY <1>1, <2>1, <2>2
<1>6. native' \in Nat /\ owes' \subseteq {"reply", "started"}
  BY <1>1, <1>3 DEF IInv, TypeOK
<1>7. ASSUME Codex PROVE NamedOK'
  BY <1>1, <1>2, <1>7 DEF IInv, NamedOK
<1>8. ASSUME Codex PROVE WireOK'
  <2>1. WireOK
    BY <1>1, <1>8 DEF IInv
  <2>2. /\ toClient[1].turn = d.turn /\ d.turn \in put /\ d.turn # NoTurn
    BY <1>1, <1>2, <2>1 DEF WireOK, IInv, TypeOK, NoTurn
  <2>3. \A i \in 1..Len(toClient'): toClient'[i].kind # "start"
    BY <1>1, <1>2, <2>1 DEF WireOK
  <2>4. ~(run \notin Prompted \cup {"lost"}) /\ d.turn \notin terminal
    BY <1>1, <1>2, <2>1, <2>2 DEF WireOK, NothingStarts
  <2>5. \A i \in 1..Len(toDriver): ~(toDriver[i].kind = "completed" /\ toDriver[i].turn = d.turn)
    BY <1>1, <1>2, <2>1 DEF WireOK
  <2>6. /\ native' # NoTurn => native' \in put
        /\ "started" \in owes' => native' = d.turn /\ native' # NoTurn
    BY <1>1, <1>2, <2>1, <2>2 DEF WireOK
  <2>7. QED
    BY <1>1, <1>5, <2>1, <2>3, <2>4, <2>5, <2>6 DEF WireOK
<1>9. QED
  BY <1>1, <1>2, <1>5, <1>6, <1>7, <1>8, ClientMove

LEMMA ClientSaysStep ==
  ASSUME IInv, NEW kind \in {"reply", "started"}, ClientSays(kind) PROVE IInv'
<1> DEFINE m == [kind |-> kind, turn |-> native, by |-> Prompter, status |-> "ok"]
<1>1. /\ up /\ kind \in owes /\ owes' = owes \ {kind} /\ toDriver' = Append(toDriver, m)
      /\ UNCHANGED <<protocol, current, begun, d, run, deliver, terminal, up, put, stops,
                     hits, toClient, native>>
  BY DEF ClientSays, Says, broker, history
<1>2. native \in Nat /\ owes' \subseteq {"reply", "started"} /\ toClient' \in Seq(ToClient)
  BY <1>1 DEF IInv, TypeOK
<1>3. m \in ToDriver /\ m.kind = kind /\ m.turn = native
  BY <1>2, GoroutineFacts DEF ToDriver
<1> HIDE DEF m
<1>4. /\ toDriver' \in Seq(ToDriver) /\ Len(toDriver) \in Nat
      /\ Len(toDriver') = Len(toDriver) + 1
      /\ \A i \in 1..Len(toDriver'):
           toDriver'[i] = IF i <= Len(toDriver) THEN toDriver[i] ELSE m
  BY <1>1, <1>3, ClientSpeaks
<1>5. ASSUME Codex PROVE NamedOK'
  BY <1>1, <1>5 DEF IInv, NamedOK
<1>6. ASSUME Codex PROVE WireOK'
  <2>1. WireOK
    BY <1>1, <1>6 DEF IInv
  <2>2. CASE kind = "started"
    <3>1. /\ native = d.turn /\ d.turn # NoTurn /\ d.turn \in put
          /\ \A i \in 1..Len(toClient): toClient[i].kind # "start"
      BY <1>1, <2>1, <2>2 DEF WireOK
    <3>2. run \in Prompted \cup {"lost"} /\ d.turn \notin terminal
      BY <1>1, <2>1, <2>2, <3>1 DEF WireOK, NothingStarts
    <3>3. \A i \in 1..Len(toDriver): ~(toDriver[i].kind = "completed" /\ toDriver[i].turn = d.turn)
      BY <1>1, <2>1, <2>2 DEF WireOK
    <3>4. \A i \in 1..Len(toDriver'):
            /\ toDriver'[i].kind = "started" => toDriver'[i].turn = d.turn
            /\ toDriver'[i].kind = "completed" => toDriver'[i].turn \in put /\ toDriver'[i].turn # d.turn
      BY <1>3, <1>4, <2>1, <2>2, <3>1, <3>3 DEF WireOK
    <3>5. QED
      BY <1>1, <2>1, <3>1, <3>2, <3>4 DEF WireOK
  <2>3. CASE kind = "reply"
    <3>1. /\ \A i \in 1..Len(toDriver): i \in 1..Len(toDriver') /\ toDriver'[i] = toDriver[i]
          /\ \A i \in 1..Len(toDriver'): toDriver'[i].kind \in {"started", "completed"} =>
                i \in 1..Len(toDriver) /\ toDriver'[i] = toDriver[i]
      BY <1>3, <1>4, <2>3
    <3>2. "started" \in owes' <=> "started" \in owes
      BY <1>1, <2>3
    <3>3. QED
      BY <1>1, <2>1, <3>1, <3>2 DEF WireOK, NothingStarts
  <2>4. QED
    BY <2>2, <2>3
<1>7. QED
  BY <1>1, <1>2, <1>4, <1>5, <1>6, ClientMove

LEMMA ClientStopsStep == ASSUME IInv, ClientStops PROVE IInv'
<1> DEFINE m == Head(toClient)
<1>1. /\ up /\ toClient # <<>> /\ m.kind = "stop" /\ toClient' = Tail(toClient)
      /\ UNCHANGED <<protocol, current, begun, d, run, deliver, terminal, up, put, stops,
                     native, owes>>
      /\ Codex => hits' = hits \/ (m.native = native
                                   /\ hits' = hits \cup {[asked |-> m.turn, stopped |-> native]})
  BY DEF ClientStops, broker, history
<1>2. \/ toDriver' = toDriver
      \/ \E status \in {"ok", "err"}:
           toDriver' = Append(toDriver, [kind |-> "stopped", turn |-> m.turn, by |-> m.by,
                                         status |-> status])
  <2>1. PICK ok \in BOOLEAN:
          IF Codex THEN Says("stopped", m.turn, m.by, IF ok THEN "ok" ELSE "err")
          ELSE UNCHANGED toDriver
    BY Zenon DEF ClientStops
  <2>2. QED
    BY <2>1 DEF Says
<1>3. /\ toClient' \in Seq(ToClient) /\ Len(toClient) \in Nat \ {0}
      /\ Len(toClient') = Len(toClient) - 1
      /\ m \in ToClient /\ m = toClient[1]
      /\ 1 \in 1..Len(toClient)
      /\ \A i \in 1..Len(toClient'): toClient'[i] = toClient[i + 1] /\ i + 1 \in 1..Len(toClient)
  BY <1>1, ClientTakes
<1> HIDE DEF m
<1>4. /\ toDriver' \in Seq(ToDriver)
      /\ \A i \in 1..Len(toDriver): i \in 1..Len(toDriver') /\ toDriver'[i] = toDriver[i]
      /\ \A i \in 1..Len(toDriver'): toDriver'[i].kind \in {"started", "completed"} =>
            i \in 1..Len(toDriver) /\ toDriver'[i] = toDriver[i]
  <2>1. CASE toDriver' = toDriver
    BY <2>1 DEF IInv, TypeOK
  <2>2. ASSUME NEW status \in {"ok", "err"}, NEW x,
               x = [kind |-> "stopped", turn |-> m.turn, by |-> m.by, status |-> status],
               toDriver' = Append(toDriver, x)
        PROVE  <1>4!1
    <3>1. x \in ToDriver /\ x.kind = "stopped"
      BY <1>3, <2>2 DEF ToDriver, ToClient
    <3>2. QED
      BY <2>2, <3>1, ClientSpeaks
  <2>3. QED
    BY <1>2, <2>1, <2>2
<1>5. native' \in Nat /\ owes' \subseteq {"reply", "started"}
  BY <1>1 DEF IInv, TypeOK
<1>6. ASSUME Codex PROVE NamedOK'
  <2>1. m.native = m.turn
    BY <1>1, <1>3, <1>6 DEF IInv, NamedOK
  <2>2. \A h \in hits': h.asked = h.stopped
    BY <1>1, <1>6, <2>1 DEF IInv, NamedOK
  <2>3. QED
    BY <1>1, <1>3, <1>6, <2>2 DEF IInv, NamedOK
<1>7. ASSUME Codex PROVE WireOK'
  <2>1. WireOK
    BY <1>1, <1>7 DEF IInv
  <2>2. \A i \in 1..Len(toClient'): toClient'[i].kind = "start" =>
          toClient'[i].turn = d.turn /\ d.turn \in put
    BY <1>3, <2>1 DEF WireOK
  <2>3. ASSUME NEW i \in 1..Len(toClient'), NEW j \in 1..Len(toClient'),
               toClient'[i].kind = "start", toClient'[j].kind = "start"
        PROVE  i = j
    <3>1. i + 1 = j + 1
      BY <1>3, <2>1, <2>3 DEF WireOK
    <3>2. QED
      BY <3>1
  <2>4. (\A i \in 1..Len(toClient): toClient[i].kind # "start") =>
          \A i \in 1..Len(toClient'): toClient'[i].kind # "start"
    BY <1>3
  <2>5. NothingStarts => NothingStarts'
    BY <1>1, <1>4, <2>4 DEF NothingStarts
  <2>6. \A i \in 1..Len(toDriver'):
         /\ toDriver'[i].kind = "started" => toDriver'[i].turn = d.turn /\ d.turn \in put
         /\ toDriver'[i].kind = "completed" => toDriver'[i].turn \in put
         /\ toDriver'[i].kind = "completed" /\ toDriver'[i].turn = d.turn =>
              /\ \A j \in 1..Len(toClient'): toClient'[j].kind # "start"
              /\ "started" \notin owes
              /\ \A j \in 1..Len(toDriver'): toDriver'[j].kind = "started" => j < i
    BY <1>4, <2>1, <2>4 DEF WireOK
  <2>7. QED
    BY <1>1, <2>1, <2>2, <2>3, <2>4, <2>5, <2>6 DEF WireOK
<1>8. QED
  BY <1>1, <1>3, <1>4, <1>5, <1>6, <1>7, ClientMove

LEMMA ClientEndsStep == ASSUME IInv, ClientEnds PROVE IInv'
<1> DEFINE says(kind) == [kind |-> kind, turn |-> native, by |-> Prompter, status |-> "ok"]
           k == IF Codex THEN "completed" ELSE "reply"
           one == Append(toDriver, says(k))
<1>1. /\ up /\ native # NoTurn /\ "started" \notin owes
      /\ native' = NoTurn /\ owes' = {}
      /\ UNCHANGED <<protocol, current, begun, d, run, deliver, terminal, up, put, stops,
                     hits, toClient>>
      /\ toDriver' = toDriver \o <<says(k)>> \o IF "reply" \in owes THEN <<says("reply")>> ELSE <<>>
  BY DEF ClientEnds, broker, history
<1>2. native \in Nat /\ toDriver \in Seq(ToDriver) /\ toClient' \in Seq(ToClient)
  BY <1>1 DEF IInv, TypeOK
<1>3. /\ says(k) \in ToDriver /\ says(k).kind = k /\ says(k).turn = native
      /\ says("reply") \in ToDriver /\ says("reply").kind = "reply"
  BY <1>2, GoroutineFacts DEF ToDriver
<1> HIDE DEF says
<1>4. toDriver' = one \/ toDriver' = Append(one, says("reply"))
  <2>1. toDriver \o <<says(k)>> = one
    BY <1>2, <1>3
  <2>2. one \in Seq(ToDriver)
    BY <1>2, <1>3, AppendFacts
  <2>3. one \o <<says("reply")>> = Append(one, says("reply")) /\ one \o <<>> = one
    BY <1>3, <2>2
  <2>4. QED
    BY <1>1, <2>1, <2>3
<1>5. /\ one \in Seq(ToDriver) /\ Len(one) = Len(toDriver) + 1 /\ Len(toDriver) \in Nat
      /\ \A i \in 1..Len(toDriver): one[i] = toDriver[i]
      /\ one[Len(toDriver) + 1] = says(k)
  BY <1>2, <1>3, AppendFacts
<1> HIDE DEF one
<1>6. /\ toDriver' \in Seq(ToDriver)
      /\ \A i \in 1..Len(toDriver'):
           \/ i \in 1..Len(toDriver) /\ toDriver'[i] = toDriver[i]
           \/ i = Len(toDriver) + 1 /\ toDriver'[i] = says(k)
           \/ toDriver'[i].kind = "reply"
  <2>1. CASE toDriver' = one
    BY <1>5, <2>1
  <2>2. CASE toDriver' = Append(one, says("reply"))
    <3>1. /\ toDriver' \in Seq(ToDriver) /\ Len(toDriver') = Len(one) + 1
          /\ \A i \in 1..Len(one): toDriver'[i] = one[i]
          /\ toDriver'[Len(one) + 1] = says("reply")
      BY <1>3, <1>5, <2>2, AppendFacts
    <3>2. QED
      BY <1>3, <1>5, <3>1
  <2>3. QED
    BY <1>4, <2>1, <2>2
<1>7. native' \in Nat /\ owes' \subseteq {"reply", "started"}
  BY <1>1 DEF NoTurn
<1>8. ASSUME Codex PROVE NamedOK'
  BY <1>1, <1>8 DEF IInv, NamedOK
<1>9. ASSUME Codex PROVE WireOK'
  <2>1. WireOK /\ k = "completed"
    BY <1>1, <1>9 DEF IInv
  <2>2. native \in put
    BY <1>1, <2>1 DEF WireOK
  <2>3. native = d.turn => \A i \in 1..Len(toClient): toClient[i].kind # "start"
    BY <1>1, <2>1 DEF WireOK
  <2>4. \A i \in 1..Len(toDriver'): toDriver'[i].kind = "started" =>
           i \in 1..Len(toDriver) /\ toDriver'[i] = toDriver[i]
    BY <1>3, <1>6, <2>1
  <2>5. ASSUME NEW i \in 1..Len(toDriver'), toDriver'[i].kind = "completed"
        PROVE  /\ toDriver'[i].turn \in put
               /\ toDriver'[i].turn = d.turn =>
                    /\ \A j \in 1..Len(toClient): toClient[j].kind # "start"
                    /\ \A j \in 1..Len(toDriver'): toDriver'[j].kind = "started" => j < i
    <3>1. CASE i \in 1..Len(toDriver) /\ toDriver'[i] = toDriver[i]
      BY <2>1, <2>4, <2>5, <3>1 DEF WireOK
    <3>2. CASE i = Len(toDriver) + 1 /\ toDriver'[i] = says(k)
      <4>1. \A j \in 1..Len(toDriver): j < i
        BY <1>5, <3>2
      <4>2. QED
        BY <1>3, <2>2, <2>3, <2>4, <3>2, <4>1
    <3>3. QED
      BY <1>6, <2>5, <3>1, <3>2
  <2>6. NothingStarts => NothingStarts'
    BY <1>1, <2>4 DEF NothingStarts
  <2>7. \A i \in 1..Len(toDriver'): toDriver'[i].kind = "started" =>
          toDriver'[i].turn = d.turn /\ d.turn \in put
    BY <2>1, <2>4 DEF WireOK
  <2>8. QED
    BY <1>1, <2>1, <2>5, <2>6, <2>7 DEF WireOK
<1>10. QED
  BY <1>1, <1>2, <1>6, <1>7, <1>8, <1>9, ClientMove

LEMMA ClientExitsStep == ASSUME IInv, ClientExits PROVE IInv'
<1>1. /\ ~up' /\ toClient' = <<>> /\ toDriver' = <<>>
      /\ UNCHANGED <<protocol, current, begun, d, run, deliver, terminal, native, owes,
                     put, stops, hits>>
  BY DEF ClientExits, Disconnect, broker, client, history
<1>2. TypeOK'
  <2>1. toClient' \in Seq(ToClient) /\ toDriver' \in Seq(ToDriver)
    BY <1>1
  <2>2. QED
    BY <1>1, <2>1 DEF IInv, TypeOK
<1>3. TurnOK'
  BY <1>1, TurnFrame
<1>4. NoNewWrite
  BY <1>1 DEF NoNewWrite
<1>5. WriteOK'
  BY <1>1, <1>4, WriteFrame
<1>6. Codex' => NamedOK'
  BY <1>1 DEF IInv, NamedOK, Codex
<1>7. QED
  BY <1>1, <1>2, <1>3, <1>5, <1>6 DEF IInv

-----------------------------------------------------------------------------
(* The read loop                                                           *)

LEMMA ReadStep == ASSUME IInv, Read PROVE IInv'
<1> DEFINE m == Head(toDriver)
           S == Seq(ToDriver)
<1>1. /\ up /\ toDriver # <<>> /\ toDriver' = Tail(toDriver)
      /\ UNCHANGED <<protocol, current, begun, run, toClient, up, native, owes, put, stops,
                     hits>>
  BY DEF Read, broker, client
<1>2. /\ toDriver' \in S /\ Len(toDriver) \in Nat \ {0} /\ Len(toDriver') = Len(toDriver) - 1
      /\ m = toDriver[1] /\ m \in ToDriver /\ 1 \in 1..Len(toDriver)
      /\ \A i \in 1..Len(toDriver'): toDriver'[i] = toDriver[i + 1] /\ i + 1 \in 1..Len(toDriver)
  BY <1>1, TailFacts DEF IInv, TypeOK
<1> HIDE DEF m, S
<1>3. /\ m.turn \in Nat /\ m.by \in Goroutines /\ m.status \in {"ok", "err"}
      /\ d \in Driver /\ d.turn \in Nat
  BY <1>2 DEF ToDriver, IInv, TypeOK, Driver
\* What is left of the stream says what it said.
<1>4. ASSUME Codex PROVE
      /\ \A i \in 1..Len(toDriver'):
         /\ toDriver'[i].kind = "started" => toDriver'[i].turn = d.turn /\ d.turn \in put
         /\ toDriver'[i].kind = "completed" => toDriver'[i].turn \in put
         /\ toDriver'[i].kind = "completed" /\ toDriver'[i].turn = d.turn =>
              /\ \A j \in 1..Len(toClient): toClient[j].kind # "start"
              /\ "started" \notin owes
              /\ \A j \in 1..Len(toDriver'): toDriver'[j].kind = "started" => j < i
      /\ NothingStarts => NothingStarts'
      /\ m.kind = "completed" /\ m.turn = d.turn => NothingStarts'
  <2>1. WireOK
    BY <1>1, <1>4 DEF IInv
  <2>2. ASSUME NEW i \in 1..Len(toDriver')
        PROVE /\ toDriver'[i].kind = "started" => toDriver'[i].turn = d.turn /\ d.turn \in put
              /\ toDriver'[i].kind = "completed" => toDriver'[i].turn \in put
    BY <1>2, <2>1 DEF WireOK
  <2>3. ASSUME NEW i \in 1..Len(toDriver'), toDriver'[i].kind = "completed",
               toDriver'[i].turn = d.turn
        PROVE /\ \A j \in 1..Len(toClient): toClient[j].kind # "start"
              /\ "started" \notin owes
              /\ \A j \in 1..Len(toDriver'): toDriver'[j].kind = "started" => j < i
    <3>1. toDriver[i + 1].kind = "completed" /\ toDriver[i + 1].turn = d.turn
          /\ i + 1 \in 1..Len(toDriver)
      BY <1>2, <2>3
    <3>2. /\ \A j \in 1..Len(toClient): toClient[j].kind # "start"
          /\ "started" \notin owes
          /\ \A j \in 1..Len(toDriver): toDriver[j].kind = "started" => j < i + 1
      BY <2>1, <3>1 DEF WireOK
    <3>3. ASSUME NEW j \in 1..Len(toDriver'), toDriver'[j].kind = "started" PROVE j < i
      <4>1. j + 1 < i + 1
        BY <1>2, <3>2, <3>3
      <4>2. QED
        BY <4>1
    <3>4. QED
      BY <3>2, <3>3
  <2>4. NothingStarts => NothingStarts'
    BY <1>1, <1>2 DEF NothingStarts
  <2>5. ASSUME m.kind = "completed", m.turn = d.turn PROVE NothingStarts'
    <3>1. /\ \A j \in 1..Len(toClient): toClient[j].kind # "start"
          /\ "started" \notin owes
          /\ \A j \in 1..Len(toDriver): toDriver[j].kind = "started" => j < 1
      BY <1>2, <2>1, <2>5 DEF WireOK
    <3>2. \A j \in 1..Len(toDriver'): toDriver'[j].kind # "started"
      <4> SUFFICES ASSUME NEW j \in 1..Len(toDriver'), toDriver'[j].kind = "started" PROVE FALSE
        OBVIOUS
      <4>1. j + 1 < 1
        BY <1>2, <3>1
      <4>2. QED
        BY <4>1
    <3>3. QED
      BY <1>1, <3>1, <3>2 DEF NothingStarts
  <2>6. QED
    BY <2>2, <2>3, <2>4, <2>5
\* The rest of the invariant follows when terminal and the deliveries are right.
<1>5. ASSUME d' \in Driver, d'.turn = d.turn, d'.promptSent = d.promptSent,
             d'.stopSent = d.stopSent,
             Codex /\ d'.nativeTurn # NoTurn => d'.nativeTurn = d.turn /\ d.turn \in put,
             deliver' \in [Goroutines -> Delivery], NoNewWrite,
             deliver'[Prompter].pc = "check" => deliver[Prompter].pc = "check",
             terminal' = terminal \/ (m.kind = "completed" /\ terminal' = terminal \cup {m.turn})
      PROVE  IInv'
  <2>1. ASSUME Codex PROVE terminal' \subseteq put
    <3>1. terminal \subseteq put
      BY <2>1 DEF IInv, TypeOK, Codex
    <3>2. m.kind = "completed" => m.turn \in put
      BY <1>1, <1>2, <2>1 DEF IInv, WireOK
    <3>3. QED
      BY <1>5, <3>1, <3>2
  <2>2. TypeOK'
    BY <1>1, <1>2, <1>5, <2>1 DEF IInv, TypeOK, S, Codex
  <2>3. TurnOK'
    BY <1>1, <1>5, TurnFrame
  <2>4. WriteOK'
    BY <1>1, <1>5, WriteFrame
  <2>5. ASSUME Codex PROVE NamedOK'
    BY <1>1, <1>5, <2>5 DEF IInv, NamedOK, NoNewWrite
  <2>6. ASSUME Codex PROVE WireOK'
    <3>1. WireOK
      BY <1>1, <2>6 DEF IInv
    <3>2. d.turn \in terminal' => NothingStarts' \/ d.turn \in terminal
      BY <1>4, <1>5, <2>6
    <3>3. d.turn # NoTurn /\ d.turn \in terminal' => NothingStarts'
      BY <1>4, <2>6, <3>1, <3>2 DEF WireOK
    <3>4. QED
      BY <1>1, <1>4, <1>5, <2>6, <3>1, <3>3 DEF WireOK
  <2>7. QED
    BY <1>1, <2>2, <2>3, <2>4, <2>5, <2>6 DEF IInv, Codex
<1>6. CASE UNCHANGED <<d, deliver>> /\
           (terminal' = terminal \/ (m.kind = "completed" /\ terminal' = terminal \cup {m.turn}))
  <2>1. NoNewWrite /\ deliver' \in [Goroutines -> Delivery]
    BY <1>6 DEF NoNewWrite, IInv, TypeOK
  <2>2. Codex /\ d.nativeTurn # NoTurn => d.nativeTurn = d.turn /\ d.turn \in put
    BY DEF IInv, NamedOK
  <2>3. QED
    BY <1>3, <1>5, <1>6, <2>1, <2>2
<1>7. CASE /\ UNCHANGED <<d, terminal>>
           /\ deliver' = [deliver EXCEPT ![m.by].pc = IF @ = "call" THEN m.status ELSE @]
  <2> DEFINE pc == IF deliver[m.by].pc = "call" THEN m.status ELSE deliver[m.by].pc
             x == [deliver[m.by] EXCEPT !.pc = pc]
  <2>1. deliver[m.by] \in Delivery
    BY <1>3 DEF IInv, TypeOK
  <2>2. x \in Delivery /\ x.pc = pc /\ x.turn = deliver[m.by].turn
    BY <1>3, <2>1 DEF Delivery
  <2>3. pc = deliver[m.by].pc => x = deliver[m.by]
    BY <2>1 DEF Delivery
  <2>4. pc = deliver[m.by].pc \/ (deliver[m.by].pc = "call" /\ pc \in {"ok", "err"})
    BY <1>3
  <2>5. deliver' = [deliver EXCEPT ![m.by] = x]
    BY <1>7
  <2> HIDE DEF x, pc
  <2>6. deliver' \in [Goroutines -> Delivery]
    BY <2>2, <2>5 DEF IInv, TypeOK
  <2>7. NoNewWrite
    <3> SUFFICES ASSUME NEW g \in Goroutines, deliver'[g] # deliver[g]
                 PROVE  /\ deliver'[g].pc # "write"
                        /\ deliver'[g].pc \in {"none", "done"} \/ deliver'[g].turn \in 1..begun
      BY DEF NoNewWrite
    <3>1. g = m.by /\ deliver'[g] = x
      BY <1>3, <2>5 DEF IInv, TypeOK
    <3>2. deliver[m.by].pc = "call" /\ pc \in {"ok", "err"}
      BY <2>3, <2>4, <3>1
    <3>3. deliver[m.by].turn \in 1..begun
      BY <1>3, <3>2 DEF IInv, WriteOK
    <3>4. QED
      BY <2>2, <3>1, <3>2, <3>3
  <2>8. deliver'[Prompter].pc = "check" => deliver[Prompter].pc = "check"
    BY <1>3, <2>2, <2>4, <2>5, GoroutineFacts DEF IInv, TypeOK
  <2>9. Codex /\ d.nativeTurn # NoTurn => d.nativeTurn = d.turn /\ d.turn \in put
    BY DEF IInv, NamedOK
  <2>10. QED
    BY <1>3, <1>5, <1>7, <2>6, <2>7, <2>8, <2>9
<1>8. CASE /\ m.kind = "started" /\ UNCHANGED terminal
           /\ d' = [d EXCEPT !.nativeTurn = IF d.turn = NoTurn THEN @ ELSE m.turn]
           /\ deliver' = IF d.turn = NoTurn \/ d.stop # d.turn THEN deliver
                         ELSE [deliver EXCEPT ![<<"started", d.turn>>] =
                                 [Idle EXCEPT !.pc = "check", !.turn = d.turn]]
  <2> DEFINE n == IF d.turn = NoTurn THEN d.nativeTurn ELSE m.turn
             g == <<"started", d.turn>>
             x == [Idle EXCEPT !.pc = "check", !.turn = d.turn]
  <2>1. n \in Nat
    BY <1>3 DEF Driver
  <2>2. Codex /\ n # NoTurn => n = d.turn /\ d.turn \in put
    <3> SUFFICES ASSUME Codex, n # NoTurn PROVE n = d.turn /\ d.turn \in put
      OBVIOUS
    <3>1. m.turn = d.turn /\ d.turn \in put
      BY <1>1, <1>2, <1>8 DEF IInv, WireOK
    <3>2. QED
      BY <3>1 DEF IInv, NamedOK
  <2>3. d' = [d EXCEPT !.nativeTurn = n]
    BY <1>8
  <2> HIDE DEF n
  <2>4. /\ d' \in Driver /\ d'.turn = d.turn /\ d'.nativeTurn = n
        /\ d'.promptSent = d.promptSent /\ d'.stopSent = d.stopSent
    BY <1>3, <2>1, <2>3, DriverNative
  <2>5. /\ deliver' \in [Goroutines -> Delivery] /\ NoNewWrite
        /\ deliver'[Prompter].pc = "check" => deliver[Prompter].pc = "check"
    <3>1. CASE deliver' = deliver
      BY <3>1 DEF NoNewWrite, IInv, TypeOK
    <3>2. CASE d.turn # NoTurn /\ deliver' = [deliver EXCEPT ![g] = x]
      <4>1. d.turn \in 1..begun /\ d.turn \in Turns
        BY <1>3, <3>2, StopAssumption DEF IInv, TypeOK, TurnOK, NoTurn, Turns
      <4>2. g \in Goroutines /\ g # Prompter
        BY <4>1, GoroutineFacts
      <4>3. x \in Delivery /\ x.pc = "check" /\ x.turn = d.turn
        BY <1>3, DeliveryFacts
      <4> HIDE DEF x, g
      <4>4. QED
        BY <3>2, <4>1, <4>2, <4>3, GoroutineFacts DEF NoNewWrite, IInv, TypeOK
    <3>3. QED
      BY <1>8, <3>1, <3>2
  <2>6. QED
    BY <1>5, <1>8, <2>2, <2>4, <2>5
<1>9. QED
  BY <1>6, <1>7, <1>8 DEF Read, m

-----------------------------------------------------------------------------

LEMMA InitIInv == ASSUME Init PROVE IInv
<1>1. d \in Driver /\ d.stopSent = 0 /\ d.turn = NoTurn /\ d.nativeTurn = NoTurn /\ ~d.promptSent
  BY Zenon DEF Init, Driver, NoTurn
<1>2. TypeOK
  <2>1. toClient \in Seq(ToClient) /\ toDriver \in Seq(ToDriver)
    BY DEF Init
  <2>2. deliver \in [Goroutines -> Delivery]
    BY DeliveryFacts DEF Init
  <2>3. stops \in [Turns -> Nat]
    BY DEF Init
  <2>4. QED
    BY <1>1, <2>1, <2>2, <2>3, StopAssumption DEF Init, TypeOK, NoTurn, Runs
<1>3. TurnOK
  BY <1>1, GoroutineFacts, DeliveryFacts DEF Init, TurnOK, Prompted, NoTurn
<1> \A g \in Goroutines: deliver[g].pc = "none"
  BY DeliveryFacts DEF Init
<1>4. WriteOK
  BY <1>1 DEF Init, WriteOK
<1>5. NamedOK
  BY <1>1 DEF Init, NamedOK
<1>6. WireOK
  BY <1>1 DEF Init, WireOK, NothingStarts
<1>7. QED
  BY <1>2, <1>3, <1>4, <1>5, <1>6 DEF IInv, Init

LEMMA NextIInv == ASSUME IInv, [Next]_vars PROVE IInv'
<1>1. CASE UNCHANGED vars
  BY <1>1 DEF vars, IInv, TypeOK, TurnOK, WriteOK, NamedOK, WireOK, NothingStarts, Codex
<1>2. CASE Admit \/ Prompt \/ Read
  BY <1>2, AdmitStep, BeginStep, MoveStep, StartStep, AcknowledgedStep, DeliveredStep,
     FinishStep, ReadStep DEF Prompt
<1>3. CASE \E c \in Callers: Cancel(c) \/ Call(c)
  BY <1>3, CancelStep, RecordStep, AcceptStep DEF Call
<1>4. CASE \E g \in Goroutines: Deliver(g)
  BY <1>4, LookStep, WriteStep, UnansweredStep DEF Deliver
<1>5. CASE Serve \/ ClientEnds \/ ClientExits
  BY <1>5, ClientStartsStep, ClientStopsStep, ClientSaysStep, ClientEndsStep,
     ClientExitsStep DEF Serve
<1>6. QED
  BY <1>1, <1>2, <1>3, <1>4, <1>5 DEF Next

\* What deliverStop's callers write, for every number of turns and of Stops: the
\* stop of a turn goes out at most once and after its prompt, and what Codex
\* stops for it is that turn (driver.go:365).
THEOREM StopCorrect == Spec => []StopIsExact
<1>1. IInv => StopIsExact
  <2> SUFFICES ASSUME IInv PROVE StopIsExact
    OBVIOUS
  <2>1. StopOnce
    BY DEF IInv, TypeOK, WriteOK, StopOnce
  <2>2. StopAfterPrompt
    BY DEF IInv, WriteOK, StopAfterPrompt
  <2>3. StopHitsItsTurn
    BY DEF IInv, NamedOK, StopHitsItsTurn
  <2>4. QED
    BY <2>1, <2>2, <2>3 DEF StopIsExact
<1>2. QED
  BY <1>1, InitIInv, NextIInv, PTL DEF Spec
=============================================================================
