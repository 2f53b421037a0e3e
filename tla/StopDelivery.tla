---------------------------- MODULE StopDelivery ----------------------------
(***************************************************************************)
(* How a Stop reaches a native client: Broker.Cancel, the driver of the    *)
(* Codex and ACP clients (driver.go) and the stream it speaks over         *)
(* (rpc.go).                                                               *)
(*                                                                         *)
(* The driver remembers the turn to stop and delivers it when the client   *)
(* can take it: Codex interrupts a native turn by name, and ACP cancels    *)
(* whatever prompt its session runs.  Up to three goroutines may find that *)
(* a stop is due: the caller of Cancel, the turn's own Prompt call and,    *)
(* for Codex, one spawned by the turn/started notification.  Each looks    *)
(* under the driver's lock and writes after it has released the lock.      *)
(*                                                                         *)
(* A native turn is named by the turn that started it.  The stream keeps   *)
(* the order of messages in each direction.  The client is external.       *)
(***************************************************************************)
EXTENDS Integers, Sequences, FiniteSets

CONSTANTS
    Protocols,  \* a subset of {"codex", "acp"}
    MaxTurns,   \* bound: turns of this driver
    MaxStops,   \* bound: calls of Cancel
    Refuses     \* the client may refuse to interrupt its running turn

ASSUME StopAssumption ==
    /\ Protocols \subseteq {"codex", "acp"}
    /\ MaxTurns \in Nat /\ MaxStops \in Nat
    /\ Refuses \in BOOLEAN

Turns == 1..MaxTurns
NoTurn == 0

\* The goroutines that may deliver a stop.
Callers == {<<"cancel", i>>: i \in 1..MaxStops}
Started == {<<"started", t>>: t \in Turns}
Prompter == <<"prompt", 0>>
Goroutines == Callers \cup Started \cup {Prompter}

VARIABLES
    protocol,   \* d.profile.Provider
    current,    \* s.current of the broker
    begun,      \* turns the broker has admitted
    ended,      \* s.ended
    cancelling, \* s.info.State = "cancelling"
    d,          \* the fields of rpcDriver
    run,        \* where PromptWithOptions is
    deliver,    \* where each goroutine is in Cancel and deliverStop
    reply,      \* the response PromptWithOptions waits for
    terminal,   \* d.turnDone
    up,         \* the stream to the client works
    toClient, toDriver,   \* the two directions of the stream
    native,     \* the client's running native turn
    owes,       \* what the client has still to say of it
    halting,    \* the client is about to end it
    \* History.
    put,        \* prompts put on the stream
    stops,      \* stops put on the stream, by turn
    refused,    \* turns whose stop was reported as refused
    hits        \* stops the client applied: turn asked, turn stopped

client == <<native, owes, halting, hits>>
stream == <<toClient, toDriver, up>>
broker == <<current, begun, ended, cancelling>>
history == <<put, stops, refused>>
vars == <<protocol, current, begun, ended, cancelling, d, run, deliver, reply,
          terminal, up, toClient, toDriver, native, owes, halting, put, stops,
          refused, hits>>

Codex == protocol = "codex"
Idle == [pc |-> "none", turn |-> NoTurn, native |-> NoTurn]

Init ==
    /\ protocol \in Protocols
    /\ current = NoTurn /\ begun = 0 /\ ended = FALSE /\ cancelling = FALSE
    /\ d = [stop |-> NoTurn, stopSent |-> NoTurn, turn |-> NoTurn,
            nativeTurn |-> NoTurn, promptSent |-> FALSE]
    /\ run = "none"
    /\ deliver = [g \in Goroutines |-> Idle]
    /\ reply = "none"
    /\ terminal = {}
    /\ up = TRUE /\ toClient = <<>> /\ toDriver = <<>>
    /\ native = NoTurn /\ owes = {} /\ halting = FALSE
    /\ put = {} /\ stops = [t \in Turns |-> 0] /\ refused = {} /\ hits = {}

-----------------------------------------------------------------------------
\* The stream is closed and what was on it is gone.
Disconnect == up' = FALSE /\ toClient' = <<>> /\ toDriver' = <<>>

(* The turn: startPromptLocked, runTurn and PromptWithOptions              *)

\* The broker admits a turn; its worker calls the driver later.
Admit ==
    /\ current = NoTurn /\ up /\ begun < MaxTurns
    /\ begun' = begun + 1
    /\ current' = begun'
    /\ ended' = FALSE
    /\ run' = "admitted"
    /\ UNCHANGED <<protocol, cancelling, d, deliver, reply, terminal, stream,
                   client, history>>

\* PromptWithOptions sets its turn up.
Begin ==
    /\ run = "admitted"
    /\ d' = [d EXCEPT !.turn = current, !.nativeTurn = NoTurn,
                      !.promptSent = FALSE]
    /\ terminal' = {}
    /\ reply' = "none"
    /\ run' = "check"
    /\ UNCHANGED <<protocol, broker, deliver, stream, client, history>>

\* A turn that was stopped already ends here; nothing is sent.  Options that
\* Codex has no form for end it as well.
Check ==
    /\ run = "check"
    /\ run' \in IF d.stop = d.turn THEN {"end"}
                ELSE IF Codex THEN {"start", "lost"} ELSE {"options"}
    /\ UNCHANGED <<protocol, broker, d, deliver, reply, terminal, stream,
                   client, history>>

\* ACP applies the options of the turn first, and looks for a stop again.
Options ==
    /\ run = "options"
    /\ run' \in {"lost", IF d.stop = d.turn THEN "end" ELSE "start"}
    /\ UNCHANGED <<protocol, broker, d, deliver, reply, terminal, stream,
                   client, history>>

\* Mutant of Start: ACP does not look for a stop that came meanwhile.
StartOnly ==
    /\ run = "start"
    /\ up
    /\ toClient' = Append(toClient, [kind |-> "start", turn |-> d.turn,
                                    native |-> NoTurn, by |-> Prompter])
    /\ put' = put \cup {d.turn}
    /\ run' = IF Codex THEN "starting" ELSE "wait"
    /\ d' = [d EXCEPT !.promptSent = ~Codex]
    /\ UNCHANGED <<protocol, broker, deliver, reply, terminal, toDriver, up,
                   client, stops, refused>>

\* The prompt is written.  Codex waits for its response, which names the native
\* turn; ACP looks for a stop at once.
Start ==
    /\ run = "start"
    /\ IF up
       THEN /\ toClient' = Append(toClient, [kind |-> "start", turn |-> d.turn,
                                            native |-> NoTurn, by |-> Prompter])
            /\ put' = put \cup {d.turn}
            /\ run' = IF Codex THEN "starting" ELSE "deliver"
            /\ deliver' = IF Codex THEN deliver
                          ELSE [deliver EXCEPT ![Prompter] =
                                  [Idle EXCEPT !.pc = "check", !.turn = d.turn]]
       ELSE /\ run' = "lost"
            /\ UNCHANGED <<toClient, put, deliver>>
    /\ UNCHANGED <<protocol, broker, d, reply, terminal, toDriver, up, client,
                   stops, refused>>

\* The response of turn/start: the native turn is known now, if it was not.
Acknowledged ==
    /\ run = "starting"
    /\ reply = "ok"
    /\ d' = [d EXCEPT !.nativeTurn = IF @ = NoTurn THEN d.turn ELSE @]
    /\ run' = IF d'.nativeTurn = d.turn THEN "deliver" ELSE "lost"
    /\ deliver' = IF run' = "lost" THEN deliver
                  ELSE [deliver EXCEPT ![Prompter] =
                          [Idle EXCEPT !.pc = "check", !.turn = d.turn]]
    /\ UNCHANGED <<protocol, broker, reply, terminal, stream, client, history>>

\* Its deliverStop returned; an error is only a notice.
Delivered ==
    /\ run = "deliver"
    /\ deliver[Prompter].pc \in {"ok", "err"}
    /\ deliver' = [deliver EXCEPT ![Prompter] = Idle]
    /\ run' = "wait"
    /\ UNCHANGED <<protocol, broker, d, reply, terminal, stream, client, history>>

\* The end of the native turn: ACP's response, Codex's turn/completed.
Ends ==
    /\ run = "wait"
    /\ IF Codex THEN d.turn \in terminal ELSE reply = "ok"
    /\ run' = "end"
    /\ UNCHANGED <<protocol, broker, d, deliver, reply, terminal, stream,
                   client, history>>

\* The client refused the prompt, or is gone.
Loses ==
    /\ \/ run = "starting" /\ reply = "err"
       \/ run = "wait" /\ ~Codex /\ reply = "err"
       \/ run \in {"starting", "wait"} /\ ~up
    /\ run' = "lost"
    /\ UNCHANGED <<protocol, broker, d, deliver, reply, terminal, stream,
                   client, history>>

\* turn.end is emitted and the broker takes it.
Emit ==
    /\ run = "end"
    /\ ended' = TRUE
    /\ run' = "finish"
    /\ UNCHANGED <<protocol, current, begun, cancelling, d, deliver, reply,
                   terminal, stream, client, history>>

\* PromptWithOptions returns and runTurn finishes the turn.  A client whose
\* turn was lost is closed.
Finish ==
    /\ run \in {"finish", "lost"}
    /\ d' = [d EXCEPT !.turn = NoTurn, !.nativeTurn = NoTurn,
                      !.promptSent = FALSE]
    /\ run' = "none"
    /\ current' = NoTurn
    /\ cancelling' = FALSE
    /\ IF run = "finish" THEN UNCHANGED stream ELSE Disconnect
    /\ UNCHANGED <<protocol, begun, ended, deliver, reply, terminal, client,
                   history>>

-----------------------------------------------------------------------------
(* Cancel and deliverStop                                                  *)

\* Broker.Cancel reads the turn and releases the lock.  Callers are numbered in
\* the order of their calls.
Cancel(c) ==
    /\ deliver[c].pc = "none"
    /\ \A b \in Callers: b[2] < c[2] => deliver[b].pc # "none"
    /\ current # NoTurn /\ ~ended
    /\ deliver' = [deliver EXCEPT ![c] =
                     [Idle EXCEPT !.pc = "record", !.turn = current]]
    /\ UNCHANGED <<protocol, broker, d, run, reply, terminal, stream, client,
                   history>>

\* rpcDriver.Cancel remembers the stop.
Record(c) ==
    /\ deliver[c].pc = "record"
    /\ d' = [d EXCEPT !.stop = deliver[c].turn]
    /\ deliver' = [deliver EXCEPT ![c].pc = "check"]
    /\ UNCHANGED <<protocol, broker, run, reply, terminal, stream, client,
                   history>>

\* Mutant of Due: an old stop is taken for the running turn's.
DueForAny(t, sent) ==
    /\ d.stop = t /\ d.stopSent # t
    /\ IF Codex THEN d.nativeTurn # NoTurn ELSE d.promptSent \/ sent

\* deliverStop's condition: the turn is to be stopped, was not yet, and the
\* client can take it.
Due(t, sent) ==
    /\ d.stop = t /\ d.stopSent # t /\ d.turn = t
    /\ IF Codex THEN d.nativeTurn # NoTurn ELSE d.promptSent \/ sent

\* deliverStop under the lock.  ACP's own prompt marks that it is on the wire.
Look(g) ==
    /\ deliver[g].pc = "check"
    /\ LET t == deliver[g].turn
           sent == g = Prompter /\ ~Codex
       IN /\ d' = [d EXCEPT !.promptSent = @ \/ sent,
                            !.stopSent = IF Due(t, sent) THEN t ELSE @]
          /\ deliver' = [deliver EXCEPT ![g].pc = IF Due(t, sent) THEN "write"
                                                  ELSE "ok",
                                        ![g].native = d.nativeTurn]
    /\ UNCHANGED <<protocol, broker, run, reply, terminal, stream, client,
                   history>>

\* deliverStop after the lock: turn/interrupt is a call, session/cancel is not.
Write(g) ==
    /\ deliver[g].pc = "write"
    /\ IF up
       THEN /\ toClient' = Append(toClient,
                 [kind |-> "stop", turn |-> deliver[g].turn,
                  native |-> deliver[g].native, by |-> g])
            /\ stops' = [stops EXCEPT ![deliver[g].turn] = @ + 1]
            /\ deliver' = [deliver EXCEPT ![g].pc = IF Codex THEN "call" ELSE "ok"]
       ELSE /\ deliver' = [deliver EXCEPT ![g].pc = "err"]
            /\ UNCHANGED <<toClient, stops>>
    /\ UNCHANGED <<protocol, broker, d, run, reply, terminal, toDriver, up,
                   client, put, refused>>

\* turn/interrupt ends without a response: the client is gone, or the context
\* of the operator's request ended.
Unanswered(g) ==
    /\ deliver[g].pc = "call"
    /\ ~up \/ g \in Callers
    /\ deliver' = [deliver EXCEPT ![g].pc = "err"]
    /\ UNCHANGED <<protocol, broker, d, run, reply, terminal, stream, client,
                   history>>

\* driver.Cancel returned: Broker.Cancel puts the turn into cancelling unless
\* it returned an error or the turn is over.
Accept(c) ==
    /\ deliver[c].pc \in {"ok", "err"}
    /\ deliver' = [deliver EXCEPT ![c] = [Idle EXCEPT !.pc = "done"]]
    /\ cancelling' = (cancelling \/ (deliver[c].pc = "ok" /\ ~ended
                                     /\ current = deliver[c].turn))
    /\ UNCHANGED <<protocol, current, begun, ended, d, run, reply, terminal,
                   stream, client, history>>

-----------------------------------------------------------------------------
(* The read loop: rpcPeer.read, onNotification and codexEvent              *)

\* codexEvent takes a turn/completed of the current native turn.
TakesEnd(m) == d.nativeTurn \in {NoTurn, m.turn}

\* A response goes to the call that waits for it; a notification is handled
\* before the next message is read, unless no turn is under way.
Read ==
    /\ up /\ toDriver # <<>>
    /\ toDriver' = Tail(toDriver)
    /\ LET m == Head(toDriver) IN
       \/ /\ m.kind = "reply"
          /\ reply' = IF m.turn = d.turn THEN m.status ELSE reply
          /\ UNCHANGED <<d, deliver, terminal, refused>>
       \/ /\ m.kind = "stopped"
          /\ deliver' = [deliver EXCEPT ![m.by].pc =
                           IF @ = "call" THEN m.status ELSE @]
          /\ refused' = IF m.status = "err" THEN refused \cup {m.turn} ELSE refused
          /\ UNCHANGED <<d, reply, terminal>>
       \/ /\ m.kind = "started"
          /\ d' = [d EXCEPT !.nativeTurn = IF d.turn = NoTurn THEN @ ELSE m.turn]
          /\ deliver' = IF d.turn = NoTurn \/ d.stop # d.turn THEN deliver
                        ELSE [deliver EXCEPT ![<<"started", d.turn>>] =
                                [Idle EXCEPT !.pc = "check", !.turn = d.turn]]
          /\ UNCHANGED <<reply, terminal, refused>>
       \/ /\ m.kind = "completed"
          /\ terminal' = IF d.turn # NoTurn /\ TakesEnd(m)
                         THEN terminal \cup {m.turn} ELSE terminal
          /\ UNCHANGED <<d, deliver, reply, refused>>
    /\ UNCHANGED <<protocol, broker, run, toClient, up, client, put, stops>>

-----------------------------------------------------------------------------
(* The native client (external)                                            *)

Says(kind, t, by, status) ==
    toDriver' = Append(toDriver, [kind |-> kind, turn |-> t, by |-> by,
                                  status |-> status])

\* It takes a prompt and starts a native turn, or refuses it.
ClientStarts ==
    /\ up /\ toClient # <<>>
    /\ Head(toClient).kind = "start"
    /\ toClient' = Tail(toClient)
    /\ \/ /\ native' = Head(toClient).turn
          /\ owes' = IF Codex THEN {"reply", "started"} ELSE {}
          /\ UNCHANGED toDriver
       \/ /\ Refuses
          /\ Says("reply", Head(toClient).turn, Prompter, "err")
          /\ UNCHANGED <<native, owes>>
    /\ UNCHANGED <<protocol, broker, d, run, deliver, reply, terminal, up,
                   halting, hits, history>>

\* Codex responds to turn/start and notifies turn/started, in any order.
ClientSays(kind) ==
    /\ up
    /\ kind \in owes
    /\ owes' = owes \ {kind}
    /\ Says(kind, native, Prompter, "ok")
    /\ UNCHANGED <<protocol, broker, d, run, deliver, reply, terminal, up,
                   toClient, native, halting, history, hits>>

\* The native turn ends.  The response to turn/start may come after that.
ClientEnds ==
    /\ up
    /\ native # NoTurn
    /\ "started" \notin owes
    /\ LET says(kind) == <<[kind |-> kind, turn |-> native, by |-> Prompter,
                           status |-> "ok"]>>
       IN toDriver' = toDriver
                         \o says(IF Codex THEN "completed" ELSE "reply")
                         \o IF "reply" \in owes THEN says("reply") ELSE <<>>
    /\ native' = NoTurn /\ owes' = {} /\ halting' = FALSE
    /\ UNCHANGED <<protocol, broker, d, run, deliver, reply, terminal, up,
                   toClient, history, hits>>

\* It takes a stop.  Codex looks which native turn is meant and responds.
ClientStops ==
    /\ up /\ toClient # <<>>
    /\ Head(toClient).kind = "stop"
    /\ toClient' = Tail(toClient)
    /\ LET m == Head(toClient)
           meant == native # NoTurn /\ (Codex => m.native = native)
       IN \E ok \in BOOLEAN:
          /\ ~ok => Codex /\ (Refuses \/ ~meant)
          /\ ok => ~Codex \/ meant
          /\ halting' = (halting \/ (ok /\ meant))
          /\ hits' = IF ok /\ meant
                     THEN hits \cup {[asked |-> m.turn, stopped |-> native]}
                     ELSE hits
          /\ IF Codex THEN Says("stopped", m.turn, m.by, IF ok THEN "ok" ELSE "err")
             ELSE UNCHANGED toDriver
    /\ UNCHANGED <<protocol, broker, d, run, deliver, reply, terminal, up,
                   native, owes, history>>

\* The client exits, or the turn's time is up and its worker closes it.
ClientExits ==
    /\ Refuses
    /\ up
    /\ Disconnect
    /\ UNCHANGED <<protocol, broker, d, run, deliver, reply, terminal, client,
                   history>>

-----------------------------------------------------------------------------

Prompt == Begin \/ Check \/ Options \/ Start \/ Acknowledged \/ Delivered
             \/ Ends \/ Loses \/ Emit \/ Finish

Deliver(g) == Look(g) \/ Write(g) \/ Unanswered(g)
Call(c) == Record(c) \/ Accept(c)
Serve == ClientStarts \/ ClientStops \/ \E k \in {"reply", "started"}: ClientSays(k)

Next ==
    \/ Admit \/ Prompt \/ Read
    \/ \E c \in Callers: Cancel(c) \/ Call(c)
    \/ \E g \in Goroutines: Deliver(g)
    \/ Serve \/ ClientEnds \/ ClientExits

Spec == Init /\ [][Next]_vars

\* Goroutines run and the client reads its stream, answers, and ends a turn it
\* agreed to stop.  It need not end any other turn.
Fairness ==
    /\ WF_vars(Prompt) /\ WF_vars(Read) /\ WF_vars(Serve)
    /\ WF_vars(halting /\ ClientEnds)
    /\ \A c \in Callers: WF_vars(Call(c))
    /\ \A g \in Goroutines: WF_vars(Look(g) \/ Write(g) \/ (~up /\ Unanswered(g)))

FairSpec == Spec /\ Fairness

-----------------------------------------------------------------------------
(* Properties                                                              *)

\* "delivered once": however the caller of Cancel, the prompt and the
\* turn/started notification race, and however often Stop is clicked, a turn's
\* stop is put on the stream at most once.
StopOnce == \A t \in Turns: stops[t] <= 1

\* A stop never overtakes its prompt: it "only means something while its prompt
\* is on the wire".
StopAfterPrompt == \A t \in Turns: stops[t] > 0 => t \in put

\* "Cancel asks the native client to stop the named turn": what Codex stops is
\* the turn the operator meant, however late the stop is.  (ACP's session/cancel
\* names no turn: there a stop written after its turn ended can meet the next.)
StopHitsItsTurn == Codex => \A h \in hits: h.asked = h.stopped

\* The stop of a turn goes out at most once, after its prompt, and what it
\* stops is that turn: the races of deliverStop's three callers (driver.go:365).
StopIsExact == StopOnce /\ StopAfterPrompt /\ StopHitsItsTurn

\* "a turn the client has not acknowledged yet, or that Prompt has not started,
\* is stopped as soon as it starts, so a Stop is never lost to that race": a
\* turn shown as cancelling comes to an end, unless the client has refused to
\* stop it.  (Stated for the first turn: a delayed Cancel of it can replace the
\* remembered stop of the second.)
StopEndsTurn == cancelling /\ begun = 1 ~> ~cancelling \/ current \in refused
=============================================================================
