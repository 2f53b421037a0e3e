--------------------------- MODULE RequestsProofs ---------------------------
(***************************************************************************)
(* Proofs about the Requests module, for every page, every set of requests *)
(* and every number of calls on their way.                                 *)
(***************************************************************************)
EXTENDS Requests, FiniteSetTheorems, FunctionTheorems, TLAPS

CallRecord == [on : Surfaces, id : Requests, waiting : BOOLEAN,
               status : {"sent", "refused", "accepted", "stale"}]

TypeOK ==
    /\ inFlight \in [Surfaces -> SUBSET Requests] /\ submitted \in [Surfaces -> SUBSET Requests]
    /\ DOMAIN service = Requests
    /\ calls \subseteq CallRecord
    /\ card = [answers |-> card.answers, index |-> card.index, timer |-> card.timer,
               collapsed |-> card.collapsed]
    /\ card.index \in Nat
    /\ draft \in Seq(Words \cup Prompts)

(* A card whose call is waited for is busy, with no other call, and not    *)
(* acknowledged.                                                           *)
Busy ==
    /\ \A c \in calls : c.waiting => c.id \in inFlight[c.on]
    /\ \A c, e \in calls : c.waiting /\ e.waiting /\ c.on = e.on /\ c.id = e.id => c = e
    /\ \A s \in Surfaces : inFlight[s] \cap submitted[s] = {}

(* The runtime has taken an answer of what was accepted or acknowledged.   *)
Taken ==
    /\ \A c \in calls : c.status = "accepted" => service[c.id] # "waiting"
    /\ \A s \in Surfaces, r \in Requests : r \in submitted[s] => service[r] # "waiting"

IInv == TypeOK /\ Busy /\ Taken /\ TimerKeepsItsQuestion /\ DisplacedIsKept

---------------------------------------------------------------------------
(* Records and sequences *)

LEMMA CallWaits ==
  ASSUME NEW c \in CallRecord
  PROVE  LET e == [c EXCEPT !.waiting = FALSE]
         IN e \in CallRecord /\ ~e.waiting /\ e.status = c.status /\ e.id = c.id
  BY Zenon DEF CallRecord

LEMMA CallHandled ==
  ASSUME NEW c \in CallRecord, NEW status \in {"accepted", "stale"}
  PROVE  LET e == [c EXCEPT !.status = status]
         IN /\ e \in CallRecord /\ e.waiting = c.waiting /\ e.status = status
            /\ e.id = c.id /\ e.on = c.on
  BY Zenon DEF CallRecord

LEMMA CallFields ==
  ASSUME NEW c \in CallRecord PROVE c.on \in Surfaces /\ c.id \in Requests
  BY DEF CallRecord

LEMMA Appended ==
  ASSUME NEW S, NEW q \in Seq(S), NEW x \in S
  PROVE  Append(q, x) \in Seq(S) /\ ToSet(Append(q, x)) = ToSet(q) \cup {x}
<1> DEFINE p == Append(q, x)
<1>1. /\ p \in Seq(S) /\ Len(p) = Len(q) + 1 /\ DOMAIN p = 1..Len(p) /\ DOMAIN q = 1..Len(q)
      /\ Len(q) \in Nat /\ \A i \in 1..Len(q) : p[i] = q[i]
      /\ p[Len(q) + 1] = x
  OBVIOUS
<1> HIDE DEF p
<1>2. ToSet(p) \subseteq ToSet(q) \cup {x}
  BY <1>1 DEF ToSet
<1>3. ToSet(q) \cup {x} \subseteq ToSet(p)
  <2>1. \A i \in DOMAIN q : i \in DOMAIN p
    BY <1>1
  <2>2. Len(q) + 1 \in DOMAIN p
    BY <1>1
  <2>3. QED
    BY <1>1, <2>1, <2>2 DEF ToSet
<1>4. QED
  BY <1>1, <1>2, <1>3 DEF p

LEMMA NoElements == ToSet(<<>>) = {}
  BY DEF ToSet

---------------------------------------------------------------------------
(* What a step that leaves a part alone keeps *)

LEMMA CallsKept ==
  ASSUME IInv, UNCHANGED callVars,
         DOMAIN service' = Requests,
         \A r \in Requests : service'[r] = "waiting" => service[r] = "waiting"
  PROVE  Busy' /\ Taken' /\ calls' \subseteq CallRecord
         /\ inFlight' \in [Surfaces -> SUBSET Requests] /\ submitted' \in [Surfaces -> SUBSET Requests]
<1>1. Busy'
  BY DEF IInv, Busy, callVars
<1>2. \A c \in calls : c.id \in Requests
  BY CallFields DEF IInv, TypeOK
<1>3. Taken'
  BY <1>2 DEF IInv, Taken, callVars
<1>4. QED
  BY <1>1, <1>3 DEF IInv, TypeOK, callVars

CardShape(c) == c = [answers |-> c.answers, index |-> c.index, timer |-> c.timer,
                     collapsed |-> c.collapsed] /\ c.index \in Nat

(* Tidied keeps a timer only of the question and the activity it was set in. *)
LEMMA CardTidied ==
  ASSUME IInv, UNCHANGED page, NEW c, CardShape(c), c.timer = card.timer, card' = Tidied(c)
  PROVE  CardShape(card') /\ TimerKeepsItsQuestion'
<1>1. CardShape(card') /\ card'.index = c.index
  BY DEF CardShape, Tidied
<1>2. card'.timer = IF PanelActive' = PanelActive /\ c.index = card.index THEN c.timer ELSE None
  BY DEF CardShape, Tidied
<1>3. ASSUME card'.timer # None PROVE PanelActive' /\ card'.timer = ActiveQuestion'.id
  <2>1. PanelActive' = PanelActive /\ card'.index = card.index /\ card'.timer = card.timer
    BY <1>1, <1>2, <1>3
  <2>2. PanelActive /\ card.timer = ActiveQuestion.id
    BY <1>3, <2>1 DEF IInv, TimerKeepsItsQuestion
  <2>3. ActiveQuestion' = ActiveQuestion
    BY <2>1 DEF ActiveQuestion, form
  <2>4. QED
    BY <2>1, <2>2, <2>3
<1>4. QED
  BY <1>1, <1>3 DEF TimerKeepsItsQuestion

(* The card stays as active as it was. *)
LEMMA CardKept ==
  ASSUME IInv, UNCHANGED page, PanelActive' <=> PanelActive, CardShape(card'),
         card'.timer # None => /\ card'.index = card.index
                               /\ \/ card'.timer = card.timer
                                  \/ PanelActive /\ card'.timer = ActiveQuestion.id
  PROVE  TimerKeepsItsQuestion'
<1> SUFFICES ASSUME card'.timer # None PROVE PanelActive' /\ card'.timer = ActiveQuestion'.id
  BY DEF TimerKeepsItsQuestion
<1>1. ActiveQuestion' = ActiveQuestion
  BY DEF ActiveQuestion, form
<1>2. QED
  BY <1>1 DEF IInv, TimerKeepsItsQuestion

LEMMA PanelKept ==
  ASSUME UNCHANGED <<page, pending, usable, inFlight, submitted>>
  PROVE  PanelActive' <=> PanelActive
  BY DEF PanelActive, Shown, Locked

LEMMA CardNow == ASSUME IInv PROVE CardShape(card)
  BY DEF IInv, TypeOK, CardShape

LEMMA ComposerKept ==
  ASSUME IInv, UNCHANGED <<draft, owed>>
  PROVE  draft' \in Seq(Words \cup Prompts) /\ DisplacedIsKept'
  BY DEF IInv, TypeOK, DisplacedIsKept

LEMMA Together ==
  ASSUME inFlight' \in [Surfaces -> SUBSET Requests], submitted' \in [Surfaces -> SUBSET Requests],
         DOMAIN service' = Requests, calls' \subseteq CallRecord, CardShape(card'),
         draft' \in Seq(Words \cup Prompts),
         Busy', Taken', TimerKeepsItsQuestion', DisplacedIsKept'
  PROVE  IInv'
  BY DEF IInv, TypeOK, CardShape

---------------------------------------------------------------------------
(* Answers *)

LEMMA RespondStep ==
  ASSUME IInv, NEW s \in Surfaces, NEW r \in Requests, NEW answer, Respond(s, r, answer)
  PROVE  IInv'
<1> DEFINE c == Call(s, r, answer)
<1>1. /\ r \notin inFlight[s] /\ r \notin submitted[s]
      /\ inFlight' = [inFlight EXCEPT ![s] = @ \cup {r}] /\ calls' = calls \cup {c}
      /\ UNCHANGED <<page, service, submitted, draft, owed>> /\ card' = Tidied(card)
  BY DEF Respond, Locked, requestVars, composerVars
<1>2. c \in CallRecord /\ c.on = s /\ c.id = r /\ c.status \in {"sent", "refused"}
  <2>1. (IF Passes(r, answer) THEN "sent" ELSE "refused") \in {"sent", "refused"}
    OBVIOUS
  <2>2. QED
    BY <2>1, Zenon DEF Call, CallRecord
<1> HIDE DEF c
<1>3. inFlight \in [Surfaces -> SUBSET Requests] /\ calls \subseteq CallRecord
  BY DEF IInv, TypeOK
<1>4. /\ inFlight' \in [Surfaces -> SUBSET Requests]
      /\ \A t \in Surfaces : inFlight'[t] = IF t = s THEN inFlight[t] \cup {r} ELSE inFlight[t]
  BY <1>1, <1>3
<1>5. Busy'
  <2>1. ASSUME NEW e \in calls', e.waiting PROVE e.id \in inFlight'[e.on]
    <3>1. CASE e = c
      BY <1>2, <1>4, <3>1
    <3>2. CASE e \in calls
      <4>1. e.on \in Surfaces /\ e.id \in inFlight[e.on]
        BY <1>3, <2>1, <3>2, CallFields DEF IInv, Busy
      <4>2. QED
        BY <1>4, <4>1
    <3>3. QED
      BY <1>1, <3>1, <3>2
  <2>2. ASSUME NEW e \in calls, e.waiting, e.on = s, e.id = r PROVE FALSE
    BY <1>1, <2>2 DEF IInv, Busy
  <2>3. ASSUME NEW e \in calls', NEW f \in calls', e.waiting, f.waiting, e.on = f.on, e.id = f.id
        PROVE  e = f
    BY <1>1, <1>2, <2>2, <2>3 DEF IInv, Busy
  <2>4. \A t \in Surfaces : inFlight'[t] \cap submitted'[t] = {}
    BY <1>1, <1>4 DEF IInv, Busy
  <2>5. QED
    BY <2>1, <2>3, <2>4 DEF Busy
<1>6. Taken'
  BY <1>1, <1>2 DEF IInv, Taken
<1>7. CardShape(card') /\ TimerKeepsItsQuestion'
  BY <1>1, CardNow, CardTidied
<1>8. draft' \in Seq(Words \cup Prompts) /\ DisplacedIsKept'
  BY <1>1, ComposerKept
<1>9. DOMAIN service' = Requests /\ submitted' \in [Surfaces -> SUBSET Requests]
      /\ calls' \subseteq CallRecord
  BY <1>1, <1>2 DEF IInv, TypeOK
<1>10. QED
  BY <1>4, <1>5, <1>6, <1>7, <1>8, <1>9, Together

LEMMA ServiceHandlesStep ==
  ASSUME IInv, NEW c \in calls, ServiceHandles(c) PROVE IInv'
<1> DEFINE fresh == service[c.id] = "waiting"
           status == IF fresh THEN "accepted" ELSE "stale"
           h == [c EXCEPT !.status = status]
<1>1. /\ service' = IF fresh THEN [service EXCEPT ![c.id] = "answered"] ELSE service
      /\ calls' = (calls \ {c}) \cup IF c.waiting THEN {h} ELSE {}
      /\ UNCHANGED <<page, pending, usable, inFlight, submitted, card, draft, owed>>
  BY DEF ServiceHandles, composerVars
<1>2. c \in CallRecord /\ c.id \in Requests /\ DOMAIN service = Requests /\ calls \subseteq CallRecord
  BY CallFields DEF IInv, TypeOK
<1>3. /\ DOMAIN service' = Requests /\ service'[c.id] # "waiting"
      /\ \A r \in Requests : service'[r] = "waiting" => service[r] = "waiting"
  BY <1>1, <1>2
<1>4. status \in {"accepted", "stale"}
  OBVIOUS
<1> HIDE DEF status
<1>5. h \in CallRecord /\ h.waiting = c.waiting /\ h.status = status /\ h.id = c.id /\ h.on = c.on
  BY <1>2, <1>4, CallHandled
<1> HIDE DEF h, fresh
<1>6. calls' \subseteq CallRecord /\ \A e \in calls' : (e \in calls /\ e # c) \/ (e = h /\ c.waiting)
  BY <1>1, <1>2, <1>5
<1>7. Busy'
  <2>1. ASSUME NEW e \in calls', e.waiting PROVE e.id \in inFlight[e.on]
    BY <1>5, <1>6, <2>1 DEF IInv, Busy
  <2>2. ASSUME NEW e \in calls', NEW f \in calls', e.waiting, f.waiting, e.on = f.on, e.id = f.id
        PROVE  e = f
    BY <1>5, <1>6, <2>2 DEF IInv, Busy
  <2>3. QED
    BY <1>1, <2>1, <2>2 DEF IInv, Busy
<1>8. Taken'
  <2>1. ASSUME NEW e \in calls', e.status = "accepted" PROVE service'[e.id] # "waiting"
    <3>1. CASE e \in calls
      <4>1. e.id \in Requests /\ service[e.id] # "waiting"
        BY <1>2, <2>1, <3>1, CallFields DEF IInv, Taken
      <4>2. QED
        BY <1>3, <4>1
    <3>2. CASE e = h
      BY <1>3, <1>5, <3>2
    <3>3. QED
      BY <1>6, <3>1, <3>2
  <2>2. \A s \in Surfaces, r \in Requests : r \in submitted'[s] => service'[r] # "waiting"
    BY <1>1, <1>3 DEF IInv, Taken
  <2>3. QED
    BY <2>1, <2>2 DEF Taken
<1>9. CardShape(card') /\ TimerKeepsItsQuestion'
  BY <1>1, CardNow, CardKept, PanelKept
<1>10. draft' \in Seq(Words \cup Prompts) /\ DisplacedIsKept'
  BY <1>1, ComposerKept
<1>11. inFlight' \in [Surfaces -> SUBSET Requests] /\ submitted' \in [Surfaces -> SUBSET Requests]
  BY <1>1 DEF IInv, TypeOK
<1>12. QED
  BY <1>3, <1>6, <1>7, <1>8, <1>9, <1>10, <1>11, Together

(* A call is no longer waited for: its reply came, or its deadline passed. *)
LEMMA CallEnds ==
  ASSUME IInv, NEW c \in calls, c.waiting,
         inFlight' = [inFlight EXCEPT ![c.on] = @ \ {c.id}],
         \/ submitted' = submitted
         \/ c.status = "accepted" /\ submitted' = [submitted EXCEPT ![c.on] = @ \cup {c.id}],
         \/ calls' = calls \ {c}
         \/ c.status = "sent" /\ calls' = (calls \ {c}) \cup {[c EXCEPT !.waiting = FALSE]},
         UNCHANGED <<page, service, draft, owed>>, card' = Tidied(card)
  PROVE  IInv'
<1> DEFINE e0 == [c EXCEPT !.waiting = FALSE]
<1>1. c \in CallRecord /\ c.on \in Surfaces /\ c.id \in Requests /\ calls \subseteq CallRecord
  BY CallFields DEF IInv, TypeOK
<1>2. e0 \in CallRecord /\ ~e0.waiting /\ e0.status = c.status
  BY <1>1, CallWaits
<1>3. /\ inFlight' \in [Surfaces -> SUBSET Requests]
      /\ \A s \in Surfaces : inFlight'[s] = IF s = c.on THEN inFlight[s] \ {c.id} ELSE inFlight[s]
  BY <1>1 DEF IInv, TypeOK
<1>4. /\ submitted' \in [Surfaces -> SUBSET Requests]
      /\ \A s \in Surfaces : submitted'[s] \subseteq
            submitted[s] \cup IF s = c.on /\ c.status = "accepted" THEN {c.id} ELSE {}
  BY <1>1 DEF IInv, TypeOK
<1> HIDE DEF e0
<1>5. /\ calls' \subseteq CallRecord
      /\ \A e \in calls' : (e \in calls /\ e # c) \/ (e = e0 /\ c.status = "sent")
  BY <1>1, <1>2 DEF e0
<1>6. Busy'
  <2>1. ASSUME NEW e \in calls', e.waiting PROVE e.id \in inFlight'[e.on]
    <3>1. e \in calls /\ e # c /\ e.on \in Surfaces
      BY <1>1, <1>2, <1>5, <2>1, CallFields
    <3>2. e.id \in inFlight[e.on] /\ ~(e.on = c.on /\ e.id = c.id)
      BY <2>1, <3>1 DEF IInv, Busy
    <3>3. QED
      BY <1>3, <3>1, <3>2
  <2>2. ASSUME NEW e \in calls', NEW f \in calls', e.waiting, f.waiting, e.on = f.on, e.id = f.id
        PROVE  e = f
    BY <1>2, <1>5, <2>2 DEF IInv, Busy
  <2>3. \A s \in Surfaces : inFlight'[s] \cap submitted'[s] = {}
    BY <1>3, <1>4 DEF IInv, Busy
  <2>4. QED
    BY <2>1, <2>2, <2>3 DEF Busy
<1>7. Taken'
  <2>1. \A e \in calls' : e.status = "accepted" => service'[e.id] # "waiting"
    BY <1>2, <1>5 DEF IInv, Taken
  <2>2. \A s \in Surfaces, r \in Requests : r \in submitted'[s] => service'[r] # "waiting"
    BY <1>4 DEF IInv, Taken
  <2>3. QED
    BY <2>1, <2>2 DEF Taken
<1>8. CardShape(card') /\ TimerKeepsItsQuestion'
  BY CardNow, CardTidied
<1>9. draft' \in Seq(Words \cup Prompts) /\ DisplacedIsKept'
  BY ComposerKept
<1>10. DOMAIN service' = Requests
  BY DEF IInv, TypeOK
<1>11. QED
  BY <1>3, <1>4, <1>5, <1>6, <1>7, <1>8, <1>9, <1>10, Together

LEMMA ReturnsStep == ASSUME IInv, NEW c \in calls, Returns(c) PROVE IInv'
<1>1. /\ c.waiting /\ calls' = calls \ {c} /\ inFlight' = [inFlight EXCEPT ![c.on] = @ \ {c.id}]
      /\ submitted' = [submitted EXCEPT ![c.on] = IF c.status = "accepted" THEN @ \cup {c.id} ELSE @]
      /\ UNCHANGED <<page, service, draft, owed>> /\ card' = Tidied(card)
  BY DEF Returns, composerVars
<1>2. \/ submitted' = submitted
      \/ c.status = "accepted" /\ submitted' = [submitted EXCEPT ![c.on] = @ \cup {c.id}]
  BY <1>1 DEF IInv, TypeOK
<1>3. QED
  BY <1>1, <1>2, CallEnds

LEMMA DeadlineStep == ASSUME IInv, NEW c \in calls, Deadline(c) PROVE IInv'
<1>1. /\ c.waiting /\ inFlight' = [inFlight EXCEPT ![c.on] = @ \ {c.id}] /\ submitted' = submitted
      /\ UNCHANGED <<page, service, draft, owed>> /\ card' = Tidied(card)
      /\ calls' = (calls \ {c}) \cup IF c.status = "sent" THEN {[c EXCEPT !.waiting = FALSE]} ELSE {}
  BY DEF Deadline, composerVars, requestVars
<1>2. \/ calls' = calls \ {c}
      \/ c.status = "sent" /\ calls' = (calls \ {c}) \cup {[c EXCEPT !.waiting = FALSE]}
  BY <1>1
<1>3. QED
  BY <1>1, <1>2, CallEnds

---------------------------------------------------------------------------
(* The stream and the host *)

LEMMA UnmountStep ==
  ASSUME IInv, NEW ids \in SUBSET Requests, Unmount(ids),
         UNCHANGED <<page, service, usable, draft, owed>>,
         Question \notin ids => pending'[Question] = pending[Question]
  PROVE  IInv'
<1>1. /\ inFlight' = [s \in Surfaces |-> inFlight[s] \ ids]
      /\ submitted' = [s \in Surfaces |-> submitted[s] \ ids]
      /\ calls' = {IF c.id \in ids THEN [c EXCEPT !.waiting = FALSE] ELSE c : c \in
                     {c \in calls : c.id \notin ids \/ c.status = "sent"}}
      /\ card' = IF Question \in ids THEN FreshCard ELSE card
  BY DEF Unmount
<1>2. /\ inFlight' \in [Surfaces -> SUBSET Requests] /\ submitted' \in [Surfaces -> SUBSET Requests]
      /\ \A s \in Surfaces : inFlight'[s] = inFlight[s] \ ids /\ submitted'[s] = submitted[s] \ ids
  BY <1>1 DEF IInv, TypeOK
<1>3. ASSUME NEW e \in calls'
      PROVE  /\ e \in CallRecord
             /\ e.waiting => e \in calls /\ e.id \notin ids
             /\ e.status = "accepted" => e \in calls
  <2>1. PICK c \in calls : /\ c.id \notin ids \/ c.status = "sent"
                           /\ e = IF c.id \in ids THEN [c EXCEPT !.waiting = FALSE] ELSE c
    BY <1>1, <1>3
  <2>2. c \in CallRecord
    BY DEF IInv, TypeOK
  <2>3. CASE c.id \notin ids
    BY <2>1, <2>2, <2>3
  <2>4. CASE c.id \in ids
    <3>1. e \in CallRecord /\ ~e.waiting /\ e.status = c.status
      BY <2>1, <2>2, <2>4, CallWaits
    <3>2. QED
      BY <2>1, <2>4, <3>1
  <2>5. QED
    BY <2>3, <2>4
<1>4. Busy'
  <2>1. ASSUME NEW e \in calls', e.waiting PROVE e.id \in inFlight'[e.on]
    BY <1>2, <1>3, <2>1, CallFields DEF IInv, Busy
  <2>2. ASSUME NEW e \in calls', NEW f \in calls', e.waiting, f.waiting, e.on = f.on, e.id = f.id
        PROVE  e = f
    BY <1>3, <2>2 DEF IInv, Busy
  <2>3. \A s \in Surfaces : inFlight'[s] \cap submitted'[s] = {}
    BY <1>2 DEF IInv, Busy
  <2>4. QED
    BY <2>1, <2>2, <2>3 DEF Busy
<1>5. Taken'
  BY <1>2, <1>3 DEF IInv, Taken
<1>6. CardShape(card') /\ TimerKeepsItsQuestion'
  <2>1. CASE Question \in ids
    <3>1. card' = [answers |-> NoAnswers, index |-> 1, timer |-> None, collapsed |-> None]
      BY <1>1, <2>1 DEF FreshCard
    <3>2. QED
      BY <3>1 DEF CardShape, TimerKeepsItsQuestion
  <2>2. CASE Question \notin ids
    <3>1. Conversation \in Surfaces
      BY DEF Surfaces
    <3>2. PanelActive' <=> PanelActive
      BY <1>2, <2>2, <3>1 DEF PanelActive, Shown, Locked
    <3>3. QED
      BY <1>1, <2>2, <3>2, CardNow, CardKept
  <2>3. QED
    BY <2>1, <2>2
<1>7. draft' \in Seq(Words \cup Prompts) /\ DisplacedIsKept'
  BY ComposerKept
<1>8. DOMAIN service' = Requests /\ calls' \subseteq CallRecord
  BY <1>3 DEF IInv, TypeOK
<1>9. QED
  BY <1>2, <1>4, <1>5, <1>6, <1>7, <1>8, Together

(* Only the card may notice: its timer is dropped when it does. *)
LEMMA NoticeStep ==
  ASSUME IInv, UNCHANGED <<page, service, callVars, draft, owed>>,
         card' = Tidied(card)
  PROVE  IInv'
<1>1. DOMAIN service' = Requests
  BY DEF IInv, TypeOK
<1>2. Busy' /\ Taken' /\ calls' \subseteq CallRecord
      /\ inFlight' \in [Surfaces -> SUBSET Requests] /\ submitted' \in [Surfaces -> SUBSET Requests]
  BY <1>1, CallsKept
<1>3. CardShape(card') /\ TimerKeepsItsQuestion'
  BY CardNow, CardTidied
<1>4. draft' \in Seq(Words \cup Prompts) /\ DisplacedIsKept'
  BY ComposerKept
<1>5. QED
  BY <1>1, <1>2, <1>3, <1>4, Together

(* Neither the calls nor what makes the card active changes. *)
LEMMA QuietStep ==
  ASSUME IInv, UNCHANGED <<page, pending, usable, callVars>>,
         DOMAIN service' = Requests,
         \A r \in Requests : service'[r] = "waiting" => service[r] = "waiting",
         CardShape(card'),
         card'.timer # None => /\ card'.index = card.index
                               /\ \/ card'.timer = card.timer
                                  \/ PanelActive /\ card'.timer = ActiveQuestion.id,
         draft' \in Seq(Words \cup Prompts), DisplacedIsKept'
  PROVE  IInv'
<1>1. Busy' /\ Taken' /\ calls' \subseteq CallRecord
      /\ inFlight' \in [Surfaces -> SUBSET Requests] /\ submitted' \in [Surfaces -> SUBSET Requests]
  BY CallsKept
<1>2. TimerKeepsItsQuestion'
  BY PanelKept, CardKept DEF callVars
<1>3. QED
  BY <1>1, <1>2, Together

LEMMA StreamSteps ==
  ASSUME IInv,
         \/ \E r \in Requests : Withdraw(r) \/ SubmittedEvent(r) \/ ResolvedEvent(r) \/ Age(r)
         \/ \E s \in Surfaces, r \in Requests : Refresh(s, r) \/ RefreshEnds(s, r)
         \/ Reset \/ Reseed
         \/ \E s \in Surfaces : SetSurface(s)
  PROVE  IInv'
<1>1. ASSUME NEW r \in Requests, Withdraw(r) PROVE IInv'
  <2>1. /\ service' = [service EXCEPT ![r] = "gone"]
        /\ UNCHANGED <<page, pending, usable, callVars, card, draft, owed>>
    BY <1>1 DEF Withdraw, composerVars
  <2>2. /\ DOMAIN service' = Requests
        /\ \A q \in Requests : service'[q] = "waiting" => service[q] = "waiting"
    BY <2>1 DEF IInv, TypeOK
  <2>3. CardShape(card') /\ draft' \in Seq(Words \cup Prompts) /\ DisplacedIsKept'
    BY <2>1, CardNow, ComposerKept
  <2>4. QED
    BY <2>1, <2>2, <2>3, QuietStep
<1>2. ASSUME NEW r \in Requests, SubmittedEvent(r) PROVE IInv'
  BY <1>2, NoticeStep DEF SubmittedEvent, composerVars
<1>3. ASSUME NEW r \in Requests, ResolvedEvent(r) PROVE IInv'
  <2>1. /\ Unmount({r}) /\ pending' = [pending EXCEPT ![r] = None]
        /\ UNCHANGED <<page, service, usable, draft, owed>>
    BY <1>3 DEF ResolvedEvent, composerVars
  <2>2. Question \notin {r} => pending'[Question] = pending[Question]
    BY <2>1
  <2>3. QED
    BY <2>1, <2>2, UnmountStep
<1>4. ASSUME UNCHANGED <<page, service, pending, usable, callVars, card, composerVars>> PROVE IInv'
  <2>1. DOMAIN service' = Requests /\ UNCHANGED <<draft, owed>>
    BY <1>4 DEF IInv, TypeOK, composerVars
  <2>2. CardShape(card') /\ draft' \in Seq(Words \cup Prompts) /\ DisplacedIsKept'
    BY <1>4, <2>1, CardNow, ComposerKept
  <2>3. QED
    BY <1>4, <2>1, <2>2, QuietStep
<1>5. ASSUME Reset PROVE IInv'
  <2>1. Unmount(Requests) /\ UNCHANGED <<page, service, usable, draft, owed>>
    BY <1>5 DEF Reset, composerVars
  <2>2. Question \in Requests
    BY DEF Requests
  <2>3. QED
    BY <2>1, <2>2, UnmountStep
<1>6. ASSUME Reseed PROVE IInv'
  BY <1>6, NoticeStep DEF Reseed, composerVars
<1>7. ASSUME NEW s \in Surfaces, SetSurface(s) PROVE IInv'
  BY <1>7, NoticeStep DEF SetSurface, composerVars, requestVars
<1>8. ASSUME NEW r \in Requests, Age(r) PROVE IInv'
  BY <1>4, <1>8 DEF Age
<1>9. ASSUME NEW s \in Surfaces, NEW r \in Requests, Refresh(s, r) \/ RefreshEnds(s, r) PROVE IInv'
  BY <1>4, <1>9 DEF Refresh, RefreshEnds
<1>10. QED
  BY <1>1, <1>2, <1>3, <1>5, <1>6, <1>7, <1>8, <1>9

---------------------------------------------------------------------------
(* The question card *)

LEMMA PickOptionStep == ASSUME IInv, NEW o \in Offered, PickOption(o) PROVE IInv'
<1> DEFINE q == ActiveQuestion
           text == card.answers[q.id].custom
           displaced == normalizeDraftAnswer(text) # None /\ ~q.isSecret /\ page.composerEnabled
           timer == IF q.multiSelect THEN card.timer ELSE q.id
<1>1. /\ PanelActive
      /\ \E answers : card' = [card EXCEPT !.answers = answers, !.timer = timer]
      /\ draft' = IF displaced THEN carryDisplacedCustomAnswerIntoPrompt(draft, text) ELSE draft
      /\ owed' = IF displaced THEN owed \cup {text} ELSE owed
      /\ UNCHANGED <<page, service, pending, usable, callVars>>
  BY DEF PickOption, OptionShown, requestVars
<1>2. CardShape(card') /\ card'.index = card.index /\ card'.timer = timer
  BY <1>1, CardNow DEF CardShape
<1>3. draft' \in Seq(Words \cup Prompts) /\ DisplacedIsKept'
  <2>1. CASE ~displaced
    BY <1>1, <2>1, ComposerKept
  <2>2. CASE displaced
    <3>1. text \in Words /\ draft' = Append(draft, text) /\ owed' = owed \cup {text}
      BY <1>1, <2>2 DEF normalizeDraftAnswer, carryDisplacedCustomAnswerIntoPrompt
    <3>2. draft' \in Seq(Words \cup Prompts) /\ ToSet(draft') = ToSet(draft) \cup {text}
      BY <3>1, Appended DEF IInv, TypeOK
    <3>3. QED
      BY <3>1, <3>2 DEF IInv, DisplacedIsKept
  <2>3. QED
    BY <2>1, <2>2
<1>4. DOMAIN service' = Requests
  BY <1>1 DEF IInv, TypeOK
<1>5. QED
  BY <1>1, <1>2, <1>3, <1>4, QuietStep

LEMMA AdvancedShape ==
  ASSUME IInv PROVE CardShape(Advanced(card)) /\ Advanced(card).timer = card.timer
  BY CardNow DEF Advanced, CardShape

LEMMA CardSteps ==
  ASSUME IInv,
         \/ \E text \in Texts : TypeAnswer(text)
         \/ NextQuestion \/ PreviousQuestion \/ AdvanceTimer \/ Collapse
  PROVE  IInv'
<1> DEFINE Still == UNCHANGED <<page, requestVars, usable, callVars, composerVars>>
<1>1. ASSUME Still, CardShape(card'),
             card'.timer # None => card'.index = card.index /\ card'.timer = card.timer
      PROVE  IInv'
  <2>1. UNCHANGED <<page, service, pending, usable, callVars, draft, owed>>
    BY <1>1 DEF requestVars, composerVars
  <2>2. DOMAIN service' = Requests
    BY <2>1 DEF IInv, TypeOK
  <2>3. draft' \in Seq(Words \cup Prompts) /\ DisplacedIsKept'
    BY <2>1, ComposerKept
  <2>4. QED
    BY <1>1, <2>1, <2>2, <2>3, QuietStep
<1>2. ASSUME Still, NEW c, CardShape(c), c.timer = card.timer, card' = Tidied(c) PROVE IInv'
  <2>1. UNCHANGED <<page, service, callVars, draft, owed>>
    BY <1>2 DEF requestVars, composerVars
  <2>2. DOMAIN service' = Requests
    BY <2>1 DEF IInv, TypeOK
  <2>3. Busy' /\ Taken' /\ calls' \subseteq CallRecord
        /\ inFlight' \in [Surfaces -> SUBSET Requests] /\ submitted' \in [Surfaces -> SUBSET Requests]
    BY <2>1, <2>2, CallsKept
  <2>4. CardShape(card') /\ TimerKeepsItsQuestion'
    BY <1>2, <2>1, CardTidied
  <2>5. draft' \in Seq(Words \cup Prompts) /\ DisplacedIsKept'
    BY <2>1, ComposerKept
  <2>6. QED
    BY <2>2, <2>3, <2>4, <2>5, Together
<1>3. ASSUME NEW text \in Texts, TypeAnswer(text) PROVE IInv'
  <2>1. Still /\ \E answers : card' = [card EXCEPT !.answers = answers]
    BY <1>3 DEF TypeAnswer
  <2>2. CardShape(card') /\ card'.index = card.index /\ card'.timer = card.timer
    BY <2>1, CardNow DEF CardShape
  <2>3. QED
    BY <1>1, <2>1, <2>2
<1>4. ASSUME NextQuestion PROVE IInv'
  BY <1>2, <1>4, AdvancedShape DEF NextQuestion
<1>5. ASSUME PreviousQuestion PROVE IInv'
  <2> DEFINE c == [card EXCEPT !.index = @ - 1]
  <2>1. Still /\ card.index > 1 /\ card' = Tidied(c)
    BY <1>5 DEF PreviousQuestion
  <2>2. CardShape(c) /\ c.timer = card.timer
    BY <2>1, CardNow DEF CardShape
  <2> HIDE DEF c
  <2>3. QED
    BY <1>2, <2>1, <2>2
<1>6. ASSUME AdvanceTimer PROVE IInv'
  <2>1. Still /\ card' = [(IF PanelActive THEN Advanced(card) ELSE card) EXCEPT !.timer = None]
    BY <1>6 DEF AdvanceTimer
  <2>2. CardShape(card') /\ card'.timer = None
    BY <2>1, CardNow, AdvancedShape DEF CardShape
  <2>3. QED
    BY <1>1, <2>1, <2>2
<1>7. ASSUME Collapse PROVE IInv'
  <2>1. Still /\ \E x : card' = [card EXCEPT !.collapsed = x]
    BY <1>7 DEF Collapse
  <2>2. CardShape(card') /\ card'.index = card.index /\ card'.timer = card.timer
    BY <2>1, CardNow DEF CardShape
  <2>3. QED
    BY <1>1, <2>1, <2>2
<1>8. QED
  BY <1>3, <1>4, <1>5, <1>6, <1>7

---------------------------------------------------------------------------
(* The composer *)

LEMMA ComposerSteps ==
  ASSUME IInv,
         \/ \E w \in Prompts : Keystroke(w)
         \/ Erase \/ EditorFollows \/ Send \/ SendReturns \/ Interrupt \/ ComposerFrees
  PROVE  IInv'
<1>1. UNCHANGED <<page, service, pending, usable, callVars, card>>
  BY DEF Keystroke, Erase, EditorFollows, Send, SendReturns, Interrupt, ComposerFrees, requestVars
<1>2. draft' \in Seq(Words \cup Prompts) /\ DisplacedIsKept'
  <2>1. ASSUME NEW w \in Prompts, Keystroke(w) PROVE <1>2!1 /\ DisplacedIsKept'
    <3>1. UNCHANGED owed /\ (draft' = draft \/ draft' = Append(draft, w))
      BY <2>1 DEF Keystroke
    <3>2. draft \in Seq(Words \cup Prompts) /\ owed \subseteq ToSet(draft)
      BY DEF IInv, TypeOK, DisplacedIsKept
    <3>3. CASE draft' = draft
      BY <3>1, <3>3, ComposerKept
    <3>4. CASE draft' = Append(draft, w)
      <4>1. draft' \in Seq(Words \cup Prompts) /\ ToSet(draft') = ToSet(draft) \cup {w}
        BY <3>2, <3>4, Appended
      <4>2. QED
        BY <3>1, <3>2, <4>1 DEF DisplacedIsKept
    <3>5. QED
      BY <3>1, <3>3, <3>4
  <2>2. ASSUME Erase PROVE <1>2!1 /\ DisplacedIsKept'
    BY <2>2 DEF Erase, DisplacedIsKept
  <2>3. ASSUME SendReturns PROVE <1>2!1 /\ DisplacedIsKept'
    <3>1. /\ owed' = owed \ ToSet(sending.text)
          /\ draft' = IF draft = sending.text THEN <<>> ELSE draft
      BY <2>3 DEF SendReturns
    <3>2. draft \in Seq(Words \cup Prompts) /\ owed \subseteq ToSet(draft)
      BY DEF IInv, TypeOK, DisplacedIsKept
    <3>3. CASE draft = sending.text
      BY <3>1, <3>2, <3>3 DEF DisplacedIsKept
    <3>4. CASE draft # sending.text
      BY <3>1, <3>2, <3>4 DEF DisplacedIsKept
    <3>5. QED
      BY <3>3, <3>4
  <2>4. ASSUME EditorFollows \/ Send \/ Interrupt \/ ComposerFrees PROVE <1>2!1 /\ DisplacedIsKept'
    BY <2>4, ComposerKept DEF EditorFollows, Send, Interrupt, ComposerFrees
  <2>5. QED
    BY <2>1, <2>2, <2>3, <2>4
<1>3. DOMAIN service' = Requests /\ CardShape(card')
  BY <1>1, CardNow DEF IInv, TypeOK
<1>4. QED
  BY <1>1, <1>2, <1>3, QuietStep

---------------------------------------------------------------------------
(* Theorems *)

LEMMA InitIInv == ASSUME Init PROVE IInv
<1>1. card = [answers |-> NoAnswers, index |-> 1, timer |-> None, collapsed |-> None]
  BY DEF Init, FreshCard
<1>2. TypeOK
  BY <1>1 DEF Init, TypeOK
<1>3. Busy /\ Taken
  BY DEF Init, Busy, Taken
<1>4. TimerKeepsItsQuestion /\ DisplacedIsKept
  BY <1>1 DEF Init, TimerKeepsItsQuestion, DisplacedIsKept
<1>5. QED
  BY <1>2, <1>3, <1>4 DEF IInv

LEMMA NextIInv == ASSUME IInv, [Next]_vars PROVE IInv'
<1>1. CASE UNCHANGED vars
  <2>1. UNCHANGED <<page, pending, usable, callVars, service, card, draft, owed>>
    BY <1>1 DEF vars, requestVars, composerVars
  <2>2. DOMAIN service' = Requests
    BY <2>1 DEF IInv, TypeOK
  <2>3. CardShape(card') /\ draft' \in Seq(Words \cup Prompts) /\ DisplacedIsKept'
    BY <2>1, CardNow, ComposerKept
  <2>4. QED
    BY <2>1, <2>2, <2>3, QuietStep
<1>2. CASE \E s \in Surfaces, r \in Requests :
             CancelRequest(s, r) \/ \E option \in Offered : Approve(s, r, option)
  BY <1>2, RespondStep DEF CancelRequest, Approve
<1>3. CASE SubmitAnswers
  BY <1>3, RespondStep DEF SubmitAnswers, Surfaces, Requests
<1>4. CASE \E c \in calls : ServiceHandles(c) \/ Returns(c) \/ Deadline(c)
  BY <1>4, ServiceHandlesStep, ReturnsStep, DeadlineStep
<1>5. QED
  BY <1>1, <1>2, <1>3, <1>4, StreamSteps, PickOptionStep, CardSteps, ComposerSteps DEF Next

(* The invariant the theorems rest on holds in every reachable state.      *)
THEOREM Inductive == Spec => []IInv
  BY InitIInv, NextIInv, PTL DEF Spec

(* A card waits for one answer at a time and for none once its answer was  *)
(* acknowledged, whatever clicks, replies, deadlines, resets and events    *)
(* come between (respond and submit of T3Conversation.tsx).                *)
THEOREM AnswersCorrect == Spec => []OneAnswerPerCard
<1>1. IInv => OneAnswerPerCard
  <2> SUFFICES ASSUME IInv, NEW s \in Surfaces, NEW r \in Requests
               PROVE  LET mine == {c \in calls : c.waiting /\ c.on = s /\ c.id = r}
                      IN Cardinality(mine) <= 1 /\ (r \in submitted[s] => mine = {})
    BY DEF OneAnswerPerCard
  <2> DEFINE mine == {c \in calls : c.waiting /\ c.on = s /\ c.id = r}
  <2>1. \A c, e \in mine : c = e
    BY DEF IInv, Busy
  <2>2. mine = {} \/ \E c : mine = {c}
    BY <2>1
  <2>3. r \in submitted[s] => mine = {}
    BY DEF IInv, Busy
  <2> HIDE DEF mine
  <2>4. Cardinality(mine) <= 1
    <3>1. CASE mine = {}
      BY <3>1, FS_EmptySet
    <3>2. CASE \E c : mine = {c}
      BY <3>2, FS_Singleton
    <3>3. QED
      BY <2>2, <3>1, <3>2
  <2>5. QED
    BY <2>3, <2>4 DEF mine
<1>2. QED
  BY <1>1, Inductive, PTL

(* A card says its response is submitted only when the runtime took one: a *)
(* deadline or a failure acknowledges nothing.                             *)
THEOREM SubmittedCorrect == Spec => []SubmittedIsAnswered
<1>1. IInv => SubmittedIsAnswered
  BY DEF IInv, Taken, SubmittedIsAnswered
<1>2. QED
  BY <1>1, Inductive, PTL

(* A delayed advance that is still set belongs to the question on screen,  *)
(* on a card that may answer (ComposerPendingUserInputPanel.tsx).          *)
THEOREM TimerCorrect == Spec => []TimerKeepsItsQuestion
<1>1. IInv => TimerKeepsItsQuestion
  BY DEF IInv
<1>2. QED
  BY <1>1, Inductive, PTL

(* Text an option displaced stays in the draft until it is sent or erased, *)
(* also when the reply to an earlier send comes meanwhile.                 *)
THEOREM DisplacedCorrect == Spec => []DisplacedIsKept
<1>1. IInv => DisplacedIsKept
  BY DEF IInv
<1>2. QED
  BY <1>1, Inductive, PTL

---------------------------------------------------------------------------
(* The choices among some, in their order *)

(* A set of numbers with 0 and the successor of each of its members.       *)
LEMMA AllNumbers ==
  ASSUME NEW Good, 0 \in Good, \A n \in Nat : n \in Good => n + 1 \in Good
  PROVE  \A n \in Nat : n \in Good
<1> DEFINE R == OpToRel(<, Nat)
           Bad == {n \in Nat : n \notin Good}
<1>1. SUFFICES ASSUME Bad # {} PROVE FALSE
  OBVIOUS
<1>2. IsWellFoundedOn(R, Nat)
  BY NatLessThanWellFounded
<1>3. \E n \in Bad : \A m \in Bad : ~ (<<m, n>> \in R)
  <2>1. Bad \subseteq Nat
    OBVIOUS
  <2> HIDE DEF R, Bad
  <2>2. QED
    BY <1>1, <1>2, <2>1, WFMin
<1>4. \A n, m \in Nat : <<m, n>> \in R <=> m < n
  BY DEF OpToRel
<1> HIDE DEF R
<1>5. PICK n \in Bad : \A m \in Bad : ~ (<<m, n>> \in R)
  BY <1>3
<1>6. n # 0 /\ n \in Nat /\ n - 1 \in Nat /\ n - 1 < n
  BY <1>5
<1>7. n - 1 \notin Bad
  BY <1>4, <1>5, <1>6, Zenon
<1>8. n - 1 \in Good
  BY <1>6, <1>7
<1>9. (n - 1) + 1 \in Good
  BY <1>6, <1>8, Zenon
<1>10. QED
  BY <1>5, <1>6, <1>9

(* The recursion of Within, as far as k. *)
IsWithin(f, choices, S, k) ==
    f = [n \in 0..k |-> IF n = 0 THEN <<>>
                        ELSE IF choices[n] \in S THEN Append(f[n - 1], choices[n]) ELSE f[n - 1]]

LEMMA WithinLonger ==
  ASSUME NEW choices, NEW S, NEW k \in Nat, NEW g, IsWithin(g, choices, S, k)
  PROVE  \E h : IsWithin(h, choices, S, k + 1)
<1> DEFINE h == [n \in 0..(k + 1) |->
                   IF n = k + 1 THEN IF choices[n] \in S THEN Append(g[k], choices[n]) ELSE g[k]
                   ELSE g[n]]
<1>1. h[k] = g[k]
  OBVIOUS
<1>2. \A n \in 0..(k + 1) :
        h[n] = IF n = 0 THEN <<>>
               ELSE IF choices[n] \in S THEN Append(h[n - 1], choices[n]) ELSE h[n - 1]
  <2> TAKE n \in 0..(k + 1)
  <2>1. CASE n = k + 1
    BY <1>1, <2>1
  <2>2. CASE n # k + 1
    <3>1. n \in 0..k /\ h[n] = g[n]
      BY <2>2
    <3>2. g[n] = IF n = 0 THEN <<>>
                 ELSE IF choices[n] \in S THEN Append(g[n - 1], choices[n]) ELSE g[n - 1]
      BY <3>1, Zenon DEF IsWithin
    <3>3. n # 0 => h[n - 1] = g[n - 1]
      BY <3>1
    <3>4. QED
      BY <3>1, <3>2, <3>3, Zenon
  <2>3. QED
    BY <2>1, <2>2
<1>3. h = [n \in 0..(k + 1) |-> h[n]]
  BY Zenon
<1> HIDE DEF h
<1>4. h = [n \in 0..(k + 1) |-> IF n = 0 THEN <<>>
             ELSE IF choices[n] \in S THEN Append(h[n - 1], choices[n]) ELSE h[n - 1]]
  BY <1>2, <1>3, Zenon
<1>5. QED
  BY <1>4, Zenon DEF IsWithin

LEMMA WithinExists ==
  ASSUME NEW choices, NEW S
  PROVE  \A k \in Nat : \E f : IsWithin(f, choices, S, k)
<1> DEFINE Good == {k \in Nat : \E f : IsWithin(f, choices, S, k)}
<1>1. 0 \in Good
  <2> DEFINE g == [n \in 0..0 |-> <<>>]
  <2>1. g = [n \in 0..0 |-> IF n = 0 THEN <<>>
                            ELSE IF choices[n] \in S THEN Append(g[n - 1], choices[n]) ELSE g[n - 1]]
    <3>1. \A n \in 0..0 : n = 0
      OBVIOUS
    <3>2. QED
      BY <3>1, Zenon
  <2>2. IsWithin(g, choices, S, 0)
    BY <2>1, Zenon DEF IsWithin
  <2>3. QED
    BY <2>2, Zenon
<1>2. \A n \in Nat : n \in Good => n + 1 \in Good
  <2> SUFFICES ASSUME NEW n \in Nat, n \in Good PROVE n + 1 \in Good
    BY Zenon
  <2>1. PICK g : IsWithin(g, choices, S, n)
    BY Zenon
  <2>2. \E h : IsWithin(h, choices, S, n + 1)
    BY <2>1, WithinLonger
  <2>3. n + 1 \in Nat
    OBVIOUS
  <2>4. QED
    BY <2>2, <2>3, Zenon
<1>3. \A n \in Nat : n \in Good
  <2> HIDE DEF Good
  <2>1. QED
    BY <1>1, <1>2, AllNumbers
<1>4. QED
  BY <1>3, Zenon

Grows(f, choices, S, k) ==
    /\ f[0] = <<>>
    /\ \A n \in 1..k : f[n] = IF choices[n] \in S THEN Append(f[n - 1], choices[n]) ELSE f[n - 1]

LEMMA WithinValue ==
  ASSUME NEW choices, NEW S, Len(choices) \in Nat
  PROVE  \E f : Within(choices, S) = f[Len(choices)] /\ Grows(f, choices, S, Len(choices))
<1> DEFINE f == CHOOSE g : g = [n \in 0..Len(choices) |->
                     IF n = 0 THEN <<>>
                     ELSE IF choices[n] \in S THEN Append(g[n - 1], choices[n]) ELSE g[n - 1]]
<1>1. f = [n \in 0..Len(choices) |-> IF n = 0 THEN <<>>
             ELSE IF choices[n] \in S THEN Append(f[n - 1], choices[n]) ELSE f[n - 1]]
  <2>1. \E g : IsWithin(g, choices, S, Len(choices))
    BY WithinExists
  <2>2. QED
    BY <2>1, Zenon DEF IsWithin
<1>2. Within(choices, S) = f[Len(choices)]
  BY Zenon DEF Within
<1> HIDE DEF f
<1>3. \A n \in 0..Len(choices) :
         f[n] = IF n = 0 THEN <<>>
                ELSE IF choices[n] \in S THEN Append(f[n - 1], choices[n]) ELSE f[n - 1]
  BY <1>1, Zenon
<1>4. f[0] = <<>>
  BY <1>3
<1>5. \A n \in 1..Len(choices) : n \in 0..Len(choices) /\ n # 0
  OBVIOUS
<1>6. \A n \in 1..Len(choices) :
         f[n] = IF choices[n] \in S THEN Append(f[n - 1], choices[n]) ELSE f[n - 1]
  BY <1>3, <1>5, Zenon
<1>7. QED
  BY <1>2, <1>4, <1>6, Zenon DEF Grows

Distinct(q) == \A i, j \in 1..Len(q) : q[i] = q[j] => i = j

(* A choice among q may be appended to q unless q holds it. *)
LEMMA DistinctAppend ==
  ASSUME NEW T, NEW q, q \in Seq(T), Distinct(q), NEW x, x \in T, x \notin ToSet(q)
  PROVE  Distinct(Append(q, x))
<1> DEFINE p == Append(q, x)
<1>1. /\ Len(p) = Len(q) + 1 /\ Len(q) \in Nat /\ DOMAIN q = 1..Len(q)
      /\ p[Len(q) + 1] = x /\ \A i \in 1..Len(q) : p[i] = q[i]
  OBVIOUS
<1> HIDE DEF p
<1>2. \A i \in 1..Len(q) : q[i] # x
  BY <1>1 DEF ToSet
<1>3. \A i \in 1..Len(p) : i \in 1..Len(q) \/ i = Len(q) + 1
  BY <1>1
<1>4. Distinct(p)
  <2> SUFFICES ASSUME NEW i \in 1..Len(p), NEW j \in 1..Len(p), p[i] = p[j] PROVE i = j
    BY Zenon DEF Distinct
  <2>1. CASE i \in 1..Len(q) /\ j \in 1..Len(q)
    BY <1>1, <2>1, Zenon DEF Distinct
  <2>2. CASE i = Len(q) + 1 \/ j = Len(q) + 1
    BY <1>1, <1>2, <1>3, <2>2, Zenon
  <2>3. QED
    BY <1>3, <2>1, <2>2, Zenon
<1>5. QED
  BY <1>4 DEF p

(* What Within keeps of distinct choices: some of them, all within the set. *)
LEMMA WithinFacts ==
  ASSUME NEW q, q \in Seq(Offered), Distinct(q), NEW S
  PROVE  /\ Within(q, S) \in Seq(Offered)
         /\ Distinct(Within(q, S))
         /\ ToSet(Within(q, S)) \subseteq S
<1> DEFINE k == Len(q)
<1>1. k \in Nat /\ \A i \in 1..k : q[i] \in Offered
  OBVIOUS
<1>2. PICK f : Within(q, S) = f[k] /\ Grows(f, q, S, k)
  BY <1>1, WithinValue
<1> HIDE DEF k
<1> DEFINE OK(n) == /\ f[n] \in Seq(Offered) /\ Distinct(f[n])
                    /\ ToSet(f[n]) \subseteq S \cap {q[i] : i \in 1..n}
           Good == {n \in Nat : n <= k => OK(n)}
<1>3. 0 \in Good
  <2>1. f[0] = <<>>
    BY <1>2 DEF Grows
  <2>2. <<>> \in Seq(Offered) /\ Distinct(<<>>)
    BY DEF Distinct
  <2>3. QED
    BY <2>1, <2>2, NoElements
<1>4. ASSUME NEW n \in Nat, n \in Good, n + 1 <= k PROVE OK(n + 1)
  <2>1. /\ n + 1 \in 1..k /\ (n + 1) - 1 = n /\ n <= k
        /\ \A i \in 1..n : i \in 1..k /\ i # n + 1 /\ i \in 1..(n + 1)
        /\ n + 1 \in 1..(n + 1)
    BY <1>1, <1>4
  <2>2. OK(n)
    BY <1>4, <2>1
  <2>3. f[n + 1] = IF q[n + 1] \in S THEN Append(f[n], q[n + 1]) ELSE f[n]
    BY <1>2, <2>1, Zenon DEF Grows
  <2>4. CASE q[n + 1] \notin S
    BY <2>1, <2>2, <2>3, <2>4, Zenon
  <2>5. CASE q[n + 1] \in S
    <3> DEFINE x == q[n + 1]
               g == f[n]
    <3>1. x \in Offered /\ f[n + 1] = Append(g, x) /\ g \in Seq(Offered) /\ Distinct(g)
      BY <1>1, <2>1, <2>2, <2>3, <2>5
    <3>2. x \notin ToSet(g)
      <4>1. \A i \in 1..n : q[i] # x
        BY <2>1, Zenon DEF Distinct, k
      <4>2. QED
        BY <2>2, <4>1
    <3>3. x \in S /\ x \in {q[i] : i \in 1..(n + 1)} /\ {q[i] : i \in 1..n} \subseteq {q[i] : i \in 1..(n + 1)}
      BY <2>1, <2>5
    <3>4. ToSet(g) \subseteq S \cap {q[i] : i \in 1..n}
      BY <2>2
    <3> HIDE DEF x, g
    <3>5. ToSet(f[n + 1]) = ToSet(g) \cup {x} /\ f[n + 1] \in Seq(Offered)
      BY <3>1, Appended
    <3>6. Distinct(f[n + 1])
      BY <3>1, <3>2, DistinctAppend
    <3>7. QED
      BY <3>3, <3>4, <3>5, <3>6
  <2>6. QED
    BY <2>4, <2>5
<1>5. \A n \in Nat : n \in Good => n + 1 \in Good
  <2> HIDE DEF OK
  <2>1. \A n \in Nat : n + 1 \in Nat
    OBVIOUS
  <2>2. QED
    BY <1>4, <2>1, Zenon
<1>6. \A n \in Nat : n \in Good
  <2> HIDE DEF Good
  <2>1. QED
    BY <1>3, <1>5, AllNumbers
<1>7. OK(k)
  <2> HIDE DEF OK
  <2>1. k \in Nat /\ k <= k
    BY <1>1
  <2>2. QED
    BY <1>6, <2>1, Zenon
<1>8. QED
  BY <1>2, <1>7

LEMMA DistinctCount ==
  ASSUME NEW T, NEW q, q \in Seq(T), Distinct(q)
  PROVE  Cardinality(ToSet(q)) = Len(q)
<1> DEFINE N == 1..Len(q)
<1>1. Len(q) \in Nat /\ DOMAIN q = N /\ q = [i \in N |-> q[i]]
  OBVIOUS
<1>2. ToSet(q) = {q[i] : i \in N}
  BY <1>1 DEF ToSet
<1>3. q \in [N -> ToSet(q)]
  BY <1>1, <1>2
<1>4. \A y \in ToSet(q) : \E i \in N : q[i] = y
  BY <1>2
<1>5. \A i, j \in N : q[i] = q[j] => i = j
  BY DEF Distinct
<1> DEFINE U == ToSet(q)
<1> HIDE DEF N, U
<1>6. q \in Bijection(N, U)
  BY <1>3, <1>4, <1>5, Fun_IsBij DEF U
<1>7. ExistsBijection(N, U)
  BY <1>6, Zenon DEF ExistsBijection
<1>8. QED
  BY <1>1, <1>7, FS_CountingElements DEF N, U

---------------------------------------------------------------------------
(* What the answers of a card are *)

AnswersOK(answers) ==
    /\ DOMAIN answers = {form[i].id : i \in DOMAIN form}
    /\ \A q \in DOMAIN answers : /\ answers[q].custom \in Texts
                                 /\ answers[q].selected \in Seq(Offered)
                                 /\ Distinct(answers[q].selected)

(* Beside the calls: a request awaits its answer or does not, and a card   *)
(* holds at most one text and no choice twice for each of its questions.   *)
AInv ==
    /\ page \in Pages
    /\ pending \in [Requests -> {"awaiting", "submitted", None}]
    /\ AnswersOK(card.answers)
    /\ OnlyOfferedAnswers

LEMMA FormFacts ==
  ASSUME page \in Pages
  PROVE  /\ \A i \in DOMAIN form : form[i].options \subseteq Offered
         /\ \A i, j \in DOMAIN form : form[i].id = form[j].id => i = j
  BY RequestsAssumption DEF form

Answers(q, values) ==
    /\ q.multiSelect \/ Len(values) = 1
    /\ Blank \notin ToSet(values) /\ Empty \notin ToSet(values)
    /\ Cardinality(ToSet(values)) = Len(values)
    /\ q.allowCustomAnswer \/ ToSet(values) \subseteq q.options

LEMMA OneValue == ASSUME NEW x PROVE ToSet(<<x>>) = {x} /\ Len(<<x>>) = 1
  BY DEF ToSet

(* What a complete question resolves to is an answer to it.                *)
LEMMA ResolvedAnswers ==
  ASSUME NEW q, q.options \subseteq Offered, NEW a, a.custom \in Texts,
         a.selected \in Seq(Offered), Distinct(a.selected),
         resolvePendingUserInputAnswer(q, a) # <<>>
  PROVE  Answers(q, resolvePendingUserInputAnswer(q, a))
<1> DEFINE values == resolvePendingUserInputAnswer(q, a)
           custom == IF q.allowCustomAnswer THEN normalizeDraftAnswer(a.custom) ELSE None
           chosen == Within(a.selected, q.options)
           sel == a.selected
<1>1. values = IF custom # None THEN <<custom>>
               ELSE IF q.multiSelect \/ chosen = <<>> THEN chosen ELSE <<Head(chosen)>>
  BY DEF resolvePendingUserInputAnswer
<1>2. chosen \in Seq(Offered) /\ Distinct(chosen) /\ ToSet(chosen) \subseteq q.options
  <2>1. sel \in Seq(Offered) /\ Distinct(sel)
    OBVIOUS
  <2> HIDE DEF sel
  <2>2. /\ Within(sel, q.options) \in Seq(Offered) /\ Distinct(Within(sel, q.options))
        /\ ToSet(Within(sel, q.options)) \subseteq q.options
    BY <2>1, WithinFacts
  <2>3. QED
    BY <2>2, Zenon DEF sel
<1>3. Blank \notin q.options /\ Empty \notin q.options
  BY RequestsAssumption
<1>4. custom # None => q.allowCustomAnswer /\ custom \in Words
  BY DEF normalizeDraftAnswer
<1>5. values # <<>>
  OBVIOUS
<1> HIDE DEF values, custom, chosen
<1>6. CASE custom # None
  <2>1. values = <<custom>> /\ custom # Blank /\ custom # Empty /\ q.allowCustomAnswer
    BY <1>1, <1>4, <1>6, RequestsAssumption
  <2>2. ToSet(values) = {custom} /\ Len(values) = 1 /\ Cardinality({custom}) = 1
    BY <2>1, OneValue, FS_Singleton
  <2>3. QED
    BY <2>1, <2>2 DEF Answers, values
<1>7. CASE custom = None /\ q.multiSelect
  <2>1. values = chosen
    BY <1>1, <1>7
  <2>2. Cardinality(ToSet(values)) = Len(values)
    BY <1>2, <2>1, DistinctCount
  <2>3. QED
    BY <1>2, <1>3, <1>7, <2>1, <2>2 DEF Answers, values
<1>8. CASE custom = None /\ ~q.multiSelect
  <2>1. chosen # <<>> /\ values = <<Head(chosen)>>
    BY <1>1, <1>5, <1>8
  <2>2. Head(chosen) \in ToSet(chosen)
    BY <1>2, <2>1 DEF ToSet
  <2> DEFINE x == Head(chosen)
  <2>3. x \in q.options
    BY <1>2, <2>2
  <2>4. values = <<x>>
    BY <2>1
  <2> HIDE DEF x
  <2>5. ToSet(values) = {x} /\ Len(values) = 1 /\ Cardinality({x}) = 1
    BY <2>4, OneValue, FS_Singleton
  <2>6. QED
    BY <1>3, <2>3, <2>5 DEF Answers, values
<1>9. QED
  BY <1>6, <1>7, <1>8

(* A complete card submits what nativeQuestionAnswer lets pass.            *)
LEMMA BuiltPasses ==
  ASSUME AInv, IsComplete, pending[Question] = "awaiting"
  PROVE  nativeQuestionAnswer(buildPendingUserInputAnswers(card.answers))
<1> DEFINE answers == card.answers
           built == buildPendingUserInputAnswers(answers)
<1>1. /\ \A i \in DOMAIN form : Resolved(form[i], answers) # <<>>
      /\ built = [q \in DOMAIN answers |->
                    Resolved(form[CHOOSE i \in DOMAIN form : form[i].id = q], answers)]
  BY Zenon DEF IsComplete, buildPendingUserInputAnswers
<1>2. DOMAIN answers = {form[i].id : i \in DOMAIN form}
  BY DEF AInv, AnswersOK
<1>3. AnswersOK(answers) /\ page \in Pages
  BY DEF AInv
<1> HIDE DEF built, answers
<1>4. ASSUME NEW i \in DOMAIN form
      PROVE  /\ built[form[i].id] = Resolved(form[i], answers)
             /\ built[form[i].id] # <<>> /\ Answers(form[i], built[form[i].id])
  <2> DEFINE id == form[i].id
             j == CHOOSE k \in DOMAIN form : form[k].id = id
             a == answers[id]
             q == form[i]
  <2>1. id \in DOMAIN answers
    BY <1>2
  <2>2. j \in DOMAIN form /\ form[j].id = id
    BY Zenon
  <2> HIDE DEF j
  <2>3. j = i
    BY <1>3, <2>2, FormFacts
  <2>4. built[id] = Resolved(q, answers)
    BY <1>1, <2>1, <2>3, Zenon DEF j
  <2>5. Resolved(q, answers) = resolvePendingUserInputAnswer(q, a)
    BY DEF Resolved
  <2>6. a.custom \in Texts /\ a.selected \in Seq(Offered) /\ Distinct(a.selected)
    BY <1>3, <2>1, Zenon DEF AnswersOK
  <2>7. q.options \subseteq Offered /\ Resolved(q, answers) # <<>>
    BY <1>1, <1>3, FormFacts
  <2> HIDE DEF a, q
  <2>8. Answers(q, resolvePendingUserInputAnswer(q, a))
    BY <2>5, <2>6, <2>7, ResolvedAnswers
  <2>9. QED
    BY <2>4, <2>5, <2>7, <2>8, Zenon DEF q
<1>5. DOMAIN built = {form[i].id : i \in DOMAIN form}
  BY <1>1, <1>2, Zenon
<1>6. nativeQuestionAnswer(built)
  BY <1>4, <1>5, Zenon DEF nativeQuestionAnswer, pendingRequest, Answers
<1>7. QED
  BY <1>6 DEF built, answers

---------------------------------------------------------------------------
(* The steps *)

LEMMA NoAnswersOK == ASSUME TRUE PROVE AnswersOK(NoAnswers)
<1>1. /\ EmptyAnswer.custom = Empty /\ EmptyAnswer.selected = <<>>
      /\ <<>> \in Seq(Offered) /\ Distinct(<<>>) /\ Empty \in Texts
  BY DEF EmptyAnswer, Distinct, Texts
<1>2. QED
  BY <1>1, Zenon DEF AnswersOK, NoAnswers

LEMMA AInvKept ==
  ASSUME AInv, UNCHANGED page, pending' \in [Requests -> {"awaiting", "submitted", None}],
         AnswersOK(card'.answers), \A c \in calls' : c.status # "refused"
  PROVE  AInv'
<1>1. AnswersOK(card.answers)'
  BY DEF AnswersOK, form
<1>2. QED
  BY <1>1 DEF AInv, OnlyOfferedAnswers

LEMMA TidiedAnswers ==
  ASSUME NEW c, CardShape(c) PROVE Tidied(c).answers = c.answers
  BY DEF Tidied, CardShape

(* A card answers only a request that awaits its answer.                   *)
LEMMA SentStep ==
  ASSUME IInv, AInv, NEW s \in Surfaces, NEW r \in Requests, NEW answer, Respond(s, r, answer),
         pending[r] = "awaiting" => Passes(r, answer)
  PROVE  AInv'
<1>1. /\ pending[r] # None /\ pending[r] # "submitted" /\ calls' = calls \cup {Call(s, r, answer)}
      /\ UNCHANGED <<page, pending>> /\ card' = Tidied(card)
  BY DEF Respond, Shown, Locked, requestVars
<1>2. pending[r] = "awaiting"
  BY <1>1 DEF AInv
<1>3. Call(s, r, answer).status = "sent"
  BY <1>2, Zenon DEF Call
<1>4. \A c \in calls' : c.status # "refused"
  BY <1>1, <1>3 DEF AInv, OnlyOfferedAnswers
<1>5. card'.answers = card.answers
  BY <1>1, CardNow, TidiedAnswers
<1>6. QED
  BY <1>1, <1>4, <1>5, AInvKept DEF AInv

LEMMA AnswerSteps ==
  ASSUME IInv, AInv,
         \/ \E s \in Surfaces, r \in Requests :
               CancelRequest(s, r) \/ \E option \in Offered : Approve(s, r, option)
         \/ SubmitAnswers
  PROVE  AInv'
<1>1. ASSUME NEW s \in Surfaces, NEW r \in Requests, CancelRequest(s, r) PROVE AInv'
  <2>1. pending[r] = "awaiting" => Passes(r, Cancel)
    BY DEF Passes, pendingRequest
  <2>2. QED
    BY <1>1, <2>1, SentStep DEF CancelRequest
<1>2. ASSUME NEW s \in Surfaces, NEW r \in Requests, NEW option \in Offered, Approve(s, r, option)
      PROVE  AInv'
  <2>1. r # Question /\ Respond(s, r, option)
    BY <1>2 DEF Approve
  <2>2. pending[r] = "awaiting" => Passes(r, option)
    BY <2>1 DEF Passes, pendingRequest, nativeApprovalAnswer
  <2>3. QED
    BY <2>1, <2>2, SentStep
<1>3. ASSUME SubmitAnswers PROVE AInv'
  <2> DEFINE built == buildPendingUserInputAnswers(card.answers)
  <2>1. IsComplete /\ Respond(Conversation, Question, built)
    BY <1>3 DEF SubmitAnswers
  <2>2. pending[Question] = "awaiting" => nativeQuestionAnswer(built)
    BY <2>1, BuiltPasses
  <2> HIDE DEF built
  <2>3. pending[Question] = "awaiting" => Passes(Question, built)
    BY <2>2 DEF Passes, pendingRequest
  <2>4. Conversation \in Surfaces /\ Question \in Requests
    BY DEF Surfaces, Requests
  <2>5. QED
    BY <2>1, <2>3, <2>4, SentStep
<1>4. QED
  BY <1>1, <1>2, <1>3

(* A call that goes on was not refused, whatever becomes of it.            *)
LEMMA CallSteps ==
  ASSUME IInv, AInv, NEW c \in calls, ServiceHandles(c) \/ Returns(c) \/ Deadline(c)
  PROVE  AInv'
<1>1. c \in CallRecord /\ c.status # "refused"
  BY DEF IInv, TypeOK, AInv, OnlyOfferedAnswers
<1>2. UNCHANGED <<page, pending>> /\ (card' = card \/ card' = Tidied(card))
  BY DEF ServiceHandles, Returns, Deadline, requestVars
<1>3. card'.answers = card.answers
  BY <1>2, CardNow, TidiedAnswers
<1>4. \A e \in calls' : e.status # "refused"
  <2>1. CASE ServiceHandles(c)
    <3> DEFINE status == IF service[c.id] = "waiting" THEN "accepted" ELSE "stale"
               h == [c EXCEPT !.status = status]
    <3>1. calls' = (calls \ {c}) \cup IF c.waiting THEN {h} ELSE {}
      BY <2>1 DEF ServiceHandles
    <3>2. status \in {"accepted", "stale"}
      OBVIOUS
    <3> HIDE DEF status
    <3>3. h.status = status
      BY <1>1, <3>2, CallHandled
    <3> HIDE DEF h
    <3>4. QED
      BY <3>1, <3>2, <3>3 DEF AInv, OnlyOfferedAnswers
  <2>2. CASE Returns(c) \/ Deadline(c)
    <3> DEFINE h == [c EXCEPT !.waiting = FALSE]
    <3>1. calls' \subseteq calls \cup {h}
      BY <2>2 DEF Returns, Deadline
    <3>2. h.status = c.status
      BY <1>1, CallWaits
    <3> HIDE DEF h
    <3>3. QED
      BY <1>1, <3>1, <3>2 DEF AInv, OnlyOfferedAnswers
  <2>3. QED
    BY <2>1, <2>2
<1>5. QED
  BY <1>2, <1>3, <1>4, AInvKept DEF AInv

(* A request that leaves the stream takes its calls and its answers along. *)
LEMMA UnmountAnswers ==
  ASSUME IInv, AInv, NEW ids \in SUBSET Requests, Unmount(ids), UNCHANGED page,
         pending' \in [Requests -> {"awaiting", "submitted", None}]
  PROVE  AInv'
<1>1. /\ calls' = {IF c.id \in ids THEN [c EXCEPT !.waiting = FALSE] ELSE c : c \in
                     {c \in calls : c.id \notin ids \/ c.status = "sent"}}
      /\ card' = IF Question \in ids THEN FreshCard ELSE card
  BY DEF Unmount
<1>2. ASSUME NEW e \in calls' PROVE e.status # "refused"
  <2>1. PICK c \in calls : e = IF c.id \in ids THEN [c EXCEPT !.waiting = FALSE] ELSE c
    BY <1>1, <1>2
  <2>2. c \in CallRecord /\ c.status # "refused"
    BY DEF IInv, TypeOK, AInv, OnlyOfferedAnswers
  <2>3. e.status = c.status
    BY <2>1, <2>2, CallWaits
  <2>4. QED
    BY <2>2, <2>3
<1>3. AnswersOK(card'.answers)
  <2>1. card'.answers = NoAnswers \/ card'.answers = card.answers
    BY <1>1 DEF FreshCard
  <2>2. QED
    BY <2>1, NoAnswersOK DEF AInv
<1>4. QED
  BY <1>2, <1>3, AInvKept

LEMMA StreamAnswers ==
  ASSUME IInv, AInv,
         \/ \E r \in Requests : Withdraw(r) \/ SubmittedEvent(r) \/ ResolvedEvent(r) \/ Age(r)
         \/ \E s \in Surfaces, r \in Requests : Refresh(s, r) \/ RefreshEnds(s, r)
         \/ Reset \/ Reseed
         \/ \E s \in Surfaces : SetSurface(s)
  PROVE  AInv'
<1> DEFINE Pending == [Requests -> {"awaiting", "submitted", None}]
<1>1. ASSUME UNCHANGED <<page, calls>>, card' = card \/ card' = Tidied(card), pending' \in Pending
      PROVE  AInv'
  <2>1. card'.answers = card.answers
    BY <1>1, CardNow, TidiedAnswers
  <2>2. QED
    BY <1>1, <2>1, AInvKept DEF AInv, OnlyOfferedAnswers
<1>2. pending \in Pending
  BY DEF AInv
<1>3. ASSUME NEW r \in Requests, ResolvedEvent(r) PROVE AInv'
  <2>1. pending' = [pending EXCEPT ![r] = None] /\ Unmount({r}) /\ UNCHANGED page
    BY <1>3 DEF ResolvedEvent
  <2>2. pending' \in Pending
    BY <1>2, <2>1
  <2>3. QED
    BY <2>1, <2>2, UnmountAnswers
<1>4. ASSUME Reset PROVE AInv'
  <2>1. pending' = [r \in Requests |-> None] /\ Unmount(Requests) /\ UNCHANGED page
    BY <1>4 DEF Reset
  <2>2. pending' \in Pending
    BY <2>1
  <2>3. QED
    BY <2>1, <2>2, UnmountAnswers
<1>5. ASSUME NEW r \in Requests, SubmittedEvent(r) PROVE AInv'
  <2>1. UNCHANGED <<page, calls>> /\ card' = Tidied(card)
        /\ pending' = [pending EXCEPT ![r] = "submitted"]
    BY <1>5 DEF SubmittedEvent, callVars
  <2>2. pending' \in Pending
    BY <1>2, <2>1
  <2>3. QED
    BY <1>1, <2>1, <2>2
<1>6. ASSUME Reseed PROVE AInv'
  <2>1. UNCHANGED <<page, calls>> /\ card' = Tidied(card) /\ pending' = Seeded
    BY <1>6 DEF Reseed, callVars
  <2>2. Seeded \in Pending
    <3>1. \A r \in Requests : (CASE service[r] = "waiting" -> "awaiting"
                                 [] service[r] = "answered" -> "submitted"
                                 [] OTHER -> None) \in {"awaiting", "submitted", None}
      OBVIOUS
    <3>2. QED
      BY <3>1, Zenon DEF Seeded
  <2>3. QED
    BY <1>1, <2>1, <2>2
<1>7. ASSUME \/ \E r \in Requests : Withdraw(r) \/ Age(r)
             \/ \E s \in Surfaces, r \in Requests : Refresh(s, r) \/ RefreshEnds(s, r)
             \/ \E s \in Surfaces : SetSurface(s)
      PROVE  AInv'
  <2>1. UNCHANGED <<page, calls, pending>> /\ (card' = card \/ card' = Tidied(card))
    BY <1>7 DEF Withdraw, Age, Refresh, RefreshEnds, SetSurface, callVars, requestVars
  <2>2. QED
    BY <1>1, <1>2, <2>1
<1>8. QED
  BY <1>3, <1>4, <1>5, <1>6, <1>7

(* The answer to a question becomes another one a card may hold.           *)
LEMMA AnswerChanged ==
  ASSUME AInv, NEW id, NEW custom \in Texts, NEW selected, selected \in Seq(Offered),
         id \in DOMAIN card.answers => Distinct(selected),
         NEW answer, answer = [custom |-> custom, selected |-> selected]
  PROVE  AnswersOK([card.answers EXCEPT ![id] = answer])
<1> DEFINE held == card.answers
           new == [held EXCEPT ![id] = answer]
<1>1. AnswersOK(held) /\ answer.custom = custom /\ answer.selected = selected
  BY DEF AInv
<1>2. DOMAIN new = DOMAIN held /\ \A q \in DOMAIN held : new[q] = IF q = id THEN answer ELSE held[q]
  BY Zenon
<1> HIDE DEF held, new
<1>3. AnswersOK(new)
  BY <1>1, <1>2, Zenon DEF AnswersOK, held
<1>4. QED
  BY <1>3 DEF new, held

(* An option is added to the choices, taken from them or replaces them.    *)
LEMMA Toggled ==
  ASSUME NEW q, NEW held, held.selected \in Seq(Offered), Distinct(held.selected), NEW o \in Offered
  PROVE  \E selected \in Seq(Offered) :
            /\ Distinct(selected)
            /\ togglePendingUserInputOptionSelection(q, held, o) = [custom |-> Empty, selected |-> selected]
<1> DEFINE sel == held.selected
           fewer == Within(sel, ToSet(sel) \ {o})
           more == Append(sel, o)
           selected == IF ~q.multiSelect THEN <<o>> ELSE IF o \in ToSet(sel) THEN fewer ELSE more
<1>1. togglePendingUserInputOptionSelection(q, held, o) = [custom |-> Empty, selected |-> selected]
  BY Zenon DEF togglePendingUserInputOptionSelection
<1>2. <<o>> \in Seq(Offered) /\ Distinct(<<o>>)
  BY DEF Distinct
<1>3. sel \in Seq(Offered) /\ Distinct(sel)
  OBVIOUS
<1> HIDE DEF sel
<1>4. fewer \in Seq(Offered) /\ Distinct(fewer)
  <2> DEFINE S == ToSet(sel) \ {o}
  <2> HIDE DEF S
  <2>1. Within(sel, S) \in Seq(Offered) /\ Distinct(Within(sel, S))
    BY <1>3, WithinFacts
  <2>2. QED
    BY <2>1 DEF S
<1>5. o \notin ToSet(sel) => more \in Seq(Offered) /\ Distinct(more)
  BY <1>3, DistinctAppend
<1>6. selected \in Seq(Offered) /\ Distinct(selected)
  <2> HIDE DEF fewer, more
  <2>1. QED
    BY <1>2, <1>4, <1>5
<1>7. QED
  BY <1>1, <1>6, Zenon

LEMMA CardAnswers ==
  ASSUME IInv, AInv,
         \/ \E o \in Offered : PickOption(o)
         \/ \E text \in Texts : TypeAnswer(text)
         \/ NextQuestion \/ PreviousQuestion \/ AdvanceTimer \/ Collapse
  PROVE  AInv'
<1> DEFINE Quiet == UNCHANGED <<page, calls, pending>>
           id == ActiveQuestion.id
<1>1. ASSUME Quiet, AnswersOK(card'.answers) PROVE AInv'
  BY <1>1, AInvKept DEF AInv, OnlyOfferedAnswers
<1>2. ASSUME NEW o \in Offered, PickOption(o) PROVE AInv'
  <2> DEFINE answer == togglePendingUserInputOptionSelection(ActiveQuestion, card.answers[id], o)
  <2>1. Quiet /\ card'.answers = [card.answers EXCEPT ![id] = answer]
    BY <1>2, CardNow DEF PickOption, CardShape, callVars, requestVars
  <2>2. CASE id \in DOMAIN card.answers
    <3>1. card.answers[id].selected \in Seq(Offered) /\ Distinct(card.answers[id].selected)
      BY <2>2 DEF AInv, AnswersOK
    <3>2. PICK selected \in Seq(Offered) :
              Distinct(selected) /\ answer = [custom |-> Empty, selected |-> selected]
      BY <3>1, Toggled
    <3> HIDE DEF answer, id
    <3>3. Empty \in Texts
      BY DEF Texts
    <3>4. AnswersOK([card.answers EXCEPT ![id] = answer])
      BY <3>2, <3>3, AnswerChanged
    <3>5. QED
      BY <1>1, <2>1, <3>4
  <2>3. CASE id \notin DOMAIN card.answers
    <3> HIDE DEF answer, id
    <3>1. AnswersOK([card.answers EXCEPT ![id] = answer])
      BY <2>3 DEF AInv, AnswersOK
    <3>2. QED
      BY <1>1, <2>1, <3>1
  <2>4. QED
    BY <2>2, <2>3
<1>3. ASSUME NEW text \in Texts, TypeAnswer(text) PROVE AInv'
  <2> DEFINE held == card.answers[id]
             selected == IF text \in Words THEN <<>> ELSE held.selected
             answer == [custom |-> text, selected |-> selected]
  <2>1. Quiet /\ card'.answers = [card.answers EXCEPT ![id] = answer]
    BY <1>3, CardNow DEF TypeAnswer, CardShape, callVars, requestVars, setPendingUserInputCustomAnswer
  <2>2. CASE id \in DOMAIN card.answers
    <3>1. held.selected \in Seq(Offered) /\ Distinct(held.selected)
      BY <2>2 DEF AInv, AnswersOK
    <3>2. selected \in Seq(Offered) /\ Distinct(selected)
      BY <3>1 DEF Distinct
    <3> HIDE DEF id, selected
    <3>3. AnswersOK([card.answers EXCEPT ![id] = answer])
      BY <3>2, AnswerChanged
    <3>4. QED
      BY <1>1, <2>1, <3>3
  <2>3. CASE id \notin DOMAIN card.answers
    <3> HIDE DEF answer, id
    <3>1. AnswersOK([card.answers EXCEPT ![id] = answer])
      BY <2>3 DEF AInv, AnswersOK
    <3>2. QED
      BY <1>1, <2>1, <3>1
  <2>4. QED
    BY <2>2, <2>3
<1>4. ASSUME NextQuestion \/ PreviousQuestion \/ AdvanceTimer \/ Collapse PROVE AInv'
  <2>1. Advanced(card).answers = card.answers /\ CardShape(Advanced(card))
    BY CardNow, AdvancedShape DEF Advanced, CardShape
  <2>2. CASE NextQuestion
    <3>1. Quiet /\ card' = Tidied(Advanced(card))
      BY <2>2 DEF NextQuestion, callVars, requestVars
    <3>2. card'.answers = card.answers
      BY <2>1, <3>1, TidiedAnswers
    <3>3. QED
      BY <1>1, <3>1, <3>2 DEF AInv
  <2>3. CASE PreviousQuestion
    <3> DEFINE c == [card EXCEPT !.index = @ - 1]
    <3>1. Quiet /\ card' = Tidied(c) /\ card.index > 1
      BY <2>3 DEF PreviousQuestion, callVars, requestVars
    <3>2. CardShape(c) /\ c.answers = card.answers
      BY <3>1, CardNow DEF CardShape
    <3> HIDE DEF c
    <3>3. card'.answers = card.answers
      BY <3>1, <3>2, TidiedAnswers
    <3>4. QED
      BY <1>1, <3>1, <3>3 DEF AInv
  <2>4. CASE AdvanceTimer
    <3>1. Quiet /\ card' = [(IF PanelActive THEN Advanced(card) ELSE card) EXCEPT !.timer = None]
      BY <2>4 DEF AdvanceTimer, callVars, requestVars
    <3>2. card'.answers = card.answers
      BY <2>1, <3>1, CardNow DEF CardShape
    <3>3. QED
      BY <1>1, <3>1, <3>2 DEF AInv
  <2>5. CASE Collapse
    <3>1. Quiet /\ card'.answers = card.answers
      BY <2>5, CardNow DEF Collapse, callVars, requestVars, CardShape
    <3>2. QED
      BY <1>1, <3>1 DEF AInv
  <2>6. QED
    BY <1>4, <2>2, <2>3, <2>4, <2>5
<1>5. QED
  BY <1>2, <1>3, <1>4

LEMMA InitAInv == ASSUME Init PROVE AInv
<1>1. page \in Pages /\ card.answers = NoAnswers /\ calls = {}
  BY DEF Init, FreshCard
<1>2. pending \in [Requests -> {"awaiting", "submitted", None}]
  BY DEF Init
<1>3. QED
  BY <1>1, <1>2, NoAnswersOK DEF AInv, OnlyOfferedAnswers

LEMMA NextAInv == ASSUME IInv, AInv, [Next]_vars PROVE AInv'
<1>1. ASSUME UNCHANGED <<page, pending, calls, card>> PROVE AInv'
  BY <1>1, AInvKept DEF AInv, OnlyOfferedAnswers
<1>2. CASE UNCHANGED vars
  BY <1>1, <1>2 DEF vars, requestVars, callVars
<1>3. CASE \/ \E w \in Prompts : Keystroke(w)
           \/ Erase \/ EditorFollows \/ Send \/ SendReturns \/ Interrupt \/ ComposerFrees
  <2>1. UNCHANGED <<page, pending, calls, card>>
    BY <1>3 DEF Keystroke, Erase, EditorFollows, Send, SendReturns, Interrupt, ComposerFrees,
               requestVars, callVars
  <2>2. QED
    BY <1>1, <2>1
<1>4. CASE \E c \in calls : ServiceHandles(c) \/ Returns(c) \/ Deadline(c)
  BY <1>4, CallSteps
<1>5. QED
  BY <1>2, <1>3, <1>4, AnswerSteps, StreamAnswers, CardAnswers DEF Next

(* An answer a card lets the operator submit is one its request takes: no  *)
(* answer that leaves is refused by nativeApprovalAnswer or                *)
(* nativeQuestionAnswer (agentPresentation.ts), whatever was typed, picked *)
(* and taken back before.                                                  *)
THEOREM OfferedCorrect == Spec => []OnlyOfferedAnswers
<1>1. Init => AInv
  BY InitAInv
<1>2. IInv /\ AInv /\ [Next]_vars => AInv'
  BY NextAInv
<1>3. AInv => OnlyOfferedAnswers
  BY DEF AInv
<1>4. QED
  BY <1>1, <1>2, <1>3, Inductive, PTL DEF Spec
=============================================================================
