--------------------------- MODULE SettingsProofs ---------------------------
(***************************************************************************)
(* Proofs about the Settings module, for every set of providers, models,   *)
(* efforts and catalogs and every number of acts and versions.             *)
(***************************************************************************)
EXTENDS Settings, WellFoundedInduction, SequenceTheorems, TLAPS

IsOptions(o) == o = [model |-> o.model, effort |-> o.effort]
IsConfig(c) == c = [enabled |-> c.enabled, model |-> c.model, effort |-> c.effort]

(* A draft was made by an author who saw the version it is to replace, and *)
(* its effort was offered with its model.                                  *)
DraftOK(draft) ==
    /\ draft.revision \in Nat /\ draft.seen = draft.revision
    /\ IsConfig(draft.config) /\ draft.offered

(* The version after the draft's holds it. *)
IsStored(draft, q) ==
    /\ draft.revision + 1 \in 1..Latest
    /\ history[draft.revision + 1].document[q] = draft.config

HistoryOK ==
    /\ \E S : history \in Seq(S)
    /\ Latest \in Nat \ {0}
    /\ \A k \in 1..Latest : DOMAIN history[k].document = Providers /\ (k # 1 => history[k].seen = k - 1)

PageOK ==
    /\ settings.revision \in Nat
    /\ selected \in Providers /\ choice.profile \in Providers /\ acts \in Nat
    /\ DOMAIN drafts = Providers
    /\ \A q \in Providers : drafts[q] # None => DraftOK(drafts[q])

CallOK ==
    call # None =>
        /\ call.number \in Nat /\ call.number <= acts /\ call.id \in Providers
        /\ call.kind = "save" => DraftOK(call.draft)

(* A save that is done is stored. A request the page still waits for is    *)
(* the one it sent; the page never takes another one's answer for its own. *)
RequestOK(request) ==
    /\ request = [number |-> request.number, kind |-> request.kind, id |-> request.id,
                  draft |-> request.draft, status |-> request.status, found |-> request.found]
    /\ request.number \in Nat /\ request.number <= acts /\ request.id \in Providers
    /\ request.kind = "save" => DraftOK(request.draft)
    /\ request.kind = "save" /\ request.status = "done" => IsStored(request.draft, request.id)
    /\ Waits(request) => call.kind = request.kind /\ call.id = request.id /\ call.draft = request.draft

RequestsOK == \A request \in requests : RequestOK(request)

(* A conversation ran with what it promised, and with its snapshot if that *)
(* names a model and an effort.                                            *)
SessionOK ==
    session # None =>
        /\ session = [profile |-> session.profile, snapshot |-> session.snapshot,
                      ran |-> session.ran, promised |-> session.promised]
        /\ IsOptions(session.snapshot)
        /\ session.ran = session.promised
        /\ Complete(session.snapshot) => session.ran = session.snapshot

IInv == HistoryOK /\ PageOK /\ CallOK /\ RequestsOK /\ SessionOK

---------------------------------------------------------------------------
(* Options *)

LEMMA MergeFacts ==
  ASSUME NEW base, NEW override
  PROVE  LET merged == mergeOptions(base, override) IN
         /\ IsOptions(merged)
         /\ merged.model = Or(override.model, base.model)
         /\ merged.effort = Or(override.effort,
                               IF override.model \in {None, base.model} THEN base.effort ELSE None)
  BY DEF mergeOptions, IsOptions

LEMMA SelectionFacts ==
  ASSUME NEW known, NEW defaults, NEW override
  PROVE  LET merged == mergeOptions(mergeOptions(known.defaults, defaults), override)
             run == selection(known, defaults, override) IN
         /\ IsOptions(run)
         /\ run.model = merged.model
         /\ run.effort = Or(merged.effort, OwnEffort(known, merged.model))
<1> DEFINE merged == mergeOptions(mergeOptions(known.defaults, defaults), override)
<1>1. IsOptions(merged)
  BY MergeFacts
<1>2. selection(known, defaults, override)
        = [merged EXCEPT !.effort = Or(merged.effort, OwnEffort(known, merged.model))]
  BY DEF selection
<1> HIDE DEF merged
<1>3. QED
  BY <1>1, <1>2 DEF IsOptions, merged

(* Options that name model and effort leave nothing to the client.         *)
LEMMA CompleteRuns ==
  ASSUME NEW known, NEW defaults, NEW override, Complete(mergeOptions(defaults, override))
  PROVE  selection(known, defaults, override) = mergeOptions(defaults, override)
<1> DEFINE kept == mergeOptions(defaults, override)
           base == mergeOptions(known.defaults, defaults)
           merged == mergeOptions(base, override)
           run == selection(known, defaults, override)
<1>1. /\ kept.model = Or(override.model, defaults.model)
      /\ kept.effort = Or(override.effort,
                          IF override.model \in {None, defaults.model} THEN defaults.effort ELSE None)
      /\ kept.model # None /\ kept.effort # None /\ IsOptions(kept)
  BY MergeFacts DEF Complete
<1>2. /\ base.model = Or(defaults.model, known.defaults.model)
      /\ base.effort = Or(defaults.effort,
                          IF defaults.model \in {None, known.defaults.model} THEN known.defaults.effort ELSE None)
  BY MergeFacts
<1>3. /\ merged.model = Or(override.model, base.model)
      /\ merged.effort = Or(override.effort,
                            IF override.model \in {None, base.model} THEN base.effort ELSE None)
  BY MergeFacts
<1>4. run.model = merged.model /\ IsOptions(run) /\ run.effort = Or(merged.effort, OwnEffort(known, merged.model))
  BY SelectionFacts
<1> HIDE DEF kept, base, merged, run
<1>5. merged.model = kept.model
  BY <1>1, <1>2, <1>3 DEF Or
<1>6. merged.effort = kept.effort
  <2>1. CASE override.effort # None
    BY <1>1, <1>3, <2>1 DEF Or
  <2>2. CASE override.effort = None
    <3>1. override.model \in {None, defaults.model} /\ kept.effort = defaults.effort /\ defaults.effort # None
      BY <1>1, <2>2 DEF Or
    <3>2. base.effort = defaults.effort /\ override.model \in {None, base.model}
      BY <1>1, <1>2, <3>1 DEF Or
    <3>3. QED
      BY <1>3, <2>2, <3>1, <3>2 DEF Or
  <2>3. QED
    BY <2>1, <2>2
<1>7. run.effort = kept.effort
  BY <1>1, <1>4, <1>6 DEF Or
<1>8. run = kept
  BY <1>1, <1>4, <1>5, <1>7 DEF IsOptions
<1>9. QED
  BY <1>8 DEF run, kept

LEMMA NothingOverridden ==
  ASSUME NEW options, IsOptions(options) PROVE mergeOptions(options, NoOptions) = options
  BY DEF mergeOptions, NoOptions, Or, IsOptions

(* What an up-to-date composer shows is what the runtime starts with.      *)
LEMMA ShownRuns ==
  ASSUME PageOK, settings = Served, inventory[choice.profile] # None
  PROVE  [model |-> ShownModel, effort |-> ShownEffort]
           = selection(inventory[choice.profile], OptionsOf(Profile(choice.profile)), OptionsOf(choice))
<1> DEFINE q == choice.profile
           known == inventory[q]
           merged == mergeOptions(known.defaults, OptionsOf(Profile(q)))
           full == mergeOptions(merged, OptionsOf(choice))
           run == selection(known, OptionsOf(Profile(q)), OptionsOf(choice))
<1>1. q \in Providers
  BY DEF PageOK
<1>2. Provider = Setting(q)
  BY <1>1 DEF Provider, Document, Served
<1>3. Provider.model = merged.model /\ Provider.effort = merged.effort /\ Provider.default = known.default
  BY <1>2 DEF Setting
<1>4. OptionsOf(choice).model = choice.model /\ OptionsOf(choice).effort = choice.effort
  BY DEF OptionsOf
<1>5. /\ full.model = Or(choice.model, merged.model)
      /\ full.effort = Or(choice.effort, IF choice.model \in {None, merged.model} THEN merged.effort ELSE None)
  BY <1>4, MergeFacts
<1>6. run.model = full.model /\ IsOptions(run) /\ run.effort = Or(full.effort, OwnEffort(known, full.model))
  BY SelectionFacts
<1>7. ShownModel = full.model
  BY <1>3, <1>5 DEF ShownModel
<1>8. ShownEffort = Or(full.effort, OwnEffort(Provider, full.model))
  BY <1>3, <1>5, <1>7 DEF ShownEffort
<1>9. OwnEffort(Provider, full.model) = OwnEffort(known, full.model)
  BY <1>3 DEF OwnEffort
<1>10. [model |-> ShownModel, effort |-> ShownEffort] = [model |-> run.model, effort |-> run.effort]
  BY <1>6, <1>7, <1>8, <1>9
<1>11. QED
  BY <1>6, <1>10 DEF IsOptions

---------------------------------------------------------------------------
(* Drafts *)

LEMMA FieldOf ==
  ASSUME NEW config, IsConfig(config), NEW value
  PROVE  \A next :
           /\ next = [config EXCEPT !.enabled = value]
                => IsConfig(next) /\ next.model = config.model /\ next.effort = config.effort
           /\ next = [config EXCEPT !.model = value] => IsConfig(next) /\ next.model = value
           /\ next = [config EXCEPT !.effort = value]
                => IsConfig(next) /\ next.model = config.model /\ next.effort = value
<1>1. PICK a, b, c : config = [enabled |-> a, model |-> b, effort |-> c]
  BY Zenon DEF IsConfig
<1>2. config.enabled = a /\ config.model = b /\ config.effort = c
  BY <1>1
<1>3. /\ [config EXCEPT !.enabled = value] = [enabled |-> value, model |-> b, effort |-> c]
      /\ [config EXCEPT !.model = value] = [enabled |-> a, model |-> value, effort |-> c]
      /\ [config EXCEPT !.effort = value] = [enabled |-> a, model |-> b, effort |-> value]
  BY <1>1
<1>4. \A x, y, z : LET r == [enabled |-> x, model |-> y, effort |-> z] IN
        IsConfig(r) /\ r.model = y /\ r.effort = z
  BY DEF IsConfig
<1>5. QED
  BY <1>2, <1>3, <1>4

(* An edit leaves options the row offers, or those it found.               *)
LEMMA NewConfigFacts ==
  ASSUME NEW q \in Providers, NEW field \in {"enabled", "model", "effort"},
         NEW value \in FieldValues(q, field), value # Config(q)[field], IsConfig(Config(q))
  PROVE  LET next == NewConfig(Config(q), field, value) IN
         /\ IsConfig(next)
         /\ Offers(Document[q], next) \/ OptionsOf(next) = OptionsOf(Config(q))
<1> DEFINE c == Config(q)
           one == nextProviderConfigWithFieldValue(c, field, value)
           next == NewConfig(c, field, value)
           row == Document[q]
<1>1. IsConfig(c)
  OBVIOUS
<1>2. one = [c EXCEPT ![field] = value]
  BY DEF nextProviderConfigWithFieldValue
<1>3. next = IF one.model # c.model THEN [one EXCEPT !.effort = None] ELSE one
  BY DEF NewConfig
<1>4. CASE field = "enabled"
  <2> HIDE DEF c, one, next
  <2>1. one = [c EXCEPT !.enabled = value]
    BY <1>2, <1>4
  <2>2. IsConfig(one) /\ one.model = c.model /\ one.effort = c.effort
    BY <1>1, <2>1, FieldOf
  <2>3. next = one /\ OptionsOf(next) = OptionsOf(c)
    BY <1>3, <2>2 DEF OptionsOf
  <2>4. QED
    BY <2>2, <2>3 DEF c, next
<1>5. CASE field = "model"
  <2>1. value # c.model
    BY <1>5
  <2> HIDE DEF c, one, next
  <2>2. one = [c EXCEPT !.model = value]
    BY <1>2, <1>5
  <2>3. IsConfig(one) /\ one.model = value
    BY <1>1, <2>2, FieldOf
  <2>4. next = [one EXCEPT !.effort = None]
    BY <1>3, <2>1, <2>3
  <2>5. IsConfig(next) /\ next.effort = None
    BY <2>3, <2>4, FieldOf
  <2>6. QED
    BY <2>5 DEF Offers, next, c
<1>6. CASE field = "effort"
  <2>1. value \in OfferedEfforts(q) \cup {None}
    BY <1>6 DEF FieldValues, ProviderSettingsSelect
  <2>2. c.model # None => OfferedEfforts(q) = IF c.model \in DOMAIN row.efforts THEN row.efforts[c.model] ELSE {}
    BY DEF OfferedEfforts, Or
  <2> HIDE DEF c, one, next, row
  <2>3. one = [c EXCEPT !.effort = value]
    BY <1>2, <1>6
  <2>4. IsConfig(one) /\ one.model = c.model /\ one.effort = value
    BY <1>1, <2>3, FieldOf
  <2>5. next = one
    BY <1>3, <2>4
  <2>6. Offers(row, next)
    BY <2>1, <2>2, <2>4, <2>5 DEF Offers
  <2>7. QED
    BY <2>4, <2>5, <2>6 DEF next, c, row
<1>7. QED
  BY <1>4, <1>5, <1>6

(* The configuration in the form                                           *)
LEMMA ConfigFacts ==
  ASSUME PageOK, NEW q \in Providers
  PROVE  /\ IsConfig(Config(q))
         /\ drafts[q] = None => OptionsOf(Config(q)) = OptionsOf(Document[q])
<1>1. CASE drafts[q] = None
  <2> DEFINE c == [enabled |-> Document[q].enabled, model |-> Document[q].model, effort |-> Document[q].effort]
  <2>1. Config(q) = c
    BY <1>1 DEF Config
  <2>2. IsConfig(c) /\ OptionsOf(c) = OptionsOf(Document[q])
    BY DEF IsConfig, OptionsOf
  <2>3. QED
    BY <2>1, <2>2
<1>2. CASE drafts[q] # None
  BY <1>2 DEF Config, PageOK, DraftOK
<1>3. QED
  BY <1>1, <1>2

---------------------------------------------------------------------------
(* Parts of a step *)

(* What was written stays, and what the operator did is counted.           *)
Grows ==
    /\ acts' \in Nat /\ acts <= acts'
    /\ Latest' \in Nat /\ Latest <= Latest'
    /\ \A k \in 1..Latest : history'[k] = history[k]

(* A new version at the end of the history                                 *)
LEMMA StoredFacts ==
  ASSUME HistoryOK, NEW q \in Providers, NEW config, Stored(q, config, Latest)
  PROVE  /\ HistoryOK' /\ Latest' = Latest + 1
         /\ \A k \in 1..Latest : history'[k] = history[k]
         /\ history'[Latest + 1].document[q] = config
<1> DEFINE v == [document |-> [history[Latest].document EXCEPT ![q] = config], seen |-> Latest]
<1>1. Latest \in Nat \ {0} /\ Latest \in 1..Latest /\ Latest = Len(history)
  BY DEF HistoryOK, Latest
<1>2. DOMAIN v.document = Providers /\ v.document[q] = config /\ v.seen = Latest
  BY <1>1 DEF HistoryOK
<1>3. history' = Append(history, v)
  BY DEF Stored
<1> HIDE DEF v
<1>4. PICK S : history \in Seq(S)
  BY Zenon DEF HistoryOK
<1>5. history \in Seq(S \cup {v})
  <2>1. \A k \in 1..Len(history) : history[k] \in S \cup {v}
    BY <1>4
  <2>2. QED
    BY <1>4, <2>1
<1>6. /\ history' \in Seq(S \cup {v}) /\ Len(history') = Len(history) + 1
      /\ \A k \in 1..Len(history) : history'[k] = history[k]
      /\ history'[Len(history) + 1] = v
  BY <1>3, <1>5, AppendProperties
<1>7. Latest' = Latest + 1
  BY <1>6 DEF Latest
<1>8. \A k \in 1..Latest : history'[k] = history[k]
  BY <1>1, <1>6
<1>9. history'[Latest + 1] = v
  BY <1>1, <1>6
<1>10. ASSUME NEW k \in 1..Latest'
       PROVE  DOMAIN history'[k].document = Providers /\ (k # 1 => history'[k].seen = k - 1)
  <2>1. CASE k \in 1..Latest
    BY <1>8, <2>1 DEF HistoryOK
  <2>2. CASE k = Latest + 1
    BY <1>1, <1>2, <1>9, <2>2
  <2>3. QED
    BY <1>1, <1>7, <2>1, <2>2
<1>11. \E T : history' \in Seq(T)
  BY <1>6, Zenon
<1>12. Latest' \in Nat \ {0}
  BY <1>1, <1>7
<1>13. HistoryOK'
  BY <1>10, <1>11, <1>12 DEF HistoryOK
<1>14. QED
  BY <1>2, <1>7, <1>8, <1>9, <1>13

LEMMA HistoryStays == ASSUME HistoryOK, UNCHANGED history PROVE HistoryOK' /\ Latest' = Latest
  BY DEF HistoryOK, Latest

LEMMA GrowsWithActs ==
  ASSUME IInv, acts' \in {acts, acts + 1},
         UNCHANGED history \/ (Latest' = Latest + 1 /\ \A k \in 1..Latest : history'[k] = history[k])
  PROVE  Grows
<1>1. acts \in Nat /\ Latest \in Nat
  BY DEF IInv, PageOK, HistoryOK
<1>2. acts' \in Nat /\ acts <= acts'
  BY <1>1
<1>3. Latest' \in {Latest, Latest + 1} /\ \A k \in 1..Latest : history'[k] = history[k]
  BY DEF Latest
<1>4. QED
  BY <1>1, <1>2, <1>3 DEF Grows

LEMMA StoredStays ==
  ASSUME Grows, Latest \in Nat, NEW draft, NEW q, draft.revision \in Nat, IsStored(draft, q)
  PROVE  IsStored(draft, q)'
<1>1. draft.revision + 1 \in 1..Latest
  BY DEF IsStored
<1>2. draft.revision + 1 \in 1..Latest' /\ history'[draft.revision + 1] = history[draft.revision + 1]
  BY <1>1 DEF Grows
<1>3. QED
  BY <1>2 DEF IsStored

(* A request that is left alone, while the page goes on or gives up        *)
LEMMA RequestStays ==
  ASSUME IInv, Grows, NEW request \in requests,
         call' = None \/ call' = call \/ call'.number > acts
  PROVE  RequestOK(request)'
<1>1. RequestOK(request) /\ Latest \in Nat /\ acts \in Nat
  BY DEF IInv, RequestsOK, HistoryOK, PageOK
<1>2. request.number <= acts'
  BY <1>1 DEF RequestOK, Grows
<1>3. request.kind = "save" /\ request.status = "done" => IsStored(request.draft, request.id)'
  BY <1>1, StoredStays DEF RequestOK, DraftOK
<1>4. Waits(request)' => call' = call /\ Waits(request)
  BY <1>1 DEF Waits, Locked, RequestOK
<1>5. QED
  BY <1>1, <1>2, <1>3, <1>4 DEF RequestOK

(* A request that moves on                                                 *)
LEMMA RequestMoves ==
  ASSUME IInv, Grows, UNCHANGED call, NEW request \in requests, NEW status, NEW found,
         Moves(request, status, found),
         request.kind = "save" /\ status = "done" => IsStored(request.draft, request.id)'
  PROVE  RequestsOK'
<1> DEFINE next == [request EXCEPT !.status = status, !.found = found]
<1>1. RequestOK(request) /\ RequestOK(request)'
  BY RequestStays DEF IInv, RequestsOK
<1>2. /\ next = [number |-> next.number, kind |-> next.kind, id |-> next.id,
                 draft |-> next.draft, status |-> next.status, found |-> next.found]
      /\ next.number = request.number /\ next.kind = request.kind /\ next.id = request.id
      /\ next.draft = request.draft /\ next.status = status
  <2>1. PICK n, k, i, d, s, f :
            request = [number |-> n, kind |-> k, id |-> i, draft |-> d, status |-> s, found |-> f]
    BY <1>1, Zenon DEF RequestOK
  <2> DEFINE one == [request EXCEPT !.status = status]
  <2>2. one = [number |-> n, kind |-> k, id |-> i, draft |-> d, status |-> status, found |-> f]
    BY <2>1
  <2>3. next = [one EXCEPT !.found = found]
    OBVIOUS
  <2> HIDE DEF one, next
  <2>4. next = [number |-> n, kind |-> k, id |-> i, draft |-> d, status |-> status, found |-> found]
    BY <2>2, <2>3
  <2>5. QED
    BY <2>1, <2>4
<1>3. requests' \subseteq requests \cup {next}
  BY DEF Moves
<1> HIDE DEF next
<1>4. RequestOK(next)'
  BY <1>1, <1>2 DEF RequestOK, Waits
<1>5. \A other \in requests : RequestOK(other)'
  BY RequestStays
<1>6. QED
  BY <1>3, <1>4, <1>5 DEF RequestsOK

(* The page stays, or moves in one of its ways.                            *)
LEMMA PageStays ==
  ASSUME PageOK, Grows, settings'.revision \in Nat, selected' \in Providers, choice'.profile \in Providers,
         DOMAIN drafts' = Providers,
         \A q \in Providers : drafts'[q] = None \/ drafts'[q] = drafts[q] \/ DraftOK(drafts'[q])
  PROVE  PageOK'
<1>1. \A q \in Providers : drafts'[q] # None => DraftOK(drafts'[q])
  BY DEF PageOK
<1>2. QED
  BY <1>1 DEF PageOK, Grows

LEMMA CallStays == ASSUME CallOK, PageOK, Grows, call' \in {None, call} PROVE CallOK'
<1>1. CASE call' = None
  BY <1>1 DEF CallOK
<1>2. CASE call' = call /\ call # None
  <2>1. call.number \in Nat /\ acts \in Nat /\ acts' \in Nat /\ call.number <= acts /\ acts <= acts'
    BY <1>2 DEF CallOK, PageOK, Grows
  <2>2. call.number <= acts'
    BY <2>1
  <2>3. QED
    BY <1>2, <2>2 DEF CallOK
<1>3. QED
  BY <1>1, <1>2

LEMMA SessionStays == ASSUME SessionOK, UNCHANGED session PROVE SessionOK'
  BY DEF SessionOK

(* Steps of the page's fields alone                                        *)
LEMMA PageStep ==
  ASSUME IInv, UNCHANGED storeVars, acts' \in {acts, acts + 1}, call' \in {None, call},
         settings'.revision \in Nat, selected' \in Providers, choice'.profile \in Providers,
         DOMAIN drafts' = Providers,
         \A q \in Providers : drafts'[q] = None \/ drafts'[q] = drafts[q] \/ DraftOK(drafts'[q])
  PROVE  IInv'
<1>1. Grows
  BY GrowsWithActs DEF storeVars
<1>2. HistoryOK' /\ SessionOK'
  BY HistoryStays, SessionStays DEF IInv, storeVars
<1>3. PageOK' /\ CallOK'
  BY <1>1, PageStays, CallStays DEF IInv
<1>4. RequestsOK'
  BY <1>1, RequestStays DEF RequestsOK, storeVars
<1>5. QED
  BY <1>2, <1>3, <1>4 DEF IInv

(* Steps of the runtime that leave the page alone                          *)
LEMMA RuntimeStep ==
  ASSUME IInv, Grows, UNCHANGED <<pageVars, composerVars>>, HistoryOK', RequestsOK', SessionOK'
  PROVE  IInv'
<1>1. settings'.revision \in Nat /\ selected' \in Providers /\ choice'.profile \in Providers
      /\ DOMAIN drafts' = Providers /\ drafts' = drafts
  BY DEF IInv, PageOK, pageVars, composerVars
<1>2. PageOK'
  BY <1>1, PageStays DEF IInv
<1>3. CallOK'
  BY CallStays DEF IInv, pageVars
<1>4. QED
  BY <1>2, <1>3 DEF IInv

---------------------------------------------------------------------------
(* Steps *)

LEMMA EditStep ==
  ASSUME IInv, NEW field \in {"enabled", "model", "effort"},
         NEW value \in FieldValues(selected, field), Edit(field, value)
  PROVE  IInv'
<1> DEFINE q == selected
           seen == IF drafts[q] = None THEN settings.revision ELSE drafts[q].seen
           config == NewConfig(Config(q), field, value)
           kept == ~(drafts[q] = None) /\ drafts[q].offered /\ OptionsOf(drafts[q].config) = OptionsOf(config)
           x == [revision |-> Baseline(q), seen |-> seen, config |-> config,
                 offered |-> kept \/ Offers(Document[q], config)]
<1>1. /\ value # Config(q)[field] /\ drafts' = [drafts EXCEPT ![q] = x] /\ acts' = acts + 1
      /\ UNCHANGED <<storeVars, settings, selected, call, composerVars>>
  BY DEF Edit, Acts
<1>2. q \in Providers /\ settings.revision \in Nat /\ PageOK
  BY DEF IInv, PageOK
<1>3. IsConfig(config) /\ (Offers(Document[q], config) \/ OptionsOf(config) = OptionsOf(Config(q)))
  <2>1. IsConfig(Config(q))
    BY <1>2, ConfigFacts
  <2>2. QED
    BY <1>1, <1>2, <2>1, NewConfigFacts
<1>4. Baseline(q) \in Nat /\ seen = Baseline(q)
  BY <1>2 DEF Baseline, PageOK, DraftOK
<1>5. kept \/ Offers(Document[q], config)
  <2>1. CASE drafts[q] = None
    <3>1. OptionsOf(Config(q)) = OptionsOf(Document[q])
      BY <1>2, <2>1, ConfigFacts
    <3> HIDE DEF config
    <3>2. QED
      BY <1>3, <3>1 DEF Offers
  <2>2. CASE drafts[q] # None
    <3>1. drafts[q].offered /\ Config(q) = drafts[q].config
      BY <1>2, <2>2 DEF PageOK, DraftOK, Config
    <3> HIDE DEF config
    <3>2. QED
      BY <1>3, <2>2, <3>1
  <2>3. QED
    BY <2>1, <2>2
<1>6. x.revision = Baseline(q) /\ x.seen = seen /\ x.config = config /\ x.offered
  BY <1>5
<1> HIDE DEF config, seen, x
<1>7. DraftOK(x)
  BY <1>3, <1>4, <1>6 DEF DraftOK
<1>8. /\ DOMAIN drafts' = Providers
      /\ \A p \in Providers : drafts'[p] = drafts[p] \/ drafts'[p] = x
  BY <1>1 DEF IInv, PageOK
<1>9. settings'.revision \in Nat /\ selected' \in Providers /\ choice'.profile \in Providers
      /\ acts' \in {acts, acts + 1} /\ call' \in {None, call} /\ UNCHANGED storeVars
  BY <1>1, <1>2 DEF PageOK, composerVars
<1>10. QED
  BY <1>7, <1>8, <1>9, PageStep

LEMMA FormSteps ==
  ASSUME IInv,
         \/ Discard \/ Fetch
         \/ \E q \in Providers : Select(q)
         \/ \E q \in Providers, m \in Models : PickModel(q, m)
         \/ \E e \in Efforts : PickEffort(e)
  PROVE  IInv'
<1>1. PageOK /\ Latest \in Nat
  BY DEF IInv, HistoryOK
<1>2. UNCHANGED storeVars /\ acts' \in {acts, acts + 1} /\ call' = call
  BY DEF Discard, Fetch, Select, PickModel, PickEffort, Change, Acts, pageVars
<1>3. settings'.revision \in Nat
  <2>1. CASE Fetch
    BY <1>1, <2>1 DEF Fetch, Served
  <2>2. CASE UNCHANGED settings
    BY <1>1, <2>2 DEF PageOK
  <2>3. QED
    BY <2>1, <2>2 DEF Discard, Select, PickModel, PickEffort, Change, pageVars
<1>4. selected' \in Providers
  BY <1>1 DEF Discard, Fetch, Select, PickModel, PickEffort, Change, pageVars, PageOK
<1>5. choice'.profile \in Providers
  BY <1>1 DEF Discard, Fetch, Select, PickModel, PickEffort, Change, Pickable, composerVars, PageOK
<1>6. DOMAIN drafts' = Providers /\ \A q \in Providers : drafts'[q] = None \/ drafts'[q] = drafts[q]
  <2>1. CASE UNCHANGED drafts
    BY <1>1, <2>1 DEF PageOK
  <2>2. CASE Discard
    BY <1>1, <2>2 DEF Discard, PageOK
  <2>3. QED
    BY <2>1, <2>2 DEF Fetch, Select, PickModel, PickEffort, Change, pageVars
<1>7. QED
  BY <1>2, <1>3, <1>4, <1>5, <1>6, PageStep

(* The number of a call is one that no request has.                        *)
LEMMA CallsStep ==
  ASSUME IInv, NEW kind \in {"save", "refresh"}, NEW draft, kind = "save" => DraftOK(draft),
         Calls(kind, draft)
  PROVE  IInv'
<1>0. PICK n, i : n = acts' /\ i = selected
  OBVIOUS
<1> DEFINE new == [number |-> n, kind |-> kind, id |-> i, draft |-> draft,
                   status |-> "sent", found |-> None]
<1>1. /\ n = acts + 1 /\ acts' = n /\ i = selected /\ requests' = requests \cup {new}
      /\ call' = [number |-> n, kind |-> kind, id |-> i, draft |-> draft]
      /\ UNCHANGED <<history, inventory, session, settings, selected, drafts, composerVars>>
  BY <1>0 DEF Calls, Acts
<1>2. PageOK /\ acts \in Nat /\ selected \in Providers
  BY DEF IInv, PageOK
<1>3. Grows
  BY <1>1, GrowsWithActs
<1>4. HistoryOK' /\ SessionOK'
  BY <1>1, HistoryStays, SessionStays DEF IInv
<1>5. PageOK'
  BY <1>1, <1>2, <1>3 DEF PageOK, composerVars, Grows
<1>6. /\ n \in Nat /\ n > acts /\ call'.number = n /\ call'.kind = kind
      /\ call'.id = i /\ call'.draft = draft
  BY <1>1, <1>2
<1>7. CallOK'
  BY <1>1, <1>2, <1>6 DEF CallOK
<1>8. /\ new.number = n /\ new.kind = kind /\ new.id = i /\ new.draft = draft /\ new.status = "sent"
      /\ new = [number |-> new.number, kind |-> new.kind, id |-> new.id,
                draft |-> new.draft, status |-> new.status, found |-> new.found]
  OBVIOUS
<1> HIDE DEF new
<1>9. RequestOK(new)'
  BY <1>1, <1>2, <1>6, <1>8 DEF RequestOK
<1>10. \A request \in requests : RequestOK(request)'
  BY <1>3, <1>6, RequestStays
<1>11. RequestsOK'
  BY <1>1, <1>9, <1>10 DEF RequestsOK
<1>12. QED
  BY <1>4, <1>5, <1>7, <1>11 DEF IInv

LEMMA SaveSteps == ASSUME IInv, Save \/ Refresh PROVE IInv'
<1>1. CASE Save
  <2>1. drafts[selected] # None /\ Calls("save", drafts[selected])
    BY <1>1 DEF Save
  <2>2. DraftOK(drafts[selected])
    BY <2>1 DEF IInv, PageOK
  <2>3. QED
    BY <2>1, <2>2, CallsStep
<1>2. CASE Refresh
  BY <1>2, CallsStep DEF Refresh
<1>3. QED
  BY <1>1, <1>2

(* The page gives up, or the runtime goes away.                            *)
LEMMA LoseSteps == ASSUME IInv, Lose \/ Restart PROVE IInv'
<1>1. /\ UNCHANGED <<history, session, settings, selected, drafts, composerVars>>
      /\ acts' \in {acts, acts + 1} /\ call' \in {None, call} /\ requests' \subseteq requests
  BY DEF Lose, Restart, Acts, pageVars
<1>2. Grows
  BY <1>1, GrowsWithActs
<1>3. HistoryOK' /\ SessionOK'
  BY <1>1, HistoryStays, SessionStays DEF IInv
<1>4. PageOK'
  BY <1>1, <1>2 DEF IInv, PageOK, composerVars, Grows
<1>5. CallOK'
  BY <1>1, <1>2, CallStays DEF IInv
<1>6. RequestsOK'
  BY <1>1, <1>2, RequestStays DEF RequestsOK
<1>7. QED
  BY <1>3, <1>4, <1>5, <1>6 DEF IInv

(* Steps of a request that store nothing                                   *)
LEMMA RequestSteps ==
  ASSUME IInv, NEW request \in requests,
         CheckRevision(request) \/ ReadForRefresh(request) \/ Inspect(request) \/ Fail(request)
  PROVE  IInv'
<1>1. UNCHANGED <<history, session, pageVars, composerVars, acts>>
  BY DEF CheckRevision, ReadForRefresh, Inspect, Fail
<1>2. Grows /\ UNCHANGED call
  BY <1>1, GrowsWithActs DEF pageVars
<1>3. HistoryOK' /\ SessionOK'
  BY <1>1, HistoryStays, SessionStays DEF IInv
<1>4. RequestsOK'
  <2>1. ASSUME NEW status, NEW found, Moves(request, status, found), status # "done" \/ request.kind # "save"
        PROVE  RequestsOK'
    BY <1>2, <2>1, RequestMoves
  <2>2. CASE CheckRevision(request)
    <3> DEFINE Goes(status) == \E found : Moves(request, status, found)
    <3>1. Goes("conflict") \/ Goes("checked") \/ Goes("unavailable") \/ Goes("invalid")
      BY <2>2, Zenon DEF CheckRevision
    <3>2. QED
      BY <2>1, <3>1
  <2>3. CASE ReadForRefresh(request)
    BY <2>1, <2>3 DEF ReadForRefresh
  <2>4. CASE Inspect(request)
    BY <2>1, <2>4 DEF Inspect
  <2>5. CASE Fail(request)
    BY <2>1, <2>5 DEF Fail
  <2>6. QED
    BY <2>2, <2>3, <2>4, <2>5
<1>5. QED
  BY <1>1, <1>2, <1>3, <1>4, RuntimeStep

LEMMA CommitStep == ASSUME IInv, NEW request \in requests, Commit(request) PROVE IInv'
<1>1. /\ request.kind = "save" /\ UNCHANGED <<session, pageVars, composerVars, acts, call>>
      /\ RequestOK(request) /\ DraftOK(request.draft) /\ request.id \in Providers /\ HistoryOK
  BY DEF Commit, IInv, RequestsOK, RequestOK, pageVars
<1>2. SessionOK'
  BY <1>1, SessionStays DEF IInv
<1>3. CASE /\ request.draft.revision = Latest
           /\ Stored(request.id, request.draft.config, request.draft.seen)
           /\ Moves(request, "done", None)
  <2>1. request.draft.seen = Latest
    BY <1>1, <1>3 DEF DraftOK
  <2>2. /\ HistoryOK' /\ Latest' = Latest + 1 /\ \A k \in 1..Latest : history'[k] = history[k]
        /\ history'[Latest + 1].document[request.id] = request.draft.config
    BY <1>1, <1>3, <2>1, StoredFacts
  <2>3. Grows
    BY <1>1, <2>2, GrowsWithActs
  <2>4. Latest + 1 \in 1..Latest'
    BY <2>2 DEF HistoryOK
  <2>5. IsStored(request.draft, request.id)'
    BY <1>3, <2>2, <2>4 DEF IsStored
  <2>6. RequestsOK'
    BY <1>1, <1>3, <2>3, <2>5, RequestMoves
  <2>7. QED
    BY <1>1, <1>2, <2>2, <2>3, <2>6, RuntimeStep
<1>4. CASE Moves(request, "conflict", None) /\ UNCHANGED history
  <2>1. Grows
    BY <1>1, <1>4, GrowsWithActs
  <2>2. HistoryOK'
    BY <1>4, HistoryStays DEF IInv
  <2>3. RequestsOK'
    BY <1>1, <1>4, <2>1, RequestMoves
  <2>4. QED
    BY <1>1, <1>2, <2>1, <2>2, <2>3, RuntimeStep
<1>5. QED
  BY <1>3, <1>4 DEF Commit

LEMMA OtherSavesStep ==
  ASSUME IInv, NEW q \in Providers, NEW config \in OtherConfigs, OtherSaves(q, config)
  PROVE  IInv'
<1>1. /\ Stored(q, config, Latest) /\ acts' = acts + 1
      /\ UNCHANGED <<requests, session, pageVars, composerVars, call>>
  BY DEF OtherSaves, Acts, pageVars
<1>2. HistoryOK' /\ Latest' = Latest + 1 /\ \A k \in 1..Latest : history'[k] = history[k]
  BY <1>1, StoredFacts DEF IInv
<1>3. Grows
  BY <1>1, <1>2, GrowsWithActs
<1>4. SessionOK'
  BY <1>1, SessionStays DEF IInv
<1>5. RequestsOK'
  BY <1>1, <1>3, RequestStays DEF RequestsOK
<1>6. QED
  BY <1>1, <1>2, <1>3, <1>4, <1>5, RuntimeStep

(* The draft that goes is one that was stored.                             *)
LEMMA ReturnStep == ASSUME IInv, NEW request \in requests, Return(request) PROVE IInv'
<1>1. /\ UNCHANGED <<history, session, settings, selected, composerVars, acts>>
      /\ call' = None /\ requests' \subseteq requests
  BY DEF Return
<1>2. call # None /\ call.id \in Providers
  BY DEF Return, Answered, Waits, Locked, IInv, CallOK
<1>3. Grows
  BY <1>1, GrowsWithActs
<1>4. HistoryOK' /\ SessionOK'
  BY <1>1, HistoryStays, SessionStays DEF IInv
<1>5. DOMAIN drafts' = Providers /\ \A q \in Providers : drafts'[q] = None \/ drafts'[q] = drafts[q]
  BY <1>2 DEF Return, IInv, PageOK
<1>6. PageOK'
  BY <1>1, <1>3, <1>5, PageStays DEF IInv, PageOK, composerVars
<1>7. CallOK'
  BY <1>1 DEF CallOK
<1>8. RequestsOK'
  BY <1>1, <1>3, RequestStays DEF RequestsOK
<1>9. QED
  BY <1>4, <1>6, <1>7, <1>8 DEF IInv

(* A step of the conversation leaves the document and the page.            *)
LEMMA ConversationStep ==
  ASSUME IInv, UNCHANGED <<history, requests, pageVars, composerVars>>, acts' = acts + 1, SessionOK'
  PROVE  IInv'
<1>1. Grows
  BY GrowsWithActs
<1>2. HistoryOK'
  BY HistoryStays DEF IInv
<1>3. call' = call
  BY DEF pageVars
<1>4. RequestsOK'
  BY <1>1, <1>3, RequestStays DEF RequestsOK
<1>5. QED
  BY <1>1, <1>2, <1>4, RuntimeStep

LEMMA CreateStep == ASSUME IInv, Create PROVE IInv'
<1> DEFINE q == choice.profile
           run(known) == selection(known, OptionsOf(Profile(q)), OptionsOf(choice))
           shown == [model |-> ShownModel, effort |-> ShownEffort]
           new(known) == [profile |-> q, snapshot |-> run(known), ran |-> run(known),
                          promised |-> IF settings = Served /\ inventory[q] # None THEN shown ELSE run(known)]
<1>1. UNCHANGED <<history, requests, pageVars, composerVars>> /\ acts' = acts + 1
  BY DEF Create, Acts
<1>2. UNCHANGED session \/ \E known \in warmSelection(q, OptionsOf(Profile(q))) : session' = new(known)
  BY Zenon DEF Create
<1>3. ASSUME NEW known \in warmSelection(q, OptionsOf(Profile(q))), session' = new(known) PROVE SessionOK'
  <2>1. IsOptions(run(known))
    BY SelectionFacts
  <2>2. settings = Served /\ inventory[q] # None => shown = run(known)
    <3>1. inventory[q] # None => known = inventory[q]
      BY <1>3 DEF warmSelection
    <3>2. PageOK
      BY DEF IInv
    <3>3. QED
      BY <3>1, <3>2, ShownRuns
  <2> HIDE DEF run, shown
  <2>3. /\ new(known).snapshot = run(known) /\ new(known).ran = run(known)
        /\ new(known).promised = run(known)
        /\ new(known) = [profile |-> new(known).profile, snapshot |-> new(known).snapshot,
                         ran |-> new(known).ran, promised |-> new(known).promised]
    BY <2>2
  <2> HIDE DEF new
  <2>4. QED
    BY <1>3, <2>1, <2>3 DEF SessionOK
<1>4. SessionOK'
  BY <1>2, <1>3, SessionStays DEF IInv
<1>5. QED
  BY <1>1, <1>4, ConversationStep

(* A prompt without options leaves a full snapshot what it is.             *)
LEMMA PromptStep == ASSUME IInv, NEW override, Prompt(override) PROVE IInv'
<1> DEFINE run(known) == selection(known, session.snapshot, override)
           kept == mergeOptions(session.snapshot, override)
           goesOn == override = NoOptions /\ Complete(session.snapshot)
           new(known) == [session EXCEPT !.snapshot = kept, !.ran = run(known),
                                         !.promised = IF goesOn THEN session.promised ELSE run(known)]
<1>1. /\ UNCHANGED <<history, requests, pageVars, composerVars>> /\ acts' = acts + 1
      /\ session # None
  BY DEF Prompt, Acts
<1>2. UNCHANGED session \/ \E known : session' = new(known)
  BY Zenon DEF Prompt, ProfileOf
<1>3. ASSUME NEW known, session' = new(known) PROVE SessionOK'
  <2>1. /\ session = [profile |-> session.profile, snapshot |-> session.snapshot,
                      ran |-> session.ran, promised |-> session.promised]
        /\ IsOptions(session.snapshot) /\ session.ran = session.promised
        /\ Complete(session.snapshot) => session.ran = session.snapshot
    BY <1>1 DEF IInv, SessionOK
  <2>2. IsOptions(kept)
    BY MergeFacts
  <2>3. Complete(kept) => run(known) = kept
    BY CompleteRuns
  <2>4. goesOn => kept = session.snapshot /\ Complete(kept)
    BY <2>1, NothingOverridden
  <2>5. goesOn => run(known) = session.promised
    BY <2>1, <2>3, <2>4
  <2> DEFINE promise == IF goesOn THEN session.promised ELSE run(known)
  <2>6. PICK p, s, r, w : session = [profile |-> p, snapshot |-> s, ran |-> r, promised |-> w]
    BY <2>1, Zenon
  <2>7. promise = run(known)
    BY <2>5
  <2>8. new(known) = [session EXCEPT !.snapshot = kept, !.ran = run(known), !.promised = promise]
    BY DEF new
  <2> HIDE DEF kept, run, goesOn, new, promise
  <2>9. session' = [profile |-> p, snapshot |-> kept, ran |-> run(known), promised |-> run(known)]
    BY <1>3, <2>6, <2>7, <2>8
  <2>10. QED
    BY <2>2, <2>3, <2>9 DEF SessionOK
<1>4. SessionOK'
  BY <1>2, <1>3, SessionStays DEF IInv
<1>5. QED
  BY <1>1, <1>4, ConversationStep

---------------------------------------------------------------------------
(* Theorems *)

LEMMA InitIInv == ASSUME Init PROVE IInv
<1> DEFINE v == [document |-> [q \in Providers |-> Defaults], seen |-> 0]
<1>1. history = <<v>> /\ DOMAIN v.document = Providers
  BY DEF Init
<1> HIDE DEF v
<1>2. history \in Seq({v}) /\ Latest = 1 /\ history[1] = v
  BY <1>1 DEF Latest
<1>3. HistoryOK
  <2>1. \E S : history \in Seq(S)
    BY <1>2, Zenon
  <2>2. \A k \in 1..Latest : k = 1
    BY <1>2
  <2>3. QED
    BY <1>1, <1>2, <2>1, <2>2 DEF HistoryOK
<1>4. selected \in Providers /\ choice.profile = selected
  BY SettingsAssumption DEF Init
<1>5. settings.revision \in Nat
  BY <1>2 DEF Init, Served
<1>6. PageOK
  BY <1>4, <1>5 DEF PageOK, Init
<1>7. CallOK /\ RequestsOK /\ SessionOK
  BY DEF Init, CallOK, RequestsOK, SessionOK
<1>8. QED
  BY <1>3, <1>6, <1>7 DEF IInv

LEMMA NextIInv == ASSUME IInv, [Next]_vars PROVE IInv'
<1>1. CASE UNCHANGED vars
  <2>1. UNCHANGED <<storeVars, acts, call, settings, selected, choice, drafts>>
    BY <1>1 DEF vars, pageVars, composerVars
  <2>2. PageOK
    BY DEF IInv
  <2>3. QED
    BY <2>1, <2>2, PageStep DEF PageOK
<1>2. CASE Next
  BY <1>2, EditStep, FormSteps, SaveSteps, LoseSteps, RequestSteps, CommitStep, ReturnStep, OtherSavesStep,
     CreateStep, PromptStep DEF Next
<1>3. QED
  BY <1>1, <1>2

(* The invariant the theorems rest on holds in every reachable state.      *)
THEOREM Inductive == Spec => []IInv
  BY InitIInv, NextIInv, PTL DEF Spec

(* No save overwrites a version its author did not see, however edits,     *)
(* fetches, other processes' saves, calls the page gave up on and the two  *)
(* checks of UpdateSettings interleave (settings.go,                       *)
(* AgentProviderSettings.tsx).                                             *)
THEOREM UpdatesCorrect == Spec => []NoLostUpdate
<1>1. IInv => NoLostUpdate
  BY DEF IInv, HistoryOK, NoLostUpdate
<1>2. QED
  BY <1>1, Inductive, PTL

(* What a page saves has no effort that was not offered with its model,    *)
(* whatever catalogs the page was given meanwhile: onChange of the form    *)
(* drops the effort with the model (ProviderSettingsForm.tsx).             *)
THEOREM EffortCorrect == Spec => []EffortOfModel
<1>1. IInv => EffortOfModel
  BY DEF IInv, CallOK, DraftOK, EffortOfModel, Locked
<1>2. QED
  BY <1>1, Inductive, PTL

(* A conversation runs with what an up-to-date composer showed when it was *)
(* created, and a prompt without options goes on with it: the snapshot of  *)
(* Broker.Create and Broker.Prompt (broker.go) keeps it from every later   *)
(* save, refresh and restart, and selection (settings.go) takes nothing    *)
(* from the client where the snapshot names model and effort.              *)
THEOREM ShownCorrect == Spec => []ShownIsRun
<1>1. IInv => ShownIsRun
  BY DEF IInv, SessionOK, ShownIsRun
<1>2. QED
  BY <1>1, Inductive, PTL

(* A draft leaves the page only when the operator discards it or the       *)
(* version after its revision holds it: a conflict, an error, a lost       *)
(* reply, a fetch or an edit keeps it (UPSTREAM.md,                        *)
(* AgentProviderSettings.tsx).                                             *)
THEOREM DraftsCorrect == Spec => DraftIsKept
<1> DEFINE Kept ==
      \A q \in Providers :
        drafts[q] # None /\ drafts'[q] = None =>
            \/ Discard /\ q = selected
            \/ /\ drafts[q].revision < Latest
               /\ history[drafts[q].revision + 1].document[q] = drafts[q].config
<1>1. ASSUME IInv, [Next]_vars PROVE [Kept]_vars
  <2> SUFFICES ASSUME NEW q \in Providers, drafts[q] # None, drafts'[q] = None,
                      ~(Discard /\ q = selected)
               PROVE  /\ drafts[q].revision < Latest
                      /\ history[drafts[q].revision + 1].document[q] = drafts[q].config
    OBVIOUS
  <2>1. drafts' # drafts /\ DOMAIN drafts = Providers
    BY <1>1 DEF IInv, PageOK
  <2>2. ~Discard
    BY <2>1 DEF Discard
(* An edit that left nothing would be a discard.                           *)
  <2>3. ASSUME NEW field, NEW value, Edit(field, value) PROVE FALSE
    <3>1. PICK x : drafts' = [drafts EXCEPT ![selected] = x]
      BY <2>3, Zenon DEF Edit
    <3>2. q = selected /\ x = None
      BY <2>1, <3>1
    <3>3. ~Locked /\ Acts /\ UNCHANGED <<storeVars, settings, selected, call, composerVars>>
      BY <2>3 DEF Edit
    <3>4. Discard
      BY <3>1, <3>2, <3>3 DEF Discard
    <3>5. QED
      BY <2>2, <3>4
  <2>4. PICK request \in requests : Return(request)
    BY <1>1, <2>1, <2>2, <2>3 DEF Next, vars, Save, Refresh, Calls, CheckRevision, Commit, ReadForRefresh,
       Inspect, Fail, Lose, Fetch, Restart, Select, OtherSaves, PickModel, PickEffort, Change, Create, Prompt,
       pageVars
  <2>5. /\ q = call.id /\ call.kind = "save" /\ request.status = "done" /\ drafts[q] = call.draft
        /\ Waits(request)
    BY <2>1, <2>4 DEF Return, Answered
  <2>6. request.kind = "save" /\ request.id = q /\ request.draft = drafts[q] /\ RequestOK(request)
    BY <1>1, <2>5 DEF IInv, RequestsOK, RequestOK
  <2>7. IsStored(drafts[q], q) /\ drafts[q].revision \in Nat /\ Latest \in Nat
    BY <1>1, <2>5, <2>6 DEF RequestOK, DraftOK, IInv, HistoryOK
  <2>8. QED
    BY <2>7 DEF IsStored
<1>2. QED
  BY <1>1, Inductive, PTL DEF Spec, DraftIsKept


---------------------------------------------------------------------------
(* Numbers *)

(* A set of numbers has a least one.                                       *)
LEMMA LeastNumber ==
  ASSUME NEW T, T \subseteq Nat, T # {}
  PROVE  \E n \in T : \A m \in T : n <= m
<1> DEFINE R == OpToRel(<, Nat)
<1>1. IsWellFoundedOn(R, Nat)
  BY NatLessThanWellFounded
<1>2. \A n, m \in Nat : <<m, n>> \in R <=> m < n
  BY DEF OpToRel
<1> HIDE DEF R
<1>3. PICK n \in T : \A m \in T : ~ (<<m, n>> \in R)
  BY <1>1, WFMin
<1>4. \A m \in T : n <= m
  <2> SUFFICES ASSUME NEW m \in T PROVE n <= m
    OBVIOUS
  <2>1. n \in Nat /\ m \in Nat
    OBVIOUS
  <2>2. ~ (m < n)
    BY <1>2, <1>3, <2>1, Zenon
  <2>3. QED
    BY <2>1, <2>2
<1>5. QED
  BY <1>4

LEMMA MinOf ==
  ASSUME NEW T, T \subseteq Nat, T # {}
  PROVE  Min(T) \in T /\ Min(T) \in Nat /\ \A m \in T : Min(T) <= m
<1>1. \E n \in T : \A m \in T : n <= m
  BY LeastNumber
<1>2. Min(T) \in T /\ \A m \in T : Min(T) <= m
  BY <1>1, Zenon DEF Min
<1>3. QED
  BY <1>2

(* A bounded set of numbers has a greatest one.                            *)
LEMMA MaxOf ==
  ASSUME NEW T, NEW b \in Nat, T \subseteq 0 .. b, T # {}
  PROVE  Max(T) \in T /\ \A m \in T : Max(T) >= m
<1> DEFINE U == {b - m : m \in T}
<1>1. U \subseteq Nat /\ U # {}
  <2>1. \A m \in T : b - m \in Nat
    OBVIOUS
  <2>2. PICK x \in T : TRUE
    OBVIOUS
  <2>3. b - x \in U
    OBVIOUS
  <2>4. QED
    BY <2>1, <2>3
<1>2. PICK u \in U : \A m \in U : u <= m
  <2> HIDE DEF U
  <2>1. QED
    BY <1>1, LeastNumber
<1>3. PICK n \in T : u = b - n
  BY <1>2
<1>4. \A m \in T : n >= m
  <2> TAKE m \in T
  <2>1. b - m \in U
    OBVIOUS
  <2>2. u <= b - m
    BY <1>2, <2>1, Zenon
  <2>3. QED
    BY <1>3, <2>2
<1>5. \E x \in T : \A y \in T : x >= y
  BY <1>4
<1>6. QED
  BY <1>5, Zenon DEF Max

(* A set of numbers with 0 and the successor of each of its members.       *)
LEMMA AllNumbers ==
  ASSUME NEW Good, 0 \in Good, \A n \in Nat : n \in Good => n + 1 \in Good
  PROVE  \A n \in Nat : n \in Good
<1> DEFINE Bad == {n \in Nat : n \notin Good}
<1>1. SUFFICES ASSUME Bad # {} PROVE FALSE
  OBVIOUS
<1>2. Bad \subseteq Nat
  OBVIOUS
<1>3. PICK n \in Bad : \A m \in Bad : n <= m
  <2> HIDE DEF Bad
  <2>1. QED
    BY <1>1, <1>2, LeastNumber
<1>4. n \in Nat /\ n \notin Good /\ n # 0
  BY <1>3
<1>5. n - 1 \in Nat /\ ~ (n <= n - 1)
  BY <1>4
<1>6. n - 1 \in Good
  BY <1>3, <1>5
<1>7. (n - 1) + 1 \in Good
  BY <1>5, <1>6, Zenon
<1>8. QED
  BY <1>4, <1>7

---------------------------------------------------------------------------
(* Texts *)

(* A text is a sequence of characters, whatever they are.                  *)
Text(t) == \E S : t \in Seq(S)

LEMMA TextFacts ==
  ASSUME NEW t, Text(t)
  PROVE  Len(t) \in Nat /\ DOMAIN t = 1 .. Len(t) /\ (t = <<>> <=> Len(t) = 0)
<1>1. PICK S : t \in Seq(S)
  BY Zenon DEF Text
<1>2. QED
  BY <1>1

LEMMA FunctionIsText ==
  ASSUME NEW k \in Nat, NEW t, DOMAIN t = 1 .. k, t = [i \in 1 .. k |-> t[i]]
  PROVE  Text(t)
<1> DEFINE S == {t[i] : i \in 1 .. k}
<1>1. \A i \in 1 .. k : t[i] \in S
  OBVIOUS
<1> HIDE DEF S
<1>2. t \in [1 .. k -> S]
  BY <1>1
<1>3. t \in Seq(S)
  BY <1>2
<1>4. QED
  BY <1>3, Zenon DEF Text

LEMMA NormalizedIsText ==
  ASSUME NEW input, Text(input)
  PROVE  Text(normalizeSearchQuery(input))
<1> DEFINE solid == {i \in DOMAIN input : input[i] # Blank}
           lower(c) == IF c \in DOMAIN LowerOf THEN LowerOf[c] ELSE c
           size == Max(solid) - Min(solid) + 1
           t == [i \in 1 .. size |-> lower(input[Min(solid) + i - 1])]
<1>1. CASE solid = {}
  <2>1. normalizeSearchQuery(input) = <<>>
    BY <1>1 DEF normalizeSearchQuery
  <2>2. <<>> \in Seq({})
    OBVIOUS
  <2>3. QED
    BY <2>1, <2>2, Zenon DEF Text
<1>2. CASE solid # {}
  <2>1. Len(input) \in Nat /\ solid \subseteq 1 .. Len(input)
    BY TextFacts
  <2>2. size \in Nat
    <3> HIDE DEF solid
    <3>1. solid \subseteq 0 .. Len(input) /\ solid \subseteq Nat
      BY <2>1
    <3>2. Min(solid) \in solid /\ Max(solid) \in solid /\ Max(solid) >= Min(solid)
      BY <1>2, <2>1, <3>1, MinOf, MaxOf
    <3>3. Min(solid) \in Nat /\ Max(solid) \in Nat
      BY <3>1, <3>2, Zenon
    <3>4. \A m, n \in Nat : n >= m => n - m + 1 \in Nat
      OBVIOUS
    <3>5. QED
      BY <3>2, <3>3, <3>4, Zenon
  <2>3. normalizeSearchQuery(input) = t
    BY <1>2, Zenon DEF normalizeSearchQuery
  <2>4. DOMAIN t = 1 .. size /\ t = [i \in 1 .. size |-> t[i]]
    BY Zenon
  <2> HIDE DEF t, size
  <2>5. Text(t)
    BY <2>2, <2>4, FunctionIsText
  <2>6. QED
    BY <2>3, <2>5
<1>3. QED
  BY <1>1, <1>2

LEMMA JoinedIsText ==
  ASSUME NEW a \in Seq(Characters \cup {Blank}), NEW b \in Seq(Characters \cup {Blank})
  PROVE  Joined(a, b) \in Seq(Characters \cup {Blank})
<1> DEFINE C == Characters \cup {Blank}
<1>1. <<Blank>> \in Seq(C)
  OBVIOUS
<1> HIDE DEF C
<1>2. a \o <<Blank>> \in Seq(C)
  BY <1>1, ConcatProperties DEF C
<1>3. a \o <<Blank>> \o b \in Seq(C)
  BY <1>2, ConcatProperties DEF C
<1>4. QED
  BY <1>3, Zenon DEF Joined, C

IsRow(row) ==
    /\ row.name \in Seq(Characters) /\ row.shortName \in Seq(Characters)
    /\ row.driverKind \in Seq(Characters) /\ row.providerDisplayName \in Seq(Characters)

(* There are four or five fields, all of them texts.                       *)
LEMMA FieldsAreTexts ==
  ASSUME NEW row, IsRow(row)
  PROVE  LET fields == getModelPickerSearchFields(row)
         IN /\ Len(fields) \in Nat /\ DOMAIN fields = 1 .. Len(fields)
            /\ \A i \in DOMAIN fields : Text(fields[i])
<1> DEFINE fields == getModelPickerSearchFields(row)
           a == normalizeSearchQuery(row.name)
           b == normalizeSearchQuery(row.shortName)
           c == normalizeSearchQuery(row.driverKind)
           d == normalizeSearchQuery(row.providerDisplayName)
           e == buildModelPickerSearchText(row)
           T == {a, b, c, d, e}
<1>1. Text(a) /\ Text(b) /\ Text(c) /\ Text(d)
  <2>1. Text(row.name) /\ Text(row.shortName) /\ Text(row.driverKind) /\ Text(row.providerDisplayName)
    BY Zenon DEF IsRow, Text
  <2>2. QED
    BY <2>1, NormalizedIsText
<1>2. Text(e)
  <2> DEFINE C == Characters \cup {Blank}
  <2>1. row.name \in Seq(C) /\ row.shortName \in Seq(C) /\ row.driverKind \in Seq(C) /\ row.providerDisplayName \in Seq(C)
    BY DEF IsRow
  <2>2. Joined(Joined(Joined(row.name, row.shortName), row.driverKind), row.providerDisplayName) \in Seq(C)
    BY <2>1, JoinedIsText
  <2> HIDE DEF C
  <2>3. Text(Joined(Joined(Joined(row.name, row.shortName), row.driverKind), row.providerDisplayName))
    BY <2>2, Zenon DEF Text
  <2>4. QED
    BY <2>3, NormalizedIsText DEF buildModelPickerSearchText
<1>3. fields = <<a>> \o (IF row.shortName = <<>> THEN <<>> ELSE <<b>>) \o <<c, d, e>>
  BY DEF getModelPickerSearchFields
<1> HIDE DEF fields, a, b, c, d, e
<1>4. fields \in Seq(T)
  <2> DEFINE m == IF row.shortName = <<>> THEN <<>> ELSE <<b>>
  <2>1. <<a>> \in Seq(T) /\ m \in Seq(T) /\ <<c, d, e>> \in Seq(T)
    <3>1. a \in T /\ b \in T /\ c \in T /\ d \in T /\ e \in T
      BY Zenon
    <3> HIDE DEF T
    <3>2. <<a>> \in Seq(T) /\ <<b>> \in Seq(T) /\ <<>> \in Seq(T)
      BY <3>1
    <3>3. <<c, d, e>> \in Seq(T)
      BY <3>1
    <3>4. QED
      BY <3>2, <3>3, Zenon
  <2> HIDE DEF m, T
  <2>2. <<a>> \o m \in Seq(T)
    BY <2>1, ConcatProperties
  <2>3. <<a>> \o m \o <<c, d, e>> \in Seq(T)
    BY <2>1, <2>2, ConcatProperties
  <2>4. QED
    BY <1>3, <2>3, Zenon DEF m
<1>5. \A t \in T : Text(t)
  BY <1>1, <1>2
<1> HIDE DEF T
<1>6. Len(fields) \in Nat /\ DOMAIN fields = 1 .. Len(fields) /\ \A i \in DOMAIN fields : fields[i] \in T
  BY <1>4
<1>7. QED
  BY <1>5, <1>6, Zenon DEF fields

(* A token is a text that is not empty.                                    *)
LEMMA TokensAreTexts ==
  ASSUME NEW query, Text(query)
  PROVE  /\ DOMAIN Tokens(query) \subseteq 1 .. Len(normalizeSearchQuery(query))
         /\ \A k \in DOMAIN Tokens(query) : Text(Tokens(query)[k]) /\ Tokens(query)[k] # <<>>
<1> DEFINE text == normalizeSearchQuery(query)
           ends == {n \in DOMAIN text : text[n] # Blank /\ (n = Len(text) \/ text[n + 1] = Blank)}
           from(n) == {i \in 1 .. n : \A j \in i .. n : text[j] # Blank}
           tokens == [n \in ends |-> SubSeq(text, Min(from(n)), n)]
<1>1. Tokens(query) = tokens
  BY Zenon DEF Tokens
<1>2. Text(text) /\ Len(text) \in Nat /\ DOMAIN text = 1 .. Len(text)
  BY NormalizedIsText, TextFacts
<1> HIDE DEF text
<1>3. ASSUME NEW n \in ends PROVE Text(SubSeq(text, Min(from(n)), n)) /\ SubSeq(text, Min(from(n)), n) # <<>>
  <2>1. n \in 1 .. Len(text) /\ text[n] # Blank
    BY <1>2
  <2>2. n \in from(n) /\ from(n) \subseteq 1 .. n
    BY <2>1
  <2> HIDE DEF from
  <2>3. from(n) # {} /\ from(n) \subseteq Nat
    BY <2>1, <2>2
  <2>4. Min(from(n)) \in from(n)
    BY <2>3, MinOf
  <2>5. Min(from(n)) \in 1 .. n
    BY <2>2, <2>4
  <2>6. PICK S : text \in Seq(S)
    BY <1>2, Zenon DEF Text
  <2> DEFINE m == Min(from(n))
             t == SubSeq(text, m, n)
  <2>7. m \in 1 .. n
    BY <2>5
  <2> HIDE DEF m
  <2>8. t \in Seq(S) /\ Len(t) = n - m + 1
    <3>1. m \in Int /\ n \in Int /\ m <= n /\ \A i \in m .. n : text[i] \in S
      BY <1>2, <2>1, <2>6, <2>7
    <3>2. SubSeq(text, m, n) \in Seq(S) /\ Len(SubSeq(text, m, n)) = IF m <= n THEN n - m + 1 ELSE 0
      BY <3>1, SubSeqProperties, Zenon
    <3>3. QED
      BY <3>1, <3>2, Zenon
  <2> HIDE DEF t
  <2>9. t # <<>>
    <3>1. n \in Nat /\ m \in 1 .. n
      BY <2>1, <2>7
    <3>2. Len(t) # 0
      BY <2>8, <3>1
    <3>3. QED
      BY <2>8, <3>2
  <2>10. Text(t)
    BY <2>8, Zenon DEF Text
  <2>11. QED
    BY <2>9, <2>10 DEF t, m
<1>4. DOMAIN tokens = ends /\ \A n \in ends : tokens[n] = SubSeq(text, Min(from(n)), n)
  BY Zenon
<1>5. ends \subseteq 1 .. Len(text)
  BY <1>2
<1> HIDE DEF ends, tokens, from
<1>6. QED
  BY <1>1, <1>3, <1>4, <1>5, Zenon DEF text
---------------------------------------------------------------------------
(* A part of a text *)

(* The part is in the text, after i characters.                            *)
At(value, part, i) ==
    i \in 0 .. Len(value) - Len(part) /\ \A k \in 1 .. Len(part) : value[i + k] = part[k]

LEMMA AtIsSubSeq ==
  ASSUME NEW value, Text(value), NEW part, Text(part), NEW i \in 0 .. Len(value) - Len(part)
  PROVE  SubSeq(value, i + 1, i + Len(part)) = part <=> At(value, part, i)
<1> DEFINE v == Len(value)
           n == Len(part)
           s == SubSeq(value, i + 1, i + n)
<1>1. v \in Nat /\ n \in Nat /\ i \in Nat /\ i + n <= v
  BY TextFacts
<1>2. PICK S : value \in Seq(S)
  BY Zenon DEF Text
<1>3. PICK P : part \in Seq(P)
  BY Zenon DEF Text
<1>4. \A k \in i + 1 .. i + n : value[k] \in S
  BY <1>1, <1>2
<1> HIDE DEF v, n
<1>5. /\ s \in Seq(S) /\ Len(s) = IF i + 1 <= i + n THEN (i + n) - (i + 1) + 1 ELSE 0
      /\ \A k \in 1 .. (i + n) - (i + 1) + 1 : s[k] = value[(i + 1) + k - 1]
  <2>1. i + 1 \in Int /\ i + n \in Int
    BY <1>1
  <2>2. QED
    BY <1>4, <2>1, SubSeqProperties
<1>6. Len(s) = n
  <2> HIDE DEF s
  <2>1. QED
    BY <1>1, <1>5
<1>7. \A k \in 1 .. n : s[k] = value[i + k]
  <2> HIDE DEF s
  <2> TAKE k \in 1 .. n
  <2>1. k \in 1 .. (i + n) - (i + 1) + 1 /\ (i + 1) + k - 1 = i + k
    BY <1>1
  <2>2. QED
    BY <1>5, <2>1, Zenon
<1> HIDE DEF s
<1>8. s = part <=> \A k \in 1 .. n : s[k] = part[k]
  BY <1>3, <1>5, <1>6 DEF n
<1>9. s = part <=> At(value, part, i)
  BY <1>7, <1>8, Zenon DEF At, n
<1>10. QED
  BY <1>9, Zenon DEF s, n

LEMMA IndexOfFacts ==
  ASSUME NEW value, Text(value), NEW part, Text(part)
  PROVE  /\ IndexOf(value, part) # -1 => IndexOf(value, part) \in Nat /\ At(value, part, IndexOf(value, part))
         /\ (\E i : At(value, part, i)) => IndexOf(value, part) # -1
<1> DEFINE starts == {i \in 0 .. Len(value) - Len(part) : SubSeq(value, i + 1, i + Len(part)) = part}
<1>1. starts = {i \in 0 .. Len(value) - Len(part) : At(value, part, i)}
  <2>1. \A i \in 0 .. Len(value) - Len(part) : SubSeq(value, i + 1, i + Len(part)) = part <=> At(value, part, i)
    BY AtIsSubSeq
  <2>2. QED
    BY <2>1, Zenon
<1>2. IndexOf(value, part) = IF starts = {} THEN -1 ELSE Min(starts)
  BY Zenon DEF IndexOf
<1>3. starts \subseteq Nat
  OBVIOUS
<1>4. \A i : At(value, part, i) => i \in starts
  BY <1>1, Zenon DEF At
<1>5. \A i \in starts : At(value, part, i)
  BY <1>1, Zenon
<1> HIDE DEF starts
<1>6. starts # {} => Min(starts) \in starts /\ Min(starts) \in Nat
  BY <1>3, MinOf
<1>7. -1 \notin Nat
  OBVIOUS
<1>8. QED
  BY <1>2, <1>4, <1>5, <1>6, <1>7, Zenon

(* A text that has a part holds it.                                        *)
LEMMA AtHolds ==
  ASSUME NEW value, Text(value), NEW part, Text(part), part # <<>>, NEW i, At(value, part, i)
  PROVE  Holds(value, part)
<1> DEFINE n == Len(part)
           at == [k \in DOMAIN part |-> i + k]
<1>1. Len(value) \in Nat /\ n \in Nat /\ n # 0 /\ DOMAIN value = 1 .. Len(value) /\ DOMAIN part = 1 .. n
  BY TextFacts
<1>2. i \in Nat /\ i + n <= Len(value) /\ \A k \in 1 .. n : value[i + k] = part[k]
  BY <1>1 DEF At
<1> HIDE DEF n
<1>3. at \in [DOMAIN part -> DOMAIN value]
  BY <1>1, <1>2
<1>4. \A k \in DOMAIN part : value[at[k]] = part[k]
  BY <1>1, <1>2
<1>5. \A k, l \in DOMAIN part : k < l => at[k] < at[l]
  BY <1>1, <1>2
<1>6. at[n] - at[1] < n
  BY <1>1, <1>2
<1> HIDE DEF at
<1>7. QED
  BY <1>3, <1>4, <1>5, <1>6 DEF Holds, n

(* A token too short for gaps is in a text without any.                    *)
LEMMA ShortIsAt ==
  ASSUME NEW value, Text(value), NEW part, Text(part), part # <<>>, Len(part) < 3, Holds(value, part)
  PROVE  \E i : At(value, part, i)
<1>1. Len(value) \in Nat /\ Len(part) \in {1, 2} /\ DOMAIN value = 1 .. Len(value) /\ DOMAIN part = 1 .. Len(part)
  <2>1. /\ Len(value) \in Nat /\ DOMAIN value = 1 .. Len(value)
        /\ Len(part) \in Nat /\ DOMAIN part = 1 .. Len(part) /\ Len(part) # 0
    BY TextFacts, Zenon
  <2>2. \A n \in Nat : n # 0 /\ n < 3 => n \in {1, 2}
    OBVIOUS
  <2>3. QED
    BY <2>1, <2>2, Zenon
<1>2. PICK at \in [DOMAIN part -> DOMAIN value] :
        /\ \A k \in DOMAIN part : value[at[k]] = part[k]
        /\ \A k, l \in DOMAIN part : k < l => at[k] < at[l]
        /\ at[Len(part)] - at[1] < Len(part)
  BY DEF Holds
<1>3. \A k \in 1 .. Len(part) : at[k] \in 1 .. Len(value) /\ at[k] = (at[1] - 1) + k
  BY <1>1, <1>2
<1>4. At(value, part, at[1] - 1)
  BY <1>1, <1>2, <1>3 DEF At
<1>5. QED
  BY <1>4

(* What is behind a marker is in the text.                                 *)
LEMMA BoundaryFacts ==
  ASSUME NEW value, Text(value), NEW query, Text(query)
  PROVE  findBoundaryMatchIndex(value, query) # -1 =>
           /\ findBoundaryMatchIndex(value, query) \in Nat
           /\ \E i : At(value, query, i)
<1> DEFINE places == {IndexOf(value, <<m>> \o query) : m \in Markers} \ {-1}
<1>1. findBoundaryMatchIndex(value, query) = IF places = {} THEN -1 ELSE Min(places) + 1
  BY Zenon DEF findBoundaryMatchIndex
<1>2. ASSUME NEW m \in Markers, NEW x, x = IndexOf(value, <<m>> \o query), x # -1
      PROVE  x \in Nat /\ At(value, query, x + 1)
  <2> DEFINE marked == <<m>> \o query
  <2>1. PICK S : query \in Seq(S)
    BY Zenon DEF Text
  <2> DEFINE T == S \cup {m}
  <2>2. query \in Seq(T) /\ <<m>> \in Seq(T) /\ Len(<<m>>) = 1
    BY <2>1
  <2> HIDE DEF T
  <2>3. /\ marked \in Seq(T) /\ Len(marked) = Len(<<m>>) + Len(query)
        /\ \A i \in 1 .. Len(<<m>>) + Len(query) : marked[i] = IF i <= Len(<<m>>) THEN <<m>>[i] ELSE query[i - Len(<<m>>)]
    BY <2>2, ConcatProperties
  <2> HIDE DEF marked
  <2>4. Len(query) \in Nat /\ Len(value) \in Nat
    BY TextFacts
  <2>5. Len(marked) = Len(query) + 1 /\ \A k \in 1 .. Len(query) : marked[k + 1] = query[k]
    BY <2>2, <2>3, <2>4
  <2>6. Text(marked)
    BY <2>3, Zenon DEF Text
  <2>7. x = IndexOf(value, marked)
    BY <1>2 DEF marked
  <2>8. x \in Nat /\ At(value, marked, x)
    BY <1>2, <2>6, <2>7, IndexOfFacts
  <2>9. x + 1 \in 0 .. Len(value) - Len(query)
    BY <2>4, <2>5, <2>8 DEF At
  <2>10. \A k \in 1 .. Len(query) : value[(x + 1) + k] = query[k]
    <3> TAKE k \in 1 .. Len(query)
    <3>1. k + 1 \in 1 .. Len(marked) /\ (x + 1) + k = x + (k + 1)
      BY <2>4, <2>5, <2>8
    <3>2. value[x + (k + 1)] = marked[k + 1]
      BY <2>8, <3>1, Zenon DEF At
    <3>3. QED
      BY <2>5, <3>1, <3>2
  <2>11. QED
    BY <2>8, <2>9, <2>10, Zenon DEF At
<1>3. \A x \in places : x \in Nat /\ At(value, query, x + 1)
  BY <1>2
<1> HIDE DEF places
<1>4. places # {} => Min(places) \in places /\ Min(places) \in Nat
  BY <1>3, MinOf
<1>5. places # {} => Min(places) + 1 \in Nat /\ At(value, query, Min(places) + 1)
  BY <1>3, <1>4
<1>6. QED
  BY <1>1, <1>5
---------------------------------------------------------------------------
(* The pass of scoreSubsequenceMatch *)

FreshPass == [next |-> 1, first |-> 0, last |-> 0, gap |-> 0]

(* The recursion of the pass, as far as k.                                 *)
IsScan(f, value, query, k) ==
    f = [n \in 0 .. k |-> IF n = 0 THEN FreshPass ELSE Take(f[n - 1], value, query, n)]

LEMMA ScanLonger ==
  ASSUME NEW value, NEW query, NEW k \in Nat, NEW g, IsScan(g, value, query, k)
  PROVE  \E h : IsScan(h, value, query, k + 1)
<1> DEFINE h == [n \in 0 .. k + 1 |-> IF n = k + 1 THEN Take(g[k], value, query, n) ELSE g[n]]
<1>1. h[k] = g[k]
  OBVIOUS
<1>2. \A n \in 0 .. k + 1 : h[n] = IF n = 0 THEN FreshPass ELSE Take(h[n - 1], value, query, n)
  <2> TAKE n \in 0 .. k + 1
  <2>1. CASE n = k + 1
    <3>1. n # 0 /\ n - 1 = k
      BY <2>1
    <3>2. h[n] = Take(g[k], value, query, n)
      BY <2>1, Zenon
    <3>3. QED
      BY <1>1, <3>1, <3>2, Zenon
  <2>2. CASE n # k + 1
    <3>1. n \in 0 .. k /\ h[n] = g[n]
      BY <2>2
    <3>2. g[n] = IF n = 0 THEN FreshPass ELSE Take(g[n - 1], value, query, n)
      BY <3>1, Zenon DEF IsScan
    <3>3. n # 0 => h[n - 1] = g[n - 1]
      BY <3>1
    <3>4. QED
      BY <3>1, <3>2, <3>3, Zenon
  <2>3. QED
    BY <2>1, <2>2
<1>3. h = [n \in 0 .. k + 1 |-> h[n]]
  BY Zenon
<1> HIDE DEF h
<1>4. h = [n \in 0 .. k + 1 |-> IF n = 0 THEN FreshPass ELSE Take(h[n - 1], value, query, n)]
  BY <1>2, <1>3, Zenon
<1>5. QED
  BY <1>4, Zenon DEF IsScan

LEMMA ScanExists ==
  ASSUME NEW value, NEW query
  PROVE  \A k \in Nat : \E f : IsScan(f, value, query, k)
<1> DEFINE Good == {k \in Nat : \E f : IsScan(f, value, query, k)}
<1>1. 0 \in Good
  <2> DEFINE g == [n \in 0 .. 0 |-> FreshPass]
  <2>1. g = [n \in 0 .. 0 |-> IF n = 0 THEN FreshPass ELSE Take(g[n - 1], value, query, n)]
    <3>1. \A n \in 0 .. 0 : n = 0
      OBVIOUS
    <3>2. QED
      BY <3>1, Zenon
  <2>2. IsScan(g, value, query, 0)
    BY <2>1, Zenon DEF IsScan
  <2>3. QED
    BY <2>2, Zenon
<1>2. \A n \in Nat : n \in Good => n + 1 \in Good
  <2> SUFFICES ASSUME NEW n \in Nat, n \in Good PROVE n + 1 \in Good
    BY Zenon
  <2>1. PICK g : IsScan(g, value, query, n)
    BY Zenon
  <2>2. \E h : IsScan(h, value, query, n + 1)
    BY <2>1, ScanLonger
  <2>3. n + 1 \in Nat
    OBVIOUS
  <2>4. QED
    BY <2>2, <2>3, Zenon
<1>3. \A n \in Nat : n \in Good
  <2> HIDE DEF Good
  <2>1. QED
    BY <1>1, <1>2, AllNumbers
<1>4. QED
  BY <1>3, Zenon

Verdict(pass, value, query) ==
    IF query = <<>> THEN 0 ELSE IF pass.next <= Len(query) THEN NoMatch
    ELSE (pass.first - 1) * 2 + pass.gap * 3 + (pass.last - pass.first + 1 - Len(query))
         + Min({64, Len(value) - Len(query)})

(* The pass takes one character after the other.                           *)
Passes(f, value, query) ==
    /\ f[0] = FreshPass
    /\ \A n \in 1 .. Len(value) : f[n] = Take(f[n - 1], value, query, n)

LEMMA ScanValue ==
  ASSUME NEW value, NEW query, Len(value) \in Nat
  PROVE  \E f : /\ Passes(f, value, query)
                /\ scoreSubsequenceMatch(value, query) = Verdict(f[Len(value)], value, query)
<1> DEFINE f == CHOOSE g : g = [n \in 0 .. Len(value) |->
                     IF n = 0 THEN [next |-> 1, first |-> 0, last |-> 0, gap |-> 0]
                     ELSE Take(g[n - 1], value, query, n)]
<1>1. f = [n \in 0 .. Len(value) |-> IF n = 0 THEN FreshPass ELSE Take(f[n - 1], value, query, n)]
  <2>1. \E g : IsScan(g, value, query, Len(value))
    BY ScanExists
  <2>2. QED
    BY <2>1, Zenon DEF IsScan, FreshPass
<1>2. scoreSubsequenceMatch(value, query) = Verdict(f[Len(value)], value, query)
  BY Zenon DEF scoreSubsequenceMatch, Verdict
<1> HIDE DEF f
<1>3. \A n \in 0 .. Len(value) : f[n] = IF n = 0 THEN FreshPass ELSE Take(f[n - 1], value, query, n)
  BY <1>1, Zenon
<1>4. 0 \in 0 .. Len(value) /\ \A n \in 1 .. Len(value) : n \in 0 .. Len(value) /\ n # 0
  OBVIOUS
<1>5. Passes(f, value, query)
  BY <1>3, <1>4, Zenon DEF Passes
<1>6. QED
  BY <1>2, <1>5, Zenon

(* What was found of the query after n characters.                         *)
Found(at, value, query, pass) ==
    /\ \A i \in 1 .. pass.next - 1 : at[i] \in 1 .. pass.last /\ value[at[i]] = query[i]
    /\ \A i, j \in 1 .. pass.next - 1 : i < j => at[i] < at[j]

PassOK(pass, value, query, n) ==
    /\ pass.next \in 1 .. Len(query) + 1 /\ pass.first \in Nat /\ pass.last \in 0 .. n /\ pass.gap \in Nat
    /\ pass.next = 1 => pass.first = 0 /\ pass.last = 0
    /\ pass.next # 1 => pass.first # 0 /\ pass.next - 1 <= pass.last - pass.first + 1
    /\ \E at : Found(at, value, query, pass)

LEMMA TakeOK ==
  ASSUME NEW value, NEW query, Len(query) \in Nat, NEW n \in Nat, NEW pass, PassOK(pass, value, query, n)
  PROVE  PassOK(Take(pass, value, query, n + 1), value, query, n + 1)
<1> DEFINE p == Take(pass, value, query, n + 1)
<1>1. CASE pass.next > Len(query) \/ value[n + 1] # query[pass.next]
  <2>1. p = pass
    BY <1>1 DEF Take
  <2>2. PassOK(pass, value, query, n + 1)
    BY DEF PassOK
  <2>3. QED
    BY <2>1, <2>2
<1>2. CASE ~ (pass.next > Len(query)) /\ value[n + 1] = query[pass.next]
  <2>1. /\ p.next = pass.next + 1 /\ p.last = n + 1
        /\ p.first = IF pass.first = 0 THEN n + 1 ELSE pass.first
        /\ p.gap = pass.gap + (IF pass.last = 0 THEN 0 ELSE (n + 1) - pass.last - 1)
    <3>1. ~ (pass.next > Len(query) \/ value[n + 1] # query[pass.next])
      BY <1>2
    <3>2. p = Taken(pass, n + 1)
      BY <3>1, Zenon DEF Take
    <3> DEFINE q == Taken(pass, n + 1)
    <3>3. q.next = pass.next + 1 /\ q.last = n + 1
      BY DEF Taken
    <3>4. q.first = IF pass.first = 0 THEN n + 1 ELSE pass.first
      BY DEF Taken
    <3>5. q.gap = pass.gap + (IF pass.last = 0 THEN 0 ELSE (n + 1) - pass.last - 1)
      BY Zenon DEF Taken
    <3> HIDE DEF p, q
    <3>6. p = q
      BY <3>2, Zenon DEF q
    <3>7. QED
      BY <3>3, <3>4, <3>5, <3>6, Zenon
  <2> HIDE DEF p
  <2>2. /\ p.next \in 1 .. Len(query) + 1 /\ p.first \in Nat /\ p.last \in 0 .. n + 1 /\ p.gap \in Nat
        /\ p.next = 1 => p.first = 0 /\ p.last = 0
        /\ p.next # 1 => p.first # 0 /\ p.next - 1 <= p.last - p.first + 1
    <3>1. /\ pass.next \in Nat /\ pass.next >= 1 /\ pass.next <= Len(query) /\ pass.first \in Nat
          /\ pass.last \in Nat /\ pass.last <= n /\ pass.gap \in Nat
          /\ pass.next = 1 => pass.first = 0 /\ pass.last = 0
          /\ pass.next # 1 => pass.first # 0 /\ pass.next - 1 <= pass.last - pass.first + 1
      BY <1>2 DEF PassOK
    <3>2. CASE pass.next = 1
      BY <2>1, <3>1, <3>2
    <3>3. CASE pass.next # 1
      <4>1. p.first = pass.first /\ pass.first # 0
        BY <2>1, <3>1, <3>3, Zenon
      <4>2. p.gap \in Nat
        BY <2>1, <3>1
      <4>3. p.next \in 1 .. Len(query) + 1 /\ p.last \in 0 .. n + 1 /\ p.next # 1
        BY <2>1, <3>1
      <4>4. p.next - 1 <= p.last - p.first + 1
        BY <2>1, <3>1, <3>3, <4>1
      <4>5. QED
        BY <3>1, <4>1, <4>2, <4>3, <4>4
    <3>4. QED
      BY <3>2, <3>3
  <2>3. PICK at : Found(at, value, query, pass)
    BY Zenon DEF PassOK
  <2> DEFINE m == pass.next
             too == [i \in 1 .. m |-> IF i = m THEN n + 1 ELSE at[i]]
  <2>4. m \in Nat /\ m # 0 /\ p.next - 1 = m /\ pass.last \in 0 .. n /\ p.last = n + 1 /\ value[n + 1] = query[m]
    BY <1>2, <2>1 DEF PassOK
  <2>5. /\ \A i \in 1 .. m - 1 : at[i] \in 1 .. pass.last /\ value[at[i]] = query[i]
        /\ \A i, j \in 1 .. m - 1 : i < j => at[i] < at[j]
    BY <2>3, Zenon DEF Found
  <2> HIDE DEF m
  <2>6. \A i \in 1 .. m : too[i] \in 1 .. p.last /\ value[too[i]] = query[i]
    BY <2>4, <2>5
  <2>7. \A i, j \in 1 .. m : i < j => too[i] < too[j]
    BY <2>4, <2>5
  <2> HIDE DEF too
  <2>8. Found(too, value, query, p)
    BY <2>4, <2>6, <2>7, Zenon DEF Found
  <2>9. PassOK(p, value, query, n + 1)
    BY <2>2, <2>8, Zenon DEF PassOK
  <2>10. QED
    BY <2>9 DEF p
<1>3. QED
  BY <1>1, <1>2

(* Where the query is in the text the pass has come at least as far.       *)
Ahead(pass, at, query, n) == \A k \in 1 .. Len(query) : at[k] <= n => pass.next > k

LEMMA TakeAhead ==
  ASSUME NEW value, NEW query, Len(query) \in Nat, NEW n \in Nat, NEW pass, PassOK(pass, value, query, n),
         NEW at, \A k \in 1 .. Len(query) : at[k] \in Nat /\ value[at[k]] = query[k],
         \A i, j \in 1 .. Len(query) : i < j => at[i] < at[j],
         Ahead(pass, at, query, n)
  PROVE  Ahead(Take(pass, value, query, n + 1), at, query, n + 1)
<1> DEFINE p == Take(pass, value, query, n + 1)
<1>1. pass.next \in Nat /\ (p.next = pass.next \/ p.next = pass.next + 1)
  BY DEF PassOK, Take, Taken
<1>2. ~ (pass.next > Len(query)) /\ value[n + 1] = query[pass.next] => p.next = pass.next + 1
  BY DEF Take, Taken
<1> HIDE DEF p
<1>3. ASSUME NEW k \in 1 .. Len(query), at[k] <= n + 1 PROVE p.next > k
  <2>1. CASE at[k] <= n
    BY <1>1, <2>1 DEF Ahead
  <2>2. CASE at[k] = n + 1
    <3>1. pass.next >= k
      <4>1. CASE k = 1
        BY <4>1 DEF PassOK
      <4>2. CASE k # 1
        <5>1. k - 1 \in 1 .. Len(query) /\ k - 1 < k
          BY <4>2
        <5>2. at[k - 1] < at[k] /\ at[k - 1] \in Nat
          BY <5>1
        <5>3. at[k - 1] <= n
          BY <2>2, <5>2
        <5>4. pass.next > k - 1
          BY <5>1, <5>3 DEF Ahead
        <5>5. QED
          BY <1>1, <5>4
      <4>3. QED
        BY <4>1, <4>2
    <3>2. CASE pass.next > k
      BY <1>1, <3>2
    <3>3. CASE pass.next = k
      <4>1. ~ (pass.next > Len(query)) /\ value[n + 1] = query[pass.next]
        BY <2>2, <3>3
      <4>2. QED
        BY <1>1, <1>2, <3>3, <4>1
    <3>4. QED
      BY <1>1, <3>1, <3>2, <3>3
  <2>3. at[k] \in Nat
    OBVIOUS
  <2>4. QED
    BY <1>3, <2>1, <2>2, <2>3
<1>4. Ahead(p, at, query, n + 1)
  BY <1>3, Zenon DEF Ahead
<1>5. QED
  BY <1>4 DEF p

(* The text has the characters of the token in order.                      *)
Spread(text, token) ==
    \E at \in [DOMAIN token -> DOMAIN text] :
        /\ \A i \in DOMAIN token : text[at[i]] = token[i]
        /\ \A i, j \in DOMAIN token : i < j => at[i] < at[j]

LEMMA ScanFacts ==
  ASSUME NEW value, Text(value), NEW query, Text(query), NEW f, Passes(f, value, query)
  PROVE  /\ PassOK(f[Len(value)], value, query, Len(value))
         /\ Spread(value, query) => f[Len(value)].next > Len(query)
<1>1. /\ Len(value) \in Nat /\ DOMAIN value = 1 .. Len(value)
      /\ Len(query) \in Nat /\ DOMAIN query = 1 .. Len(query)
  BY TextFacts
<1>2. \A n \in Nat : n + 1 <= Len(value) => f[n + 1] = Take(f[n], value, query, n + 1)
  <2> TAKE n \in Nat
  <2>1. n + 1 <= Len(value) => n + 1 \in 1 .. Len(value) /\ (n + 1) - 1 = n
    BY <1>1
  <2>2. QED
    BY <2>1, Zenon DEF Passes
<1>3. f[0] = FreshPass
  BY Zenon DEF Passes
<1>4. \A n \in Nat : n <= Len(value) => PassOK(f[n], value, query, n)
  <2> DEFINE Good == {n \in Nat : n <= Len(value) => PassOK(f[n], value, query, n)}
  <2>1. 0 \in Good
    <3>1. FreshPass.next = 1 /\ FreshPass.first = 0 /\ FreshPass.last = 0 /\ FreshPass.gap = 0
      BY DEF FreshPass
    <3> HIDE DEF FreshPass
    <3>2. Found(<<>>, value, query, FreshPass)
      BY <3>1 DEF Found
    <3>3. PassOK(FreshPass, value, query, 0)
      BY <1>1, <3>1, <3>2 DEF PassOK
    <3>4. QED
      BY <1>3, <3>3
  <2>2. ASSUME NEW n \in Nat, n \in Good PROVE n + 1 \in Good
    <3>1. SUFFICES ASSUME n + 1 <= Len(value) PROVE PassOK(f[n + 1], value, query, n + 1)
      OBVIOUS
    <3>2. n <= Len(value)
      BY <1>1, <3>1
    <3>3. PassOK(f[n], value, query, n)
      BY <2>2, <3>2
    <3>4. PassOK(Take(f[n], value, query, n + 1), value, query, n + 1)
      BY <1>1, <3>3, TakeOK
    <3>5. QED
      BY <1>2, <3>1, <3>4, Zenon
  <2> HIDE DEF Good
  <2>3. \A n \in Nat : n \in Good
    BY <2>1, <2>2, AllNumbers
  <2>4. QED
    BY <2>3, Zenon DEF Good
<1>5. PassOK(f[Len(value)], value, query, Len(value))
  BY <1>1, <1>4
<1>6. ASSUME Spread(value, query) PROVE f[Len(value)].next > Len(query)
  <2>1. PICK at \in [DOMAIN query -> DOMAIN value] :
          /\ \A i \in DOMAIN query : value[at[i]] = query[i]
          /\ \A i, j \in DOMAIN query : i < j => at[i] < at[j]
    BY <1>6, Zenon DEF Spread
  <2>2. /\ \A k \in 1 .. Len(query) : at[k] \in 1 .. Len(value) /\ value[at[k]] = query[k]
        /\ \A i, j \in 1 .. Len(query) : i < j => at[i] < at[j]
    BY <1>1, <2>1
  <2>3. \A k \in 1 .. Len(query) : at[k] \in Nat
    BY <1>1, <2>2
  <2> DEFINE Good == {n \in Nat : n <= Len(value) => Ahead(f[n], at, query, n)}
  <2>4. 0 \in Good
    <3>1. \A k \in 1 .. Len(query) : ~ (at[k] <= 0)
      BY <1>1, <2>2
    <3>2. QED
      BY <3>1 DEF Ahead
  <2>5. ASSUME NEW n \in Nat, n \in Good PROVE n + 1 \in Good
    <3>1. SUFFICES ASSUME n + 1 <= Len(value) PROVE Ahead(f[n + 1], at, query, n + 1)
      OBVIOUS
    <3>2. n <= Len(value)
      BY <1>1, <3>1
    <3>3. Ahead(f[n], at, query, n) /\ PassOK(f[n], value, query, n)
      BY <1>4, <2>5, <3>2
    <3>4. Ahead(Take(f[n], value, query, n + 1), at, query, n + 1)
      BY <1>1, <2>2, <2>3, <3>3, TakeAhead
    <3>5. QED
      BY <1>2, <3>1, <3>4, Zenon
  <2> HIDE DEF Good
  <2>6. \A n \in Nat : n \in Good
    BY <2>4, <2>5, AllNumbers
  <2>7. Ahead(f[Len(value)], at, query, Len(value))
    BY <1>1, <2>6 DEF Good
  <2>8. CASE Len(query) = 0
    BY <1>5, <2>8 DEF PassOK
  <2>9. CASE Len(query) # 0
    <3>1. Len(query) \in 1 .. Len(query) /\ at[Len(query)] <= Len(value)
      BY <1>1, <2>2, <2>9
    <3>2. QED
      BY <2>7, <3>1 DEF Ahead
  <2>10. QED
    BY <2>8, <2>9
<1>7. QED
  BY <1>5, <1>6

(* The pass finds the query exactly where it is, and scores it with a      *)
(* number.                                                                 *)
LEMMA SubsequenceFacts ==
  ASSUME NoMatch \notin Int, NEW value, Text(value), NEW query, Text(query), query # <<>>
  PROVE  LET score == scoreSubsequenceMatch(value, query)
         IN score \in Nat \cup {NoMatch} /\ (score # NoMatch <=> Spread(value, query))
<1> DEFINE score == scoreSubsequenceMatch(value, query)
           v == Len(value)
           n == Len(query)
<1>1. v \in Nat /\ n \in Nat /\ n # 0 /\ DOMAIN value = 1 .. v /\ DOMAIN query = 1 .. n
  BY TextFacts
<1>2. PICK f : Passes(f, value, query) /\ score = Verdict(f[v], value, query)
  BY <1>1, ScanValue
<1> DEFINE pass == f[v]
<1>3. PassOK(pass, value, query, v) /\ (Spread(value, query) => pass.next > n)
  BY <1>2, ScanFacts
<1> HIDE DEF pass, score, v, n
<1>4. CASE pass.next <= n
  <2>1. score = NoMatch
    BY <1>2, <1>4, Zenon DEF Verdict, pass, n
  <2>2. ~ (pass.next > n)
    BY <1>1, <1>3, <1>4 DEF PassOK
  <2>3. QED
    BY <1>3, <2>1, <2>2 DEF score
<1>5. CASE ~ (pass.next <= n)
  <2>1. pass.next = n + 1
    BY <1>1, <1>3, <1>5 DEF PassOK, n
  <2>2. Spread(value, query)
    <3>1. PICK at : Found(at, value, query, pass)
      BY <1>3, Zenon DEF PassOK
    <3> DEFINE too == [i \in DOMAIN query |-> at[i]]
    <3>2. pass.last \in 0 .. v
      BY <1>3 DEF PassOK
    <3>3. /\ \A i \in 1 .. n : at[i] \in 1 .. pass.last /\ value[at[i]] = query[i]
          /\ \A i, j \in 1 .. n : i < j => at[i] < at[j]
      BY <1>1, <2>1, <3>1 DEF Found
    <3>4. \A i \in 1 .. n : at[i] \in 1 .. v
      BY <1>1, <3>2, <3>3
    <3>5. too \in [DOMAIN query -> DOMAIN value]
      BY <1>1, <3>4
    <3>6. /\ \A i \in DOMAIN query : value[too[i]] = query[i]
          /\ \A i, j \in DOMAIN query : i < j => too[i] < too[j]
      BY <1>1, <3>3
    <3> HIDE DEF too
    <3>7. QED
      BY <3>5, <3>6, Zenon DEF Spread
  <2>3. score \in Nat
    <3> DEFINE a == pass.first - 1
               b == pass.gap
               c == pass.last - pass.first + 1 - n
               d == v - n
    <3>1. pass.first \in Nat /\ pass.first # 0 /\ b \in Nat /\ pass.last \in 0 .. v /\ n <= pass.last - pass.first + 1
      BY <1>1, <1>3, <2>1 DEF PassOK
    <3>2. a \in Nat /\ b \in Nat /\ c \in Nat /\ d \in Nat
      BY <1>1, <3>1
    <3> HIDE DEF d
    <3>3. Min({64, d}) \in Nat
      <4>1. {64, d} \subseteq Nat /\ {64, d} # {}
        BY <3>2
      <4>2. QED
        BY <4>1, MinOf, Zenon
    <3>4. score = a * 2 + b * 3 + c + Min({64, d})
      BY <1>2, <1>5, Zenon DEF Verdict, pass, v, n, d
    <3> HIDE DEF a, b, c
    <3>5. \A w, x, y, z \in Nat : w * 2 + x * 3 + y + z \in Nat
      OBVIOUS
    <3>6. QED
      BY <3>2, <3>3, <3>4, <3>5, Zenon
  <2>4. score # NoMatch
    BY <2>3
  <2>5. QED
    BY <2>2, <2>3, <2>4 DEF score
<1>6. QED
  BY <1>4, <1>5
---------------------------------------------------------------------------
(* A token and a field *)

LEMMA PenaltyIsNat ==
  ASSUME NEW value, Text(value), NEW query, Text(query), NEW i, At(value, query, i)
  PROVE  lengthPenalty(value, query) \in Nat
<1> DEFINE d == Len(value) - Len(query)
           m == Max({0, d})
<1>1. d \in Nat
  <2>1. Len(value) \in Nat /\ Len(query) \in Nat
    BY TextFacts
  <2>2. QED
    BY <2>1 DEF At
<1> HIDE DEF d
<1>2. {0, d} \subseteq 0 .. d /\ {0, d} # {}
  BY <1>1
<1>3. m \in {0, d}
  BY <1>1, <1>2, MaxOf
<1>4. m \in Nat
  BY <1>1, <1>3
<1> HIDE DEF m
<1>5. Min({64, m}) \in Nat
  BY <1>4, MinOf
<1>6. QED
  BY <1>5 DEF lengthPenalty, m, d

(* A field scores for a token exactly when it holds it.                    *)
LEMMA TokenFacts ==
  ASSUME NoMatch \notin Int, NEW value, Text(value), NEW query, Text(query), query # <<>>, NEW base \in Nat
  PROVE  LET score == scoreQueryMatch(value, query, base)
         IN score \in Nat \cup {NoMatch} /\ (score # NoMatch <=> Holds(value, query))
<1> DEFINE score == scoreQueryMatch(value, query, base)
           boundary == findBoundaryMatchIndex(value, query)
           includes == IndexOf(value, query)
           fuzzy == scoreSubsequenceMatch(value, query)
           penalty == lengthPenalty(value, query)
           Scored == score \in Nat /\ Holds(value, query)
           Unscored == score = NoMatch /\ ~ Holds(value, query)
<1>1. score = IF value = <<>> \/ query = <<>> THEN NoMatch
              ELSE IF value = query THEN base
              ELSE IF includes = 0 THEN base + 2 + penalty
              ELSE IF boundary # -1 THEN base + 4 + boundary * 2 + penalty
              ELSE IF includes # -1 THEN base + 6 + includes * 2 + penalty
              ELSE IF Len(query) >= 3 /\ fuzzy # NoMatch THEN base + 100 + fuzzy
              ELSE NoMatch
  BY Zenon DEF scoreQueryMatch
<1>2. /\ Len(value) \in Nat /\ DOMAIN value = 1 .. Len(value) /\ (value = <<>> <=> Len(value) = 0)
      /\ Len(query) \in Nat /\ DOMAIN query = 1 .. Len(query) /\ Len(query) # 0
  BY TextFacts
<1>3. /\ includes # -1 => includes \in Nat /\ At(value, query, includes)
      /\ (\E i : At(value, query, i)) => includes # -1
  BY IndexOfFacts
<1>4. boundary # -1 => boundary \in Nat /\ \E i : At(value, query, i)
  BY BoundaryFacts
<1>5. \A i : At(value, query, i) => penalty \in Nat /\ Holds(value, query)
  BY PenaltyIsNat, AtHolds
<1>6. fuzzy \in Nat \cup {NoMatch} /\ (fuzzy # NoMatch <=> Spread(value, query))
  BY SubsequenceFacts
<1>7. \A w, x, y, z \in Nat : w + 2 + x \in Nat /\ w + 4 + y * 2 + x \in Nat /\ w + 6 + y * 2 + x \in Nat /\ w + 100 + z \in Nat
  OBVIOUS
<1> HIDE DEF score, boundary, includes, fuzzy, penalty
<1>8. CASE value = <<>>
  <2>1. ~ Holds(value, query)
    <3>1. 1 \in DOMAIN query /\ DOMAIN value = {}
      BY <1>2, <1>8
    <3>2. QED
      BY <3>1 DEF Holds
  <2>2. Unscored
    BY <1>1, <1>8, <2>1, Zenon
  <2>3. QED
    BY <2>2 DEF score
<1>9. CASE value # <<>> /\ value = query
  <2>1. At(value, query, 0)
    BY <1>2, <1>9 DEF At
  <2>2. Scored
    BY <1>1, <1>5, <1>9, <2>1, Zenon
  <2>3. QED
    BY <2>2 DEF score
<1>10. CASE value # <<>> /\ value # query /\ includes = 0
  <2>1. 0 # -1
    OBVIOUS
  <2>2. penalty \in Nat /\ Holds(value, query)
    BY <1>3, <1>5, <1>10, <2>1, Zenon
  <2>3. score = base + 2 + penalty
    BY <1>1, <1>10, Zenon
  <2>4. score \in Nat
    BY <2>2, <2>3
  <2>5. QED
    BY <2>2, <2>4 DEF score
<1>11. CASE value # <<>> /\ value # query /\ includes # 0 /\ boundary # -1
  <2>1. boundary \in Nat /\ penalty \in Nat /\ Holds(value, query)
    BY <1>4, <1>5, <1>11, Zenon
  <2>2. score = base + 4 + boundary * 2 + penalty
    BY <1>1, <1>11, Zenon
  <2>3. score \in Nat
    BY <1>7, <2>1, <2>2, Zenon
  <2>4. QED
    BY <2>1, <2>3 DEF score
<1>12. CASE value # <<>> /\ value # query /\ includes # 0 /\ boundary = -1 /\ includes # -1
  <2>1. includes \in Nat /\ penalty \in Nat /\ Holds(value, query)
    BY <1>3, <1>5, <1>12, Zenon
  <2>2. score = base + 6 + includes * 2 + penalty
    BY <1>1, <1>12, Zenon
  <2>3. score \in Nat
    BY <1>7, <2>1, <2>2, Zenon
  <2>4. QED
    BY <2>1, <2>3 DEF score
<1>13. CASE value # <<>> /\ value # query /\ includes # 0 /\ boundary = -1 /\ includes = -1
  <2>1. ~ \E i : At(value, query, i)
    BY <1>3, <1>13, Zenon
  <2>2. score = IF Len(query) >= 3 /\ fuzzy # NoMatch THEN base + 100 + fuzzy ELSE NoMatch
    BY <1>1, <1>13, Zenon
  <2>3. CASE Len(query) >= 3
    <3>1. ~ (Len(query) < 3)
      BY <1>2, <2>3
    <3>2. Holds(value, query) <=> Spread(value, query)
      BY <3>1, Zenon DEF Holds, Spread
    <3>3. CASE fuzzy # NoMatch
      <4>1. fuzzy \in Nat /\ score = base + 100 + fuzzy /\ Holds(value, query)
        BY <1>6, <2>2, <2>3, <3>2, <3>3
      <4>2. score \in Nat
        BY <4>1
      <4>3. QED
        BY <4>1, <4>2 DEF score
    <3>4. CASE fuzzy = NoMatch
      <4>1. score = NoMatch /\ ~ Holds(value, query)
        BY <1>6, <2>2, <3>2, <3>4
      <4>2. QED
        BY <4>1 DEF score
    <3>5. QED
      BY <3>3, <3>4
  <2>4. CASE ~ (Len(query) >= 3)
    <3>1. Len(query) < 3
      BY <1>2, <2>4
    <3>2. ~ Holds(value, query)
      BY <2>1, <3>1, ShortIsAt
    <3>3. score = NoMatch
      BY <2>2, <2>4, Zenon
    <3>4. QED
      BY <3>2, <3>3 DEF score
  <2>5. QED
    BY <2>3, <2>4
<1>14. QED
  BY <1>8, <1>9, <1>10, <1>11, <1>12, <1>13, Zenon
---------------------------------------------------------------------------
(* The scores of the tokens add up *)

(* The recursion of the sum, as far as k.                                  *)
IsSum(f, fields, tokens, k) ==
    f = [n \in 0 .. k |->
           IF n = 0 THEN 0
           ELSE IF n \in DOMAIN tokens THEN f[n - 1] + Min(tokenScores(fields, tokens[n]))
           ELSE f[n - 1]]

LEMMA SumLonger ==
  ASSUME NEW fields, NEW tokens, NEW k \in Nat, NEW g, IsSum(g, fields, tokens, k)
  PROVE  \E h : IsSum(h, fields, tokens, k + 1)
<1> DEFINE h == [n \in 0 .. k + 1 |->
                   IF n = k + 1
                   THEN IF n \in DOMAIN tokens THEN g[k] + Min(tokenScores(fields, tokens[n])) ELSE g[k]
                   ELSE g[n]]
<1>1. h[k] = g[k]
  OBVIOUS
<1>2. \A n \in 0 .. k + 1 :
        h[n] = IF n = 0 THEN 0
               ELSE IF n \in DOMAIN tokens THEN h[n - 1] + Min(tokenScores(fields, tokens[n]))
               ELSE h[n - 1]
  <2> TAKE n \in 0 .. k + 1
  <2>1. CASE n = k + 1
    <3>1. n # 0 /\ n - 1 = k
      BY <2>1
    <3>2. h[n] = IF n \in DOMAIN tokens THEN g[k] + Min(tokenScores(fields, tokens[n])) ELSE g[k]
      BY <2>1, Zenon
    <3> HIDE DEF h
    <3>3. QED
      BY <1>1, <3>1, <3>2, Zenon
  <2>2. CASE n # k + 1
    <3>1. n \in 0 .. k /\ h[n] = g[n]
      BY <2>2
    <3>2. g[n] = IF n = 0 THEN 0
                 ELSE IF n \in DOMAIN tokens THEN g[n - 1] + Min(tokenScores(fields, tokens[n]))
                 ELSE g[n - 1]
      BY <3>1, Zenon DEF IsSum
    <3>3. n # 0 => h[n - 1] = g[n - 1]
      BY <3>1
    <3> HIDE DEF h
    <3>4. QED
      BY <3>1, <3>2, <3>3, Zenon
  <2>3. QED
    BY <2>1, <2>2
<1>3. h = [n \in 0 .. k + 1 |-> h[n]]
  BY Zenon
<1> HIDE DEF h
<1>4. h = [n \in 0 .. k + 1 |->
             IF n = 0 THEN 0
             ELSE IF n \in DOMAIN tokens THEN h[n - 1] + Min(tokenScores(fields, tokens[n]))
             ELSE h[n - 1]]
  BY <1>2, <1>3, Zenon
<1>5. QED
  BY <1>4, Zenon DEF IsSum

LEMMA SumExists ==
  ASSUME NEW fields, NEW tokens
  PROVE  \A k \in Nat : \E f : IsSum(f, fields, tokens, k)
<1> DEFINE Good == {k \in Nat : \E f : IsSum(f, fields, tokens, k)}
<1>1. 0 \in Good
  <2> DEFINE g == [n \in 0 .. 0 |-> 0]
  <2>1. g = [n \in 0 .. 0 |->
               IF n = 0 THEN 0
               ELSE IF n \in DOMAIN tokens THEN g[n - 1] + Min(tokenScores(fields, tokens[n]))
               ELSE g[n - 1]]
    <3>1. \A n \in 0 .. 0 : n = 0
      OBVIOUS
    <3>2. QED
      BY <3>1, Zenon
  <2>2. IsSum(g, fields, tokens, 0)
    BY <2>1, Zenon DEF IsSum
  <2>3. QED
    BY <2>2, Zenon
<1>2. \A n \in Nat : n \in Good => n + 1 \in Good
  <2> SUFFICES ASSUME NEW n \in Nat, n \in Good PROVE n + 1 \in Good
    BY Zenon
  <2>1. PICK g : IsSum(g, fields, tokens, n)
    BY Zenon
  <2>2. \E h : IsSum(h, fields, tokens, n + 1)
    BY <2>1, SumLonger
  <2>3. n + 1 \in Nat
    OBVIOUS
  <2>4. QED
    BY <2>2, <2>3, Zenon
<1>3. \A n \in Nat : n \in Good
  <2> HIDE DEF Good
  <2>1. QED
    BY <1>1, <1>2, AllNumbers
<1>4. QED
  BY <1>3, Zenon

(* A sum of numbers is one.                                                *)
LEMMA SumIsNat ==
  ASSUME NEW fields, NEW tokens, NEW k \in Nat, NEW f, IsSum(f, fields, tokens, k),
         \A n \in DOMAIN tokens : Min(tokenScores(fields, tokens[n])) \in Nat
  PROVE  f[k] \in Nat
<1> DEFINE Good == {n \in Nat : n <= k => f[n] \in Nat}
<1>1. \A n \in 0 .. k : f[n] = IF n = 0 THEN 0
                            ELSE IF n \in DOMAIN tokens THEN f[n - 1] + Min(tokenScores(fields, tokens[n]))
                            ELSE f[n - 1]
  BY Zenon DEF IsSum
<1>2. 0 \in Good
  <2>1. 0 \in 0 .. k
    OBVIOUS
  <2>2. f[0] = 0
    BY <1>1, <2>1, Zenon
  <2>3. QED
    BY <2>2
<1>3. ASSUME NEW n \in Nat, n \in Good PROVE n + 1 \in Good
  <2>1. SUFFICES ASSUME n + 1 <= k PROVE f[n + 1] \in Nat
    OBVIOUS
  <2>2. n + 1 \in 0 .. k /\ n + 1 # 0 /\ (n + 1) - 1 = n /\ n <= k
    BY <2>1
  <2>3. f[n] \in Nat
    BY <1>3, <2>2
  <2>4. f[n + 1] = IF n + 1 \in DOMAIN tokens THEN f[n] + Min(tokenScores(fields, tokens[n + 1])) ELSE f[n]
    BY <1>1, <2>2, Zenon
  <2>5. \A x, y \in Nat : x + y \in Nat
    OBVIOUS
  <2>6. QED
    BY <2>3, <2>4, <2>5, Zenon
<1> HIDE DEF Good
<1>4. \A n \in Nat : n \in Good
  BY <1>2, <1>3, AllNumbers
<1>5. k <= k
  OBVIOUS
<1>6. QED
  BY <1>4, <1>5 DEF Good

(* A row has a score exactly when its texts hold what was typed.           *)
LEMMA ScoreFacts ==
  ASSUME NoMatch \notin Int, NEW row, IsRow(row), NEW query, Text(query)
  PROVE  scoreModelPickerSearch(row, query) # NoMatch <=> Wanted(row, query)
<1> DEFINE fields == getModelPickerSearchFields(row)
           tokens == Tokens(query)
           size == Len(normalizeSearchQuery(query))
           sum == CHOOSE f : IsSum(f, fields, tokens, size)
<1>1. size \in Nat
  BY NormalizedIsText, TextFacts
<1>2. IsSum(sum, fields, tokens, size)
  <2>1. \E f : IsSum(f, fields, tokens, size)
    BY <1>1, SumExists
  <2>2. QED
    BY <2>1, Zenon
<1>3. scoreModelPickerSearch(row, query) =
        IF \E k \in DOMAIN tokens : tokenScores(fields, tokens[k]) = {} THEN NoMatch ELSE sum[size]
  BY Zenon DEF scoreModelPickerSearch, IsSum
<1>4. /\ DOMAIN fields = 1 .. Len(fields) /\ Len(fields) \in Nat
      /\ \A i \in DOMAIN fields : Text(fields[i])
  BY FieldsAreTexts
<1>5. \A k \in DOMAIN tokens : Text(tokens[k]) /\ tokens[k] # <<>>
  BY TokensAreTexts
<1>6. Wanted(row, query) <=> \A k \in DOMAIN tokens : \E i \in DOMAIN fields : Holds(fields[i], tokens[k])
  BY Zenon DEF Wanted
<1> HIDE DEF fields, tokens, size, sum
<1>7. ASSUME NEW k \in DOMAIN tokens
      PROVE  /\ tokenScores(fields, tokens[k]) \subseteq Nat
             /\ tokenScores(fields, tokens[k]) # {} <=> \E i \in DOMAIN fields : Holds(fields[i], tokens[k])
  <2>1. ASSUME NEW i \in DOMAIN fields
        PROVE  LET score == scoreQueryMatch(fields[i], tokens[k], (i - 1) * 10)
               IN score \in Nat \cup {NoMatch} /\ (score # NoMatch <=> Holds(fields[i], tokens[k]))
    <3>1. (i - 1) * 10 \in Nat
      BY <1>4
    <3>2. Text(fields[i]) /\ Text(tokens[k]) /\ tokens[k] # <<>>
      BY <1>4, <1>5
    <3>3. QED
      BY <3>1, <3>2, TokenFacts
  <2>2. QED
    BY <2>1 DEF tokenScores
<1>8. CASE \E k \in DOMAIN tokens : tokenScores(fields, tokens[k]) = {}
  BY <1>3, <1>6, <1>7, <1>8, Zenon
<1>9. CASE ~ \E k \in DOMAIN tokens : tokenScores(fields, tokens[k]) = {}
  <2>1. \A k \in DOMAIN tokens : Min(tokenScores(fields, tokens[k])) \in Nat
    <3> TAKE k \in DOMAIN tokens
    <3>1. tokenScores(fields, tokens[k]) \subseteq Nat /\ tokenScores(fields, tokens[k]) # {}
      BY <1>7, <1>9, Zenon
    <3>2. QED
      BY <3>1, MinOf, Zenon
  <2>2. sum[size] \in Nat
    BY <1>1, <1>2, <2>1, SumIsNat
  <2>3. sum[size] # NoMatch
    BY <2>2
  <2>4. QED
    BY <1>3, <1>6, <1>7, <1>9, <2>3, Zenon
<1>10. QED
  BY <1>8, <1>9

(* Every search of the picker finds what it should.                        *)
SearchesOK ==
    \A search \in searches : search.scored = search.wanted /\ search.wanted \subseteq Providers \X Models

LEMMA SearchFacts ==
  ASSUME NEW query \in Queries
  PROVE  LET search == Search(Names, query) IN
         search.scored = search.wanted /\ search.wanted \subseteq Providers \X Models
<1>1. NoMatch \notin Int /\ Text(query)
  BY SettingsAssumption, Zenon DEF Text
<1>2. \A row \in DOMAIN Names : IsRow(Names[row])
  BY SettingsAssumption DEF IsRow
<1>3. \A row \in DOMAIN Names : scoreModelPickerSearch(Names[row], query) # NoMatch <=> Wanted(Names[row], query)
  BY <1>1, <1>2, ScoreFacts
<1>4. {row \in DOMAIN Names : scoreModelPickerSearch(Names[row], query) # NoMatch}
        = {row \in DOMAIN Names : Wanted(Names[row], query)}
  BY <1>3, Zenon
<1>5. DOMAIN Names = Providers \X Models
  BY SettingsAssumption
<1>6. QED
  BY <1>4, <1>5, Zenon DEF Search

LEMMA InitSearches == Init => SearchesOK
<1>1. SUFFICES ASSUME Init, NEW search \in searches
               PROVE  search.scored = search.wanted /\ search.wanted \subseteq Providers \X Models
  BY DEF SearchesOK
<1>2. searches = {Search(Names, query) : query \in Queries}
  BY <1>1, Zenon DEF Init
<1>3. PICK query \in Queries : search = Search(Names, query)
  BY <1>1, <1>2, Zenon
<1>4. QED
  BY <1>3, SearchFacts, Zenon

LEMMA SearchesStay == [Next]_vars => UNCHANGED searches
  BY DEF Next, vars, Edit, Discard, Save, Refresh, Calls, CheckRevision, Commit, ReadForRefresh, Inspect,
     Fail, Return, Lose, Fetch, Restart, Select, OtherSaves, PickModel, PickEffort, Change, Create, Prompt,
     composerVars

(* The picker lists a model exactly when its texts hold what was typed and *)
(* a turn may use its provider, for every set of models, every text and    *)
(* every query: the tiers, the one pass over a text and the split into     *)
(* words miss nothing and let nothing else through.                        *)
THEOREM ListedCorrect == Spec => []ListedIsWanted
<1>1. Init => SearchesOK
  BY InitSearches
<1>2. SearchesOK /\ [Next]_vars => SearchesOK'
  BY SearchesStay DEF SearchesOK
<1>3. SearchesOK => ListedIsWanted
  <2>1. SUFFICES ASSUME SearchesOK, NEW tab \in Providers, NEW search \in searches
                 PROVE  Filtered(tab, search) = {row \in search.wanted :
                            /\ search.typed \/ row[1] = tab
                            /\ Document[row[1]].enabled /\ row[2] \in DOMAIN Document[row[1]].efforts}
    BY Zenon DEF ListedIsWanted
  <2>2. search.scored = search.wanted /\ search.wanted \subseteq Providers \X Models
    BY <2>1 DEF SearchesOK
  <2>3. \A row \in search.wanted : row \in Pickable \X Models <=> Document[row[1]].enabled
    <3> TAKE row \in search.wanted
    <3>1. row \in Providers \X Models
      BY <2>2
    <3>2. QED
      BY <3>1 DEF Pickable
  <2>4. \A row \in Pickable \X Models : row \in Providers \X Models
    BY DEF Pickable
  <2>5. QED
    BY <2>2, <2>3, <2>4, Zenon DEF Filtered
<1>4. QED
  BY <1>1, <1>2, <1>3, PTL DEF Spec
=============================================================================
