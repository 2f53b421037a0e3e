------------------------------ MODULE Settings ------------------------------
(***************************************************************************)
(* Provider settings and the options a conversation runs with. A page      *)
(* edits drafts of the providers of the settings document it was given     *)
(* (AgentProviderSettings.tsx, ProviderSettingsForm.tsx) and saves them    *)
(* against the revision of their first edit, while other processes save    *)
(* theirs. The runtime (settings.go, storage.go) checks the revision,      *)
(* looks at what the client advertises, checks again and stores; it keeps  *)
(* what a client advertised in a cache, merges it into the document it     *)
(* serves and replaces it at a refresh.                                    *)
(*                                                                         *)
(* The composer picks model and effort from what the page's document       *)
(* offers (AgentComposerControls.tsx, ProviderModelPicker.tsx, searched by *)
(* ModelSearch). A conversation is created with the choice merged with the *)
(* defaults of that moment and keeps the result as a snapshot of its own,  *)
(* which later turns start from (broker.go, options.go).                   *)
(*                                                                         *)
(* A revision is a place in the history of the document. The CLI path and  *)
(* the permission are left out: no other field depends on them, and every  *)
(* profile of a provider has the same key of the cache. A provider whose   *)
(* CLI was not found is like one that is not enabled. The props disabled   *)
(* and active, and the busy flag of the composer, only withhold steps of   *)
(* the page.                                                               *)
(***************************************************************************)
EXTENDS ModelSearch

CONSTANTS
    Providers,      \* identities of providers
    Models,         \* what models are called
    Efforts,        \* what efforts are called
    Catalogs,       \* what a client may report when it is inspected
    Defaults,       \* the stored configuration of every provider at the start
    OtherConfigs,   \* what other processes save
    Characters,     \* what texts are made of
    Names,          \* the texts of each model of each provider
    Queries,        \* what may be typed in the picker
    None,
    MaxVersions,    \* bound: versions of the document
    MaxActs         \* bound: what the operator and other processes do, and restarts

Options == [model : Models \cup {None}, effort : Efforts \cup {None}]
Configs == [enabled : BOOLEAN, model : Models \cup {None}, effort : Efforts \cup {None}]
NoOptions == [model |-> None, effort |-> None]
OptionsOf(config) == [model |-> config.model, effort |-> config.effort]
Or(x, y) == IF x # None THEN x ELSE y

(* validateOptions, for the models of a catalog and their efforts *)
validateOptions(options, catalog) ==
    IF options.model = None THEN options.effort = None
    ELSE /\ options.model \in DOMAIN catalog.efforts
         /\ options.effort \in {None} \cup catalog.efforts[options.model]

(* A catalog has the efforts of each model, the one a model uses by itself *)
(* and the native defaults, which are kept only if it advertises them.     *)
IsCatalog(catalog) ==
    /\ DOMAIN catalog.efforts \subseteq Models /\ DOMAIN catalog.default = DOMAIN catalog.efforts
    /\ \A m \in DOMAIN catalog.efforts :
         /\ catalog.efforts[m] \subseteq Efforts
         /\ catalog.default[m] \in Efforts \cup {None}
    /\ catalog.native \in Options /\ validateOptions(catalog.native, catalog)

ASSUME SettingsAssumption ==
    /\ Providers # {} /\ None \notin Models \cup Efforts \cup Providers
    /\ \A catalog \in Catalogs : IsCatalog(catalog)
    /\ OtherConfigs \cup {Defaults} \subseteq Configs
    /\ Names \in [Providers \X Models -> [name : Seq(Characters), shortName : Seq(Characters),
                                          driverKind : Seq(Characters), providerDisplayName : Seq(Characters)]]
    /\ Queries \subseteq Seq(Characters) /\ NoMatch \notin Int
    /\ MaxVersions \in Nat /\ MaxActs \in Nat

VARIABLES
    history,    \* the versions of the document, each with the version its author saw
    inventory,  \* per provider what its client advertised, or None (process memory)
    requests,   \* the saves and refreshes the runtime works on
    session,    \* a conversation: profile, snapshot, what it ran with last and
                \* what the page promised it would; or None
    settings,   \* the document the page was given
    selected,   \* the provider in the editor
    drafts,     \* per provider the draft, or None
    call,       \* the call the page waits for, or None
    choice,     \* the selection of the composer
    acts,       \* what the operator and other processes did
    searches    \* what each query finds: the names of models do not change

storeVars == <<history, inventory, requests, session>>
pageVars == <<settings, selected, drafts, call>>
composerVars == <<choice, searches>>
vars == <<storeVars, pageVars, composerVars, acts>>

Latest == Len(history)
Profile(q) == history[Latest].document[q]
Locked == call # None

---------------------------------------------------------------------------
(* What the runtime serves *)

(* mergeOptions of the runtime, mergeNativeOptions of the page *)
mergeOptions(base, override) ==
    LET effort == IF override.model \in {None, base.model} THEN base.effort ELSE None
    IN [model |-> Or(override.model, base.model), effort |-> Or(override.effort, effort)]

(* emptySetting: nothing is advertised, the profile's defaults stand. *)
emptySetting(options) ==
    [efforts |-> [m \in {} |-> {}], default |-> [m \in {} |-> None], defaults |-> options, verified |-> TRUE]

(* inspectProvider of Codex and Claude: the profile's own defaults go over *)
(* the native ones. A client whose version is not verified reports nothing *)
(* (one whose catalog cannot be read has an empty one among Catalogs).     *)
inspectProvider(options) ==
    {[efforts |-> catalog.efforts, default |-> catalog.default,
      defaults |-> mergeOptions(catalog.native, options), verified |-> TRUE] : catalog \in Catalogs}
    \cup {[emptySetting(options) EXCEPT !.verified = FALSE]}

(* A row of the document: the stored profile over what is in the cache *)
Setting(q) ==
    LET known == IF inventory[q] = None THEN emptySetting(OptionsOf(Profile(q))) ELSE inventory[q]
        merged == mergeOptions(known.defaults, OptionsOf(Profile(q)))
    IN [enabled |-> Profile(q).enabled, model |-> merged.model, effort |-> merged.effort,
        efforts |-> known.efforts, default |-> known.default]
Served == [revision |-> Latest, document |-> [q \in Providers |-> Setting(q)]]

Init ==
    /\ history = <<[document |-> [q \in Providers |-> Defaults], seen |-> 0]>>
    /\ \E known \in {None} \cup {k \in inspectProvider(OptionsOf(Defaults)) : k.verified} :
         inventory = [q \in Providers |-> known]
    /\ requests = {} /\ session = None
    /\ settings = Served
    /\ selected = CHOOSE q \in Providers : TRUE
    /\ drafts = [q \in Providers |-> None] /\ call = None
    /\ choice = [profile |-> selected, model |-> None, effort |-> None] /\ acts = 0
    /\ searches = {Search(Names, query) : query \in Queries}

Acts == acts < MaxActs /\ acts' = acts + 1

---------------------------------------------------------------------------
(* The form *)

Document == settings.document

(* configOf, and the draft over it *)
Config(q) ==
    IF drafts[q] # None THEN drafts[q].config
    ELSE [enabled |-> Document[q].enabled, model |-> Document[q].model, effort |-> Document[q].effort]

(* fieldsFor: the efforts offered are those of the model in the form, or   *)
(* of the default on display when the form has none.                       *)
OfferedEfforts(q) ==
    LET model == Or(Config(q).model, Document[q].model)
    IN IF model \in DOMAIN Document[q].efforts THEN Document[q].efforts[model] ELSE {}

(* A select offers the provider's own default first, as an omitted key; a  *)
(* field without options has none.                                         *)
ProviderSettingsSelect(options) == IF options = {} THEN {} ELSE options \cup {None}

(* What the control of a field may set. *)
FieldValues(q, field) ==
    CASE field = "enabled" -> BOOLEAN
      [] field = "model" -> ProviderSettingsSelect(DOMAIN Document[q].efforts)
      [] field = "effort" -> ProviderSettingsSelect(OfferedEfforts(q))

nextProviderConfigWithFieldValue(config, field, value) == [config EXCEPT ![field] = value]

(* Mutant of NewConfig: another model keeps the effort. *)
NewConfigKeepsEffort(config, field, value) == nextProviderConfigWithFieldValue(config, field, value)

(* onChange: another model drops the effort. *)
NewConfig(config, field, value) ==
    LET next == nextProviderConfigWithFieldValue(config, field, value)
    IN IF next.model # config.model THEN [next EXCEPT !.effort = None] ELSE next

(* Mutant of Baseline: every edit takes the revision on display. *)
BaselineMoves(q) == settings.revision

(* A draft keeps the revision of its first edit. *)
Baseline(q) == IF drafts[q] = None THEN settings.revision ELSE drafts[q].revision

(* An effort is offered with its model by a row on display. *)
Offers(row, config) ==
    \/ config.model = None \/ config.effort = None \/ OptionsOf(config) = OptionsOf(row)
    \/ config.model \in DOMAIN row.efforts /\ config.effort \in row.efforts[config.model]

(* Beside the fields of a Draft: what the operator saw when it was begun,  *)
(* and whether its effort was offered with its model when they met.        *)
Edit(field, value) ==
    LET q == selected
        config == NewConfig(Config(q), field, value)
        fresh == drafts[q] = None
        seen == IF fresh THEN settings.revision ELSE drafts[q].seen
        kept == ~fresh /\ drafts[q].offered /\ OptionsOf(drafts[q].config) = OptionsOf(config)
    IN /\ ~Locked /\ Acts
       /\ value # Config(q)[field]
       /\ drafts' = [drafts EXCEPT ![q] =
            [revision |-> Baseline(q), seen |-> seen, config |-> config,
             offered |-> kept \/ Offers(Document[q], config)]]
       /\ UNCHANGED <<storeVars, settings, selected, call, composerVars>>

Discard ==
    /\ ~Locked /\ drafts[selected] # None /\ Acts
    /\ drafts' = [drafts EXCEPT ![selected] = None]
    /\ UNCHANGED <<storeVars, settings, selected, call, composerVars>>

(* onSelect: drafts of the other providers stay. *)
Select(q) ==
    /\ q # selected /\ Acts /\ selected' = q
    /\ UNCHANGED <<storeVars, settings, drafts, call, composerVars>>

---------------------------------------------------------------------------
(* Saving: run of the page, UpdateSettings and saveProfiles of the runtime *)

(* The page waits for one call at a time; what it gave up on goes on. *)
Calls(kind, draft) ==
    /\ ~Locked /\ Acts
    /\ call' = [number |-> acts', kind |-> kind, id |-> selected, draft |-> draft]
    /\ requests' = requests \cup {[number |-> acts', kind |-> kind, id |-> selected, draft |-> draft,
                                    status |-> "sent", found |-> None]}
    /\ UNCHANGED <<history, inventory, session, settings, selected, drafts, composerVars>>
Save == drafts[selected] # None /\ Calls("save", drafts[selected])
Refresh == Calls("refresh", None)

Waits(request) == Locked /\ call.number = request.number
Finished == {"done", "conflict", "invalid", "unavailable"}

(* A request goes on; an answer nobody waits for is dropped. *)
Moves(request, status, found) ==
    requests' = (requests \ {request}) \cup
        {next \in {[request EXCEPT !.status = status, !.found = found]} : status \in Finished => Waits(next)}

(* A provider that is only switched off keeps its profile unexamined. *)
Preserved(prior, config) == ~config.enabled /\ OptionsOf(prior) = OptionsOf(config)

(* What a save is checked against: what is in the cache, or the client now *)
Advertised(q, config) ==
    IF inventory[q] # None /\ inventory[q].verified THEN {inventory[q]} ELSE inspectProvider(OptionsOf(config))

(* A stale revision is rejected before the client is inspected. *)
CheckRevision(request) ==
    /\ request.kind = "save" /\ request.status = "sent"
    /\ LET q == request.id
           config == request.draft.config
       IN \/ request.draft.revision # Latest /\ Moves(request, "conflict", None)
          \/ /\ request.draft.revision = Latest /\ Preserved(Profile(q), config)
             /\ Moves(request, "checked", emptySetting(OptionsOf(config)))
          \/ /\ request.draft.revision = Latest /\ ~Preserved(Profile(q), config)
             /\ \E found \in Advertised(q, config) :
                  Moves(request, IF ~found.verified THEN "unavailable"
                                 ELSE IF validateOptions(config, found) THEN "checked" ELSE "invalid", found)
    /\ UNCHANGED <<history, inventory, session, pageVars, composerVars, acts>>

Stored(q, config, seen) ==
    history' = Append(history, [document |-> [history[Latest].document EXCEPT ![q] = config], seen |-> seen])

(* It is checked again, and by the store, when it is written; what it was  *)
(* checked against is put back into the cache.                             *)
Commit(request) ==
    /\ request.kind = "save" /\ request.status = "checked"
    /\ \/ /\ request.draft.revision = Latest /\ Latest < MaxVersions
          /\ Stored(request.id, request.draft.config, request.draft.seen)
          /\ inventory' = [inventory EXCEPT ![request.id] = request.found]
          /\ Moves(request, "done", None)
       \/ /\ request.draft.revision # Latest
          /\ Moves(request, "conflict", None) /\ UNCHANGED <<history, inventory>>
    /\ UNCHANGED <<session, pageVars, composerVars, acts>>

(* RefreshSettings starts from the document of that moment *)
ReadForRefresh(request) ==
    /\ request.kind = "refresh" /\ request.status = "sent"
    /\ Moves(request, "inspecting", OptionsOf(Setting(request.id)))
    /\ UNCHANGED <<history, inventory, session, pageVars, composerVars, acts>>

(* and replaces what is in the cache by what the client reports. *)
Inspect(request) ==
    /\ request.kind = "refresh" /\ request.status = "inspecting"
    /\ \E found \in inspectProvider(request.found) : inventory' = [inventory EXCEPT ![request.id] = found]
    /\ Moves(request, "done", None)
    /\ UNCHANGED <<history, session, pageVars, composerVars, acts>>

(* A client that is not found, or the deadline of the runtime *)
Fail(request) ==
    /\ request.status \in {"sent", "checked", "inspecting"} /\ Moves(request, "unavailable", None)
    /\ UNCHANGED <<history, inventory, session, pageVars, composerVars, acts>>

(* Another process saves to the shared store, by the same protocol. *)
OtherSaves(q, config) ==
    /\ Latest < MaxVersions /\ config # Profile(q) /\ Acts
    /\ Stored(q, config, Latest)
    /\ UNCHANGED <<inventory, requests, session, pageVars, composerVars>>

(* The cache and the work under way are gone with the process. *)
Restart ==
    /\ Acts /\ requests' = {} /\ inventory' = [q \in Providers |-> None]
    /\ UNCHANGED <<history, session, pageVars, composerVars>>

Answered(request) == request.status \in Finished /\ Waits(request)

(* Mutant of Return: a refused save drops the draft. *)
ReturnDropsDraft(request) ==
    /\ Answered(request)
    /\ drafts' = [drafts EXCEPT ![call.id] = IF call.kind = "save" THEN None ELSE @]
    /\ call' = None /\ requests' = requests \ {request}
    /\ UNCHANGED <<history, inventory, session, settings, selected, composerVars, acts>>

(* A saved draft is removed if it is still the one that was saved; a       *)
(* failure keeps it.                                                       *)
Return(request) ==
    /\ Answered(request)
    /\ LET saved == call.kind = "save" /\ request.status = "done"
       IN drafts' = [drafts EXCEPT ![call.id] = IF saved /\ @ = call.draft THEN None ELSE @]
    /\ call' = None /\ requests' = requests \ {request}
    /\ UNCHANGED <<history, inventory, session, settings, selected, composerVars, acts>>

(* The deadline of the page passes, or the connection goes; the runtime    *)
(* works on, and may store what the page has given up on and edits again.  *)
Lose ==
    /\ Locked /\ call' = None /\ requests' = {request \in requests : ~Answered(request)}
    /\ UNCHANGED <<history, inventory, session, settings, selected, drafts, composerVars, acts>>

---------------------------------------------------------------------------
(* The composer *)

Provider == Document[choice.profile]
ShownModel == Or(choice.model, Provider.model)

(* The effort a model uses by itself, in a row or a catalog *)
OwnEffort(row, model) == IF model \in DOMAIN row.default THEN row.default[model] ELSE None

(* The effort the composer shows: the selection's, the default when its    *)
(* model is the one in use, or what the model uses by itself.              *)
ShownEffort ==
    LET stored == IF choice.model \in {None, Provider.model} THEN Provider.effort ELSE None
    IN Or(Or(choice.effort, stored), OwnEffort(Provider, ShownModel))

(* The providers the picker is given *)
Pickable == {q \in Providers : Document[q].enabled}

(* The host reads the document again. *)
Fetch ==
    /\ settings # Served /\ settings' = Served
    /\ UNCHANGED <<storeVars, selected, drafts, call, composerVars, acts>>

(* change refuses a provider that is disabled. *)
Change(next) ==
    /\ next.profile \in Pickable
    /\ next # choice /\ Acts /\ choice' = next
    /\ UNCHANGED <<storeVars, pageVars, searches>>

(* The rows the open picker shows, of the document it is given now: those  *)
(* of the provider of its tab, or of all while a query is typed.           *)
Filtered(tab, search) ==
    {row \in Pickable \X Models :
        /\ row[2] \in DOMAIN Document[row[1]].efforts
        /\ search.typed \/ row[1] = tab
        /\ row \in search.scored}

(* A provider keeps the effort of the selection when its new model has it; *)
(* another provider gets the model alone.                                  *)
Picked(q, m) ==
    [profile |-> q, model |-> m,
     effort |-> IF q = choice.profile /\ choice.effort \in Document[q].efforts[m] THEN choice.effort ELSE None]

(* A click, or Enter on the row that was highlighted, which may be gone;   *)
(* there is no picker while the provider in use has no models.             *)
PickModel(q, m) ==
    /\ Provider.enabled /\ DOMAIN Provider.efforts # {}
    /\ \E tab \in Providers, search \in searches : <<q, m>> \in Filtered(tab, search)
    /\ Change(Picked(q, m))
PickEffort(e) ==
    /\ ShownModel \in DOMAIN Provider.efforts /\ e \in Provider.efforts[ShownModel]
    /\ Change([choice EXCEPT !.effort = e])

---------------------------------------------------------------------------
(* The conversation *)

(* selection: native defaults, the profile of the conversation, the        *)
(* options of the call; an effort nobody chose is the model's own.         *)
selection(known, defaults, override) ==
    LET merged == mergeOptions(mergeOptions(known.defaults, defaults), override)
    IN [merged EXCEPT !.effort = Or(@, OwnEffort(known, merged.model))]

(* warmSelection inspects the client when nothing is in the cache. *)
warmSelection(q, defaults) ==
    IF inventory[q] = None THEN inspectProvider(defaults) ELSE {inventory[q]}

(* The page's promise is what it shows, if its document is the current one *)
(* and has a catalog.                                                      *)
Create ==
    LET q == choice.profile
        defaults == OptionsOf(Profile(q))
    IN /\ session = None /\ Acts /\ Profile(q).enabled
       /\ \E known \in warmSelection(q, defaults) :
            LET run == selection(known, defaults, OptionsOf(choice))
                shown == [model |-> ShownModel, effort |-> ShownEffort]
            IN /\ inventory' = [inventory EXCEPT ![q] = known]
               /\ \/ ~validateOptions(run, known) /\ UNCHANGED session
                  \/ /\ validateOptions(run, known)
                     /\ session' = [profile |-> q, snapshot |-> run, ran |-> run,
                                    promised |-> IF settings = Served /\ inventory[q] # None THEN shown ELSE run]
       /\ UNCHANGED <<history, requests, pageVars, composerVars>>

(* Mutant of ProfileOf: a turn starts from the shared defaults. *)
SharedProfileOf == OptionsOf(Profile(session.profile))

(* A turn starts from the snapshot of its conversation. *)
ProfileOf == session.snapshot

Complete(options) == options.model # None /\ options.effort # None

(* A prompt brings no options or those of the composer; they are merged    *)
(* into the snapshot. Without options it goes on as the conversation did,  *)
(* which is promised where the snapshot names model and effort.            *)
Prompt(override) ==
    /\ session # None /\ Acts
    /\ override = NoOptions \/ choice.profile = session.profile
    /\ \E known \in warmSelection(session.profile, ProfileOf) :
         LET run == selection(known, ProfileOf, override)
             goesOn == override = NoOptions /\ Complete(session.snapshot)
         IN /\ inventory' = [inventory EXCEPT ![session.profile] = known]
            /\ \/ ~validateOptions(run, known) /\ UNCHANGED session
               \/ /\ validateOptions(run, known)
                  /\ session' = [session EXCEPT !.snapshot = mergeOptions(@, override), !.ran = run,
                                               !.promised = IF goesOn THEN @ ELSE run]
    /\ UNCHANGED <<history, requests, pageVars, composerVars>>

Next ==
    \/ \E field \in {"enabled", "model", "effort"} : \E value \in FieldValues(selected, field) : Edit(field, value)
    \/ Discard \/ Save \/ Refresh \/ Lose \/ Fetch \/ Restart
    \/ \E request \in requests :
          \/ CheckRevision(request) \/ Commit(request) \/ ReadForRefresh(request) \/ Inspect(request)
          \/ Fail(request) \/ Return(request)
    \/ \E q \in Providers : Select(q) \/ \E config \in OtherConfigs : OtherSaves(q, config)
    \/ \E q \in Providers, m \in Models : PickModel(q, m)
    \/ \E e \in Efforts : PickEffort(e)
    \/ Create
    \/ \E override \in {NoOptions} \cup {OptionsOf(choice)} : Prompt(override)

Spec == Init /\ [][Next]_vars

---------------------------------------------------------------------------
(* No lost update: a version is made only from a draft whose author saw    *)
(* the version it replaces. Neither a fetch nor another save moves the     *)
(* baseline of a draft, and the runtime stores no save over a version that *)
(* was written while it inspected the client, also for a page that gave up *)
(* waiting and saved again.                                                *)
NoLostUpdate == \A k \in 2..Latest : history[k].seen = k - 1

(* The effort a page saves with a model was offered with that model: a     *)
(* change of the model leaves no effort of another one in the draft,       *)
(* whatever catalogs the page was given while it was edited.               *)
EffortOfModel == Locked /\ call.kind = "save" => call.draft.offered

(* UPSTREAM.md: conflict and error responses retain the draft. A draft     *)
(* goes when the operator discards it or the version after its revision    *)
(* holds it.                                                               *)
DraftIsKept ==
    [][\A q \in Providers :
        drafts[q] # None /\ drafts'[q] = None =>
            \/ Discard /\ q = selected
            \/ /\ drafts[q].revision < Latest
               /\ history[drafts[q].revision + 1].document[q] = drafts[q].config]_vars

(* README.md: each new session records a private default snapshot. A       *)
(* conversation runs with the model and effort that an up-to-date composer *)
(* showed when it was created, and goes on with them, whatever is saved,   *)
(* switched off, refreshed or inspected anew in between, until a prompt    *)
(* brings options of its own. What a conversation without a model or       *)
(* without an effort of its own runs with is decided anew at each turn.    *)
ShownIsRun == session # None => session.ran = session.promised

(* The picker shows a model exactly when its texts hold what was typed, of *)
(* whatever document it is given, and for a provider that a turn may use:  *)
(* the tiers and the one pass of the search come to no more and no less.   *)
ListedIsWanted ==
    \A tab \in Providers, search \in searches :
        Filtered(tab, search) = {row \in search.wanted :
            /\ search.typed \/ row[1] = tab
            /\ Document[row[1]].enabled /\ row[2] \in DOMAIN Document[row[1]].efforts}
=============================================================================
