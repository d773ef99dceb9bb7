----------------------------- MODULE Providers -----------------------------
(***************************************************************************)
(* Browser-owned providers: the settings dialog and the model picker of    *)
(* each tab, the registry and the key stores they edit, and the headers    *)
(* that the next agent request of a tab carries.                           *)
(***************************************************************************)
EXTENDS SignIn

CONSTANTS MaxEdits, \* bound: edits of the registry and the key stores, runs
                    \* sent, and restarts of the server in the other mode
          ModelOf   \* the model a draft names, None for the provider's own

ASSUME ProvidersShape ==
    MaxEdits \in Nat /\ ModelOf \in [Drafts -> Models \cup {None}]

VARIABLES
    form,    \* the provider form of a tab
    created, \* ids that profiles have had
    edits,
    mode,    \* the agent mode of the server
    cached,  \* the mode a tab has last read
    starting, \* tabs whose composer has sent a run that waits for its headers
    sent     \* the agent request of the last step: its tab and its route

settingsVars == <<form, created, edits, mode, cached, starting, sent>>
vars == <<storageVars, signInVars, settingsVars>>

NoForm   == [shown |-> FALSE, editing |-> None]
Modes    == {"engine", "fixtures"}
Refused  == [provider |-> "refused", model |-> None]
NoRoute  == [provider |-> None, model |-> None]
Silent   == [tab |-> None, route |-> NoRoute]
Routes   == [provider : Presets \cup Customs \cup {None, "refused"},
             model : Models \cup {None}]

TypeOK ==
    /\ StorageTypeOK /\ SignInTypeOK
    /\ form \in [Tabs -> [shown : BOOLEAN, editing : Customs \cup {None}]]
    /\ created \subseteq Customs /\ edits \in 0..MaxEdits
    /\ mode \in Modes /\ cached \in [Tabs -> Modes]
    /\ starting \subseteq open
    /\ sent \in [tab : Tabs \cup {None}, route : Routes]

Init ==
    /\ StorageInit /\ SignInInit
    /\ form = [t \in Tabs |-> NoForm] /\ created = {} /\ edits = 0
    /\ mode = "engine" /\ cached = [t \in Tabs |-> mode]
    /\ starting = {} /\ sent = Silent

-----------------------------------------------------------------------------
(* Readiness, the route a run takes and the route the picker shows         *)

KeyStored(s, id) == id \in DOMAIN s.providers.profiles
                    \/ (id \in Presets /\ s[id].key # None)

\* getProviderReadiness: a profile, its key and its endpoint.
Ready(s, id) == Known(s.providers, id) /\ KeyStored(s, id)

\* Mutant of SentRoute: the stored model is sent although it is switched off.
SentRouteAnyModel(s) ==
    LET id == Normalised(s.providers).active
    IN  IF ~Ready(s, id) THEN Refused
        ELSE [provider |-> id,
              model |-> IF id \in Presets THEN s[id].model
                        ELSE ModelOf[s.providers.profiles[id]]]

\* getAgentProviderHeaders, from what is stored when the request is made.
SentRoute(s) ==
    LET id == Normalised(s.providers).active
    IN  IF ~Ready(s, id) THEN Refused
        ELSE [provider |-> id,
              model |-> IF id \notin Presets THEN ModelOf[s.providers.profiles[id]]
                        ELSE IF s[id].custom THEN s[id].model ELSE None]

\* The options of the picker: the routes of the providers that are ready.
Options(v) ==
    {o \in [provider : Presets, model : Models \cup {None}] :
       Ready(v, o.provider) /\ (v[o.provider].custom => o.model # None)}
    \cup {[provider |-> c, model |-> ModelOf[v.providers.profiles[c]]]
            : c \in DOMAIN v.providers.profiles}

\* What an option may be.
Choices == [provider : Presets \cup Customs, model : Models \cup {None}]

\* activeModelKey: the option of the selection, none if it needs setup.
ShownRoute(v) ==
    LET id == v.providers.active
        model == IF id \in Presets THEN IF v[id].custom THEN v[id].model ELSE None
                 ELSE IF id \in DOMAIN v.providers.profiles
                      THEN ModelOf[v.providers.profiles[id]] ELSE None
    IN  IF Ready(v, id) /\ [provider |-> id, model |-> model] \in Options(v)
        THEN [provider |-> id, model |-> model] ELSE Refused

-----------------------------------------------------------------------------
(* The settings dialog, the picker and the hooks behind them               *)

Edit(t) ==
    /\ t \in open /\ edits < MaxEdits /\ edits' = edits + 1
    /\ sent' = Silent
    /\ UNCHANGED <<signInVars, mode, cached, starting>>

\* setActiveProviderId: an id that is no profile is ignored.
SetActive(t, id) ==
    /\ Edit(t)
    /\ id \in Presets \cup DOMAIN view[t].providers.profiles
    /\ IF Known(storage.providers, id)
       THEN Written([storage EXCEPT !.providers.active = id], t, "providers")
       ELSE UNCHANGED storageVars
    /\ UNCHANGED <<form, created>>

\* The selection goes to a provider that exists.
Selected(s, id) == [s EXCEPT !.providers.active = IF Known(s.providers, id) THEN id ELSE @]

\* The model of a built-in provider and its switch.
WithModel(x, m) == [x EXCEPT !.model = IF m = None THEN @ ELSE m, !.custom = m # None]

\* Two areas written by one handler, the registry and area k.
WrittenBoth(s, t, k) ==
    /\ storage' = s /\ UNCHANGED open
    /\ view' = [view EXCEPT ![t] = Synced(@, k, s)]
    /\ pending' = [u \in Tabs |->
         IF u \in open \ {t} THEN pending[u] \cup {j \in Areas : s[j] # storage[j]}
         ELSE pending[u]]

\* handleModelChange: the selection, then the model and its switch.
PickModel(t, o) ==
    /\ Edit(t) /\ o \in Options(view[t])
    /\ LET s == Selected(storage, o.provider)
       IN  IF o.provider \notin Presets THEN Written(s, t, "providers")
           ELSE WrittenBoth([s EXCEPT ![o.provider] = WithModel(@, o.model)], t, o.provider)
    /\ UNCHANGED <<form, created>>

\* A provider's section offers the key field while the tab shows no key, and
\* the buttons that take the key away while it shows one.
KeyFieldShown(t, p) == view[t][p].key = None

SetKey(t, p, k) ==
    /\ Edit(t) /\ KeyFieldShown(t, p)
    /\ Written([storage EXCEPT ![p].key = k], t, p)
    /\ UNCHANGED <<form, created>>

SignOut(t, p) ==
    /\ Edit(t) /\ ~KeyFieldShown(t, p)
    /\ Written([storage EXCEPT ![p].key = None], t, p)
    /\ UNCHANGED <<form, created>>

\* The models section shows Zen's models to a user of Zen, OpenRouter's otherwise.
ModelSection(t) == IF view[t].providers.active = "zen" THEN "zen" ELSE "openrouter"

\* A model identifier that is typed, and a card of the list, which also
\* switches the selected model on.
TypeModel(t, m) ==
    /\ Edit(t) /\ m # view[t][ModelSection(t)].model
    /\ Written([storage EXCEPT ![ModelSection(t)].model = m], t, ModelSection(t))
    /\ UNCHANGED <<form, created>>

ChooseModelCard(t, m) ==
    /\ Edit(t)
    /\ Written([storage EXCEPT ![ModelSection(t)].model = m,
                               ![ModelSection(t)].custom = TRUE], t, ModelSection(t))
    /\ UNCHANGED <<form, created>>

ToggleCustom(t) ==
    /\ Edit(t)
    /\ Written([storage EXCEPT ![ModelSection(t)].custom = ~view[t][ModelSection(t)].custom],
               t, ModelSection(t))
    /\ UNCHANGED <<form, created>>

\* startCreateProvider, startEditProvider and the two ways to cancel.
ShowForm(t, id) ==
    /\ t \in open /\ id \in DOMAIN view[t].providers.profiles \cup {None}
    /\ id = None => ~form[t].shown
    /\ form' = [form EXCEPT ![t] = [shown |-> TRUE, editing |-> id]]
    /\ UNCHANGED <<storageVars, signInVars, created, edits, mode, cached, starting>>
    /\ sent' = Silent

CancelForm(t) ==
    /\ t \in open /\ form[t].shown
    /\ form' = [form EXCEPT ![t] = NoForm]
    /\ UNCHANGED <<storageVars, signInVars, created, edits, mode, cached, starting>>
    /\ sent' = Silent

\* upsertProfile, and for a new profile setActiveProviderId.
Submitted(registry, f, id, d) ==
    [profiles |-> [c \in DOMAIN registry.profiles \cup {id} |->
                     IF c = id THEN d ELSE registry.profiles[c]],
     active |-> IF f.editing = None THEN id ELSE registry.active]

SubmitForm(t, d) ==
    /\ Edit(t) /\ form[t].shown
    /\ \E id \in IF form[t].editing = None THEN Customs \ created ELSE {form[t].editing} :
         /\ Written([storage EXCEPT !.providers =
                       Submitted(Normalised(@), form[t], id, d)], t, "providers")
         /\ created' = created \cup {id}
    /\ form' = [form EXCEPT ![t] = NoForm]

\* Mutant of Removed: the selection outlives its profile.
RemovedOnly(registry, id) ==
    [registry EXCEPT !.profiles = [c \in DOMAIN @ \ {id} |-> @[c]]]

\* removeProfile: deleting the active one clears the selection.
Removed(registry, id) ==
    [profiles |-> [c \in DOMAIN registry.profiles \ {id} |-> registry.profiles[c]],
     active |-> IF registry.active = id THEN None ELSE registry.active]

RemoveProfile(t, id) ==
    /\ Edit(t) /\ id \in DOMAIN view[t].providers.profiles
    /\ Written([storage EXCEPT !.providers = Removed(Normalised(@), id)], t, "providers")
    /\ UNCHANGED <<form, created>>

-----------------------------------------------------------------------------
(* Runs                                                                    *)

\* useRunReadiness, which opens the composer of a tab.
MaySend(t) == \/ cached[t] = "fixtures"
              \/ cached[t] = "engine" /\ Ready(view[t], view[t].providers.active)

\* A cached mode becomes stale and is read again.
ReadCapabilities(t) ==
    /\ t \in open /\ cached[t] # mode
    /\ cached' = [cached EXCEPT ![t] = mode]
    /\ UNCHANGED <<storageVars, signInVars, form, created, edits, mode, starting>>
    /\ sent' = Silent

\* The composer sends.
Submit(t) ==
    /\ t \in open \ starting /\ MaySend(t) /\ edits < MaxEdits /\ edits' = edits + 1
    /\ starting' = starting \cup {t} /\ sent' = Silent
    /\ UNCHANGED <<storageVars, signInVars, form, created, mode, cached>>

\* createAgentFetch, once the queued writes and the capabilities are awaited: the
\* mode is read anew for every run, and a fixture run carries no headers.
RunRoute(t) == IF mode = "fixtures" THEN NoRoute ELSE SentRoute(storage)

Run(t) ==
    /\ t \in open \cap starting /\ starting' = starting \ {t}
    /\ cached' = [cached EXCEPT ![t] = mode]
    /\ sent' = [tab |-> t, route |-> RunRoute(t)]
    /\ UNCHANGED <<storageVars, signInVars, form, created, edits, mode>>

Delivered(t, k) ==
    /\ Deliver(t, k) /\ sent' = Silent
    /\ UNCHANGED <<signInVars, form, created, edits, mode, cached, starting>>

\* The server restarts in the other mode.
ModeChanges ==
    /\ edits < MaxEdits /\ edits' = edits + 1
    /\ mode' \in Modes \ {mode}
    /\ UNCHANGED <<storageVars, signInVars, form, created, cached, starting>>
    /\ sent' = Silent

-----------------------------------------------------------------------------
(* Specification                                                           *)

\* The hooks, the form and the run of a tab live as long as its page.
PageStep(t) ==
    /\ \/ (StartSignIn(t) \/ Answered(t)) /\ UNCHANGED <<form, cached, starting>>
       \/ /\ Redirect(t) /\ form' = [form EXCEPT ![t] = NoForm]
          /\ starting' = starting \ {t} /\ UNCHANGED cached
       \/ /\ Visit(t) \/ Approved(t) \/ Declined(t)
          /\ form' = [form EXCEPT ![t] = NoForm] /\ starting' = starting \ {t}
          /\ cached' = [cached EXCEPT ![t] = mode]
    /\ UNCHANGED <<created, edits, mode>> /\ sent' = Silent

Next ==
    \/ ModeChanges
    \/ \E t \in Tabs :
         \/ PageStep(t)
         \/ \E k \in Areas : Delivered(t, k)
         \/ \E id \in Presets \cup Customs : SetActive(t, id)
         \/ \E o \in Choices : PickModel(t, o)
         \/ \E p \in Presets : \/ \E k \in Keys : SetKey(t, p, k)
                               \/ SignOut(t, p)
         \/ \E m \in Models : TypeModel(t, m) \/ ChooseModelCard(t, m)
         \/ ToggleCustom(t)
         \/ \E id \in Customs \cup {None} : ShowForm(t, id)
         \/ CancelForm(t) \/ \E d \in Drafts : SubmitForm(t, d)
         \/ \E id \in Customs : RemoveProfile(t, id)
         \/ ReadCapabilities(t) \/ Submit(t) \/ Run(t)

Spec == Init /\ [][Next]_vars
-----------------------------------------------------------------------------
(* Properties                                                              *)

\* The stored selection always names a profile that exists.
ActiveIsKnown ==
    open # {} => \/ storage.providers.active = None
                 \/ Known(storage.providers, storage.providers.active)

\* A run takes the route its tab displays: the provider and the model of the
\* picker, unless another tab's change has not reached this one yet.
ShownRouteIsSent ==
    [][sent' # Silent /\ mode = "engine" /\ pending[sent'.tab] = {}
         => sent'.route = ShownRoute(view[sent'.tab])]_vars

=============================================================================
