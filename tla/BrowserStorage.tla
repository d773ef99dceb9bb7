--------------------------- MODULE BrowserStorage ---------------------------
(***************************************************************************)
(* What the tabs of one browser share, and how each tab learns of it.  The *)
(* provider registry and the two key stores live in localStorage; the      *)
(* hooks of a tab hold copies.  A write is seen at once by the hooks of    *)
(* the tab that makes it and through a storage event by the other tabs.    *)
(***************************************************************************)
EXTENDS FiniteSets

CONSTANTS
    None,     \* null
    Tabs,     \* tabs of the browser
    Customs,  \* ids a custom profile may get
    Drafts,   \* what a user may enter for one: its key, endpoint and model
    Keys,     \* API keys of the two built-in providers
    Models    \* model ids a user may select for them

ASSUME StorageShape ==
    /\ None \notin Tabs \cup Customs \cup Drafts \cup Keys \cup Models
    /\ {"openrouter", "zen", "server", "gone"} \cap Customs = {}
    /\ "default" \in Models

VARIABLES
    storage,  \* localStorage
    open,     \* tabs that show the application
    view,     \* what the hooks of a tab hold
    pending   \* storage events on their way to a tab

storageVars == <<storage, open, view, pending>>

Presets == {"openrouter", "zen"}
Areas   == {"providers", "openrouter", "zen"}

\* The registry: the custom profiles it holds and the selection.
Registries ==
    UNION {[profiles : [S -> Drafts],
            active : Presets \cup Customs \cup {None, "server", "gone"}]
             : S \in SUBSET Customs}
KeyStores == [key : Keys \cup {None}, model : Models, custom : BOOLEAN]

NoKeyStore == [key |-> None, model |-> "default", custom |-> FALSE]

\* The selection is kept if it names a profile; "server" is a legacy value.
Known(registry, id) == id \in Presets \cup DOMAIN registry.profiles
Normalised(registry) ==
    [registry EXCEPT !.active = IF Known(registry, @) THEN @ ELSE None]

StorageTypeOK ==
    /\ storage.providers \in Registries
    /\ \A k \in Presets : storage[k] \in KeyStores
    /\ open \subseteq Tabs
    /\ \A t \in open : /\ view[t].providers \in Registries
                       /\ \A k \in Presets : view[t][k] \in KeyStores
    /\ pending \in [Tabs -> SUBSET Areas]

\* An earlier visit may have left a selection that is no longer valid.
StorageInit ==
    /\ \E a \in {None, "server", "gone"} :
         storage = [providers  |-> [profiles |-> <<>>, active |-> a],
                    openrouter |-> NoKeyStore, zen |-> NoKeyStore]
    /\ open = {} /\ view = [t \in Tabs |-> storage]
    /\ pending = [t \in Tabs |-> {}]

\* The listeners of one area: the hook of the area, and the provider hook,
\* which subscribes to all three.
Synced(v, k, s) == [v EXCEPT ![k] = s[k], !.providers = s.providers]

\* Mutant of Written: the other tabs are not told.
WrittenSilently(s, t, k) ==
    /\ storage' = s
    /\ view' = [view EXCEPT ![t] = Synced(@, k, s)]
    /\ UNCHANGED <<open, pending>>

\* One area is written by tab t: its own listeners run at once, the others'
\* when the event arrives, and none is sent for an unchanged value.
Written(s, t, k) ==
    /\ storage' = s
    /\ view' = [view EXCEPT ![t] = Synced(@, k, s)]
    /\ pending' = [u \in Tabs |-> IF u \in open \ {t} /\ s[k] # storage[k]
                                  THEN pending[u] \cup {k} ELSE pending[u]]
    /\ UNCHANGED open

Deliver(t, k) ==
    /\ k \in pending[t]
    /\ pending' = [pending EXCEPT ![t] = @ \ {k}]
    /\ view' = [view EXCEPT ![t] = Synced(@, k, storage)]
    /\ UNCHANGED <<storage, open>>

\* A page load: the registry is normalised and the hooks take their first copy.
Mount(t) ==
    LET s == [storage EXCEPT !.providers = Normalised(@)]
    IN  /\ storage' = s /\ open' = open \cup {t}
        /\ view' = [view EXCEPT ![t] = s]
        /\ pending' = [u \in Tabs |->
             IF u = t THEN {}
             ELSE IF u \in open /\ s # storage THEN pending[u] \cup {"providers"}
             ELSE pending[u]]

Unmount(t) ==
    /\ open' = open \ {t} /\ pending' = [pending EXCEPT ![t] = {}]
    /\ UNCHANGED <<storage, view>>

\* Once its storage events have arrived, a tab shows what is stored: every
\* write reaches every hook that displays it.
TabsConverge == \A t \in open : pending[t] = {} => view[t] = storage
=============================================================================
