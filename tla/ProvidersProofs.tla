-------------------------- MODULE ProvidersProofs --------------------------
(***************************************************************************)
(* Proofs for Providers: what the tabs of a browser show, store and send   *)
(* agrees, for any number of tabs, profiles, keys and models.              *)
(***************************************************************************)
EXTENDS Providers, TLAPS

\* The records the proofs take apart: the registry, and what is stored.
IsRegistry(r) ==
    r = [profiles |-> r.profiles, active |-> r.active] /\ DOMAIN r.profiles \subseteq Customs
IsStorage(s) ==
    /\ s = [providers |-> s.providers, openrouter |-> s.openrouter, zen |-> s.zen]
    /\ IsRegistry(s.providers)
    /\ s.openrouter \in KeyStores /\ s.zen \in KeyStores

\* An area whose event is not on its way to a tab is what the tab shows.
Fresh(t) == \A k \in Areas : k \notin pending[t] => view[t][k] = storage[k]

\* The part of the inductive invariant about what is stored and shown.
StorageInv ==
    /\ IsStorage(storage) /\ open \subseteq Tabs
    /\ pending \in [Tabs -> SUBSET Areas]
    /\ view = [t \in Tabs |-> view[t]] /\ \A t \in Tabs : IsStorage(view[t])
    /\ \A t \in open : Fresh(t)

\* What a step of tab t may do to storage: its hooks copy area k and the
\* registry, and the other tabs will hear of everything that changed.
Propagated(s, t, k) ==
    /\ storage' = s /\ open' = open
    /\ view' = [view EXCEPT ![t] = Synced(@, k, s)]
    /\ pending' \in [Tabs -> SUBSET Areas]
    /\ pending'[t] = pending[t]
    /\ \A u \in open \ {t} : \A j \in Areas :
         /\ j \in pending[u] => j \in pending'[u]
         /\ s[j] # storage[j] => j \in pending'[u]

\* A record of the three areas, area by area.
LEMMA AreaByArea ==
    ASSUME NEW r, NEW s, IsStorage(r), IsStorage(s), \A k \in Areas : r[k] = s[k]
    PROVE  r = s
  BY DEF IsStorage, Areas

\* A hook's copy of one area and of the registry.
LEMMA SyncedAreas ==
    ASSUME NEW v, NEW s, NEW k \in Areas, IsStorage(v), IsStorage(s)
    PROVE  /\ IsStorage(Synced(v, k, s))
           /\ \A j \in Areas : Synced(v, k, s)[j] = IF j = k \/ j = "providers" THEN s[j] ELSE v[j]
<1> DEFINE w == Synced(v, k, s)
<1>1. v = [j \in Areas |-> v[j]] BY DEF IsStorage, Areas
<1>2. w = [j \in Areas |-> IF j = k \/ j = "providers" THEN s[j] ELSE v[j]]
  <2>1. [v EXCEPT ![k] = s[k]] = [j \in Areas |-> IF j = k THEN s[j] ELSE v[j]]
    BY <1>1
  <2>2. w = [[v EXCEPT ![k] = s[k]] EXCEPT !.providers = s.providers] BY DEF Synced
  <2> QED BY <2>1, <2>2 DEF Areas
<1> HIDE DEF w
<1>3. w.providers = s.providers BY <1>2 DEF Areas
<1>4. w.openrouter \in {s.openrouter, v.openrouter} /\ w.zen \in {s.zen, v.zen}
  BY <1>2 DEF Areas
<1>5. w = [providers |-> w.providers, openrouter |-> w.openrouter, zen |-> w.zen]
  BY <1>2 DEF Areas
<1>6. IsStorage(w) BY <1>3, <1>4, <1>5 DEF IsStorage
<1> QED BY <1>2, <1>6 DEF w

\* A write that propagates keeps the tabs fresh.
LEMMA PropagationKeeps ==
    ASSUME StorageInv, NEW t \in Tabs, NEW k \in Areas, NEW s, IsStorage(s),
           \A j \in Areas \ {k, "providers"} : s[j] = storage[j],
           Propagated(s, t, k)
    PROVE  StorageInv'
<1>1. /\ view' = [u \in Tabs |-> IF u = t THEN Synced(view[t], k, s) ELSE view[u]]
      /\ storage' = s /\ open' = open
  BY DEF Propagated, StorageInv
<1>2. \A u \in Tabs : IsStorage(view'[u])
  BY <1>1, SyncedAreas DEF StorageInv
<1>3. ASSUME NEW u \in open, NEW j \in Areas, j \notin pending'[u]
      PROVE  view'[u][j] = s[j]
  <2> u \in Tabs BY DEF StorageInv
  <2>1. CASE u = t
    <3>1. view'[u] = Synced(view[t], k, s) BY <1>1, <2>1
    <3>2. j \notin pending[t] BY <1>3, <2>1 DEF Propagated
    <3>3. view[t][j] = storage[j] BY <3>2, <2>1 DEF StorageInv, Fresh
    <3>4. view'[u][j] = IF j = k \/ j = "providers" THEN s[j] ELSE view[t][j]
      BY <3>1, SyncedAreas DEF StorageInv
    <3> QED BY <3>3, <3>4
  <2>2. CASE u # t
    BY <1>1, <1>3, <2>2 DEF Propagated, StorageInv, Fresh
  <2> QED BY <2>1, <2>2
<1>4. view' = [u \in Tabs |-> view'[u]] BY <1>1
<1> QED BY <1>1, <1>2, <1>3, <1>4 DEF StorageInv, Fresh, Propagated

\* A write to one area propagates.
LEMMA WrittenKeeps ==
    ASSUME StorageInv, NEW t \in Tabs, NEW k \in Areas, NEW s, IsStorage(s),
           \A j \in Areas \ {k} : s[j] = storage[j], Written(s, t, k)
    PROVE  StorageInv'
<1>1. pending' \in [Tabs -> SUBSET Areas] BY DEF Written, StorageInv
<1>2. pending'[t] = pending[t] BY DEF Written, StorageInv
<1>3. \A u \in open \ {t} : \A j \in Areas :
        /\ j \in pending[u] => j \in pending'[u]
        /\ s[j] # storage[j] => j \in pending'[u]
  BY DEF Written, StorageInv
<1>4. Propagated(s, t, k) BY <1>1, <1>2, <1>3 DEF Propagated, Written
<1> QED BY <1>4, PropagationKeeps

\* A storage event brings a tab up to date.
LEMMA DeliverKeeps ==
    ASSUME StorageInv, NEW t \in Tabs, NEW k \in Areas, Deliver(t, k)
    PROVE  StorageInv'
<1>1. /\ view' = [u \in Tabs |-> IF u = t THEN Synced(view[t], k, storage) ELSE view[u]]
      /\ pending' = [u \in Tabs |-> IF u = t THEN pending[t] \ {k} ELSE pending[u]]
      /\ storage' = storage /\ open' = open
  BY DEF Deliver, StorageInv
<1>2. \A u \in Tabs : IsStorage(view'[u])
  BY <1>1, SyncedAreas DEF StorageInv
<1>3. ASSUME NEW u \in open, NEW j \in Areas, j \notin pending'[u]
      PROVE  view'[u][j] = storage[j]
  <2> u \in Tabs BY DEF StorageInv
  <2>1. CASE u = t
    <3>1. view'[u][j] = IF j = k \/ j = "providers" THEN storage[j] ELSE view[t][j]
      BY <1>1, <2>1, SyncedAreas DEF StorageInv
    <3>2. j # k => j \notin pending[t] BY <1>1, <1>3, <2>1
    <3> QED BY <3>1, <3>2, <2>1 DEF StorageInv, Fresh
  <2>2. CASE u # t BY <1>1, <1>3, <2>2 DEF StorageInv, Fresh
  <2> QED BY <2>1, <2>2
<1>4. pending' \in [Tabs -> SUBSET Areas] BY <1>1 DEF StorageInv
<1>5. view' = [u \in Tabs |-> view'[u]] BY <1>1
<1> QED BY <1>1, <1>2, <1>3, <1>4, <1>5 DEF StorageInv, Fresh

\* Normalising the registry touches nothing else of what is stored.
LEMMA NormalisedStorage ==
    ASSUME NEW s, IsStorage(s)
    PROVE  /\ IsStorage([s EXCEPT !.providers = Normalised(@)])
           /\ \A j \in Areas \ {"providers"} : [s EXCEPT !.providers = Normalised(@)][j] = s[j]
           /\ [s EXCEPT !.providers = Normalised(@)].providers = Normalised(s.providers)
           /\ IsRegistry(Normalised(s.providers))
  BY DEF IsStorage, IsRegistry, Normalised, Areas

\* A page load leaves every open tab fresh, its own included.
LEMMA MountKeeps ==
    ASSUME StorageInv, NEW t \in Tabs, Mount(t)
    PROVE  StorageInv'
<1> DEFINE s == [storage EXCEPT !.providers = Normalised(@)]
<1>1. /\ IsStorage(s) /\ \A j \in Areas \ {"providers"} : s[j] = storage[j]
  BY NormalisedStorage DEF StorageInv
<1>2. /\ storage' = s /\ open' = open \cup {t}
      /\ view' = [u \in Tabs |-> IF u = t THEN s ELSE view[u]]
      /\ pending' = [u \in Tabs |-> IF u = t THEN {}
                       ELSE IF u \in open /\ s # storage THEN pending[u] \cup {"providers"}
                       ELSE pending[u]]
  BY DEF Mount, StorageInv
<1> HIDE DEF s
<1>3. \A u \in Tabs : IsStorage(view'[u]) BY <1>1, <1>2 DEF StorageInv
<1>4. ASSUME NEW u \in open', NEW j \in Areas, j \notin pending'[u]
      PROVE  view'[u][j] = s[j]
  <2> u \in Tabs BY <1>2 DEF StorageInv
  <2>1. CASE u = t BY <1>2, <2>1
  <2>2. CASE u # t
    <3>1. u \in open /\ view'[u] = view[u] /\ j \notin pending[u] BY <1>2, <1>4, <2>2
    <3>2. view[u][j] = storage[j] BY <3>1 DEF StorageInv, Fresh
    <3>3. s[j] = storage[j] BY <1>1, <1>2, <1>4, <2>2, <3>1
    <3> QED BY <3>1, <3>2, <3>3
  <2> QED BY <2>1, <2>2
<1>5. pending' \in [Tabs -> SUBSET Areas] BY <1>2 DEF StorageInv, Areas
<1>6. view' = [u \in Tabs |-> view'[u]] BY <1>2
<1> QED BY <1>1, <1>2, <1>3, <1>4, <1>5, <1>6 DEF StorageInv, Fresh

-----------------------------------------------------------------------------
(* The inductive invariant                                                 *)

\* What a tab has in flight: at most one exchange, of a code and its verifier.
OneAnswer(x) ==
    \/ x = <<>>
    \/ \E v \in Rounds, e \in {"live", "cancelled"} :
         x = <<[verifier |-> v, code |-> v, effect |-> e]>>

SignInInv ==
    /\ verifier \in [Tabs -> Rounds] /\ attempts \in Rounds
    /\ NotLeftMidFlow
    /\ exchange = [t \in Tabs |-> exchange[t]] /\ \A t \in Tabs : OneAnswer(exchange[t])

FormOK == form \in [Tabs -> [shown : BOOLEAN, editing : Customs \cup {None}]]

\* A selection that names no profile cannot survive a write of the registry,
\* but only a page load can repair one: hence the invariant speaks of open tabs.
ProvidersInv == StorageInv /\ ActiveIsKnown /\ SignInInv /\ FormOK

ActiveFits(r) == r.active = None \/ Known(r, r.active)

\* A registry or a key store put in the place of another.
LEMMA RegistryEdited ==
    ASSUME NEW s, IsStorage(s), NEW r, IsRegistry(r)
    PROVE  LET z == [s EXCEPT !.providers = r]
           IN  /\ IsStorage(z) /\ z.providers = r
               /\ \A j \in Areas \ {"providers"} : z[j] = s[j]
  BY DEF IsStorage, Areas

LEMMA KeyStoreEdited ==
    ASSUME NEW s, IsStorage(s), NEW p \in Presets, NEW x \in KeyStores
    PROVE  LET z == [s EXCEPT ![p] = x]
           IN  /\ IsStorage(z) /\ z.providers = s.providers
               /\ \A j \in Areas \ {p} : z[j] = s[j]
<1> DEFINE z == [s EXCEPT ![p] = x]
<1>1. s = [j \in Areas |-> s[j]] BY DEF IsStorage, Areas
<1>2. z = [j \in Areas |-> IF j = p THEN x ELSE s[j]] BY <1>1
<1> HIDE DEF z
<1>3. z.providers = s.providers BY <1>2 DEF Areas, Presets
<1>4. z.openrouter \in {s.openrouter, x} /\ z.zen \in {s.zen, x} BY <1>2 DEF Areas
<1>5. z = [providers |-> z.providers, openrouter |-> z.openrouter, zen |-> z.zen]
  BY <1>2 DEF Areas
<1>6. IsStorage(z) BY <1>3, <1>4, <1>5 DEF IsStorage
<1> QED BY <1>2, <1>3, <1>6 DEF z

\* A write whose registry is untouched or fits keeps what the tabs agree on.
LEMMA WriteStep ==
    ASSUME StorageInv, ActiveIsKnown, NEW t \in Tabs, NEW k \in Areas, NEW s, IsStorage(s),
           \A j \in Areas \ {k} : s[j] = storage[j], Written(s, t, k),
           s.providers = storage.providers \/ ActiveFits(s.providers)
    PROVE  StorageInv' /\ ActiveIsKnown' /\ open' = open
<1>1. StorageInv' BY WrittenKeeps
<1>2. storage' = s /\ open' = open BY DEF Written
<1>3. ActiveIsKnown' BY <1>2 DEF ActiveIsKnown, ActiveFits
<1> QED BY <1>1, <1>2, <1>3

LEMMA RegistryStep ==
    ASSUME StorageInv, ActiveIsKnown, NEW t \in Tabs, NEW r, IsRegistry(r), ActiveFits(r),
           Written([storage EXCEPT !.providers = r], t, "providers")
    PROVE  StorageInv' /\ ActiveIsKnown' /\ open' = open
<1> DEFINE s == [storage EXCEPT !.providers = r]
<1>1. /\ IsStorage(s) /\ s.providers = r /\ \A j \in Areas \ {"providers"} : s[j] = storage[j]
  BY RegistryEdited DEF StorageInv
<1>2. Written(s, t, "providers") OBVIOUS
<1> HIDE DEF s
<1> QED BY <1>1, <1>2, WriteStep DEF Areas

LEMMA KeyStoreStep ==
    ASSUME StorageInv, ActiveIsKnown, NEW t \in Tabs, NEW p \in Presets, NEW x \in KeyStores,
           Written([storage EXCEPT ![p] = x], t, p)
    PROVE  StorageInv' /\ ActiveIsKnown' /\ open' = open
<1> DEFINE s == [storage EXCEPT ![p] = x]
<1>1. /\ IsStorage(s) /\ s.providers = storage.providers
      /\ \A j \in Areas \ {p} : s[j] = storage[j]
  BY KeyStoreEdited DEF StorageInv
<1>2. Written(s, t, p) OBVIOUS
<1>3. p \in Areas BY DEF Presets, Areas
<1> HIDE DEF s
<1> QED BY <1>1, <1>2, <1>3, WriteStep

LEMMA NormalisedFits ==
    ASSUME NEW r, IsRegistry(r)
    PROVE  /\ IsRegistry(Normalised(r)) /\ ActiveFits(Normalised(r))
           /\ Normalised(r).profiles = r.profiles
  BY DEF IsRegistry, Normalised, ActiveFits, Known

LEMMA RemovedFits ==
    ASSUME NEW r, IsRegistry(r), ActiveFits(r), NEW id
    PROVE  IsRegistry(Removed(r, id)) /\ ActiveFits(Removed(r, id))
  BY DEF IsRegistry, ActiveFits, Removed, Known

LEMMA SubmittedFits ==
    ASSUME NEW r, IsRegistry(r), ActiveFits(r), NEW f, NEW id \in Customs, NEW d
    PROVE  IsRegistry(Submitted(r, f, id, d)) /\ ActiveFits(Submitted(r, f, id, d))
  BY DEF IsRegistry, ActiveFits, Submitted, Known

-----------------------------------------------------------------------------
(* Initial states and steps                                                *)

LEMMA InitHolds == Init => ProvidersInv
<1> SUFFICES ASSUME Init PROVE ProvidersInv OBVIOUS
<1> USE DEF Init, StorageInit, SignInInit
<1>1. NoKeyStore \in KeyStores
  BY StorageShape DEF NoKeyStore, KeyStores
<1>2. PICK a \in {None, "server", "gone"} :
        storage = [providers  |-> [profiles |-> <<>>, active |-> a],
                   openrouter |-> NoKeyStore, zen |-> NoKeyStore]
  OBVIOUS
<1>3. IsStorage(storage) BY <1>1, <1>2 DEF IsStorage, IsRegistry
<1>4. StorageInv BY <1>3 DEF StorageInv, Fresh
<1>5. ActiveIsKnown BY DEF ActiveIsKnown
<1>6. SignInInv
  BY SignInShape DEF SignInInv, NotLeftMidFlow, OneAnswer, Rounds
<1>7. FormOK BY DEF FormOK, NoForm
<1> QED BY <1>4, <1>5, <1>6, <1>7 DEF ProvidersInv

\* An edit leaves the sign-ins alone.
LEMMA EditKeeps ==
    ASSUME ProvidersInv, StorageInv' /\ ActiveIsKnown' /\ open' = open,
           UNCHANGED signInVars, FormOK'
    PROVE  ProvidersInv'
  BY DEF ProvidersInv, SignInInv, signInVars, NotLeftMidFlow

LEMMA FieldsOfKeyStores ==
    ASSUME NEW s, IsStorage(s), NEW p \in Presets
    PROVE  /\ s[p] \in KeyStores
           /\ \A k \in Keys \cup {None} : [s[p] EXCEPT !.key = k] \in KeyStores
           /\ \A m \in Models : [s[p] EXCEPT !.model = m] \in KeyStores
           /\ \A c \in BOOLEAN : [s[p] EXCEPT !.custom = c] \in KeyStores
           /\ \A m \in Models, c \in BOOLEAN :
                [s[p] EXCEPT !.model = m, !.custom = c] \in KeyStores
<1>1. s[p] \in KeyStores BY DEF IsStorage, Presets
<1> QED BY <1>1 DEF KeyStores

LEMMA KeyEdits ==
    ASSUME ProvidersInv, NEW t \in Tabs, NEW p \in Presets,
           (\E k \in Keys : SetKey(t, p, k)) \/ SignOut(t, p)
    PROVE  ProvidersInv'
<1>1. PICK e \in Keys \cup {None} : Written([storage EXCEPT ![p].key = e], t, p)
  BY DEF SetKey, SignOut
<1>2. /\ UNCHANGED signInVars /\ FormOK'
  BY DEF SetKey, SignOut, Edit, ProvidersInv, FormOK
<1>3. Written([storage EXCEPT ![p] = [storage[p] EXCEPT !.key = e]], t, p) BY <1>1
<1>4. [storage[p] EXCEPT !.key = e] \in KeyStores
  BY FieldsOfKeyStores DEF ProvidersInv, StorageInv
<1>5. StorageInv' /\ ActiveIsKnown' /\ open' = open
  BY <1>3, <1>4, KeyStoreStep DEF ProvidersInv
<1> QED BY <1>2, <1>5, EditKeeps

LEMMA ModelEdits ==
    ASSUME ProvidersInv, NEW t \in Tabs, NEW m \in Models,
           TypeModel(t, m) \/ ChooseModelCard(t, m) \/ ToggleCustom(t)
    PROVE  ProvidersInv'
<1> DEFINE p == ModelSection(t)
<1>1. p \in Presets BY DEF ModelSection, Presets
<1>2. UNCHANGED signInVars /\ FormOK'
  BY DEF TypeModel, ChooseModelCard, ToggleCustom, Edit, ProvidersInv, FormOK
<1>3. IsStorage(storage) /\ IsStorage(view[t]) BY DEF ProvidersInv, StorageInv
<1>4. view[t][p].custom \in BOOLEAN BY <1>1, <1>3, FieldsOfKeyStores DEF KeyStores
<1> HIDE DEF p
<1>5. PICK x \in KeyStores : Written([storage EXCEPT ![p] = x], t, p)
  <2>1. CASE TypeModel(t, m)
    <3>1. Written([storage EXCEPT ![p] = [storage[p] EXCEPT !.model = m]], t, p)
      BY <2>1 DEF TypeModel, p
    <3> QED BY <3>1, <1>1, <1>3, FieldsOfKeyStores
  <2>2. CASE ChooseModelCard(t, m)
    <3>1. Written([storage EXCEPT ![p] = [storage[p] EXCEPT !.model = m, !.custom = TRUE]],
                  t, p)
      <4>1. [storage EXCEPT ![p].model = m, ![p].custom = TRUE]
              = [storage EXCEPT ![p] = [storage[p] EXCEPT !.model = m, !.custom = TRUE]]
        <5>1. p \in DOMAIN storage BY <1>1, <1>3 DEF IsStorage, Presets
        <5> QED BY <5>1
      <4> QED BY <2>2, <4>1 DEF ChooseModelCard, p
    <3> QED BY <3>1, <1>1, <1>3, FieldsOfKeyStores
  <2>3. CASE ToggleCustom(t)
    <3>1. Written([storage EXCEPT ![p] = [storage[p] EXCEPT !.custom = ~view[t][p].custom]],
                  t, p)
      BY <2>3 DEF ToggleCustom, p
    <3> QED BY <3>1, <1>1, <1>3, <1>4, FieldsOfKeyStores
  <2> QED BY <2>1, <2>2, <2>3
<1>6. StorageInv' /\ ActiveIsKnown' /\ open' = open
  BY <1>1, <1>5, KeyStoreStep DEF ProvidersInv
<1> QED BY <1>2, <1>6, EditKeeps

LEMMA SetActiveKeeps ==
    ASSUME ProvidersInv, NEW t \in Tabs, NEW id, SetActive(t, id)
    PROVE  ProvidersInv'
<1>1. UNCHANGED signInVars /\ FormOK' BY DEF SetActive, Edit, ProvidersInv, FormOK
<1>2. StorageInv' /\ ActiveIsKnown' /\ open' = open
  <2>1. CASE Known(storage.providers, id)
    <3> DEFINE r == [storage.providers EXCEPT !.active = id]
    <3>1. IsRegistry(r) /\ ActiveFits(r)
      BY <2>1 DEF ProvidersInv, StorageInv, IsStorage, IsRegistry, ActiveFits, Known
    <3>2. Written([storage EXCEPT !.providers = r], t, "providers") BY <2>1 DEF SetActive
    <3> HIDE DEF r
    <3> QED BY <3>1, <3>2, RegistryStep DEF ProvidersInv
  <2>2. CASE ~Known(storage.providers, id)
    BY <2>2 DEF SetActive, storageVars, ProvidersInv, StorageInv, Fresh, ActiveIsKnown
  <2> QED BY <2>1, <2>2
<1> QED BY <1>1, <1>2, EditKeeps

LEMMA FormEdits ==
    ASSUME ProvidersInv, NEW t \in Tabs, NEW id \in Customs \cup {None}, NEW d,
           ShowForm(t, id) \/ CancelForm(t) \/ SubmitForm(t, d) \/ RemoveProfile(t, id)
    PROVE  ProvidersInv'
<1>1. UNCHANGED signInVars
  BY DEF ShowForm, CancelForm, SubmitForm, RemoveProfile, Edit
<1>2. FormOK'
  <2>1. PICK f \in [shown : BOOLEAN, editing : Customs \cup {None}] :
          form' = [form EXCEPT ![t] = f] \/ form' = form
    <3>1. NoForm \in [shown : BOOLEAN, editing : Customs \cup {None}] BY DEF NoForm
    <3>2. CASE ShowForm(t, id) BY <3>2 DEF ShowForm
    <3>3. CASE CancelForm(t) BY <3>1, <3>3 DEF CancelForm
    <3>4. CASE SubmitForm(t, d) BY <3>1, <3>4 DEF SubmitForm
    <3>5. CASE RemoveProfile(t, id) BY <3>1, <3>5 DEF RemoveProfile
    <3> QED BY <3>2, <3>3, <3>4, <3>5
  <2> QED BY <2>1 DEF ProvidersInv, FormOK
<1>3. IsRegistry(storage.providers) BY DEF ProvidersInv, StorageInv, IsStorage
<1>4. StorageInv' /\ ActiveIsKnown' /\ open' = open
  <2>1. CASE ShowForm(t, id) \/ CancelForm(t)
    BY <2>1 DEF ShowForm, CancelForm, storageVars, ProvidersInv, StorageInv, Fresh, ActiveIsKnown
  <2>2. CASE SubmitForm(t, d)
    <3>1. PICK c \in Customs :
            Written([storage EXCEPT !.providers = Submitted(Normalised(@), form[t], c, d)],
                    t, "providers")
      BY <2>2 DEF SubmitForm, ProvidersInv, FormOK
    <3> DEFINE r == Submitted(Normalised(storage.providers), form[t], c, d)
    <3>2. IsRegistry(r) /\ ActiveFits(r) BY <1>3, NormalisedFits, SubmittedFits
    <3>3. Written([storage EXCEPT !.providers = r], t, "providers") BY <3>1
    <3> HIDE DEF r
    <3> QED BY <3>2, <3>3, RegistryStep DEF ProvidersInv
  <2>3. CASE RemoveProfile(t, id)
    <3> DEFINE r == Removed(Normalised(storage.providers), id)
    <3>1. IsRegistry(r) /\ ActiveFits(r) BY <1>3, NormalisedFits, RemovedFits
    <3>2. Written([storage EXCEPT !.providers = r], t, "providers") BY <2>3 DEF RemoveProfile
    <3> HIDE DEF r
    <3> QED BY <3>1, <3>2, RegistryStep DEF ProvidersInv
  <2> QED BY <2>1, <2>2, <2>3
<1> QED BY <1>1, <1>2, <1>4, EditKeeps

LEMMA PickKeeps ==
    ASSUME ProvidersInv, NEW t \in Tabs, NEW o \in Options(view[t]), PickModel(t, o)
    PROVE  ProvidersInv'
<1> DEFINE p == o.provider
           active == IF Known(storage.providers, p) THEN p ELSE storage.providers.active
           r == [storage.providers EXCEPT !.active = active]
           s == Selected(storage, p)
<1>1. UNCHANGED signInVars /\ FormOK' BY DEF PickModel, Edit, ProvidersInv, FormOK
<1>2. IsStorage(storage) /\ IsStorage(view[t]) BY DEF ProvidersInv, StorageInv
<1>3. IsRegistry(r) /\ r.profiles = storage.providers.profiles /\ r.active = active
  BY <1>2 DEF IsStorage, IsRegistry
<1>4. t \in open BY DEF PickModel, Edit
<1>5. ActiveFits(r)
  BY <1>3, <1>4 DEF ProvidersInv, ActiveIsKnown, ActiveFits, Known
<1>6. s = [storage EXCEPT !.providers = r] BY DEF Selected
<1>7. IsStorage(s) /\ s.providers = r /\ \A j \in Areas \ {"providers"} : s[j] = storage[j]
  BY <1>2, <1>3, <1>6, RegistryEdited
<1> HIDE DEF r, s
<1>8. StorageInv' /\ ActiveIsKnown' /\ open' = open
  <2>1. CASE p \notin Presets
    <3>1. Written(s, t, "providers") BY <2>1 DEF PickModel, s
    <3> QED BY <1>5, <1>7, <3>1, WriteStep DEF ProvidersInv, Areas
  <2>2. CASE p \in Presets
    <3> DEFINE x == WithModel(s[p], o.model)
               z == [s EXCEPT ![p] = x]
    <3>1. WrittenBoth(z, t, p) BY <2>2 DEF PickModel, s
    <3>2. o.model \in Models \cup {None}
      <4>1. p \notin Customs BY <2>2, StorageShape DEF Presets
      <4> QED BY <1>2, <4>1 DEF Options, IsStorage, IsRegistry
    <3>3. x \in KeyStores
      <4>1. s[p] \in KeyStores BY <1>7, <2>2, FieldsOfKeyStores
      <4> QED BY <3>2, <4>1 DEF KeyStores, WithModel
    <3>4. IsStorage(z) /\ z.providers = r /\ \A j \in Areas \ {p} : z[j] = s[j]
      <4> HIDE DEF x
      <4> QED BY <1>7, <2>2, <3>3, KeyStoreEdited
    <3> HIDE DEF x, z
    <3>5. \A j \in Areas \ {p, "providers"} : z[j] = storage[j] BY <1>7, <3>4
    <3>6. p \in Areas BY <2>2 DEF Presets, Areas
    <3>7. Propagated(z, t, p)
      <4>1. pending' \in [Tabs -> SUBSET Areas] BY <3>1 DEF WrittenBoth, ProvidersInv, StorageInv
      <4> QED BY <3>1, <4>1 DEF WrittenBoth, Propagated, ProvidersInv, StorageInv
    <3>8. StorageInv' BY <3>4, <3>5, <3>6, <3>7, PropagationKeeps DEF ProvidersInv
    <3>9. ActiveIsKnown' BY <1>5, <3>1, <3>4 DEF WrittenBoth, ActiveIsKnown, ActiveFits
    <3> QED BY <3>1, <3>8, <3>9 DEF WrittenBoth
  <2> QED BY <2>1, <2>2
<1> QED BY <1>1, <1>8, EditKeeps

\* The cleanup of an effect that began no exchange, or one.
LEMMA CancelledNone ==
    Cancelled([verifier |-> 0, exchange |-> <<>>]) = [verifier |-> 0, exchange |-> <<>>]
<1>1. [i \in DOMAIN <<>> |-> Unheard(<<>>[i])] = <<>> OBVIOUS
<1> QED BY <1>1 DEF Cancelled

LEMMA CancelledOne ==
    ASSUME NEW x
    PROVE  Cancelled([verifier |-> 0, exchange |-> <<x>>])
             = [verifier |-> 0, exchange |-> <<Unheard(x)>>]
<1>1. [i \in DOMAIN <<x>> |-> Unheard(<<x>>[i])] = <<Unheard(x)>>
  <2>1. DOMAIN <<x>> = 1..1 /\ \A i \in 1..1 : <<x>>[i] = x OBVIOUS
  <2>2. \A i \in 1..1 : Unheard(<<x>>[i]) = Unheard(x) BY <2>1
  <2>3. [i \in DOMAIN <<x>> |-> Unheard(<<x>>[i])] = [i \in 1..1 |-> Unheard(x)]
    BY <2>1, <2>2
  <2>4. \A y : [i \in 1..1 |-> y] = <<y>> OBVIOUS
  <2> QED BY <2>3, <2>4
<1> QED BY <1>1 DEF Cancelled

\* The effect of the root, run once or twice, uses up the verifier and starts
\* at most one exchange, with a code that answers it.
LEMMA CallbackOnce ==
    ASSUME NEW v \in Rounds, NEW code, code = 0 \/ v = 0 \/ code = v, NEW strict \in BOOLEAN
    PROVE  LET once == CallbackEffect([verifier |-> v, exchange |-> <<>>], code)
               last == IF strict THEN CallbackEffect(Cancelled(once), code) ELSE once
           IN  last.verifier = 0 /\ OneAnswer(last.exchange)
<1> DEFINE once == CallbackEffect([verifier |-> v, exchange |-> <<>>], code)
<1> DEFINE x == [verifier |-> v, code |-> v, effect |-> "live"]
<1>0. \A s : s.verifier = 0 /\ s = [verifier |-> s.verifier, exchange |-> s.exchange]
              => CallbackEffect(s, code) = s
  BY DEF CallbackEffect
<1>1. CASE v # 0 /\ code # 0
  <2>1. once = [verifier |-> 0, exchange |-> <<x>>]
    BY <1>1 DEF CallbackEffect, Exchanged
  <2>2. Unheard(x) = [verifier |-> v, code |-> v, effect |-> "cancelled"] BY DEF Unheard
  <2> HIDE DEF once
  <2>3. Cancelled(once) = [verifier |-> 0, exchange |-> <<Unheard(x)>>]
    BY <2>1, CancelledOne
  <2>4. CallbackEffect(Cancelled(once), code) = Cancelled(once) BY <1>0, <2>3
  <2>5. OneAnswer(<<x>>) BY DEF OneAnswer
  <2>6. OneAnswer(<<Unheard(x)>>) BY <2>2 DEF OneAnswer
  <2> QED BY <2>1, <2>3, <2>4, <2>5, <2>6 DEF once
<1>2. CASE v = 0 \/ code = 0
  <2>1. once = [verifier |-> 0, exchange |-> <<>>] BY <1>2 DEF CallbackEffect
  <2> HIDE DEF once
  <2>2. Cancelled(once) = once BY <2>1, CancelledNone
  <2>3. CallbackEffect(Cancelled(once), code) = once BY <1>0, <2>1, <2>2
  <2> QED BY <2>1, <2>3 DEF OneAnswer, once
<1> QED BY <1>1, <1>2

LEMMA LoadKeeps ==
    ASSUME ProvidersInv, NEW t \in Tabs, NEW code, Load(t, code),
           code = 0 \/ verifier[t] = 0 \/ code = verifier[t]
    PROVE  StorageInv' /\ ActiveIsKnown' /\ SignInInv'
<1>1. StorageInv' BY MountKeeps DEF Load, ProvidersInv
<1>2. ActiveIsKnown'
  <2>1. storage'.providers = Normalised(storage.providers)
    BY NormalisedStorage DEF Load, Mount, ProvidersInv, StorageInv
  <2>2. IsRegistry(storage.providers) BY DEF ProvidersInv, StorageInv, IsStorage
  <2> QED BY <2>1, <2>2, NormalisedFits DEF ActiveIsKnown, ActiveFits
<1>3. PICK strict \in BOOLEAN :
        LET once == CallbackEffect([verifier |-> verifier[t], exchange |-> <<>>], code)
            last == IF strict THEN CallbackEffect(Cancelled(once), code) ELSE once
        IN  /\ verifier' = [verifier EXCEPT ![t] = last.verifier]
            /\ exchange' = [exchange EXCEPT ![t] = last.exchange]
  BY DEF Load
<1> DEFINE once == CallbackEffect([verifier |-> verifier[t], exchange |-> <<>>], code)
           last == IF strict THEN CallbackEffect(Cancelled(once), code) ELSE once
<1>4. last.verifier = 0 /\ OneAnswer(last.exchange)
  BY CallbackOnce DEF ProvidersInv, SignInInv
<1>5. verifier' = [verifier EXCEPT ![t] = last.verifier]
      /\ exchange' = [exchange EXCEPT ![t] = last.exchange]
  BY <1>3
<1> HIDE DEF last
<1>6. SignInInv'
  <2>1. open' = open \cup {t} /\ leaving' = leaving /\ attempts' = attempts
    BY DEF Load, Mount
  <2>2. verifier' \in [Tabs -> Rounds] /\ verifier'[t] = 0
    BY <1>4, <1>5, SignInShape DEF ProvidersInv, SignInInv, Rounds
  <2>3. NotLeftMidFlow'
    BY <1>5, <2>1, <2>2 DEF ProvidersInv, SignInInv, NotLeftMidFlow, StorageInv
  <2>4. /\ exchange' = [u \in Tabs |-> exchange'[u]]
        /\ \A u \in Tabs : OneAnswer(exchange'[u])
    BY <1>4, <1>5 DEF ProvidersInv, SignInInv
  <2>5. attempts' \in Rounds BY <2>1 DEF ProvidersInv, SignInInv
  <2> QED BY <2>2, <2>3, <2>4, <2>5 DEF SignInInv, OneAnswer
<1> QED BY <1>1, <1>2, <1>6

LEMMA SignInKeeps ==
    ASSUME ProvidersInv, NEW t \in Tabs, StartSignIn(t) \/ Redirect(t)
    PROVE  StorageInv' /\ ActiveIsKnown' /\ SignInInv'
<1>1. StorageInv' /\ ActiveIsKnown'
  <2>1. CASE StartSignIn(t)
    BY <2>1 DEF StartSignIn, storageVars, ProvidersInv, StorageInv, Fresh, ActiveIsKnown
  <2>2. CASE Redirect(t)
    BY <2>2 DEF Redirect, Unmount, ProvidersInv, StorageInv, Fresh, ActiveIsKnown
  <2> QED BY <2>1, <2>2
<1>2. attempts' \in Rounds /\ verifier' \in [Tabs -> Rounds]
  BY SignInShape DEF StartSignIn, Redirect, ProvidersInv, SignInInv, Rounds
<1>3. NotLeftMidFlow'
  <2>1. CASE StartSignIn(t)
    BY <2>1 DEF StartSignIn, storageVars, ProvidersInv, StorageInv, SignInInv, NotLeftMidFlow
  <2>2. CASE Redirect(t)
    BY <2>2 DEF Redirect, Unmount, ProvidersInv, SignInInv, NotLeftMidFlow
  <2> QED BY <2>1, <2>2
<1>4. exchange' = exchange \/ exchange' = [exchange EXCEPT ![t] = <<>>]
  BY DEF StartSignIn, Redirect
<1>5. exchange' = [u \in Tabs |-> exchange'[u]] /\ \A u \in Tabs : OneAnswer(exchange'[u])
  BY <1>4 DEF ProvidersInv, SignInInv, OneAnswer
<1> QED BY <1>1, <1>2, <1>3, <1>5 DEF SignInInv, OneAnswer

LEMMA AnsweredKeeps ==
    ASSUME ProvidersInv, NEW t \in Tabs, Answered(t)
    PROVE  StorageInv' /\ ActiveIsKnown' /\ SignInInv'
<1>1. StorageInv' /\ ActiveIsKnown' /\ open' = open
  <2>1. CASE UNCHANGED storageVars
    BY <2>1 DEF storageVars, ProvidersInv, StorageInv, Fresh, ActiveIsKnown
  <2>2. CASE \E k \in Keys : Written([storage EXCEPT !.openrouter.key = k], t, "openrouter")
    <3>1. PICK k \in Keys : Written([storage EXCEPT !.openrouter.key = k], t, "openrouter")
      BY <2>2
    <3> DEFINE x == [storage["openrouter"] EXCEPT !.key = k]
    <3>2. Written([storage EXCEPT !["openrouter"] = x], t, "openrouter") BY <3>1
    <3>3. x \in KeyStores
      BY FieldsOfKeyStores DEF ProvidersInv, StorageInv, Presets
    <3> HIDE DEF x
    <3> QED BY <3>2, <3>3, KeyStoreStep DEF ProvidersInv, Presets
  <2> QED BY <2>1, <2>2 DEF Answered
<1>2. UNCHANGED <<verifier, leaving, attempts>>
      /\ exchange' = [exchange EXCEPT ![t] = Tail(@)] /\ exchange[t] # <<>>
  BY DEF Answered
<1>3. Tail(exchange[t]) = <<>>
  <2>1. PICK v \in Rounds, e \in {"live", "cancelled"} :
          exchange[t] = <<[verifier |-> v, code |-> v, effect |-> e]>>
    BY <1>2 DEF ProvidersInv, SignInInv, OneAnswer
  <2>2. \A x : Tail(<<x>>) = <<>> OBVIOUS
  <2> QED BY <2>1, <2>2
<1>4. exchange' = [u \in Tabs |-> exchange'[u]] /\ \A u \in Tabs : OneAnswer(exchange'[u])
  BY <1>2, <1>3 DEF ProvidersInv, SignInInv, OneAnswer
<1>5. SignInInv'
  BY <1>1, <1>2, <1>4 DEF ProvidersInv, SignInInv, NotLeftMidFlow, OneAnswer
<1> QED BY <1>1, <1>5

LEMMA PageKeeps ==
    ASSUME ProvidersInv, "stale" \notin Mishaps, NEW t \in Tabs, PageStep(t)
    PROVE  ProvidersInv'
<1>1. FormOK'
  <2>1. NoForm \in [shown : BOOLEAN, editing : Customs \cup {None}] BY DEF NoForm
  <2>2. form' = form \/ form' = [form EXCEPT ![t] = NoForm] BY DEF PageStep
  <2> QED BY <2>1, <2>2 DEF ProvidersInv, FormOK
<1>2. StorageInv' /\ ActiveIsKnown' /\ SignInInv'
  <2>1. CASE StartSignIn(t) \/ Redirect(t) BY <2>1, SignInKeeps
  <2>2. CASE Answered(t) BY <2>2, AnsweredKeeps
  <2>3. CASE Visit(t)
    <3>1. verifier[t] = 0
      BY <2>3 DEF Visit, ProvidersInv, SignInInv, NotLeftMidFlow
    <3> QED BY <2>3, <3>1, LoadKeeps DEF Visit
  <2>4. CASE Approved(t) BY <2>4, LoadKeeps DEF Approved
  <2>5. CASE Declined(t)
    <3>1. Load(t, 0) BY <2>5 DEF Declined
    <3> QED BY <3>1, LoadKeeps
  <2> QED BY <2>1, <2>2, <2>3, <2>4, <2>5 DEF PageStep
<1> QED BY <1>1, <1>2 DEF ProvidersInv

\* Runs, reads of the mode and restarts of the server leave the storage alone.
LEMMA ReadsKeep ==
    ASSUME ProvidersInv, UNCHANGED <<storageVars, signInVars, form>>
    PROVE  ProvidersInv'
  BY DEF storageVars, signInVars, ProvidersInv, StorageInv, Fresh, ActiveIsKnown, SignInInv,
         NotLeftMidFlow, FormOK

LEMMA DeliveredKeeps ==
    ASSUME ProvidersInv, NEW t \in Tabs, NEW k \in Areas, Delivered(t, k)
    PROVE  ProvidersInv'
<1>1. StorageInv' BY DeliverKeeps DEF Delivered, ProvidersInv
<1>2. storage' = storage /\ open' = open BY DEF Delivered, Deliver
<1>3. ActiveIsKnown' BY <1>2 DEF ProvidersInv, ActiveIsKnown
<1>4. UNCHANGED signInVars /\ FormOK' BY DEF Delivered, ProvidersInv, FormOK
<1> QED BY <1>1, <1>2, <1>3, <1>4, EditKeeps

\* The invariant is kept by every step, whatever the bounds, unless the address
\* of a declined sign-in may hold an older code.
LEMMA StepKeeps ==
    ASSUME ProvidersInv, "stale" \notin Mishaps, [Next]_vars
    PROVE  ProvidersInv'
<1>1. CASE UNCHANGED vars BY <1>1, ReadsKeep DEF vars, settingsVars
<1>2. CASE ModeChanges BY <1>2, ReadsKeep DEF ModeChanges
<1>3. ASSUME NEW t \in Tabs, PageStep(t) PROVE ProvidersInv' BY <1>3, PageKeeps
<1>4. ASSUME NEW t \in Tabs, NEW k \in Areas, Delivered(t, k) PROVE ProvidersInv'
  BY <1>4, DeliveredKeeps
<1>5. ASSUME NEW t \in Tabs, NEW id, SetActive(t, id) PROVE ProvidersInv'
  BY <1>5, SetActiveKeeps
<1>6. ASSUME NEW t \in Tabs, NEW o, PickModel(t, o) PROVE ProvidersInv'
  BY <1>6, PickKeeps DEF PickModel
<1>7. ASSUME NEW t \in Tabs, NEW p \in Presets,
             (\E k \in Keys : SetKey(t, p, k)) \/ SignOut(t, p)
      PROVE  ProvidersInv'
  BY <1>7, KeyEdits
<1>8. ASSUME NEW t \in Tabs, NEW m \in Models,
             TypeModel(t, m) \/ ChooseModelCard(t, m) \/ ToggleCustom(t)
      PROVE  ProvidersInv'
  BY <1>8, ModelEdits
<1>9. ASSUME NEW t \in Tabs, ToggleCustom(t) PROVE ProvidersInv'
  BY <1>8, <1>9, StorageShape
<1>10. ASSUME NEW t \in Tabs, NEW id \in Customs \cup {None},
              ShowForm(t, id) \/ CancelForm(t) \/ RemoveProfile(t, id)
       PROVE  ProvidersInv'
  BY <1>10, FormEdits
<1>11. ASSUME NEW t \in Tabs, NEW d \in Drafts, SubmitForm(t, d)
       PROVE  ProvidersInv'
  BY <1>11, FormEdits
<1>12. ASSUME NEW t \in Tabs, CancelForm(t) PROVE ProvidersInv' BY <1>10, <1>12
<1>13. ASSUME NEW t \in Tabs, ReadCapabilities(t) \/ Submit(t) \/ Run(t) PROVE ProvidersInv'
  BY <1>13, ReadsKeep DEF ReadCapabilities, Submit, Run
<1> QED
  BY <1>1, <1>2, <1>3, <1>4, <1>5, <1>6, <1>7, <1>8, <1>9, <1>10, <1>11, <1>12, <1>13 DEF Next

\* The route a run takes is the one an up-to-date picker shows.
LEMMA RouteShown ==
    ASSUME IsStorage(storage), storage.providers.active = None
                               \/ Known(storage.providers, storage.providers.active)
    PROVE  SentRoute(storage) = ShownRoute(storage)
<1> DEFINE id == storage.providers.active
<1>1. Normalised(storage.providers).active = id
  BY DEF IsStorage, IsRegistry, Normalised
<1>2. CASE ~Ready(storage, id) BY <1>1, <1>2 DEF SentRoute, ShownRoute
<1>3. CASE Ready(storage, id) /\ id \in Presets
  <2>1. storage[id] \in KeyStores BY <1>3, FieldsOfKeyStores
  <2> DEFINE model == IF storage[id].custom THEN storage[id].model ELSE None
  <2>2. model \in Models \cup {None} /\ (storage[id].custom => model # None)
    BY <2>1, StorageShape DEF KeyStores
  <2>3. [provider |-> id, model |-> model] \in Options(storage)
    BY <1>3, <2>2 DEF Options
  <2>4. SentRoute(storage) = [provider |-> id, model |-> model]
    BY <1>1, <1>3 DEF SentRoute
  <2> QED BY <1>3, <2>3, <2>4 DEF ShownRoute
<1>4. CASE Ready(storage, id) /\ id \notin Presets
  <2>1. id \in DOMAIN storage.providers.profiles BY <1>4 DEF Ready, Known
  <2> DEFINE route == [provider |-> id, model |-> ModelOf[storage.providers.profiles[id]]]
  <2>2. route \in Options(storage) BY <2>1 DEF Options
  <2>3. SentRoute(storage) = route BY <1>1, <1>4 DEF SentRoute
  <2> QED BY <1>4, <2>1, <2>2, <2>3 DEF ShownRoute
<1> QED BY <1>2, <1>3, <1>4

-----------------------------------------------------------------------------
(* Theorems                                                                *)

\* No sign-in meets a code that is not its own answer: the address of a page
\* that a declined sign-in comes back to holds no older code.
NoStaleCodes == "stale" \notin Mishaps

\* The inductive invariant of the browser's storage, forms and sign-ins.
THEOREM Invariant == ASSUME NoStaleCodes PROVE Spec => []ProvidersInv
<1>1. Init => ProvidersInv BY InitHolds
<1>2. ProvidersInv /\ [Next]_vars => ProvidersInv' BY StepKeeps DEF NoStaleCodes
<1> QED BY <1>1, <1>2, PTL DEF Spec

\* Every write of the registry or a key store reaches the hooks of every tab
\* (BrowserStorage: notify, the storage listeners), for any number of tabs.
THEOREM TabsAgree == ASSUME NoStaleCodes PROVE Spec => []TabsConverge
<1>1. ProvidersInv => TabsConverge
  <2> SUFFICES ASSUME ProvidersInv, NEW t \in open, pending[t] = {} PROVE view[t] = storage
    BY DEF TabsConverge
  <2> QED BY AreaByArea DEF ProvidersInv, StorageInv, Fresh
<1> QED BY <1>1, Invariant, PTL

\* handleOAuthCallback exchanges a code once, with the verifier it answers.
THEOREM ExchangedOnce == ASSUME NoStaleCodes PROVE Spec => []OneExchangePerSignIn
<1>1. ProvidersInv => OneExchangePerSignIn
  <2> SUFFICES ASSUME ProvidersInv, NEW t \in Tabs
               PROVE  /\ Len(exchange[t]) <= 1
                      /\ \A i \in 1..Len(exchange[t]) :
                           exchange[t][i].code = exchange[t][i].verifier
    BY DEF OneExchangePerSignIn
  <2>1. CASE exchange[t] = <<>> BY <2>1
  <2>2. CASE exchange[t] # <<>>
    <3>1. PICK v \in Rounds, e \in {"live", "cancelled"} :
            exchange[t] = <<[verifier |-> v, code |-> v, effect |-> e]>>
      BY <2>2 DEF ProvidersInv, SignInInv, OneAnswer
    <3> QED BY <3>1
  <2> QED BY <2>1, <2>2
<1> QED BY <1>1, Invariant, PTL

\* An abandoned sign-in leaves no verifier behind in a page that stays.
THEOREM AbandonedFlowsEnd == ASSUME NoStaleCodes PROVE Spec => []NotLeftMidFlow
<1>1. ProvidersInv => NotLeftMidFlow BY DEF ProvidersInv, SignInInv
<1> QED BY <1>1, Invariant, PTL

\* While a page is open the stored selection is a profile that exists, although
\* any tab may delete it and another may select it at the same time.
THEOREM SelectionExists == ASSUME NoStaleCodes PROVE Spec => []ActiveIsKnown
<1>1. ProvidersInv => ActiveIsKnown BY DEF ProvidersInv
<1> QED BY <1>1, Invariant, PTL

\* What the model picker of an up-to-date tab shows is what its run sends.
THEOREM PickerIsTruthful == ASSUME NoStaleCodes PROVE Spec => ShownRouteIsSent
<1> DEFINE Truthful ==
      sent' # Silent /\ mode = "engine" /\ pending[sent'.tab] = {}
        => sent'.route = ShownRoute(view[sent'.tab])
<1>1. ASSUME ProvidersInv, [Next]_vars PROVE [Truthful]_vars
  <2> SUFFICES ASSUME Next, sent' # Silent, mode = "engine", pending[sent'.tab] = {}
               PROVE  sent'.route = ShownRoute(view[sent'.tab])
    BY <1>1
  <2>1. PICK t \in Tabs : Run(t)
    BY DEF Next, ModeChanges, PageStep, Delivered, SetActive, PickModel, SetKey, SignOut,
           TypeModel, ChooseModelCard, ToggleCustom, ShowForm, CancelForm, SubmitForm,
           RemoveProfile, ReadCapabilities, Submit, Edit
  <2>2. sent' = [tab |-> t, route |-> SentRoute(storage)] /\ t \in open
    BY <2>1 DEF Run, RunRoute
  <2>3. view[t] = storage /\ IsStorage(storage)
    BY <1>1, <2>2, AreaByArea DEF ProvidersInv, StorageInv, Fresh
  <2>4. SentRoute(storage) = ShownRoute(storage)
    BY <1>1, <2>2, <2>3, RouteShown DEF ProvidersInv, ActiveIsKnown
  <2> QED BY <2>2, <2>3, <2>4
<1> QED BY <1>1, Invariant, PTL DEF Spec, ShownRouteIsSent
=============================================================================
