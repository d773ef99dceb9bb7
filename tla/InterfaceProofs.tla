-------------------------- MODULE InterfaceProofs --------------------------
(***************************************************************************)
(* Proofs about the parts of the page that keep to themselves: theme,      *)
(* panels, artifact preview, switch, conversation, tool call, reasoning    *)
(* preview, sidebar and its menu, each with its inductive invariant, and   *)
(* from them the four invariants of the page.                              *)
(***************************************************************************)
EXTENDS Interface, FiniteSetTheorems, TLAPS

-----------------------------------------------------------------------------
(* Theme                                                                   *)

\* A listener is on exactly in a page that is up and defers to the system;
\* without this a flip of the system's preference could pass a page by.
ListensIfSystem ==
    \A t \in Tabs : listening[t] <=> phase[t] = "mounted" /\ theme[t] = "system"

ThemeInv == Look!TypeOK /\ ListensIfSystem /\ Look!DocumentFollowsTheme

LEMMA ThemeInit == ASSUME Look!ThemeShape PROVE Look!Init => ThemeInv
<1> SUFFICES ASSUME Look!Init PROVE ThemeInv OBVIOUS
<1>1. styles \in [Tabs -> 0 .. MaxStyles] BY DEF Look!Init, Look!ThemeShape
<1>2. Look!TypeOK BY <1>1 DEF Look!Init, Look!TypeOK, Look!Modes
<1>3. ListensIfSystem /\ Look!DocumentFollowsTheme
  BY DEF Look!Init, ListensIfSystem, Look!DocumentFollowsTheme
<1> QED BY <1>2, <1>3 DEF ThemeInv

\* What applying a theme does to a tab.
LEMMA ThemeApplied ==
    ASSUME NEW t \in Tabs, NEW m, NEW n \in Nat, ThemeInv, Look!ApplyTheme(t, m, n),
           Look!ThemeShape
    PROVE  /\ styles' \in [Tabs -> 0 .. MaxStyles]
           /\ dark' \in [Tabs -> BOOLEAN]
           /\ dark'[t] <=> Look!IsDark(m, systemDark')
           /\ \A u \in Tabs \ {t} : dark'[u] <=> dark[u]
<1>1. styles' \in [Tabs -> 0 .. MaxStyles]
  BY DEF Look!ApplyTheme, ThemeInv, Look!TypeOK, Look!ThemeShape
<1>2. Look!IsDark(m, systemDark') \in BOOLEAN BY DEF Look!IsDark
<1>3. dark \in [Tabs -> BOOLEAN] BY DEF ThemeInv, Look!TypeOK
<1>4. dark' = [dark EXCEPT ![t] = Look!IsDark(m, systemDark')] BY DEF Look!ApplyTheme
<1>5. dark' \in [Tabs -> BOOLEAN] BY <1>2, <1>3, <1>4
<1>6. dark'[t] = Look!IsDark(m, systemDark') BY <1>3, <1>4
<1>7. \A u \in Tabs \ {t} : dark'[u] = dark[u] BY <1>3, <1>4
<1> QED BY <1>1, <1>5, <1>6, <1>7

LEMMA ThemeStep ==
    ASSUME ThemeInv, [Look!Next]_(Look!vars), Look!ThemeShape
    PROVE  ThemeInv'
<1> USE DEF ThemeInv, Look!TypeOK, ListensIfSystem, Look!DocumentFollowsTheme
<1>1. CASE UNCHANGED Look!vars BY <1>1 DEF Look!vars
<1>2. CASE Look!SystemFlips
  <2>1. Look!TypeOK'
    <3>1. styles' \in [Tabs -> 0 .. MaxStyles] BY <1>2 DEF Look!SystemFlips, Look!ThemeShape
    <3>2. systemDark' \in BOOLEAN BY <1>2 DEF Look!SystemFlips
    <3>3. dark' \in [Tabs -> BOOLEAN] BY <1>2, <3>2 DEF Look!SystemFlips
    <3> QED BY <1>2, <3>1, <3>2, <3>3 DEF Look!SystemFlips
  <2>2. ListensIfSystem' BY <1>2 DEF Look!SystemFlips
  <2>3. Look!DocumentFollowsTheme' BY <1>2 DEF Look!SystemFlips, Look!IsDark
  <2> QED BY <2>1, <2>2, <2>3
<1>3. ASSUME NEW t \in Tabs, Look!Load(t) PROVE ThemeInv'
  <2> DEFINE mode == IF stored = "none" THEN "dark" ELSE stored
  <2>1. Look!ApplyTheme(t, mode, 1) BY <1>3 DEF Look!Load
  <2>2. mode \in Look!Modes BY DEF Look!Modes
  <2> HIDE DEF mode
  <2>3. Look!TypeOK'
    <3>1. theme' = [theme EXCEPT ![t] = mode] BY <1>3 DEF Look!Load, mode
    <3> QED BY <1>3, <2>1, <2>2, <3>1, ThemeApplied DEF Look!Load
  <2>4. ListensIfSystem' BY <1>3 DEF Look!Load
  <2>5. Look!DocumentFollowsTheme' BY <1>3, <2>1, ThemeApplied DEF Look!Load
  <2> QED BY <2>3, <2>4, <2>5
<1>4. ASSUME NEW t \in Tabs, Look!Mount(t) PROVE ThemeInv'
  <2>1. Look!ApplyTheme(t, theme[t], 1) BY <1>4 DEF Look!Mount
  <2>2. Look!TypeOK' BY <1>4, <2>1, ThemeApplied DEF Look!Mount
  <2>3. ListensIfSystem' BY <1>4 DEF Look!Mount
  <2>4. Look!DocumentFollowsTheme' BY <1>4, <2>1, ThemeApplied DEF Look!Mount
  <2> QED BY <2>2, <2>3, <2>4
<1>5. ASSUME NEW t \in Tabs, NEW mode \in Look!Modes, Look!SetTheme(t, mode) PROVE ThemeInv'
  <2>0. Look!TimesApplied(t, mode) \in Nat BY DEF Look!TimesApplied
  <2>1. Look!ApplyTheme(t, mode, Look!TimesApplied(t, mode)) BY <1>5 DEF Look!SetTheme
  <2>2. Look!TypeOK' BY <1>5, <2>0, <2>1, ThemeApplied DEF Look!SetTheme
  <2>3. ListensIfSystem' BY <1>5 DEF Look!SetTheme
  <2>4. Look!DocumentFollowsTheme' BY <1>5, <2>0, <2>1, ThemeApplied DEF Look!SetTheme
  <2> QED BY <2>2, <2>3, <2>4
<1>6. ASSUME NEW t \in Tabs, Look!Leave(t) PROVE ThemeInv'
  <2>1. Look!TypeOK' BY <1>6 DEF Look!Leave, Look!ThemeShape
  <2>2. ListensIfSystem' BY <1>6 DEF Look!Leave
  <2>3. Look!DocumentFollowsTheme' BY <1>6 DEF Look!Leave
  <2> QED BY <2>1, <2>2, <2>3
<1>7. ASSUME NEW t \in Tabs, Look!PersistOther(t) PROVE ThemeInv'
  BY <1>7 DEF Look!PersistOther
<1>8. ASSUME NEW t \in Tabs, Look!FramesPass(t) PROVE ThemeInv'
  BY <1>8 DEF Look!FramesPass, Look!ThemeShape
<1> QED BY <1>1, <1>2, <1>3, <1>4, <1>5, <1>6, <1>7, <1>8 DEF Look!Next

\* The document of every page that is up has the theme of its store, or of the
\* system if it defers to it (AppProviders, applyTheme), in every tab.
THEOREM DocumentsFollow == ASSUME Look!ThemeShape PROVE Look!Spec => []Look!DocumentFollowsTheme
<1>1. ThemeInv /\ [Look!Next]_(Look!vars) => ThemeInv' BY ThemeStep
<1>2. ThemeInv => Look!DocumentFollowsTheme BY DEF ThemeInv
<1> QED BY <1>1, <1>2, ThemeInit, PTL DEF Look!Spec
-----------------------------------------------------------------------------
(* The artifact preview                                                    *)

\* Beyond the property: the preview is idle exactly when there is nothing to
\* preview, and a request that will be heard is for what is being previewed.
\* Without the second part a late answer could replace another's preview.
Hears ==
    /\ preview # Results!Idle =>
          shown /\ Results!Subject(artifacts, selected) = Results!Preview("ready", preview.of)
    /\ \A r \in requests : r.active => preview = Results!Preview("loading", r.of)
    /\ preview.status = "loading" => \E r \in requests : r.active

ArtifactsInv == Results!TypeOK /\ Hears /\ Results!PreviewIsOfSelected

LEMMA ArtifactsInit == ASSUME Results!ArtifactsShape PROVE Results!Init => ArtifactsInv
<1> SUFFICES ASSUME Results!Init PROVE ArtifactsInv OBVIOUS
<1>1. Results!TypeOK
  <2>1. preview \in [status : {"idle", "loading", "ready", "error"}, of : Ids \cup {None}]
    BY DEF Results!Init, Results!Idle, Results!Preview
  <2>2. requests \subseteq [of : Ids, active : BOOLEAN] BY DEF Results!Init
  <2> QED BY <2>1, <2>2 DEF Results!Init, Results!TypeOK, Results!Statuses
<1>2. Hears BY DEF Results!Init, Hears, Results!Idle, Results!Preview
<1>3. Results!PreviewIsOfSelected BY DEF Results!Init, Results!PreviewIsOfSelected, Results!Idle, Results!Preview
<1> QED BY <1>1, <1>2, <1>3 DEF ArtifactsInv

\* The effect of React after any event brings the preview in line.
LEMMA EffectKeeps ==
    ASSUME Results!ArtifactsShape, ArtifactsInv, Results!PreviewEffect,
           artifacts' \in [Ids -> Results!Statuses], cards' \subseteq Ids,
           selected' \in Ids \cup {None}, shown' \in BOOLEAN
    PROVE  ArtifactsInv'
<1> DEFINE old == Results!Subject(artifacts, selected)
           new == Results!Subject(artifacts', selected')
<1>1. new = Results!Idle \/ (new = Results!Preview(artifacts'[selected'], selected') /\ selected' \in Ids)
  <2>1. CASE selected' = None \/ artifacts'[selected'] = "absent" BY <2>1 DEF Results!Subject
  <2>2. CASE ~(selected' = None \/ artifacts'[selected'] = "absent") BY <2>2 DEF Results!Subject
  <2> QED BY <2>1, <2>2
<1>2. CASE shown' = shown /\ new = old
  <2>1. preview' = preview /\ requests' = requests BY <1>2 DEF Results!PreviewEffect
  <2>2. Results!TypeOK' BY <2>1 DEF ArtifactsInv, Results!TypeOK
  <2>3. Hears' BY <1>2, <2>1 DEF ArtifactsInv, Hears
  <2>4. preview' # Results!Idle => new = Results!Preview("ready", preview.of) /\ shown'
    BY <2>1, <2>3 DEF Hears
  <2>5. preview' # Results!Idle =>
          selected' = preview.of /\ artifacts'[selected'] = "ready"
    BY <1>1, <2>4 DEF Results!Preview, Results!Idle
  <2>6. preview' # Results!Idle => preview.of \in Markdown
    BY <2>1 DEF ArtifactsInv, Results!PreviewIsOfSelected
  <2>7. Results!PreviewIsOfSelected'
    BY <2>1, <2>4, <2>5, <2>6 DEF ArtifactsInv, Results!PreviewIsOfSelected
  <2> QED BY <2>2, <2>3, <2>7 DEF ArtifactsInv
<1>3. CASE ~(shown' = shown /\ new = old) /\ shown' /\ Results!Previewable(new)
  <2>1. /\ preview' = Results!Preview("loading", new.of)
        /\ requests' = Results!GivenUp \cup {[of |-> new.of, active |-> TRUE]}
    BY <1>3 DEF Results!PreviewEffect
  <2>2. /\ selected' \in Ids /\ new.of = selected' /\ artifacts'[selected'] = "ready"
        /\ new = Results!Preview("ready", selected') /\ selected' \in Markdown
    BY <1>1, <1>3 DEF Results!Previewable, Results!Preview, Results!Idle
  <2>3. \A r \in Results!GivenUp : r \in [of : Ids, active : BOOLEAN] /\ ~r.active
    BY DEF Results!GivenUp, ArtifactsInv, Results!TypeOK
  <2>4. Results!TypeOK'
    <3>1. preview' \in [status : {"idle", "loading", "ready", "error"}, of : Ids \cup {None}]
      BY <2>1, <2>2 DEF Results!Preview
    <3>2. [of |-> new.of, active |-> TRUE] \in [of : Ids, active : BOOLEAN] BY <2>2
    <3>3. requests' \subseteq [of : Ids, active : BOOLEAN] BY <2>1, <2>3, <3>2
    <3> QED BY <3>1, <3>3 DEF Results!TypeOK
  <2>5. preview' # Results!Idle /\ preview'.status = "loading" /\ preview'.of = selected'
    BY <2>1, <2>2 DEF Results!Preview, Results!Idle
  <2>6. \A r \in requests' : r.active => preview' = Results!Preview("loading", r.of)
    BY <2>1, <2>3
  <2>7. \E r \in requests' : r.active
    <3>1. [of |-> new.of, active |-> TRUE] \in requests' BY <2>1
    <3>2. [of |-> new.of, active |-> TRUE].active OBVIOUS
    <3> QED BY <3>1, <3>2
  <2>8. Hears' BY <1>3, <2>2, <2>5, <2>6, <2>7 DEF Hears
  <2>9. Results!PreviewIsOfSelected' BY <1>3, <2>2, <2>5, <2>7 DEF Results!PreviewIsOfSelected
  <2> QED BY <2>4, <2>8, <2>9 DEF ArtifactsInv
<1>4. CASE ~(shown' = shown /\ new = old) /\ ~(shown' /\ Results!Previewable(new))
  <2>1. preview' = Results!Idle /\ requests' = Results!GivenUp BY <1>4 DEF Results!PreviewEffect
  <2>2. \A r \in Results!GivenUp : r \in [of : Ids, active : BOOLEAN] /\ ~r.active
    BY DEF Results!GivenUp, ArtifactsInv, Results!TypeOK
  <2>3. Results!TypeOK' BY <2>1, <2>2 DEF Results!TypeOK, Results!Idle, Results!Preview
  <2>4. Hears' BY <2>1, <2>2 DEF Hears, Results!Idle, Results!Preview
  <2>5. Results!PreviewIsOfSelected' BY <2>1, <2>2 DEF Results!PreviewIsOfSelected, Results!Idle, Results!Preview
  <2> QED BY <2>3, <2>4, <2>5 DEF ArtifactsInv
<1> QED BY <1>2, <1>3, <1>4

\* An answer is heard by the preview it is for, or by none.
LEMMA AnswerKeeps ==
    ASSUME ArtifactsInv, NEW r \in requests, NEW ok \in BOOLEAN, Results!Answer(r, ok)
    PROVE  ArtifactsInv'
<1>1. requests' = requests \ {r} /\ UNCHANGED <<artifacts, cards, selected, shown>>
  BY DEF Results!Answer
<1>2. CASE r.active
  <2>1. preview = Results!Preview("loading", r.of) BY <1>2 DEF ArtifactsInv, Hears
  <2>2. PICK s \in {"ready", "error"} : preview' = Results!Preview(s, r.of)
    BY <1>2 DEF Results!Answer
  <2>3. \A q \in requests' : ~q.active
    <3>1. ASSUME NEW q \in requests, q.active PROVE q = r
      <4>1. Results!Preview("loading", q.of) = Results!Preview("loading", r.of)
        BY <2>1, <3>1 DEF ArtifactsInv, Hears
      <4>2. q.of = r.of BY <4>1 DEF Results!Preview
      <4>3. q \in [of : Ids, active : BOOLEAN] /\ r \in [of : Ids, active : BOOLEAN]
        BY DEF ArtifactsInv, Results!TypeOK
      <4> QED BY <1>2, <3>1, <4>2, <4>3
    <3> QED BY <1>1, <3>1
  <2>4. preview # Results!Idle /\ preview.of = r.of BY <2>1 DEF Results!Preview, Results!Idle
  <2>5. preview'.of = r.of /\ preview'.status # "loading" BY <2>2 DEF Results!Preview
  <2>6. Results!TypeOK' BY <1>1, <2>2 DEF ArtifactsInv, Results!TypeOK, Results!Preview
  <2>7. Hears' BY <1>1, <2>3, <2>4, <2>5 DEF ArtifactsInv, Hears
  <2>8. Results!PreviewIsOfSelected'
    BY <1>1, <2>3, <2>4, <2>5 DEF ArtifactsInv, Results!PreviewIsOfSelected
  <2> QED BY <2>6, <2>7, <2>8 DEF ArtifactsInv
<1>3. CASE ~r.active
  <2>1. preview' = preview BY <1>3 DEF Results!Answer
  <2>2. \A q \in requests : q.active => q \in requests' BY <1>1, <1>3
  <2> QED BY <1>1, <2>1, <2>2 DEF ArtifactsInv, Results!TypeOK, Hears, Results!PreviewIsOfSelected
<1> QED BY <1>2, <1>3

LEMMA ArtifactsStep ==
    ASSUME Results!ArtifactsShape, ArtifactsInv, [Results!Next]_(Results!vars)
    PROVE  ArtifactsInv'
<1>1. CASE UNCHANGED Results!vars
  BY <1>1 DEF Results!vars, ArtifactsInv, Results!TypeOK, Hears, Results!PreviewIsOfSelected
<1>2. ASSUME NEW a \in Ids, Results!Progress(a) PROVE ArtifactsInv'
  <2>1. artifacts' \in [Ids -> Results!Statuses] /\ cards' \subseteq Ids
    BY <1>2 DEF Results!Progress, ArtifactsInv, Results!TypeOK, Results!Statuses
  <2> QED BY <1>2, <2>1, EffectKeeps DEF Results!Progress, ArtifactsInv, Results!TypeOK
<1>3. ASSUME NEW a \in Ids, Results!ClickCard(a) PROVE ArtifactsInv'
  BY <1>3, EffectKeeps DEF Results!ClickCard, ArtifactsInv, Results!TypeOK
<1>4. ASSUME NEW arts \in [Ids -> {"absent", "ready"}], Results!OtherState(arts) PROVE ArtifactsInv'
  BY <1>4, EffectKeeps DEF Results!OtherState, ArtifactsInv, Results!TypeOK, Results!Statuses
<1>5. CASE Results!ShowTab BY <1>5, EffectKeeps DEF Results!ShowTab, ArtifactsInv, Results!TypeOK
<1>6. ASSUME NEW r \in requests, NEW ok \in BOOLEAN, Results!Answer(r, ok) PROVE ArtifactsInv'
  BY <1>6, AnswerKeeps
<1> QED BY <1>1, <1>2, <1>3, <1>4, <1>5, <1>6 DEF Results!Next

\* The preview under the selected artifact is its own, and one that is loading
\* has a request that will be heard, in whatever order answers arrive
\* (useArtifactPreview and its cleanup).
THEOREM PreviewsBelong == ASSUME Results!ArtifactsShape PROVE Results!Spec => []Results!PreviewIsOfSelected
<1>1. ArtifactsInv /\ [Results!Next]_(Results!vars) => ArtifactsInv' BY ArtifactsStep
<1>2. ArtifactsInv => Results!PreviewIsOfSelected BY DEF ArtifactsInv
<1> QED BY <1>1, <1>2, ArtifactsInit, PTL DEF Results!Spec
-----------------------------------------------------------------------------
(* The switch                                                              *)

\* What the handlers keep between their calls: the thumb is pressed while the
\* pointer is down, a pointer that is down has toggled nothing yet, and a click
\* that follows a toggle is known to follow a drag.
Gesture ==
    /\ pressed <=> origin # None
    /\ dragging => origin # None
    /\ origin # None => toggles = 0 /\ ~cancelled /\ ~clickDue
    /\ clickDue => ~cancelled /\ (toggles = 0 \/ didDrag)

SwitchInv == Toggle!TypeOK /\ Gesture /\ Toggle!ThumbShowsChecked /\ Toggle!OneTogglePerGesture

\* Where a thumb of METRICS.default rests.
LEMMA RestingPlaces ==
    ASSUME NEW on \in BOOLEAN, NEW hov \in BOOLEAN
    PROVE  /\ ~on => \A down \in BOOLEAN : Toggle!RestingAt(on, hov, down) = 2
           /\ on => Toggle!RestingAt(on, hov, TRUE) = 12 /\ Toggle!RestingAt(on, hov, FALSE) \in {14, 16}
           /\ Toggle!RestingAt(on, hov, FALSE) \in Toggle!Offset .. Toggle!TrackWidth
           /\ Toggle!RestingAt(on, hov, TRUE) \in Toggle!Offset .. Toggle!TrackWidth
  BY DEF Toggle!RestingAt, Toggle!TrackWidth, Toggle!ThumbSize, Toggle!PillExtend, Toggle!PressExtend, Toggle!Offset

LEMMA SwitchInit == ASSUME Toggle!SwitchShape PROVE Toggle!Init => SwitchInv
<1> SUFFICES ASSUME Toggle!Init PROVE SwitchInv OBVIOUS
<1>1. Toggle!TypeOK BY RestingPlaces DEF Toggle!Init, Toggle!TypeOK
<1>2. Gesture BY DEF Toggle!Init, Gesture
<1>3. Toggle!ThumbShowsChecked BY DEF Toggle!Init, Toggle!ThumbShowsChecked
<1>4. Toggle!OneTogglePerGesture BY DEF Toggle!Init, Toggle!OneTogglePerGesture
<1> QED BY <1>1, <1>2, <1>3, <1>4 DEF SwitchInv

\* Outside a drag the effect leaves the thumb where it rests, if the handler
\* had left it where it rested, or puts it at the new place itself.
LEMMA Settles ==
    ASSUME NEW put, Toggle!Settle(put), ~dragging',
           put = Toggle!RestingAt(checked, hovered, pressed)
             \/ put = Toggle!RestingAt(checked', hovered', pressed')
    PROVE  thumb' = Toggle!RestingAt(checked', hovered', pressed')
  BY DEF Toggle!Settle

\* The end of a drag: either the switch turns over, and the effect takes the
\* thumb along, or the handler has put it back.
LEMMA Released ==
    ASSUME NEW put, Toggle!Settle(put), ~dragging', pressed = TRUE, pressed' = FALSE,
           hovered \in BOOLEAN, hovered' = hovered, checked \in BOOLEAN, checked' \in BOOLEAN,
           (checked' = checked /\ put = Toggle!RestingAt(checked, FALSE, FALSE)) \/ checked' = ~checked
    PROVE  thumb' = Toggle!RestingAt(checked', hovered', pressed')
<1> DEFINE goal == Toggle!RestingAt(checked', hovered', pressed')
           old == Toggle!RestingAt(checked, hovered, pressed)
<1>1. thumb' = IF goal = old THEN put ELSE goal BY DEF Toggle!Settle
<1>2. CASE checked = FALSE /\ checked' = FALSE
  <2>1. goal = 2 /\ Toggle!RestingAt(checked, FALSE, FALSE) = 2 BY <1>2, RestingPlaces
  <2> QED BY <1>1, <1>2, <2>1
<1>3. CASE checked = TRUE
  <2>1. old = 12 BY <1>3, RestingPlaces
  <2>2. goal # 12
    <3>1. CASE checked' = TRUE
      BY <3>1 DEF Toggle!RestingAt, Toggle!TrackWidth, Toggle!ThumbSize, Toggle!PillExtend, Toggle!PressExtend, Toggle!Offset
    <3>2. CASE checked' = FALSE
      BY <3>2 DEF Toggle!RestingAt, Toggle!TrackWidth, Toggle!ThumbSize, Toggle!PillExtend, Toggle!PressExtend, Toggle!Offset
    <3> QED BY <3>1, <3>2
  <2> QED BY <1>1, <2>1, <2>2
<1>4. CASE checked = FALSE /\ checked' = TRUE
  <2>1. old = 2 /\ goal \in {14, 16} BY <1>4, RestingPlaces
  <2> QED BY <1>1, <2>1
<1> QED BY <1>2, <1>3, <1>4

\* The parts of the invariant that an event outside a drag can disturb.
LEMMA AtRest ==
    ASSUME /\ checked' \in BOOLEAN /\ enabled' \in BOOLEAN /\ hovered' \in BOOLEAN
           /\ pressed' \in BOOLEAN /\ didDrag' \in BOOLEAN /\ clickDue' \in BOOLEAN
           /\ toggleFrame' \in BOOLEAN /\ cancelled' \in BOOLEAN,
           dragging' = FALSE, origin' \in Toggle!Offset .. Toggle!TrackWidth \cup {None},
           toggles' \in 0 .. 1, cancelled' => toggles' = 0,
           thumb' = Toggle!RestingAt(checked', hovered', pressed'), Gesture'
    PROVE  SwitchInv'
<1>1. thumb' \in Toggle!Offset .. Toggle!TrackWidth
  <2>1. CASE pressed' = TRUE BY <2>1, RestingPlaces
  <2>2. CASE pressed' = FALSE BY <2>2, RestingPlaces
  <2> QED BY <2>1, <2>2
<1>2. Toggle!TypeOK'
  <2>1. toggles' \in Nat OBVIOUS
  <2>2. dragging' \in BOOLEAN OBVIOUS
  <2> QED BY <1>1, <2>1, <2>2 DEF Toggle!TypeOK
<1>3. Toggle!ThumbShowsChecked' BY DEF Toggle!ThumbShowsChecked
<1>4. Toggle!OneTogglePerGesture' BY DEF Toggle!OneTogglePerGesture
<1> QED BY <1>2, <1>3, <1>4 DEF SwitchInv

LEMMA SwitchStep ==
    ASSUME Toggle!SwitchShape, SwitchInv, [Toggle!Next]_(Toggle!vars)
    PROVE  SwitchInv'
<1>t. Toggle!TypeOK BY DEF SwitchInv
<1>g. Gesture BY DEF SwitchInv
<1>r. /\ ~dragging => thumb = Toggle!RestingAt(checked, hovered, pressed)
      /\ dragging => thumb \in Toggle!Offset .. Toggle!DragMax
      /\ toggles \in 0 .. 1 /\ (cancelled => toggles = 0)
  BY DEF SwitchInv, Toggle!TypeOK, Toggle!ThumbShowsChecked, Toggle!OneTogglePerGesture
<1>1. CASE UNCHANGED Toggle!vars
  BY <1>1 DEF Toggle!vars, SwitchInv, Toggle!TypeOK, Gesture, Toggle!ThumbShowsChecked, Toggle!OneTogglePerGesture
<1>2. CASE Toggle!Enable
  BY <1>2 DEF Toggle!Enable, SwitchInv, Toggle!TypeOK, Gesture, Toggle!ThumbShowsChecked, Toggle!OneTogglePerGesture
<1>3. CASE Toggle!Frame
  BY <1>3 DEF Toggle!Frame, SwitchInv, Toggle!TypeOK, Gesture, Toggle!ThumbShowsChecked, Toggle!OneTogglePerGesture
<1>4. ASSUME NEW on \in BOOLEAN, Toggle!Hover(on) PROVE SwitchInv'
  <2>1. Gesture' BY <1>4, <1>g DEF Toggle!Hover, Gesture
  <2>2. CASE dragging
    <3>1. thumb' = thumb
      <4>1. pressed = TRUE BY <2>2, <1>t, <1>g DEF Toggle!TypeOK, Gesture
      <4>2. Toggle!RestingAt(checked, on, TRUE) = Toggle!RestingAt(checked, hovered, TRUE)
        BY <1>t, RestingPlaces DEF Toggle!TypeOK
      <4> QED BY <1>4, <2>2, <4>1, <4>2 DEF Toggle!Hover, Toggle!Settle
    <3> QED BY <1>4, <1>t, <1>r, <2>1, <2>2, <3>1
            DEF Toggle!Hover, SwitchInv, Toggle!TypeOK, Toggle!ThumbShowsChecked, Toggle!OneTogglePerGesture
  <2>3. CASE ~dragging
    <3>1. Toggle!Settle(thumb) /\ dragging' = FALSE BY <1>4, <1>t, <2>3 DEF Toggle!Hover, Toggle!TypeOK
    <3>2. thumb' = Toggle!RestingAt(checked', hovered', pressed') BY <1>r, <2>3, <3>1, Settles
    <3> QED BY <1>4, <1>t, <1>r, <2>1, <3>1, <3>2, AtRest DEF Toggle!Hover, Toggle!TypeOK
  <2> QED BY <2>2, <2>3
<1>5. CASE Toggle!PointerDown
  <2>1. ~dragging BY <1>5, <1>g DEF Toggle!PointerDown, Gesture
  <2>2. thumb' = Toggle!RestingAt(checked', hovered', pressed')
    BY <1>5, <1>r, <2>1, Settles DEF Toggle!PointerDown
  <2>3. thumb \in Toggle!Offset .. Toggle!TrackWidth /\ thumb # None
    BY <1>t DEF Toggle!TypeOK, Toggle!SwitchShape, Toggle!Offset, Toggle!TrackWidth
  <2>4. Gesture' BY <1>5, <2>3 DEF Toggle!PointerDown, Gesture
  <2>5. /\ dragging' = FALSE /\ pressed' = TRUE /\ didDrag' = FALSE /\ cancelled' = FALSE
        /\ origin' = thumb /\ toggles' = 0 /\ UNCHANGED <<checked, enabled, hovered, clickDue, toggleFrame>>
    BY <1>5 DEF Toggle!PointerDown
  <2>6. toggles' \in 0 .. 1 /\ (cancelled' => toggles' = 0) BY <2>5
  <2>7. /\ checked' \in BOOLEAN /\ enabled' \in BOOLEAN /\ hovered' \in BOOLEAN
        /\ pressed' \in BOOLEAN /\ didDrag' \in BOOLEAN /\ clickDue' \in BOOLEAN
        /\ toggleFrame' \in BOOLEAN /\ cancelled' \in BOOLEAN
    BY <1>t, <2>5, Zenon DEF Toggle!TypeOK
  <2>8. origin' \in Toggle!Offset .. Toggle!TrackWidth \cup {None} /\ dragging' = FALSE BY <2>3, <2>5
  <2> QED BY <2>2, <2>4, <2>6, <2>7, <2>8, AtRest
<1>6. ASSUME NEW delta \in Moves, Toggle!PointerMove(delta) PROVE SwitchInv'
  <2>1. origin \in Int /\ delta \in Int
    BY <1>6, <1>t DEF Toggle!PointerMove, Toggle!TypeOK, Toggle!SwitchShape, Toggle!Offset, Toggle!TrackWidth
  <2>2. thumb' \in Toggle!Offset .. Toggle!DragMax
    BY <1>6, <2>1 DEF Toggle!PointerMove, Toggle!Offset, Toggle!DragMax, Toggle!TrackWidth, Toggle!ThumbSize, Toggle!PressExtend
  <2>3. thumb' \in Toggle!Offset .. Toggle!TrackWidth
    BY <2>2 DEF Toggle!Offset, Toggle!DragMax, Toggle!TrackWidth, Toggle!ThumbSize, Toggle!PressExtend
  <2>4. Gesture' BY <1>6, <1>g DEF Toggle!PointerMove, Gesture
  <2> QED BY <1>6, <1>t, <1>r, <2>2, <2>3, <2>4
          DEF Toggle!PointerMove, SwitchInv, Toggle!TypeOK, Toggle!ThumbShowsChecked, Toggle!OneTogglePerGesture
<1>7. ASSUME NEW clicks \in BOOLEAN, Toggle!PointerUp(clicks) PROVE SwitchInv'
  <2>1. pressed = TRUE /\ toggles = 0 /\ ~cancelled BY <1>7, <1>t, <1>g DEF Toggle!PointerUp, Toggle!TypeOK, Gesture
  <2>2. Gesture' /\ toggles' \in 0 .. 1 /\ ~cancelled'
    BY <1>7, <2>1 DEF Toggle!PointerUp, Gesture, Toggle!Toggle
  <2>3. checked' \in BOOLEAN BY <1>7, <1>t DEF Toggle!PointerUp, Toggle!Toggle, Toggle!TypeOK
  <2>4. thumb' = Toggle!RestingAt(checked', hovered', pressed')
    <3>1. CASE ~dragging
      BY <1>7, <1>r, <3>1, Settles DEF Toggle!PointerUp
    <3>2. CASE dragging /\ Toggle!BeyondMidpoint = checked
      <4>1. /\ Toggle!Settle(Toggle!RestingAt(checked, FALSE, FALSE)) /\ ~dragging' /\ pressed' = FALSE
            /\ hovered' = hovered /\ checked' = checked
        BY <1>7, <3>2 DEF Toggle!PointerUp
      <4> QED BY <1>t, <2>1, <2>3, <4>1, Released DEF Toggle!TypeOK
    <3>3. CASE dragging /\ Toggle!BeyondMidpoint # checked
      <4>1. /\ Toggle!Settle(thumb) /\ ~dragging' /\ pressed' = FALSE
            /\ hovered' = hovered /\ checked' = ~checked
        BY <1>7, <3>3 DEF Toggle!PointerUp, Toggle!Toggle
      <4> QED BY <1>t, <2>1, <2>3, <4>1, Released DEF Toggle!TypeOK
    <3> QED BY <3>1, <3>2, <3>3
  <2> QED BY <1>7, <1>t, <2>2, <2>3, <2>4, AtRest DEF Toggle!PointerUp, Toggle!TypeOK
<1>8. CASE Toggle!PointerCancel
  <2>1. pressed = TRUE /\ toggles = 0 BY <1>8, <1>t, <1>g DEF Toggle!PointerCancel, Toggle!TypeOK, Gesture
  <2>2. Gesture' BY <1>8, <1>g, <2>1 DEF Toggle!PointerCancel, Gesture
  <2>3. thumb' = Toggle!RestingAt(checked', hovered', pressed')
    <3>1. CASE ~dragging BY <1>8, <1>r, <3>1, Settles DEF Toggle!PointerCancel
    <3>2. CASE dragging
      <4>1. /\ Toggle!Settle(Toggle!RestingAt(checked, FALSE, FALSE)) /\ ~dragging' /\ pressed' = FALSE
            /\ hovered' = hovered /\ checked' = checked
        BY <1>8, <3>2 DEF Toggle!PointerCancel
      <4> QED BY <1>t, <2>1, <4>1, Released DEF Toggle!TypeOK
    <3> QED BY <3>1, <3>2
  <2>4. dragging' = FALSE /\ pressed' = FALSE /\ origin' = None /\ cancelled' = TRUE
        /\ UNCHANGED <<checked, enabled, hovered, didDrag, clickDue, toggleFrame, toggles>>
    BY <1>8 DEF Toggle!PointerCancel
  <2>5. toggles' \in 0 .. 1 /\ (cancelled' => toggles' = 0) BY <2>1, <2>4
  <2>6. /\ checked' \in BOOLEAN /\ enabled' \in BOOLEAN /\ hovered' \in BOOLEAN
        /\ pressed' \in BOOLEAN /\ didDrag' \in BOOLEAN /\ clickDue' \in BOOLEAN
        /\ toggleFrame' \in BOOLEAN /\ cancelled' \in BOOLEAN
    BY <1>t, <2>4, Zenon DEF Toggle!TypeOK
  <2>7. origin' \in Toggle!Offset .. Toggle!TrackWidth \cup {None} /\ dragging' = FALSE BY <2>4
  <2> QED BY <2>2, <2>3, <2>5, <2>6, <2>7, AtRest
<1>9. CASE Toggle!Click
  <2>1. ~dragging /\ ~cancelled BY <1>9, <1>g DEF Toggle!Click, Gesture
  <2>2. Gesture' /\ toggles' \in 0 .. 1
    BY <1>9, <1>g, <1>r, <2>1 DEF Toggle!Click, Gesture, Toggle!Toggle
  <2>3. checked' \in BOOLEAN BY <1>9, <1>t DEF Toggle!Click, Toggle!Toggle, Toggle!TypeOK
  <2>4. thumb' = Toggle!RestingAt(checked', hovered', pressed')
    BY <1>9, <1>r, <2>1, Settles DEF Toggle!Click
  <2> QED BY <1>9, <1>t, <2>1, <2>2, <2>3, <2>4, AtRest DEF Toggle!Click, Toggle!TypeOK
<1>10. CASE Toggle!Key
  <2>1. Gesture' /\ checked' \in BOOLEAN BY <1>10, <1>t, <1>g DEF Toggle!Key, Gesture, Toggle!TypeOK
  <2>2. CASE dragging
    <3>1. thumb' = thumb BY <1>10, <2>2 DEF Toggle!Key, Toggle!Settle
    <3> QED BY <1>10, <1>t, <1>r, <2>1, <2>2, <3>1
            DEF Toggle!Key, SwitchInv, Toggle!TypeOK, Toggle!ThumbShowsChecked, Toggle!OneTogglePerGesture
  <2>3. CASE ~dragging
    <3>1. thumb' = Toggle!RestingAt(checked', hovered', pressed')
      BY <1>10, <1>r, <2>3, Settles DEF Toggle!Key
    <3> QED BY <1>10, <1>t, <1>r, <2>1, <2>3, <3>1, AtRest DEF Toggle!Key, Toggle!TypeOK
  <2> QED BY <2>2, <2>3
<1> QED BY <1>1, <1>2, <1>3, <1>4, <1>5, <1>6, <1>7, <1>8, <1>9, <1>10 DEF Toggle!Next

\* The thumb of a switch that is not being dragged is where `checked` says,
\* however far the pointer went and however the gesture ended.
THEOREM ThumbAgrees == ASSUME Toggle!SwitchShape PROVE Toggle!Spec => []Toggle!ThumbShowsChecked
<1>1. Toggle!Init => SwitchInv BY SwitchInit
<1>2. SwitchInv /\ [Toggle!Next]_(Toggle!vars) => SwitchInv' BY SwitchStep
<1>3. SwitchInv => Toggle!ThumbShowsChecked BY DEF SwitchInv
<1> QED BY <1>1, <1>2, <1>3, PTL DEF Toggle!Spec

\* A drag and the click that follows it toggle a switch once (didDrag), and a
\* gesture that the system takes away does not toggle it.
THEOREM TogglesOnce == ASSUME Toggle!SwitchShape PROVE Toggle!Spec => []Toggle!OneTogglePerGesture
<1>1. Toggle!Init => SwitchInv BY SwitchInit
<1>2. SwitchInv /\ [Toggle!Next]_(Toggle!vars) => SwitchInv' BY SwitchStep
<1>3. SwitchInv => Toggle!OneTogglePerGesture BY DEF SwitchInv
<1> QED BY <1>1, <1>2, <1>3, PTL DEF Toggle!Spec
-----------------------------------------------------------------------------
(* Panels                                                                  *)

PanelsInv == Panes!TypeOK /\ Panes!PanelsAgree

LEMMA PanelsInit == Panes!Init => PanelsInv
<1> SUFFICES ASSUME Panes!Init PROVE PanelsInv OBVIOUS
<1>1. Panes!TypeOK
  BY DEF Panes!Init, Panes!TypeOK, Panes!Layouts, Panes!Sides, Panes!Wants, Panes!Widths,
         Panes!Views, Panes!Mounted
<1>2. Panes!PanelsAgree BY DEF Panes!Init, Panes!PanelsAgree
<1> QED BY <1>1, <1>2 DEF PanelsInv

\* What the panels and the store say is typed, and of the same two sides.
LEMMA PanelsTypes ==
    ASSUME Panes!TypeOK
    PROVE  /\ \A w \in Panes!Widths : Panes!Mounted(w) \subseteq Panes!Sides
           /\ Panes!Wants(store) \in Panes!Layouts
<1>1. \A w \in Panes!Widths : Panes!Mounted(w) \subseteq Panes!Sides
  BY DEF Panes!Widths, Panes!Mounted, Panes!Sides
<1>2. Panes!Wants(store) \in Panes!Layouts
  BY DEF Panes!TypeOK, Panes!Wants, Panes!Layouts
<1> QED BY <1>1, <1>2

\* The layout that is saved is that of the group.
LEMMA LayoutSaved ==
    ASSUME Panes!TypeOK, Panes!SaveLayout, window' \in Panes!Widths,
           collapsed' \in Panes!Layouts
    PROVE  saved' \in [{"compact", "wide"} -> SUBSET Panes!Layouts]
  BY DEF Panes!TypeOK, Panes!SaveLayout, Panes!Widths

\* The effects of React after a change of the store leave a panel as the store
\* wants it, or move it and have its notice due.
LEMMA Reconciles ==
    ASSUME PanelsInv, Panes!Reconcile,
           store' \in [sidebarCollapsed : BOOLEAN, processPanelOpen : BOOLEAN,
                       tab : Panes!Views, sidebarSheet : BOOLEAN, processSheet : BOOLEAN]
    PROVE  PanelsInv'
<1> DEFINE wants == Panes!Wants(store')
           moved == {p \in Panes!Mounted(window) :
                        wants[p] # Panes!Wants(store)[p] /\ wants[p] # collapsed[p]}
<1>1. /\ collapsed' = [p \in Panes!Sides |-> IF p \in moved THEN wants[p] ELSE collapsed[p]]
      /\ notice' = notice \cup moved /\ window' = window /\ Panes!SaveLayout
  BY DEF Panes!Reconcile
<1>2. Panes!Mounted(window) \subseteq Panes!Sides
  BY PanelsTypes DEF PanelsInv, Panes!TypeOK
<1>3. wants \in Panes!Layouts
  BY DEF Panes!Wants, Panes!Layouts
<1> HIDE DEF wants
<1>4. collapsed' \in Panes!Layouts
  BY <1>1, <1>3 DEF PanelsInv, Panes!TypeOK, Panes!Layouts
<1>5. Panes!TypeOK'
  <2>1. saved' \in [{"compact", "wide"} -> SUBSET Panes!Layouts]
    BY <1>1, <1>4, LayoutSaved DEF PanelsInv, Panes!TypeOK
  <2> QED BY <1>1, <1>2, <1>4, <2>1 DEF PanelsInv, Panes!TypeOK
<1>6. Panes!PanelsAgree'
  <2> SUFFICES ASSUME NEW p \in Panes!Mounted(window) \ notice'
               PROVE  collapsed'[p] = wants[p]
    BY <1>1 DEF Panes!PanelsAgree, wants
  <2>1. p \in Panes!Sides /\ p \notin moved /\ p \notin notice BY <1>1, <1>2
  <2>2. collapsed[p] = Panes!Wants(store)[p] BY <2>1 DEF PanelsInv, Panes!PanelsAgree
  <2> QED BY <1>1, <2>1, <2>2
<1> QED BY <1>5, <1>6 DEF PanelsInv

LEMMA PanelsStep == PanelsInv /\ [Panes!Next]_(Panes!vars) => PanelsInv'
<1> SUFFICES ASSUME PanelsInv, [Panes!Next]_(Panes!vars) PROVE PanelsInv' OBVIOUS
<1> DEFINE Stores == [sidebarCollapsed : BOOLEAN, processPanelOpen : BOOLEAN,
                      tab : Panes!Views, sidebarSheet : BOOLEAN, processSheet : BOOLEAN]
<1>t. /\ store \in Stores /\ window \in Panes!Widths /\ collapsed \in Panes!Layouts
      /\ Panes!TypeOK
  BY DEF PanelsInv, Panes!TypeOK
<1>1. CASE UNCHANGED Panes!vars
  BY <1>1 DEF Panes!vars, PanelsInv, Panes!TypeOK, Panes!PanelsAgree
<1>2. CASE \/ Panes!ToggleSidebar \/ Panes!ToggleProcess \/ Panes!CloseProcess
           \/ Panes!DismissSidebarSheet \/ Panes!OpenArtifact
           \/ \E v \in Panes!Views : Panes!ChooseTab(v)
  <2>1. Panes!Reconcile
    BY <1>2 DEF Panes!ToggleSidebar, Panes!ToggleProcess, Panes!CloseProcess,
                Panes!DismissSidebarSheet, Panes!OpenArtifact, Panes!ChooseTab
  <2>2. store' \in Stores
    BY <1>2, <1>t DEF Panes!ToggleSidebar, Panes!ToggleProcess, Panes!CloseProcess,
                Panes!DismissSidebarSheet, Panes!OpenArtifact, Panes!ChooseTab, Panes!Views
  <2> QED BY <2>1, <2>2, Reconciles
<1>3. ASSUME NEW p \in Panes!Sides, Panes!Drag(p) PROVE PanelsInv'
  <2>1. collapsed' \in Panes!Layouts
    BY <1>3, <1>t DEF Panes!Drag, Panes!Layouts
  <2>2. saved' \in [{"compact", "wide"} -> SUBSET Panes!Layouts]
    BY <1>3, <1>t, <2>1, LayoutSaved DEF Panes!Drag
  <2>3. Panes!TypeOK' BY <1>3, <2>1, <2>2 DEF Panes!Drag, PanelsInv, Panes!TypeOK
  <2>4. Panes!PanelsAgree'
    BY <1>3, <1>t DEF Panes!Drag, PanelsInv, Panes!PanelsAgree, Panes!Layouts
  <2> QED BY <2>3, <2>4 DEF PanelsInv
<1>4. ASSUME NEW p \in Panes!Sides, Panes!Resized(p) PROVE PanelsInv'
  <2>1. collapsed[p] \in BOOLEAN BY <1>t DEF Panes!Layouts
  <2>2. store' \in Stores BY <1>4, <1>t, <2>1 DEF Panes!Resized
  <2>3. Panes!TypeOK' BY <1>4, <2>2 DEF Panes!Resized, PanelsInv, Panes!TypeOK
  <2>4. Panes!PanelsAgree'
    <3> SUFFICES ASSUME NEW q \in Panes!Mounted(window) \ notice'
                 PROVE  collapsed[q] = Panes!Wants(store')[q]
      BY <1>4 DEF Panes!Resized, Panes!PanelsAgree
    <3>1. q \in Panes!Sides BY <1>t, PanelsTypes
    <3>2. CASE q = p
      BY <1>4, <1>t, <2>1, <3>1, <3>2 DEF Panes!Resized, Panes!Wants, Panes!Sides
    <3>3. CASE q # p
      <4>1. collapsed[q] = Panes!Wants(store)[q]
        BY <1>4, <3>3 DEF Panes!Resized, PanelsInv, Panes!PanelsAgree
      <4>2. Panes!Wants(store')[q] = Panes!Wants(store)[q]
        BY <1>4, <1>t, <3>1, <3>3 DEF Panes!Resized, Panes!Wants, Panes!Sides
      <4> QED BY <4>1, <4>2
    <3> QED BY <3>2, <3>3
  <2> QED BY <2>3, <2>4 DEF PanelsInv
<1>5. ASSUME NEW w \in Panes!Widths, Panes!Cross(w) PROVE PanelsInv'
  <2>1. /\ window' = w /\ notice' = Panes!Mounted(w) /\ store' = store /\ Panes!SaveLayout
    BY <1>5 DEF Panes!Cross
  <2>2. collapsed' \in Panes!Layouts
    <3>1. Panes!Wants(store) \in Panes!Layouts BY <1>t, PanelsTypes
    <3>2. CASE w = "mobile" \/ saved[w] = {}
      BY <1>5, <3>1, <3>2 DEF Panes!Cross, Panes!Layouts
    <3>3. CASE w # "mobile" /\ saved[w] # {}
      <4>1. saved[w] \subseteq Panes!Layouts
        BY <1>t, <3>3 DEF Panes!TypeOK, Panes!Widths
      <4>2. (CHOOSE layout \in saved[w] : TRUE) \in Panes!Layouts BY <3>3, <4>1
      <4> QED BY <1>5, <3>1, <3>3, <4>2 DEF Panes!Cross, Panes!Layouts
    <3> QED BY <3>2, <3>3
  <2>3. saved' \in [{"compact", "wide"} -> SUBSET Panes!Layouts]
    BY <1>t, <2>1, <2>2, LayoutSaved
  <2>4. Panes!TypeOK' BY <1>t, <2>1, <2>2, <2>3, PanelsTypes DEF Panes!TypeOK
  <2>5. Panes!PanelsAgree' BY <2>1 DEF Panes!PanelsAgree
  <2> QED BY <2>4, <2>5 DEF PanelsInv
<1>6. CASE Panes!Reload
  <2>1. store' \in Stores BY <1>6, <1>t DEF Panes!Reload
  <2>2. collapsed' \in Panes!Layouts BY <1>6, <1>t, PanelsTypes DEF Panes!Reload
  <2>3. saved' \in [{"compact", "wide"} -> SUBSET Panes!Layouts]
    BY <1>6, <1>t, <2>2, LayoutSaved DEF Panes!Reload
  <2>4. Panes!TypeOK' BY <1>6, <1>t, <2>1, <2>2, <2>3, PanelsTypes DEF Panes!Reload, Panes!TypeOK
  <2>5. Panes!PanelsAgree' BY <1>6 DEF Panes!Reload, Panes!PanelsAgree
  <2> QED BY <2>4, <2>5 DEF PanelsInv
<1> QED BY <1>1, <1>2, <1>3, <1>4, <1>5, <1>6 DEF Panes!Next

\* The panels of the workspace are what the store says of them, or the panel
\* library still owes a notice, for any order of clicks, drags, notices, window
\* widths and reloads.
THEOREM PanelsFollow == Panes!Spec => []Panes!PanelsAgree
<1>1. PanelsInv => Panes!PanelsAgree BY DEF PanelsInv
<1> QED BY <1>1, PanelsInit, PanelsStep, PTL DEF Panes!Spec

-----------------------------------------------------------------------------
(* The conversation                                                        *)

\* What the badge is computed from: at the bottom the count is the length of the
\* path, away from it the messages gained make up for what is missing.
Counted ==
    /\ atBottom => lastSeen = messages /\ gained = 0
    /\ ~atBottom => messages - lastSeen <= gained
    /\ ~atBottom /\ ~shortened => messages - lastSeen = gained

TalkInv == Talk!TypeOK /\ Counted

LEMMA TalkBounds ==
    ASSUME NEW m \in Int, NEW n \in Int
    PROVE  /\ Talk!Max({m, n}) = IF m >= n THEN m ELSE n
           /\ Talk!Min({m, n}) = IF m <= n THEN m ELSE n
<1>1. \E x \in {m, n} : \A y \in {m, n} : x >= y
  <2>1. CASE m >= n BY <2>1
  <2>2. CASE ~(m >= n) BY <2>2
  <2> QED BY <2>1, <2>2
<1>2. \E x \in {m, n} : \A y \in {m, n} : x =< y
  <2>1. CASE m <= n BY <2>1
  <2>2. CASE ~(m <= n) BY <2>2
  <2> QED BY <2>1, <2>2
<1>3. Talk!Max({m, n}) \in {m, n} /\ \A y \in {m, n} : Talk!Max({m, n}) >= y
  BY <1>1 DEF Talk!Max
<1>4. Talk!Min({m, n}) \in {m, n} /\ \A y \in {m, n} : Talk!Min({m, n}) =< y
  BY <1>2 DEF Talk!Min
<1> QED BY <1>3, <1>4

LEMMA TalkInit == ASSUME Talk!ConversationShape PROVE Talk!Init => TalkInv
<1> SUFFICES ASSUME Talk!Init PROVE TalkInv OBVIOUS
<1>1. 0 \in 0 .. MaxMessages /\ 0 \in 0 .. MaxQueue BY DEF Talk!ConversationShape
<1>2. Talk!TypeOK
  <2>1. {running, ready, drafted, editing, offered, atBottom, shortened} \subseteq BOOLEAN
    BY DEF Talk!Init
  <2> QED BY <1>1, <2>1, Zenon DEF Talk!Init, Talk!TypeOK
<1>3. Counted BY DEF Talk!Init, Counted
<1> QED BY <1>2, <1>3 DEF TalkInv

\* The badge in the words of the code.
LEMMA BadgeCounts == TalkInv => Talk!BadgeCountsNew
<1> SUFFICES ASSUME TalkInv PROVE Talk!BadgeCountsNew OBVIOUS
<1>1. /\ messages \in Int /\ lastSeen \in Int /\ messages - lastSeen \in Int
      /\ gained \in Nat /\ atBottom \in BOOLEAN
  BY DEF TalkInv, Talk!TypeOK
<1>2. Talk!Unread = IF atBottom \/ 0 >= messages - lastSeen THEN 0 ELSE messages - lastSeen
  BY <1>1, TalkBounds DEF Talk!Unread
<1> QED BY <1>1, <1>2 DEF TalkInv, Counted, Talk!BadgeCountsNew

\* What is gained by a path that goes from m to n messages, up to a cap.
LEMMA Gains ==
    ASSUME NEW cap \in Nat, NEW m \in 0 .. cap, NEW n \in 0 .. cap, NEW s \in 0 .. cap,
           NEW g \in 0 .. cap, m - s <= g, NEW h,
           h = Talk!Min({cap, g + Talk!Max({0, n - m})})
    PROVE  h \in 0 .. cap /\ n - s <= h /\ (n >= m /\ g = m - s => h = n - s)
<1>1. Talk!Max({0, n - m}) = IF 0 >= n - m THEN 0 ELSE n - m
  BY TalkBounds
<1>2. CASE 0 >= n - m
  <2>1. h = IF cap <= g + 0 THEN cap ELSE g + 0
    <3>1. Talk!Max({0, n - m}) = 0 BY <1>1, <1>2
    <3>2. cap \in Int /\ g + 0 \in Int OBVIOUS
    <3> QED BY <3>1, <3>2, TalkBounds
  <2> QED BY <1>2, <2>1
<1>3. CASE ~(0 >= n - m)
  <2>1. h = IF cap <= g + (n - m) THEN cap ELSE g + (n - m)
    <3>1. Talk!Max({0, n - m}) = n - m BY <1>1, <1>3
    <3>2. cap \in Int /\ g + (n - m) \in Int OBVIOUS
    <3>3. h = Talk!Min({cap, g + (n - m)}) BY <3>1
    <3> QED BY <3>2, <3>3, TalkBounds
  <2> QED BY <1>3, <2>1
<1> QED BY <1>2, <1>3

\* The effect of the anchor keeps the count, wherever the viewport is afterwards.
LEMMA AnchorCounts ==
    ASSUME TalkInv, Talk!ConversationShape, messages' \in 0 .. MaxMessages,
           atBottom' \in BOOLEAN, Talk!AnchorEffect
    PROVE  /\ Counted' /\ lastSeen' \in 0 .. MaxMessages /\ gained' \in 0 .. MaxMessages
           /\ shortened' \in BOOLEAN
<1>1. /\ messages \in 0 .. MaxMessages /\ lastSeen \in 0 .. MaxMessages
      /\ gained \in 0 .. MaxMessages /\ MaxMessages \in Nat
      /\ atBottom \in BOOLEAN /\ shortened \in BOOLEAN
  BY DEF TalkInv, Talk!TypeOK, Talk!ConversationShape
<1>2. /\ lastSeen' = IF atBottom' THEN messages' ELSE lastSeen
      /\ shortened' = (~atBottom' /\ (shortened \/ messages' < messages))
      /\ atBottom' => gained' = 0
      /\ ~atBottom' => gained' = Talk!Min({MaxMessages, gained + Talk!Max({0, messages' - messages})})
  BY DEF Talk!AnchorEffect
<1>3. messages - lastSeen <= gained
  BY <1>1 DEF TalkInv, Counted
<1>4. CASE atBottom'
  BY <1>1, <1>2, <1>4 DEF Counted
<1>5. CASE ~atBottom'
  <2>1. /\ gained' \in 0 .. MaxMessages /\ messages' - lastSeen <= gained'
        /\ messages' >= messages /\ gained = messages - lastSeen => gained' = messages' - lastSeen
    BY <1>1, <1>2, <1>3, <1>5, Gains
  <2>2. ~shortened' => messages' >= messages /\ gained = messages - lastSeen
    <3>1. ~shortened' => ~shortened /\ ~(messages' < messages) BY <1>2, <1>5
    <3>2. ~(messages' < messages) => messages' >= messages BY <1>1
    <3>3. ~shortened => gained = messages - lastSeen BY <1>1 DEF TalkInv, Counted
    <3> QED BY <3>1, <3>2, <3>3
  <2> QED BY <1>1, <1>2, <1>5, <2>1, <2>2 DEF Counted
<1> QED BY <1>4, <1>5

\* What else a handler may set.
Around ==
    /\ loading \in {"threads", "history", "nothing"} /\ queued \in 0 .. MaxQueue
    /\ running \in BOOLEAN /\ ready \in BOOLEAN /\ drafted \in BOOLEAN
    /\ editing \in BOOLEAN /\ offered \in BOOLEAN

LEMMA AroundTyped == TalkInv => Around
  BY DEF TalkInv, Talk!TypeOK, Around

LEMMA Shows ==
    ASSUME TalkInv, Talk!ConversationShape, NEW n \in Nat, Talk!Show(n), Around'
    PROVE  TalkInv'
<1>1. messages' \in 0 .. MaxMessages /\ atBottom' \in BOOLEAN /\ Talk!AnchorEffect
  BY DEF Talk!Show, Talk!ConversationShape
<1>2. /\ Counted' /\ lastSeen' \in 0 .. MaxMessages /\ gained' \in 0 .. MaxMessages
      /\ shortened' \in BOOLEAN
  BY <1>1, AnchorCounts
<1> QED BY <1>1, <1>2 DEF Around, TalkInv, Talk!TypeOK

LEMMA StaysCounted ==
    ASSUME TalkInv, UNCHANGED <<messages, Talk!anchorVars>>, Around'
    PROVE  TalkInv'
  BY DEF Around, TalkInv, Talk!TypeOK, Counted, Talk!anchorVars

LEMMA Turns ==
    ASSUME TalkInv, Talk!ConversationShape, NEW n \in Nat, Talk!Turn(n),
           UNCHANGED <<loading, ready, offered>>, drafted' \in BOOLEAN, editing' \in BOOLEAN
    PROVE  TalkInv'
<1>1. CASE ~running /\ running' = TRUE /\ Talk!Show(n + 1) /\ UNCHANGED queued
  <2>1. Around' BY <1>1, AroundTyped DEF Around
  <2>2. n + 1 \in Nat OBVIOUS
  <2> QED BY <1>1, <2>1, <2>2, Shows
<1>2. CASE /\ running /\ queued < MaxQueue /\ queued' = queued + 1
           /\ UNCHANGED <<messages, running, Talk!anchorVars>>
  <2>1. queued' \in 0 .. MaxQueue
    BY <1>2, AroundTyped DEF Around, Talk!ConversationShape
  <2>2. Around' BY <1>2, <2>1, AroundTyped DEF Around
  <2> QED BY <1>2, <2>2, StaysCounted
<1> QED BY <1>1, <1>2 DEF Talk!Turn

LEMMA TalkStep ==
    ASSUME TalkInv, Talk!ConversationShape, [Talk!Next]_(Talk!vars)
    PROVE  TalkInv'
<1>a. Around /\ messages \in Nat /\ queued \in Nat
  BY AroundTyped DEF TalkInv, Talk!TypeOK, Around
<1> USE DEF Talk!composerVars
<1>1. CASE UNCHANGED Talk!vars
  BY <1>1, <1>a, StaysCounted DEF Talk!vars, Around
<1>2. CASE Talk!Load
  <2>1. Around' BY <1>2, <1>a DEF Talk!Load, Around
  <2>2. \E n \in Nat : Talk!Show(n) BY <1>2 DEF Talk!Load
  <2> QED BY <2>1, <2>2, Shows
<1>3. CASE \/ Talk!SetReady \/ Talk!SetSuggestions \/ Talk!Type \/ Talk!StarterPill
           \/ Talk!StartEdit \/ Talk!CancelEdit
  <2>1. Around'
    BY <1>3, <1>a DEF Talk!SetReady, Talk!SetSuggestions, Talk!Type, Talk!StarterPill,
                      Talk!StartEdit, Talk!CancelEdit, Around
  <2>2. UNCHANGED <<messages, Talk!anchorVars>>
    BY <1>3 DEF Talk!SetReady, Talk!SetSuggestions, Talk!Type, Talk!StarterPill,
                Talk!StartEdit, Talk!CancelEdit
  <2> QED BY <2>1, <2>2, StaysCounted
<1>4. CASE Talk!SubmitComposer \/ Talk!ClickSuggestion \/ Talk!ClickFollowUp
  BY <1>4, <1>a, Turns
     DEF Talk!SubmitComposer, Talk!ClickSuggestion, Talk!ClickFollowUp, Around
<1>5. ASSUME NEW n \in 0 .. MaxMessages, Talk!Regenerate(n) PROVE TalkInv'
  <2>1. Around' BY <1>5, <1>a DEF Talk!Regenerate, Around
  <2>2. n + 1 \in Nat /\ Talk!Show(n + 1) BY <1>5 DEF Talk!Regenerate
  <2> QED BY <2>1, <2>2, Shows
<1>6. ASSUME NEW n \in 0 .. MaxMessages, Talk!SubmitEdit(n) PROVE TalkInv'
  <2>1. n \in Nat BY DEF Talk!ConversationShape
  <2>2. Talk!Turn(n) /\ UNCHANGED <<loading, ready, offered>> BY <1>6 DEF Talk!SubmitEdit
  <2>3. drafted' \in BOOLEAN /\ editing' \in BOOLEAN BY <1>6, <1>a DEF Talk!SubmitEdit, Around
  <2> QED BY <2>1, <2>2, <2>3, Turns
<1>7. ASSUME NEW n \in 0 .. MaxMessages, Talk!PickBranch(n) PROVE TalkInv'
  <2>1. Around' BY <1>7, <1>a DEF Talk!PickBranch, Around
  <2> QED BY <1>7, <2>1, Shows DEF Talk!PickBranch
<1>8. CASE Talk!Stream
  <2>1. Around' BY <1>8, <1>a DEF Talk!Stream, Around
  <2>2. messages + 1 \in Nat /\ Talk!Show(messages + 1) BY <1>8, <1>a DEF Talk!Stream
  <2> QED BY <2>1, <2>2, Shows
<1>9. CASE Talk!EndRun
  <2>1. Around'
    <3>1. queued' = queued \/ (queued # 0 /\ queued' = queued - 1) BY <1>9 DEF Talk!EndRun
    <3>2. queued' \in 0 .. MaxQueue BY <1>a, <3>1 DEF Around, Talk!ConversationShape
    <3> QED BY <1>9, <1>a, <3>2 DEF Talk!EndRun, Around
  <2>2. \E n \in Nat : Talk!Show(n)
    <3>1. Talk!Show(messages) \/ Talk!Show(messages + 1) BY <1>9 DEF Talk!EndRun
    <3> QED BY <1>a, <3>1
  <2> QED BY <2>1, <2>2, Shows
<1>10. CASE Talk!Steer
  <2>1. Around' BY <1>10, <1>a DEF Talk!Steer, Around, Talk!ConversationShape
  <2>2. messages + 1 \in Nat /\ Talk!Show(messages + 1) BY <1>10, <1>a DEF Talk!Steer
  <2> QED BY <2>1, <2>2, Shows
<1>11. CASE Talk!Unqueue
  <2>1. Around' BY <1>11, <1>a DEF Talk!Unqueue, Around, Talk!ConversationShape
  <2> QED BY <1>11, <2>1, StaysCounted DEF Talk!Unqueue
<1>12. CASE Talk!Scroll
  <2>1. Around' BY <1>12, <1>a DEF Talk!Scroll, Around
  <2>2. messages' \in 0 .. MaxMessages /\ atBottom' \in BOOLEAN /\ Talk!AnchorEffect
    BY <1>12 DEF Talk!Scroll, TalkInv, Talk!TypeOK
  <2>3. Talk!Show(messages)
    BY <1>12, <2>2 DEF Talk!Scroll, Talk!Show
  <2> QED BY <1>a, <2>1, <2>3, Shows
<1> QED
  BY <1>1, <1>2, <1>3, <1>4, <1>5, <1>6, <1>7, <1>8, <1>9, <1>10, <1>11, <1>12 DEF Talk!Next

\* The badge never promises more messages than came while the reader was away,
\* whatever is sent, edited, queued or shown in their stead.
THEOREM BadgeIsTrue ==
    ASSUME Talk!ConversationShape PROVE Talk!Spec => []Talk!BadgeCountsNew
<1>1. TalkInv /\ [Talk!Next]_(Talk!vars) => TalkInv' BY TalkStep
<1> QED BY <1>1, TalkInit, BadgeCounts, PTL DEF Talk!Spec
-----------------------------------------------------------------------------
(* The reasoning preview                                                   *)

\* The offsets are those a browser allows, and as long as the reader stays, a
\* preview has only lost what the text lost: it is above its last offset only if
\* the text is shorter than it was then, and at the newest line if it follows
\* and has heard of every change of height.
Offsets ==
    /\ top <= Thought!MaxTop(lines) /\ lastTop <= Thought!MaxTop(lastHeight)
    /\ Thought!IsPreview =>
          /\ ~leftBottom /\ ~regrown => lines < lastHeight \/ lastTop <= top
          /\ pinned /\ ~resizeDue => Thought!AtBottom \/ leftBottom
          /\ ~pinned => leftBottom \/ regrown

ThoughtInv == Thought!TypeOK /\ Offsets

LEMMA ThoughtParts ==
    ASSUME Thought!TypeOK
    PROVE  /\ lines \in 0 .. MaxLines /\ top \in 0 .. MaxLines /\ lastTop \in 0 .. MaxLines
           /\ lastHeight \in 0 .. MaxLines /\ streaming \in BOOLEAN /\ pinned \in BOOLEAN
           /\ scrollDue \in BOOLEAN /\ resizeDue \in BOOLEAN /\ leftBottom \in BOOLEAN
           /\ regrown \in BOOLEAN /\ userOpen \in BOOLEAN \cup {None}
  BY DEF Thought!TypeOK

\* The last offset: nothing if all lines are visible.
LEMMA LastOffset ==
    ASSUME Thought!LinesAssumption
    PROVE  /\ \A n \in Nat : /\ Thought!MaxTop(n) = IF n <= View THEN 0 ELSE n - View
                             /\ Thought!MaxTop(n) \in Nat /\ Thought!MaxTop(n) <= n
           /\ \A m, n \in Nat : m <= n => Thought!MaxTop(m) <= Thought!MaxTop(n)
<1>0. View \in Nat \ {0} BY DEF Thought!LinesAssumption
<1>1. ASSUME NEW n \in Nat
      PROVE Thought!MaxTop(n) = IF n <= View THEN 0 ELSE n - View
  <2>1. \E x \in {0, n - View} : \A y \in {0, n - View} : x >= y
    <3>1. CASE n <= View BY <1>0, <3>1
    <3>2. CASE ~(n <= View) BY <1>0, <3>2
    <3> QED BY <3>1, <3>2
  <2>2. /\ Thought!Max({0, n - View}) \in {0, n - View}
        /\ \A y \in {0, n - View} : Thought!Max({0, n - View}) >= y
    BY <2>1 DEF Thought!Max
  <2>3. Thought!MaxTop(n) = Thought!Max({0, n - View}) BY DEF Thought!MaxTop
  <2> QED BY <1>0, <2>2, <2>3
<1>2. \A n \in Nat : Thought!MaxTop(n) \in Nat /\ Thought!MaxTop(n) <= n
  BY <1>0, <1>1
<1>3. ASSUME NEW m \in Nat, NEW n \in Nat, m <= n
      PROVE Thought!MaxTop(m) <= Thought!MaxTop(n)
  <2>1. /\ Thought!MaxTop(m) = IF m <= View THEN 0 ELSE m - View
        /\ Thought!MaxTop(n) = IF n <= View THEN 0 ELSE n - View
    BY <1>1
  <2> QED BY <1>0, <1>3, <2>1
<1> QED BY <1>1, <1>2, <1>3

LEMMA Clamp ==
    ASSUME NEW m \in Nat, NEW n \in Nat
    PROVE  Thought!Min({m, n}) = IF m <= n THEN m ELSE n
<1>1. \E x \in {m, n} : \A y \in {m, n} : x =< y
  <2>1. CASE m <= n BY <2>1
  <2>2. CASE ~(m <= n) BY <2>2
  <2> QED BY <2>1, <2>2
<1>2. Thought!Min({m, n}) \in {m, n} /\ \A y \in {m, n} : Thought!Min({m, n}) =< y
  BY <1>1 DEF Thought!Min
<1> QED BY <1>2

LEMMA ThoughtInit == ASSUME Thought!LinesAssumption PROVE Thought!Init => ThoughtInv
<1> SUFFICES ASSUME Thought!Init PROVE ThoughtInv OBVIOUS
<1>1. 0 \in 0 .. MaxLines BY DEF Thought!LinesAssumption
<1>2. Thought!TypeOK BY <1>1 DEF Thought!Init, Thought!TypeOK
<1>3. Thought!MaxTop(0) \in Nat BY LastOffset
<1>4. Offsets
  <2>1. ~Thought!IsPreview BY DEF Thought!Init, Thought!IsPreview
  <2> QED BY <1>3, <2>1 DEF Thought!Init, Offsets
<1> QED BY <1>2, <1>4 DEF ThoughtInv

LEMMA ThoughtShows ==
    ThoughtInv => Thought!FollowsUntilReaderLeaves /\ Thought!FollowedIsNewest
  BY DEF ThoughtInv, Offsets, Thought!FollowsUntilReaderLeaves, Thought!FollowedIsNewest

\* A preview that starts shows the newest line; one that ends is not listened to.
LEMMA PreviewStarts ==
    ASSUME ThoughtInv, Thought!LinesAssumption, NEW previewing \in BOOLEAN,
           Thought!TextEffect(previewing), lines' = lines, streaming' \in BOOLEAN,
           userOpen' \in BOOLEAN \cup {None}, Thought!IsPreview' <=> previewing,
           previewing => ~Thought!IsPreview
    PROVE  ThoughtInv'
<1>a. /\ lines \in Nat /\ lines <= MaxLines /\ top \in 0 .. MaxLines
      /\ top <= Thought!MaxTop(lines) /\ MaxLines \in Nat
  BY ThoughtParts DEF ThoughtInv, Offsets, Thought!LinesAssumption
<1>b. Thought!MaxTop(lines) \in Nat /\ Thought!MaxTop(lines) <= lines
  BY <1>a, LastOffset
<1>1. CASE previewing
  <2>1. /\ pinned' = TRUE /\ lastHeight' = lines /\ lastTop' \in {top, 0}
        /\ top' = Thought!MaxTop(lines) /\ scrollDue' = (top' # lastTop') /\ resizeDue' = TRUE
        /\ leftBottom' = FALSE /\ regrown' = FALSE
    BY <1>1 DEF Thought!TextEffect
  <2>2. lastTop' <= Thought!MaxTop(lines) BY <1>a, <1>b, <2>1
  <2>3. /\ lines' \in 0 .. MaxLines /\ top' \in 0 .. MaxLines /\ lastTop' \in 0 .. MaxLines
        /\ lastHeight' \in 0 .. MaxLines
    BY <1>a, <1>b, <2>1
  <2>4. /\ pinned' \in BOOLEAN /\ scrollDue' \in BOOLEAN /\ resizeDue' \in BOOLEAN
        /\ leftBottom' \in BOOLEAN /\ regrown' \in BOOLEAN
    BY <2>1
  <2>5. Thought!TypeOK' BY <2>3, <2>4 DEF Thought!TypeOK
  <2>6. Offsets' BY <1>a, <1>b, <2>1, <2>2 DEF Offsets
  <2> QED BY <2>5, <2>6 DEF ThoughtInv
<1>2. CASE ~previewing
  <2>1. /\ scrollDue' = FALSE /\ resizeDue' = FALSE
        /\ UNCHANGED << top, pinned, lastTop, lastHeight, leftBottom, regrown >>
    BY <1>2 DEF Thought!TextEffect
  <2>2. Thought!TypeOK'
    <3>1. /\ {lines, top, lastTop, lastHeight} \subseteq 0 .. MaxLines
          /\ {pinned, leftBottom, regrown} \subseteq BOOLEAN
      BY DEF ThoughtInv, Thought!TypeOK
    <3> QED BY <2>1, <3>1 DEF Thought!TypeOK
  <2>3. Offsets' BY <1>2, <2>1 DEF ThoughtInv, Offsets, Thought!MaxTop
  <2> QED BY <2>2, <2>3 DEF ThoughtInv
<1> QED BY <1>1, <1>2

LEMMA ThoughtStep ==
    ASSUME ThoughtInv, Thought!LinesAssumption, [Thought!Next]_(Thought!vars)
    PROVE  ThoughtInv'
<1>a. /\ lines \in Nat /\ lines <= MaxLines /\ top \in Nat /\ top <= Thought!MaxTop(lines)
      /\ lastTop \in Nat /\ lastHeight \in Nat /\ lastTop <= Thought!MaxTop(lastHeight)
      /\ lastHeight <= MaxLines /\ lastTop <= MaxLines /\ top <= MaxLines /\ MaxLines \in Nat
  BY ThoughtParts DEF ThoughtInv, Offsets, Thought!LinesAssumption
<1>b. /\ streaming \in BOOLEAN /\ pinned \in BOOLEAN /\ scrollDue \in BOOLEAN
      /\ resizeDue \in BOOLEAN /\ leftBottom \in BOOLEAN /\ regrown \in BOOLEAN
      /\ userOpen \in BOOLEAN \cup {None} /\ None \notin BOOLEAN
  BY ThoughtParts DEF ThoughtInv, Thought!LinesAssumption
<1>c. /\ Thought!MaxTop(lines) \in Nat /\ Thought!MaxTop(lines) <= lines
      /\ Thought!MaxTop(lastHeight) \in Nat
  BY <1>a, LastOffset
<1>d. Thought!IsPreview \in BOOLEAN /\ Thought!IsOpen \in BOOLEAN
  BY <1>b DEF Thought!IsPreview, Thought!IsOpen
<1>1. CASE UNCHANGED Thought!vars
  BY <1>1 DEF Thought!vars, ThoughtInv, Thought!TypeOK, Offsets, Thought!IsPreview,
              Thought!IsOpen, Thought!AtBottom, Thought!MaxTop
<1>2. CASE Thought!SetStreaming
  <2> DEFINE previewing == streaming' /\ (IF userOpen = None THEN streaming' ELSE userOpen)
  <2>1. /\ streaming' = ~streaming /\ Thought!TextEffect(previewing) /\ userOpen' = userOpen
        /\ lines' = lines
    BY <1>2 DEF Thought!SetStreaming
  <2>2. previewing \in BOOLEAN /\ (Thought!IsPreview' <=> previewing)
    BY <1>b, <2>1 DEF Thought!IsPreview, Thought!IsOpen
  <2>3. previewing => ~Thought!IsPreview
    BY <1>b, <2>1 DEF Thought!IsPreview
  <2> HIDE DEF previewing
  <2> QED BY <1>b, <2>1, <2>2, <2>3, PreviewStarts
<1>3. CASE Thought!ToggleReasoning
  <2> DEFINE previewing == streaming /\ userOpen'
  <2>1. /\ userOpen' = ~Thought!IsOpen /\ Thought!TextEffect(previewing) /\ streaming' = streaming
        /\ lines' = lines
    BY <1>3 DEF Thought!ToggleReasoning
  <2>2. previewing \in BOOLEAN /\ userOpen' \in BOOLEAN
    BY <1>b, <1>d, <2>1
  <2>3. Thought!IsPreview' <=> previewing
    BY <1>b, <2>1, <2>2 DEF Thought!IsPreview, Thought!IsOpen
  <2>4. previewing => ~Thought!IsPreview
    BY <1>b, <2>1 DEF Thought!IsPreview
  <2> HIDE DEF previewing
  <2> QED BY <1>b, <2>1, <2>2, <2>3, <2>4, PreviewStarts
<1>4. CASE Thought!Grow
  <2>1. /\ lines < MaxLines /\ lines' = lines + 1 /\ resizeDue' = Thought!IsPreview
        /\ regrown' = (regrown \/ lines + 1 = lastHeight)
        /\ UNCHANGED << streaming, userOpen, top, pinned, lastTop, lastHeight, scrollDue, leftBottom >>
    BY <1>4 DEF Thought!Grow
  <2>2. Thought!IsPreview' = Thought!IsPreview BY <2>1 DEF Thought!IsPreview, Thought!IsOpen
  <2>3. Thought!TypeOK'
    <3>1. lines' \in 0 .. MaxLines BY <1>a, <2>1
    <3>2. resizeDue' \in BOOLEAN /\ regrown' \in BOOLEAN BY <1>b, <1>d, <2>1
    <3> QED BY <2>1, <3>1, <3>2 DEF ThoughtInv, Thought!TypeOK
  <2>4. top <= Thought!MaxTop(lines') /\ lines' \in Nat
    <3>1. lines' \in Nat /\ lines <= lines' BY <1>a, <2>1
    <3>2. Thought!MaxTop(lines) <= Thought!MaxTop(lines') /\ Thought!MaxTop(lines') \in Nat
      BY <1>a, <3>1, LastOffset
    <3> QED BY <1>a, <1>c, <3>1, <3>2
  <2>5. ASSUME Thought!IsPreview, ~leftBottom, ~regrown' PROVE lines' < lastHeight \/ lastTop <= top
    <3>1. lines < lastHeight \/ lastTop <= top BY <2>1, <2>5 DEF ThoughtInv, Offsets
    <3>2. lines + 1 # lastHeight BY <2>1, <2>5
    <3> QED BY <1>a, <2>1, <3>1, <3>2
  <2>6. Offsets'
    BY <2>1, <2>2, <2>4, <2>5 DEF ThoughtInv, Offsets, Thought!MaxTop
  <2> QED BY <2>3, <2>6 DEF ThoughtInv
<1>5. CASE Thought!Shrink
  <2> DEFINE most == Thought!MaxTop(lines - 1)
  <2>1. /\ lines > 0 /\ lines' = lines - 1 /\ top' = Thought!Min({top, most})
        /\ resizeDue' = Thought!IsPreview
        /\ scrollDue' = (scrollDue \/ (Thought!IsPreview /\ top' # top))
        /\ UNCHANGED << streaming, userOpen, pinned, lastTop, lastHeight, leftBottom, regrown >>
    BY <1>5 DEF Thought!Shrink
  <2>2. lines - 1 \in Nat /\ lines - 1 <= MaxLines BY <1>a, <2>1
  <2>3. most \in Nat /\ most <= lines - 1 BY <2>2, LastOffset
  <2>4. most = Thought!MaxTop(lines)' BY <2>1 DEF Thought!MaxTop
  <2> HIDE DEF most
  <2>5. top' = IF top <= most THEN top ELSE most BY <1>a, <2>1, <2>3, Clamp
  <2>6. top' \in Nat /\ top' <= most /\ top' <= MaxLines BY <1>a, <2>2, <2>3, <2>5
  <2>7. Thought!IsPreview' = Thought!IsPreview BY <2>1 DEF Thought!IsPreview, Thought!IsOpen
  <2>8. Thought!TypeOK'
    <3>1. lines' \in 0 .. MaxLines /\ top' \in 0 .. MaxLines BY <1>a, <2>1, <2>2, <2>6
    <3>2. resizeDue' \in BOOLEAN /\ scrollDue' \in BOOLEAN BY <1>b, <1>d, <2>1
    <3> QED BY <2>1, <3>1, <3>2 DEF ThoughtInv, Thought!TypeOK
  <2>9. ASSUME Thought!IsPreview, ~leftBottom, ~regrown PROVE lines' < lastHeight \/ lastTop <= top'
    <3>1. lines < lastHeight \/ lastTop <= top BY <2>9 DEF ThoughtInv, Offsets
    <3>2. CASE lines - 1 < lastHeight BY <2>1, <3>2
    <3>3. CASE ~(lines - 1 < lastHeight)
      <4>1. lastHeight <= lines - 1 /\ lastTop <= top BY <1>a, <2>1, <3>1, <3>3
      <4>2. Thought!MaxTop(lastHeight) <= most BY <1>a, <2>2, <4>1, LastOffset DEF most
      <4> QED BY <1>a, <1>c, <2>3, <2>5, <4>1, <4>2
    <3> QED BY <3>2, <3>3
  <2>10. Offsets'
    BY <2>1, <2>4, <2>6, <2>7, <2>9 DEF ThoughtInv, Offsets, Thought!MaxTop
  <2> QED BY <2>8, <2>10 DEF ThoughtInv
<1>6. CASE Thought!Resized
  <2>1. /\ Thought!IsPreview /\ resizeDue' = FALSE
        /\ top' = IF pinned THEN Thought!MaxTop(lines) ELSE top
        /\ scrollDue' = (scrollDue \/ top' # top)
        /\ UNCHANGED << streaming, userOpen, lines, pinned, lastTop, lastHeight, leftBottom, regrown >>
    BY <1>6 DEF Thought!Resized
  <2>2. top' \in Nat /\ top <= top' /\ top' <= Thought!MaxTop(lines) /\ top' <= MaxLines
    BY <1>a, <1>c, <2>1
  <2>3. Thought!IsPreview' = Thought!IsPreview BY <2>1 DEF Thought!IsPreview, Thought!IsOpen
  <2>4. Thought!TypeOK'
    <3>1. top' \in 0 .. MaxLines BY <1>a, <2>2
    <3>2. scrollDue' \in BOOLEAN BY <1>b, <2>1
    <3> QED BY <2>1, <3>1, <3>2 DEF ThoughtInv, Thought!TypeOK
  <2>5. ASSUME ~leftBottom, ~regrown PROVE lines < lastHeight \/ lastTop <= top'
    <3>1. lines < lastHeight \/ lastTop <= top BY <2>1, <2>5 DEF ThoughtInv, Offsets
    <3> QED BY <1>a, <2>2, <3>1
  <2>6. pinned => Thought!AtBottom' BY <2>1 DEF Thought!AtBottom, Thought!MaxTop
  <2>7. Offsets'
    BY <2>1, <2>2, <2>3, <2>5, <2>6 DEF ThoughtInv, Offsets, Thought!MaxTop
  <2> QED BY <2>4, <2>7 DEF ThoughtInv
<1>7. CASE Thought!Scrolled
  <2>1. /\ Thought!IsPreview /\ scrollDue' = FALSE
        /\ pinned' = (Thought!AtBottom \/ (pinned /\ ~(top < lastTop /\ lines = lastHeight)))
        /\ lastTop' = top /\ lastHeight' = lines
        /\ leftBottom' = (leftBottom /\ ~Thought!AtBottom)
        /\ regrown' = (regrown /\ ~Thought!AtBottom)
        /\ UNCHANGED << streaming, userOpen, lines, top, resizeDue >>
    BY <1>7 DEF Thought!Scrolled
  <2>2. Thought!IsPreview' = Thought!IsPreview BY <2>1 DEF Thought!IsPreview, Thought!IsOpen
  <2>3. Thought!AtBottom \in BOOLEAN /\ Thought!AtBottom' = Thought!AtBottom
    BY <2>1 DEF Thought!AtBottom, Thought!MaxTop
  <2>4. Thought!TypeOK'
    <3>1. pinned' \in BOOLEAN /\ leftBottom' \in BOOLEAN /\ regrown' \in BOOLEAN
      BY <1>b, <2>1, <2>3
    <3> QED BY <2>1, <3>1 DEF ThoughtInv, Thought!TypeOK
  <2>5. lastTop' <= top' BY <1>a, <2>1
  <2>6. pinned' /\ ~resizeDue' => Thought!AtBottom' \/ leftBottom'
    BY <2>1, <2>3 DEF ThoughtInv, Offsets
  <2>7. ~pinned' => leftBottom' \/ regrown'
    <3> SUFFICES ASSUME ~pinned' PROVE leftBottom' \/ regrown' OBVIOUS
    <3>1. ~Thought!AtBottom /\ (~pinned \/ (top < lastTop /\ lines = lastHeight)) BY <2>1
    <3>2. leftBottom \/ regrown
      <4>1. CASE ~pinned BY <2>1, <4>1 DEF ThoughtInv, Offsets
      <4>2. CASE top < lastTop /\ lines = lastHeight
        <5>1. ~(lines < lastHeight \/ lastTop <= top) BY <1>a, <4>2
        <5> QED BY <2>1, <5>1 DEF ThoughtInv, Offsets
      <4> QED BY <3>1, <4>1, <4>2
    <3> QED BY <2>1, <3>1, <3>2
  <2>8. top' <= Thought!MaxTop(lines)' /\ lastTop' <= Thought!MaxTop(lastHeight)'
    BY <1>a, <2>1 DEF Thought!MaxTop
  <2> QED BY <2>4, <2>5, <2>6, <2>7, <2>8 DEF ThoughtInv, Offsets
<1>8. ASSUME NEW to \in 0 .. Thought!MaxTop(lines), Thought!ReaderScrolls(to) PROVE ThoughtInv'
  <2>1. /\ top' = to /\ scrollDue' = Thought!IsPreview
        /\ leftBottom' = (leftBottom \/ to < top)
        /\ UNCHANGED << streaming, userOpen, lines, pinned, lastTop, lastHeight, resizeDue, regrown >>
    BY <1>8 DEF Thought!ReaderScrolls
  <2>2. to \in Nat /\ to <= Thought!MaxTop(lines) /\ to <= MaxLines BY <1>a, <1>c
  <2>3. Thought!IsPreview' = Thought!IsPreview BY <2>1 DEF Thought!IsPreview, Thought!IsOpen
  <2>4. Thought!TypeOK'
    <3>1. top' \in 0 .. MaxLines BY <1>a, <2>1, <2>2
    <3>2. scrollDue' \in BOOLEAN /\ leftBottom' \in BOOLEAN BY <1>b, <1>d, <2>1
    <3> QED BY <2>1, <3>1, <3>2 DEF ThoughtInv, Thought!TypeOK
  <2>5. ~leftBottom' => top <= to
    <3>1. ~leftBottom' => ~(to < top) BY <2>1
    <3> QED BY <1>a, <2>2, <3>1
  <2>6. ASSUME Thought!IsPreview, ~leftBottom', ~regrown PROVE lines < lastHeight \/ lastTop <= to
    <3>1. ~leftBottom BY <2>1, <2>6
    <3>2. lines < lastHeight \/ lastTop <= top BY <2>6, <3>1 DEF ThoughtInv, Offsets
    <3> QED BY <1>a, <2>2, <2>5, <2>6, <3>2
  <2>7. ASSUME Thought!IsPreview, pinned, ~resizeDue PROVE Thought!AtBottom' \/ leftBottom'
    <3>1. Thought!AtBottom \/ leftBottom BY <2>7 DEF ThoughtInv, Offsets
    <3>2. CASE leftBottom BY <2>1, <3>2
    <3>3. CASE Thought!AtBottom /\ ~leftBottom'
      <4>1. to = Thought!MaxTop(lines) BY <1>a, <1>c, <2>2, <2>5, <3>3 DEF Thought!AtBottom
      <4> QED BY <2>1, <4>1 DEF Thought!AtBottom, Thought!MaxTop
    <3> QED BY <3>1, <3>2, <3>3
  <2>8. top' <= Thought!MaxTop(lines)' /\ lastTop' <= Thought!MaxTop(lastHeight)'
    BY <1>a, <2>1, <2>2 DEF Thought!MaxTop
  <2>9. Thought!IsPreview /\ ~pinned => leftBottom' \/ regrown
    BY <2>1 DEF ThoughtInv, Offsets
  <2>10. Offsets' BY <2>1, <2>3, <2>6, <2>7, <2>8, <2>9 DEF Offsets
  <2> QED BY <2>4, <2>10 DEF ThoughtInv
<1> QED BY <1>1, <1>2, <1>3, <1>4, <1>5, <1>6, <1>7, <1>8 DEF Thought!Next

\* A reasoning preview stops following its text only because the reader moved up
\* (or the text shrank and grew back unseen), and shows the newest line while it
\* follows, whatever the order of scroll and resize events.
THEOREM PreviewFollows ==
    ASSUME Thought!LinesAssumption
    PROVE  Thought!Spec => [](Thought!FollowsUntilReaderLeaves /\ Thought!FollowedIsNewest)
<1>1. ThoughtInv /\ [Thought!Next]_(Thought!vars) => ThoughtInv' BY ThoughtStep
<1> QED BY <1>1, ThoughtInit, ThoughtShows, PTL DEF Thought!Spec
-----------------------------------------------------------------------------
(* The card of a tool call                                                 *)

\* Controls are those of the request that is waited for, they are mounted once
\* for all their answers, and what is open shows them.
Held ==
    /\ Call!Waiting(toolStatus) =>
           asked # << >> /\ asked[Len(asked)].approval = request.approval
    /\ panel => Call!ShowsApproval(toolStatus, request) /\ mounts >= 1
    /\ cardOpen /\ Call!ShowsApproval(toolStatus, request) => panel
    /\ panel /\ ~submitted => \A i \in DOMAIN sent : sent[i].mount # mounts

SentOnce == \A i, j \in DOMAIN sent : sent[i].mount = sent[j].mount => i = j

StaysShown == Call!Waiting(toolStatus) /\ ~cardOpen => folded

CallInv == Call!TypeOK /\ Held /\ SentOnce /\ StaysShown /\ Call!AnswersWereOffered

Sendings(as, n) == [request : DOMAIN as, mount : 1 .. n, answer : Options \cup {"allow", "deny"}]

LEMMA CallParts ==
    ASSUME Call!TypeOK
    PROVE  /\ cardOpen \in BOOLEAN /\ panel \in BOOLEAN
           /\ submitted \in BOOLEAN /\ folded \in BOOLEAN
           /\ asked \in Seq(Call!Requests) /\ mounts \in 0 .. MaxMounts
           /\ sent \in Seq(Sendings(asked, mounts))
  BY DEF Call!TypeOK, Sendings

\* The options of a request are options.
LEMMA UsableOptions ==
    ASSUME Call!TypeOK PROVE Call!Usable(request) \subseteq Options
<1>1. request.approval \in {None, [list |-> None]} \cup [list : Call!Lists]
  <2>1. CASE request \in Call!Requests BY <2>1 DEF Call!Requests
  <2>2. CASE request = Call!NoRequest BY <2>2 DEF Call!NoRequest
  <2>3. ASSUME NEW req \in Call!Requests, request = Call!Resolved(req)
        PROVE  request.approval \in {None, [list |-> None]} \cup [list : Call!Lists]
    <3>1. request.approval = req.approval BY <2>3 DEF Call!Resolved, Call!Requests
    <3> QED BY <3>1 DEF Call!Requests
  <2> QED BY <2>1, <2>2, <2>3 DEF Call!TypeOK
<1> QED BY <1>1 DEF Call!Usable, Call!HasList, Call!Declared, Call!Lists

\* The reader can refuse: at once, by an option that does not allow, or after
\* going back.
LEMMA CanRefuse ==
    ASSUME Call!TypeOK, Call!Controls, ~submitted
    PROVE  Call!BackOffered \/ Call!DenyOffered
           \/ \E o \in Options \ AllowOptions : Call!OptionOffered(o)
<1>1. CASE Call!Confirming BY <1>1 DEF Call!BackOffered
<1>2. CASE ~Call!Confirming /\ (Call!Listed(request) => Call!Usable(request) \subseteq AllowOptions)
  BY <1>2 DEF Call!DenyOffered
<1>3. CASE ~Call!Confirming /\ Call!Listed(request) /\ ~(Call!Usable(request) \subseteq AllowOptions)
  <2>1. PICK o \in Call!Usable(request) : o \notin AllowOptions BY <1>3
  <2>2. o \in Options BY UsableOptions
  <2>3. Call!OptionOffered(o) BY <1>3, <2>1 DEF Call!OptionOffered
  <2> QED BY <2>1, <2>2, <2>3
<1> QED BY <1>1, <1>2, <1>3

LEMMA CallShows ==
    CallInv => Call!AnswersWereOffered /\ Call!AnsweredOncePerMount /\ Call!WaitingIsShown
<1> SUFFICES ASSUME CallInv
             PROVE  Call!AnswersWereOffered /\ Call!AnsweredOncePerMount /\ Call!WaitingIsShown
  OBVIOUS
<1>1. Call!AnsweredOncePerMount BY DEF CallInv, SentOnce, Call!AnsweredOncePerMount
<1>2. Call!WaitingIsShown BY CanRefuse DEF CallInv, StaysShown, Call!WaitingIsShown
<1> QED BY <1>1, <1>2 DEF CallInv

LEMMA CallInit == ASSUME Call!OptionsAssumption PROVE Call!Init => CallInv
<1> SUFFICES ASSUME Call!Init PROVE CallInv OBVIOUS
<1>1. Call!TypeOK
  <2>1. request = Call!NoRequest BY DEF Call!Init
  <2>2. {cardOpen, panel, submitted, folded} \subseteq BOOLEAN BY DEF Call!Init
  <2>3. asked \in Seq(Call!Requests) /\ Len(asked) <= MaxRequests /\ mounts \in 0 .. MaxMounts
    BY DEF Call!Init, Call!OptionsAssumption
  <2>4. sent \in Seq(Sendings(asked, mounts)) BY DEF Call!Init
  <2> QED BY <2>1, <2>2, <2>3, <2>4 DEF Call!Init, Call!TypeOK, Sendings
<1>2. Held BY DEF Call!Init, Held, Call!Waiting, Call!ShowsApproval
<1>3. SentOnce /\ StaysShown /\ Call!AnswersWereOffered
  BY DEF Call!Init, SentOnce, StaysShown, Call!AnswersWereOffered, Call!Waiting
<1> QED BY <1>1, <1>2, <1>3 DEF CallInv

\* More requests and more mounts admit more answers.
LEMMA SendingsGrow ==
    ASSUME NEW S, NEW T, S \subseteq T, NEW s \in Seq(S)
    PROVE  s \in Seq(T)
  OBVIOUS

\* A request the card shows the approval of, decided or not, shows it.
LEMMA ResolvedShows ==
    ASSUME NEW st, Call!TypeOK
    PROVE  Call!ShowsApproval(st, Call!Resolved(request))
           <=> Call!ShowsApproval(st, request)
<1>1. LET req == Call!Resolved(request) IN
      req.reason = request.reason /\ req.approval = request.approval
      /\ req.interrupt = request.interrupt
  BY DEF Call!TypeOK, Call!Requests, Call!NoRequest, Call!Resolved
<1> QED BY <1>1 DEF Call!ShowsApproval, Call!Offers

\* A rendering keeps the controls or mounts them anew.
LEMMA Rendered ==
    ASSUME NEW st, NEW req, Call!TypeOK, Held, Call!Render(st, req)
    PROVE  /\ toolStatus' = st /\ request' = req
           /\ panel' \in BOOLEAN /\ cardOpen' \in BOOLEAN /\ submitted' \in BOOLEAN
           /\ panel' => Call!ShowsApproval(st, req)
           /\ cardOpen' /\ Call!ShowsApproval(st, req) => panel'
           /\ confirmingId' \in {confirmingId, None}
           /\ \/ mounts' = mounts /\ (panel' => panel /\ submitted' = submitted)
              \/ mounts' = mounts + 1 /\ panel'
           /\ (panel' /\ ~(panel /\ Call!ShowsApproval(toolStatus, request)))
              <=> mounts' # mounts
<1> DEFINE shows == Call!ShowsApproval(st, req)
           kept  == shows /\ panel /\ Call!ShowsApproval(toolStatus, request)
<1>1. mounts \in Nat BY CallParts
<1>2. cardOpen' = (cardOpen \/ (Call!Waiting(st) /\ ~Call!Waiting(toolStatus)))
      /\ panel' = (shows /\ (cardOpen' \/ kept))
      /\ submitted' = (kept /\ submitted)
  BY Zenon DEF Call!Render
<1>3. mounts' = IF panel' /\ ~kept THEN mounts + 1 ELSE mounts
  BY DEF Call!Render
<1>4. shows \in BOOLEAN BY DEF Call!ShowsApproval
<1>5. toolStatus' = st /\ request' = req /\ confirmingId' \in {confirmingId, None}
  BY DEF Call!Render
<1>6. /\ panel' \in BOOLEAN /\ cardOpen' \in BOOLEAN /\ submitted' \in BOOLEAN
      /\ (panel' => shows) /\ (cardOpen' /\ shows => panel')
      /\ (kept => submitted' = submitted)
  BY <1>2, <1>4, CallParts
<1>7. kept => panel BY Zenon
<1>8. mounts + 1 # mounts BY <1>1
<1>9. CASE panel' /\ ~kept
  <2>1. mounts' = mounts + 1 BY <1>3, <1>9
  <2>2. panel' /\ ~(panel /\ Call!ShowsApproval(toolStatus, request)) BY <1>6, <1>9
  <2>3. mounts' # mounts BY <2>1, <1>8
  <2> QED BY <2>1, <2>2, <2>3, <1>5, <1>6
<1>10. CASE ~(panel' /\ ~kept)
  <2>1. mounts' = mounts BY <1>3, <1>10
  <2>2. ~(panel' /\ ~(panel /\ Call!ShowsApproval(toolStatus, request)))
    BY <1>6, <1>10
  <2>3. panel' => kept BY <1>10
  <2>4. panel' => panel /\ submitted' = submitted BY <2>3, <1>6, <1>7
  <2> QED BY <2>1, <2>2, <2>4, <1>5, <1>6
<1> QED BY <1>9, <1>10

\* What is rendered without an answer keeps what holds of the answers.
LEMMA RenderKeeps ==
    ASSUME NEW st, NEW req, CallInv, Call!Render(st, req), UNCHANGED sent,
           NEW more, asked' = asked \o more, more \in Seq(Call!Requests),
           Len(asked') <= MaxRequests, mounts' \in 0 .. MaxMounts,
           st \in {"running", "requires-action", "complete", "incomplete"},
           req \in Call!Requests \cup {Call!Resolved(r) : r \in Call!Requests}
                      \cup {Call!NoRequest},
           folded' \in BOOLEAN,
           Call!Waiting(st) =>
               asked' # << >> /\ asked'[Len(asked')].approval = req.approval,
           Call!Waiting(st) /\ ~cardOpen' => folded'
    PROVE  CallInv'
<1>p. Call!TypeOK /\ Held /\ SentOnce /\ Call!AnswersWereOffered BY DEF CallInv
<1>r. /\ toolStatus' = st /\ request' = req
      /\ panel' \in BOOLEAN /\ cardOpen' \in BOOLEAN /\ submitted' \in BOOLEAN
      /\ panel' => Call!ShowsApproval(st, req)
      /\ cardOpen' /\ Call!ShowsApproval(st, req) => panel'
      /\ confirmingId' \in {confirmingId, None}
      /\ \/ mounts' = mounts /\ (panel' => panel /\ submitted' = submitted)
         \/ mounts' = mounts + 1 /\ panel'
  BY <1>p, Rendered
<1>t. /\ asked \in Seq(Call!Requests) /\ mounts \in Nat
      /\ sent \in Seq(Sendings(asked, mounts))
  BY <1>p, CallParts
<1>a. /\ asked' \in Seq(Call!Requests) /\ DOMAIN asked \subseteq DOMAIN asked'
      /\ \A i \in DOMAIN asked : asked'[i] = asked[i]
  BY <1>t
<1>s. sent' \in Seq(Sendings(asked, mounts)') /\ mounts <= mounts'
  <2>1. mounts <= mounts' /\ mounts' \in Nat BY <1>r, <1>t
  <2>2. 1 .. mounts \subseteq 1 .. mounts' BY <2>1, <1>t
  <2>3. Sendings(asked, mounts) \subseteq Sendings(asked, mounts)'
    BY <2>2, <1>a DEF Sendings
  <2>4. sent \in Seq(Sendings(asked, mounts)') BY <2>3, <1>t, SendingsGrow
  <2> QED BY <2>1, <2>4
<1>1. Call!TypeOK'
  <2>1. confirmingId' \in Options \cup {None} BY <1>r, <1>p DEF Call!TypeOK
  <2>2. {cardOpen, panel, submitted, folded}' \subseteq BOOLEAN BY <1>r
  <2>3. toolStatus' \in {"running", "requires-action", "complete", "incomplete"} BY <1>r
  <2>4. request' \in Call!Requests \cup {Call!Resolved(r) : r \in Call!Requests}
                     \cup {Call!NoRequest}
    BY <1>r
  <2> QED BY <2>1, <2>2, <2>3, <2>4, <1>a, <1>s DEF Call!TypeOK, Sendings
<1>2. Held'
  <2>1. Call!Waiting(toolStatus') =>
            asked' # << >> /\ asked'[Len(asked')].approval = request'.approval
    BY <1>r
  <2>2. panel' => Call!ShowsApproval(toolStatus', request') /\ mounts' >= 1
    BY <1>r, <1>p, <1>t DEF Held
  <2>3. cardOpen' /\ Call!ShowsApproval(toolStatus', request') => panel' BY <1>r
  <2>4. ASSUME panel', ~submitted', NEW i \in DOMAIN sent' PROVE sent'[i].mount # mounts'
    <3>1. i \in DOMAIN sent /\ sent'[i] = sent[i] /\ sent[i] \in Sendings(asked, mounts)
      BY <1>t, <2>4
    <3>2. CASE mounts' = mounts /\ panel /\ submitted' = submitted
      BY <3>1, <3>2, <2>4, <1>p DEF Held
    <3>3. CASE mounts' = mounts + 1
      <4>1. sent[i].mount \in 1 .. mounts BY <3>1 DEF Sendings
      <4>2. sent[i].mount # mounts + 1 BY <4>1, <1>t
      <4> QED BY <3>1, <3>3, <4>2
    <3> QED BY <3>2, <3>3, <2>4, <1>r
  <2> QED BY <2>1, <2>2, <2>3, <2>4 DEF Held, Call!Waiting, Call!ShowsApproval, Call!Offers
<1>3. SentOnce' BY <1>p DEF SentOnce
<1>4. StaysShown' BY <1>r DEF StaysShown, Call!Waiting
<1>5. Call!AnswersWereOffered'
  <2> SUFFICES ASSUME NEW i \in DOMAIN sent
               PROVE  /\ sent[i].answer \in Options =>
                             sent[i].answer \in Call!Usable(asked'[sent[i].request])
                      /\ sent[i].answer = "allow" => ~Call!Listed(asked'[sent[i].request])
    BY DEF Call!AnswersWereOffered, Call!Usable, Call!Listed, Call!HasList, Call!Declared
  <2>0. sent[i] \in Sendings(asked, mounts) BY <1>t
  <2>1. sent[i].request \in DOMAIN asked BY <2>0 DEF Sendings
  <2>2. asked'[sent[i].request] = asked[sent[i].request] BY <2>1, <1>a
  <2> QED BY <2>2, <1>p DEF Call!AnswersWereOffered
<1> QED BY <1>1, <1>2, <1>3, <1>4, <1>5 DEF CallInv

\* An answer: no other has been given by controls mounted for it.
LEMMA ApprovalKeeps ==
    ASSUME CallInv, Call!Controls, NEW a, Call!Answer(a),
           a \in Options \cup {"allow", "deny"}, confirmingId' \in Options \cup {None},
           a \in Options => a \in Call!Usable(request),
           a = "allow" => ~Call!Listed(request)
    PROVE  CallInv'
<1>p. Call!TypeOK /\ Held /\ SentOnce /\ StaysShown /\ Call!AnswersWereOffered BY DEF CallInv
<1>t. /\ asked \in Seq(Call!Requests) /\ mounts \in 0 .. MaxMounts
      /\ sent \in Seq(Sendings(asked, mounts))
  BY <1>p, CallParts
<1>a. /\ ~submitted /\ submitted' = TRUE
      /\ sent' = Append(sent, [request |-> Len(asked), mount |-> mounts, answer |-> a])
      /\ toolStatus' = toolStatus /\ request' = request /\ cardOpen' = cardOpen
      /\ panel' = panel /\ asked' = asked /\ mounts' = mounts /\ folded' = folded
  BY DEF Call!Answer
<1>h. /\ asked # << >> /\ asked[Len(asked)].approval = request.approval /\ mounts >= 1
      /\ \A i \in DOMAIN sent : sent[i].mount # mounts
  BY <1>p, <1>a DEF Held, Call!Controls, Call!ShowsApproval
<1>l. Len(asked) \in DOMAIN asked BY <1>h, <1>t
<1>m. mounts \in 1 .. mounts BY <1>h, <1>t
<1>s. /\ Len(sent') = Len(sent) + 1 /\ Len(sent) \in Nat
      /\ \A i \in DOMAIN sent : sent'[i] = sent[i]
      /\ sent'[Len(sent) + 1] = [request |-> Len(asked), mount |-> mounts, answer |-> a]
      /\ \A i \in DOMAIN sent' : i \in DOMAIN sent \/ i = Len(sent) + 1
  BY <1>t, <1>a
<1>1. Call!TypeOK'
  <2>1. [request |-> Len(asked), mount |-> mounts, answer |-> a] \in Sendings(asked, mounts)
    BY <1>l, <1>m DEF Sendings
  <2>2. sent' \in Seq(Sendings(asked, mounts)) BY <2>1, <1>t, <1>a
  <2> QED BY <2>2, <1>a, <1>p DEF Call!TypeOK, Sendings
<1>2. Held'
  <2>1. Call!ShowsApproval(toolStatus', request') = Call!ShowsApproval(toolStatus, request)
    BY <1>a
  <2> QED BY <2>1, <1>a, <1>p DEF Held, Call!Waiting, Call!ShowsApproval, Call!Offers
<1>3. SentOnce'
  <2> SUFFICES ASSUME NEW i \in DOMAIN sent', NEW j \in DOMAIN sent',
                      sent'[i].mount = sent'[j].mount
               PROVE  i = j
    BY DEF SentOnce
  <2>1. ASSUME NEW k \in DOMAIN sent PROVE sent'[k].mount = sent[k].mount /\ sent[k].mount # mounts
    BY <1>s, <1>h
  <2>2. sent'[Len(sent) + 1].mount = mounts BY <1>s
  <2> QED BY <2>1, <2>2, <1>s, <1>p DEF SentOnce
<1>4. StaysShown' BY <1>a, <1>p DEF StaysShown, Call!Waiting
<1>5. Call!AnswersWereOffered'
  <2> SUFFICES ASSUME NEW i \in DOMAIN sent'
               PROVE  /\ sent'[i].answer \in Options =>
                             sent'[i].answer \in Call!Usable(asked[sent'[i].request])
                      /\ sent'[i].answer = "allow" => ~Call!Listed(asked[sent'[i].request])
    BY <1>a DEF Call!AnswersWereOffered, Call!Usable, Call!Listed, Call!HasList, Call!Declared
  <2>1. CASE i \in DOMAIN sent BY <2>1, <1>s, <1>p DEF Call!AnswersWereOffered
  <2>2. CASE i = Len(sent) + 1
    <3>1. sent'[i].request = Len(asked) /\ sent'[i].answer = a BY <2>2, <1>s
    <3>2. Call!Usable(asked[Len(asked)]) = Call!Usable(request)
          /\ Call!Listed(asked[Len(asked)]) = Call!Listed(request)
      BY <1>h DEF Call!Usable, Call!Listed, Call!HasList, Call!Declared
    <3> QED BY <3>1, <3>2
  <2> QED BY <2>1, <2>2, <1>s
<1> QED BY <1>1, <1>2, <1>3, <1>4, <1>5 DEF CallInv

\* Answering one way or another, or confirming first.
LEMMA ReaderKeeps ==
    ASSUME Call!OptionsAssumption, CallInv,
           Call!Allow \/ Call!Deny \/ Call!Confirm \/ Call!Back \/ \E o \in Options : Call!Pick(o)
    PROVE  CallInv'
<1>p. Call!TypeOK /\ Held /\ SentOnce /\ StaysShown /\ Call!AnswersWereOffered BY DEF CallInv
<1>o. {None, "allow", "deny"} \cap Options = {} BY DEF Call!OptionsAssumption
<1>c. confirmingId \in Options \cup {None} BY <1>p DEF Call!TypeOK
<1>0. ASSUME NEW c \in Options \cup {None}, confirmingId' = c,
             UNCHANGED <<toolStatus, request, cardOpen, panel, submitted, asked, sent, mounts,
                         folded>>
      PROVE  CallInv'
  <2>1. Call!TypeOK' BY <1>0, <1>p DEF Call!TypeOK
  <2>2. Held' BY <1>0, <1>p DEF Held, Call!Waiting, Call!ShowsApproval, Call!Offers
  <2>3. SentOnce' /\ StaysShown' BY <1>0, <1>p DEF SentOnce, StaysShown, Call!Waiting
  <2>4. Call!AnswersWereOffered'
    BY <1>0, <1>p DEF Call!AnswersWereOffered, Call!Usable, Call!Listed, Call!HasList,
                      Call!Declared
  <2> QED BY <2>1, <2>2, <2>3, <2>4 DEF CallInv
<1>1. CASE Call!Allow
  <2>1. "allow" \notin Options BY <1>o
  <2> QED BY <2>1, <1>1, <1>c, ApprovalKeeps DEF Call!Allow
<1>2. CASE Call!Deny
  <2>1. "deny" \notin Options /\ "deny" # "allow" BY <1>o
  <2> QED BY <2>1, <1>2, <1>c, ApprovalKeeps DEF Call!Deny, Call!DenyOffered
<1>3. CASE Call!Confirm
  <2>1. Call!Controls /\ confirmingId \in Call!Usable(request) /\ confirmingId \in Options
    BY <1>3, <1>c DEF Call!Confirm, Call!Confirming
  <2>2. confirmingId # "allow" /\ confirmingId' = None /\ Call!Answer(confirmingId)
    BY <2>1, <1>o, <1>3 DEF Call!Confirm
  <2> QED BY <2>1, <2>2, ApprovalKeeps
<1>4. CASE Call!Back BY <1>4, <1>0 DEF Call!Back
<1>5. ASSUME NEW o \in Options, Call!Pick(o) PROVE CallInv'
  <2>1. Call!Controls /\ o \in Call!Usable(request) /\ o # "allow"
    BY <1>5, <1>o DEF Call!Pick, Call!OptionOffered
  <2>2. CASE o \in Confirmed BY <2>2, <1>5, <1>0 DEF Call!Pick
  <2>3. CASE o \notin Confirmed
    <3>1. Call!Answer(o) /\ confirmingId' = None BY <2>3, <1>5 DEF Call!Pick
    <3> QED BY <3>1, <2>1, ApprovalKeeps
  <2> QED BY <2>2, <2>3
<1> QED BY <1>1, <1>2, <1>3, <1>4, <1>5

\* The runtime asks, decides, resumes or settles the call.
LEMMA RuntimeKeeps ==
    ASSUME Call!OptionsAssumption, CallInv,
           \/ \E req \in Call!Requests : Call!Ask(req)
           \/ Call!Decide \/ Call!Resume
           \/ \E status \in {"complete", "incomplete"} : Call!Settle(status)
    PROVE  CallInv'
<1>p. Call!TypeOK /\ Held /\ StaysShown BY DEF CallInv
<1>b. MaxRequests \in Nat /\ MaxMounts \in Nat BY DEF Call!OptionsAssumption
<1>t. /\ asked \in Seq(Call!Requests) /\ mounts \in 0 .. MaxMounts /\ folded \in BOOLEAN
      /\ Len(asked) <= MaxRequests
      /\ toolStatus \in {"running", "requires-action", "complete", "incomplete"}
  BY <1>p, CallParts DEF Call!TypeOK
<1>e. << >> \in Seq(Call!Requests) /\ asked = asked \o << >> BY <1>t
<1>1. ASSUME NEW req \in Call!Requests, Call!Ask(req) PROVE CallInv'
  <2>1. /\ Len(asked) < MaxRequests /\ mounts < MaxMounts
        /\ Call!Render("requires-action", req) /\ asked' = Append(asked, req)
        /\ folded' = (folded /\ Call!Waiting(toolStatus)) /\ sent' = sent
    BY <1>1 DEF Call!Ask
  <2>2. asked' = asked \o <<req>> /\ <<req>> \in Seq(Call!Requests) BY <2>1, <1>t
  <2>3. Len(asked') <= MaxRequests /\ asked' # << >> /\ asked'[Len(asked')] = req
    BY <2>1, <1>t, <1>b
  <2>4. mounts' \in 0 .. MaxMounts
    <3>1. mounts' = mounts \/ mounts' = mounts + 1 BY <2>1, <1>p, Rendered
    <3> QED BY <3>1, <2>1, <1>t, <1>b
  <2>5. folded' \in BOOLEAN BY <2>1, <1>t DEF Call!Waiting
  <2>6. ~cardOpen' => folded'
    <3>1. cardOpen' = (cardOpen \/ (Call!Waiting("requires-action")
                                    /\ ~Call!Waiting(toolStatus)))
      BY <2>1 DEF Call!Render
    <3>2. Call!Waiting("requires-action") BY DEF Call!Waiting
    <3>3. CASE Call!Waiting(toolStatus) /\ ~cardOpen
      BY <3>3, <1>p, <2>1 DEF StaysShown
    <3> QED BY <3>1, <3>2, <3>3, <1>t, CallParts, <1>p
  <2> QED BY <2>1, <2>2, <2>3, <2>4, <2>5, <2>6, RenderKeeps
<1>2. CASE Call!Decide
  <2>1. /\ Call!Waiting(toolStatus) /\ ~request.resolved /\ request.approval # None
        /\ Call!Render("requires-action", Call!Resolved(request))
        /\ asked' = asked /\ sent' = sent /\ folded' = folded
    BY <1>2 DEF Call!Decide
  <2>2. request \in Call!Requests
    <3>1. request # Call!NoRequest BY <2>1 DEF Call!NoRequest
    <3>2. ASSUME NEW req \in Call!Requests PROVE Call!Resolved(req).resolved
      BY DEF Call!Requests, Call!Resolved
    <3> QED BY <3>1, <3>2, <2>1, <1>p DEF Call!TypeOK
  <2>3. Call!Resolved(request).approval = request.approval
    BY <2>2 DEF Call!Requests, Call!Resolved
  <2>4. toolStatus = "requires-action" BY <2>1 DEF Call!Waiting
  <2>5. mounts' = mounts
    <3>1. Call!ShowsApproval("requires-action", Call!Resolved(request))
          <=> Call!ShowsApproval(toolStatus, request)
      BY <2>4, <1>p, ResolvedShows
    <3>2. /\ cardOpen' = (cardOpen \/ (Call!Waiting("requires-action")
                                       /\ ~Call!Waiting(toolStatus)))
          /\ panel' = (/\ Call!ShowsApproval("requires-action", Call!Resolved(request))
                       /\ cardOpen' \/ (/\ Call!ShowsApproval("requires-action",
                                                             Call!Resolved(request))
                                        /\ panel /\ Call!ShowsApproval(toolStatus, request)))
      BY <2>1, Zenon DEF Call!Render
    <3>3. panel' => panel /\ Call!ShowsApproval(toolStatus, request)
      BY <3>1, <3>2, <2>1, <1>p DEF Held
    <3>4. (panel' /\ ~(panel /\ Call!ShowsApproval(toolStatus, request))) <=> mounts' # mounts
      BY <2>1, <1>p, Rendered
    <3> QED BY <3>3, <3>4
  <2>6. Call!Waiting("requires-action") =>
            asked' # << >> /\ asked'[Len(asked')].approval = Call!Resolved(request).approval
    BY <2>1, <2>3, <1>p DEF Held
  <2>7. ~cardOpen' => folded'
    <3>1. cardOpen' = (cardOpen \/ (Call!Waiting("requires-action")
                                    /\ ~Call!Waiting(toolStatus)))
      BY <2>1 DEF Call!Render
    <3> QED BY <3>1, <2>1, <1>p DEF StaysShown
  <2>8. Call!Resolved(request) \in Call!Requests \cup {Call!Resolved(r) : r \in Call!Requests}
                                   \cup {Call!NoRequest}
    BY <2>2
  <2>9. /\ asked' = asked \o << >> /\ Len(asked') <= MaxRequests /\ mounts' \in 0 .. MaxMounts
        /\ folded' \in BOOLEAN
    BY <2>1, <2>5, <1>e, <1>t
  <2>10. Call!Waiting("requires-action") /\ ~cardOpen' => folded' BY <2>7
  <2> QED BY <2>1, <2>6, <2>8, <2>9, <2>10, <1>e, RenderKeeps
<1>3. ASSUME NEW st \in {"running", "complete", "incomplete"},
             Call!Render(st, Call!NoRequest), UNCHANGED <<asked, sent, folded>>
      PROVE  CallInv'
  <2>1. ~Call!Waiting(st) BY DEF Call!Waiting
  <2>2. mounts' = mounts
    <3>1. panel' => Call!ShowsApproval(st, Call!NoRequest) BY <1>3, <1>p, Rendered
    <3>2. ~panel' BY <3>1, <2>1 DEF Call!ShowsApproval
    <3>3. mounts' # mounts => panel' BY <1>3, <1>p, Rendered
    <3> QED BY <3>2, <3>3
  <2> QED BY <1>3, <2>1, <2>2, <1>e, <1>t, RenderKeeps
<1>4. CASE Call!Resume BY <1>4, <1>3 DEF Call!Resume
<1>5. ASSUME NEW st \in {"complete", "incomplete"}, Call!Settle(st) PROVE CallInv'
  BY <1>5, <1>3 DEF Call!Settle
<1> QED BY <1>1, <1>2, <1>4, <1>5

\* The reader folds or opens the card, and its panel goes.
LEMMA FoldingKeeps ==
    ASSUME Call!OptionsAssumption, CallInv, Call!ToggleCard \/ Call!PanelGone
    PROVE  CallInv'
<1>p. Call!TypeOK /\ Held /\ SentOnce /\ StaysShown /\ Call!AnswersWereOffered BY DEF CallInv
<1>b. MaxMounts \in Nat BY DEF Call!OptionsAssumption
<1>t. /\ cardOpen \in BOOLEAN /\ panel \in BOOLEAN
      /\ asked \in Seq(Call!Requests) /\ mounts \in 0 .. MaxMounts
      /\ sent \in Seq(Sendings(asked, mounts))
  BY <1>p, CallParts
<1>s. Call!ShowsApproval(toolStatus, request) \in BOOLEAN BY DEF Call!ShowsApproval
<1>1. /\ UNCHANGED <<toolStatus, request, asked, sent>>
      /\ mounts' \in 0 .. MaxMounts /\ mounts <= mounts'
      /\ panel' \in BOOLEAN /\ cardOpen' \in BOOLEAN
      /\ panel' => Call!ShowsApproval(toolStatus, request) /\ mounts' >= 1
      /\ cardOpen' /\ Call!ShowsApproval(toolStatus, request) => panel'
      /\ panel' /\ mounts' = mounts => panel
      /\ panel' => submitted' = submitted
      /\ {submitted', folded'} \subseteq BOOLEAN
      /\ confirmingId' \in {confirmingId, None}
      /\ Call!Waiting(toolStatus) /\ ~cardOpen' => folded'
  <2>1. CASE Call!ToggleCard
    <3> DEFINE mount == cardOpen' /\ ~panel /\ Call!ShowsApproval(toolStatus, request)
    <3>1. /\ cardOpen' = ~cardOpen /\ folded' = (cardOpen /\ Call!Waiting(toolStatus))
          /\ panel' = (panel \/ mount)
          /\ UNCHANGED <<toolStatus, request, submitted, confirmingId, asked, sent>>
      BY <2>1, Zenon DEF Call!ToggleCard
    <3>2. (mount => mounts < MaxMounts) /\ mounts' = IF mount THEN mounts + 1 ELSE mounts
      BY <2>1 DEF Call!ToggleCard
    <3>3. mount \in BOOLEAN BY <1>s, <3>1, <1>t
    <3>4. /\ mounts' \in 0 .. MaxMounts /\ mounts <= mounts'
          /\ mounts' = mounts => ~mount
          /\ mounts >= 1 \/ mount => mounts' >= 1
      <4> HIDE DEF mount
      <4> QED BY <3>2, <1>t, <1>b
    <3>5. panel' \in BOOLEAN /\ cardOpen' \in BOOLEAN /\ {submitted', folded'} \subseteq BOOLEAN
      BY <3>1, <3>3, <1>t, CallParts, <1>p DEF Call!Waiting
    <3>6. panel => Call!ShowsApproval(toolStatus, request) /\ mounts >= 1 BY <1>p DEF Held
    <3>7. panel' => Call!ShowsApproval(toolStatus, request) /\ mounts' >= 1
      BY <3>1, <3>4, <3>6
    <3>8. panel' /\ mounts' = mounts => panel BY <3>1, <3>4
    <3>9. cardOpen' /\ Call!ShowsApproval(toolStatus, request) => panel' BY <3>1
    <3>10. Call!Waiting(toolStatus) /\ ~cardOpen' => folded' BY <3>1
    <3> QED BY <3>1, <3>4, <3>5, <3>7, <3>8, <3>9, <3>10
  <2>2. CASE Call!PanelGone
    <3>1. /\ panel /\ ~cardOpen /\ ~panel' /\ ~submitted' /\ confirmingId' = None
          /\ panel' \in BOOLEAN /\ submitted' \in BOOLEAN
          /\ UNCHANGED <<toolStatus, request, cardOpen, asked, sent, mounts, folded>>
      BY <2>2 DEF Call!PanelGone
    <3>2. folded \in BOOLEAN BY <1>p, CallParts
    <3>3. mounts <= mounts BY <1>t
    <3>4. Call!Waiting(toolStatus) /\ ~cardOpen => folded BY <1>p DEF StaysShown
    <3> QED BY <3>1, <3>2, <3>3, <3>4, <1>t
  <2> QED BY <2>1, <2>2
<1>2. Call!TypeOK'
  <2>1. sent \in Seq(Sendings(asked, mounts'))
    <3>1. 1 .. mounts \subseteq 1 .. mounts' BY <1>1, <1>t, <1>b
    <3>2. Sendings(asked, mounts) \subseteq Sendings(asked, mounts') BY <3>1 DEF Sendings
    <3> QED BY <3>2, <1>t, SendingsGrow
  <2>2. confirmingId' \in Options \cup {None} BY <1>1, <1>p DEF Call!TypeOK
  <2> QED BY <2>1, <2>2, <1>1, <1>p DEF Call!TypeOK, Sendings
<1>3. Held'
  <2>1. ASSUME panel', ~submitted', NEW i \in DOMAIN sent PROVE sent[i].mount # mounts'
    <3>1. CASE mounts' = mounts BY <3>1, <2>1, <1>1, <1>p DEF Held
    <3>2. CASE mounts' # mounts
      <4>1. sent[i] \in Sendings(asked, mounts) BY <1>t
      <4>2. sent[i].mount \in 1 .. mounts BY <4>1 DEF Sendings
      <4> QED BY <4>2, <3>2, <1>1, <1>t, <1>b
    <3> QED BY <3>1, <3>2
  <2>2. Call!Waiting(toolStatus) =>
            asked # << >> /\ asked[Len(asked)].approval = request.approval
    BY <1>p DEF Held
  <2> QED BY <2>1, <2>2, <1>1 DEF Held, Call!Waiting, Call!ShowsApproval, Call!Offers
<1>4. SentOnce' BY <1>1, <1>p DEF SentOnce
<1>5. StaysShown' BY <1>1 DEF StaysShown, Call!Waiting
<1>6. Call!AnswersWereOffered'
  BY <1>1, <1>p DEF Call!AnswersWereOffered, Call!Usable, Call!Listed, Call!HasList,
                    Call!Declared
<1> QED BY <1>2, <1>3, <1>4, <1>5, <1>6 DEF CallInv

LEMMA CallStep ==
    ASSUME Call!OptionsAssumption PROVE CallInv /\ [Call!Next]_(Call!vars) => CallInv'
<1> SUFFICES ASSUME CallInv, [Call!Next]_(Call!vars) PROVE CallInv' OBVIOUS
<1>1. CASE UNCHANGED Call!vars
  <2>1. UNCHANGED <<toolStatus, request, cardOpen, panel, submitted, confirmingId, asked, sent,
                    mounts, folded>>
    BY <1>1 DEF Call!vars
  <2>2. Call!TypeOK' BY <2>1 DEF CallInv, Call!TypeOK
  <2>3. Held' BY <2>1 DEF CallInv, Held, Call!Waiting, Call!ShowsApproval, Call!Offers
  <2>4. SentOnce' /\ StaysShown' BY <2>1 DEF CallInv, SentOnce, StaysShown, Call!Waiting
  <2>5. Call!AnswersWereOffered'
    BY <2>1 DEF CallInv, Call!AnswersWereOffered, Call!Usable, Call!Listed, Call!HasList,
                Call!Declared
  <2> QED BY <2>2, <2>3, <2>4, <2>5 DEF CallInv
<1>2. CASE Call!Next BY <1>2, RuntimeKeeps, ReaderKeeps, FoldingKeeps DEF Call!Next
<1> QED BY <1>1, <1>2

\* The approval of a tool call (RequiresActionControls of tool-fallback.tsx) is
\* answered with what its request offered, once per mounting of its controls,
\* and can be refused while it waits, whatever the runtime asks.
THEOREM ApprovalIsAnswered ==
    ASSUME Call!OptionsAssumption
    PROVE  Call!Spec => [](/\ Call!AnswersWereOffered /\ Call!AnsweredOncePerMount
                           /\ Call!WaitingIsShown)
<1> DEFINE Good == Call!AnswersWereOffered /\ Call!AnsweredOncePerMount /\ Call!WaitingIsShown
<1>1. Call!Init => CallInv BY CallInit
<1>2. CallInv /\ [Call!Next]_(Call!vars) => CallInv' BY CallStep
<1>3. CallInv => Good BY CallShows
<1> QED BY <1>1, <1>2, <1>3, PTL DEF Call!Spec
-----------------------------------------------------------------------------
(* The sidebar                                                             *)

\* Some set of a family of subsets of a finite set contains no other of it.
LEMMA SmallestOf ==
    ASSUME NEW S, IsFiniteSet(S), NEW F \in SUBSET (SUBSET S), F # {}
    PROVE  \E A \in F : \A B \in F : B \subseteq A => B = A
<1>1. IsWellFoundedOn(StrictSubsetOrdering(S), FiniteSubsetsOf(S))
  BY FS_StrictSubsetOrderingWellFounded
<1>2. F \subseteq FiniteSubsetsOf(S) BY FS_FiniteSubsetsOfFinite
<1>3. PICK A \in F : \A B \in F : ~(<<B, A>> \in StrictSubsetOrdering(S))
  BY <1>1, <1>2, WFMin
<1>4. ASSUME NEW B \in F, B \subseteq A, B # A PROVE FALSE
  <2>1. <<B, A>> \in StrictSubsetOrdering(S) BY <1>4 DEF StrictSubsetOrdering
  <2> QED BY <2>1, <1>3
<1> QED BY <1>3, <1>4

\* The elements of a page are trees.
LEMMA Trees ==
    ASSUME Side!SidebarShape
    PROVE  /\ IsFiniteSet(Elements)
           /\ \A e \in Elements : e \in Enclosing[e] /\ Enclosing[e] \subseteq Elements
           /\ \A e \in Elements : \A a \in Enclosing[e] : Enclosing[a] \subseteq Enclosing[e]
           /\ \A a, b \in Elements : a \in Enclosing[b] /\ b \in Enclosing[a] => a = b
           /\ \A e \in Elements : \A a, b \in Enclosing[e] :
                  a \in Enclosing[b] \/ b \in Enclosing[a]
<1>1. IsFiniteSet(Elements) BY DEF Side!SidebarShape, Side!IsFiniteSet, IsFiniteSet
<1> QED BY <1>1 DEF Side!SidebarShape

LEMMA OutermostIsOne ==
    ASSUME Side!SidebarShape, mounted \in Seq(Wrappers),
           NEW S \in SUBSET Side!ToSet(mounted), S # {}
    PROVE  \E p \in S : \A q : Side!Outermost(q, S) <=> q = p
<1>s. S \subseteq Elements /\ S \subseteq Side!ToSet(mounted)
  BY DEF Side!ToSet, Side!SidebarShape
<1>1. PICK p \in S : Side!Top(p, S)
  <2> DEFINE F == {Enclosing[p] : p \in S}
  <2>1. F \in SUBSET (SUBSET Elements) /\ F # {} BY <1>s, Trees
  <2>2. PICK A \in F : \A B \in F : B \subseteq A => B = A
    <3>1. IsFiniteSet(Elements) BY Trees
    <3> HIDE DEF F
    <3> QED BY <2>1, <3>1, SmallestOf
  <2>3. PICK p \in S : A = Enclosing[p] BY <2>2
  <2>4. ASSUME NEW q \in S \ {p}, q \in Enclosing[p] PROVE FALSE
    <3>1. Enclosing[q] \subseteq Enclosing[p] BY <2>4, <1>s, Trees
    <3>2. Enclosing[q] = Enclosing[p] BY <3>1, <2>2, <2>3
    <3>3. p \in Enclosing[q] BY <3>2, <1>s, Trees
    <3> QED BY <3>3, <2>4, <1>s, Trees
  <2> QED BY <2>4 DEF Side!Top, Side!Encloses
<1> DEFINE I == {i \in DOMAIN mounted : Side!Top(mounted[i], S)}
<1>2. \E i \in I : TRUE
  <2>1. PICK i \in DOMAIN mounted : mounted[i] = p BY <1>1, <1>s DEF Side!ToSet
  <2> QED BY <2>1, <1>1
<1>3. PICK i \in I : \A j \in I : ~(j < i)
  <2> DEFINE F == {1 .. k : k \in I}
  <2>1. IsFiniteSet(1 .. Len(mounted)) BY FS_Interval
  <2>2. I \subseteq 1 .. Len(mounted) /\ Len(mounted) \in Nat OBVIOUS
  <2>3. F \in SUBSET (SUBSET (1 .. Len(mounted))) /\ F # {}
    <3>1. \A k \in I : 1 .. k \subseteq 1 .. Len(mounted) BY <2>2
    <3> QED BY <3>1, <1>2
  <2>4. PICK A \in F : \A B \in F : B \subseteq A => B = A
    <3> DEFINE D == 1 .. Len(mounted)
    <3>1. IsFiniteSet(D) /\ F \in SUBSET (SUBSET D) /\ F # {} BY <2>1, <2>3
    <3> HIDE DEF F, D
    <3> QED BY <3>1, SmallestOf
  <2>5. PICK i \in I : A = 1 .. i BY <2>4
  <2>6. ASSUME NEW j \in I, j < i PROVE FALSE
    <3>1. i \in Nat /\ j \in Nat /\ i >= 1 BY <2>2
    <3>2. 1 .. j \subseteq 1 .. i BY <3>1, <2>6
    <3>3. 1 .. j = 1 .. i
      <4>1. 1 .. j \in F BY <2>6
      <4> HIDE DEF F
      <4> QED BY <4>1, <3>2, <2>4, <2>5
    <3>4. i \in 1 .. i /\ i \notin 1 .. j BY <3>1, <2>6
    <3> QED BY <3>3, <3>4
  <2> QED BY <2>6
<1>4. mounted[i] \in S BY <1>3 DEF Side!Top
<1>5. ASSUME NEW q, Side!Outermost(q, S) PROVE q = mounted[i]
  <2>1. PICK k \in DOMAIN mounted :
            mounted[k] = q /\ Side!Top(q, S) /\ \A j \in 1 .. k - 1 : ~Side!Top(mounted[j], S)
    BY <1>5 DEF Side!Outermost
  <2>2. i \in Nat /\ k \in Nat /\ i >= 1 /\ k >= 1 OBVIOUS
  <2>3. ~(k < i) BY <2>1, <1>3
  <2>4. ~(i < k)
    <3>1. i < k => i \in 1 .. k - 1 BY <2>2
    <3>2. Side!Top(mounted[i], S) BY <1>3
    <3> QED BY <3>1, <3>2, <2>1
  <2>5. i = k BY <2>2, <2>3, <2>4
  <2> QED BY <2>1, <2>5
<1>6. Side!Outermost(mounted[i], S)
  <2>1. ASSUME NEW j \in 1 .. i - 1, Side!Top(mounted[j], S) PROVE FALSE
    <3>1. j \in DOMAIN mounted /\ j < i BY <2>1
    <3> QED BY <3>1, <2>1, <1>3
  <2>2. i \in DOMAIN mounted /\ Side!Top(mounted[i], S) BY <1>3
  <2> QED BY <2>1, <2>2 DEF Side!Outermost
<1> QED BY <1>4, <1>5, <1>6

\* Who answers a key depends on whether a provider is inside its target, or
\* else around it.
LEMMA AnswersIsOne ==
    ASSUME Side!SidebarShape, mounted \in Seq(Wrappers), Side!ToSet(mounted) # {}
    PROVE  Side!OneProviderAnswers
<1> DEFINE M == Side!ToSet(mounted)
<1>m. M \subseteq Wrappers /\ M \subseteq Elements BY DEF Side!ToSet, Side!SidebarShape
<1> SUFFICES ASSUME NEW e \in Elements \ Wrappers
             PROVE  \E p \in M : \A q \in M : Side!Answers(q, e) <=> q = p
  BY DEF Side!OneProviderAnswers
<1> DEFINE wrapped == {p \in M : e \in Enclosing[p]}
           around  == {p \in M : p \in Enclosing[e]}
<1> HIDE DEF M
<1>e. e \in Elements /\ e \notin M BY <1>m
<1>d. \A p \in M : ~(e \in Enclosing[p] /\ p \in Enclosing[e]) BY <1>e, <1>m, Trees
<1>a. \A q : Side!Answers(q, e) <=>
        IF q \in Enclosing[e]
        THEN /\ ~\E p \in M \ {q} : q \in Enclosing[p] /\ p \in Enclosing[e]
             /\ ~\E p \in M \ {q} : e \in Enclosing[p]
        ELSE IF wrapped # {} THEN Side!Outermost(q, wrapped)
        ELSE /\ ~\E p \in M \ {q} : p \in Enclosing[e]
             /\ Side!Outermost(q, M)
  BY DEF Side!Answers, Side!Others, Side!Encloses, M
<1>1. CASE wrapped # {}
  <2>1. PICK p \in wrapped : \A q : Side!Outermost(q, wrapped) <=> q = p
    <3>1. wrapped \in SUBSET Side!ToSet(mounted) BY DEF M
    <3> QED BY <3>1, <1>1, OutermostIsOne
  <2>2. p \in M /\ p \notin Enclosing[e] BY <2>1, <1>d
  <2>3. ASSUME NEW q \in M PROVE Side!Answers(q, e) <=> q = p
    <3>1. CASE q \in Enclosing[e]
      <4>1. p \in M \ {q} /\ e \in Enclosing[p] BY <3>1, <2>1, <2>2
      <4>2. q # p BY <4>1
      <4> QED BY <4>1, <4>2, <3>1, <1>a
    <3>2. CASE q \notin Enclosing[e] BY <3>2, <1>1, <2>1, <1>a
    <3> QED BY <3>1, <3>2
  <2> QED BY <2>2, <2>3
<1>2. CASE wrapped = {} /\ around # {}
  <2> DEFINE F == {Enclosing[e] \ Enclosing[p] : p \in around}
  <2>1. F \in SUBSET (SUBSET Elements) /\ F # {}
    <3>1. Enclosing[e] \subseteq Elements BY <1>e, Trees
    <3>2. \A B \in F : B \in SUBSET Elements BY <3>1
    <3>3. PICK p \in around : TRUE BY <1>2
    <3>4. Enclosing[e] \ Enclosing[p] \in F BY <3>3
    <3> QED BY <3>2, <3>4
  <2>2. PICK A \in F : \A B \in F : B \subseteq A => B = A
    <3>1. IsFiniteSet(Elements) BY Trees
    <3> HIDE DEF F
    <3> QED BY <2>1, <3>1, SmallestOf
  <2>3. PICK p \in around : A = Enclosing[e] \ Enclosing[p] BY <2>2
  <2>4. p \in M /\ p \in Elements /\ p \in Enclosing[e] BY <2>3, <1>m
  <2>5. ASSUME NEW q \in M, p \in Enclosing[q], q \in Enclosing[e] PROVE q = p
    <3>1. q \in Elements BY <1>m
    <3>2. Enclosing[p] \subseteq Enclosing[q] BY <2>5, <3>1, Trees
    <3>3. Enclosing[e] \ Enclosing[q] \in F BY <2>5
    <3>4. Enclosing[e] \ Enclosing[q] = Enclosing[e] \ Enclosing[p]
      BY <3>2, <3>3, <2>2, <2>3
    <3>5. q \in Enclosing[q] BY <3>1, Trees
    <3>6. q \in Enclosing[p] BY <3>4, <3>5, <2>5
    <3> QED BY <3>6, <2>5, <3>1, <2>4, Trees
  <2>6. \A r \in M : e \notin Enclosing[r] BY <1>2
  <2>7. Side!Answers(p, e) BY <2>4, <2>5, <2>6, <1>a
  <2>8. ASSUME NEW q \in M, q # p PROVE ~Side!Answers(q, e)
    <3>1. CASE q \in Enclosing[e]
      <4>1. p \notin Enclosing[q] BY <3>1, <2>5, <2>8
      <4>2. q \in Enclosing[p] BY <4>1, <3>1, <2>4, <1>e, Trees
      <4>3. p \in M \ {q} BY <2>4, <2>8
      <4> QED BY <4>2, <4>3, <3>1, <2>4, <1>a
    <3>2. CASE q \notin Enclosing[e]
      <4>1. p \in M \ {q} BY <2>4, <2>8
      <4> QED BY <4>1, <3>2, <2>4, <1>2, <1>a
    <3> QED BY <3>1, <3>2
  <2> QED BY <2>4, <2>7, <2>8
<1>3. CASE wrapped = {} /\ around = {}
  <2>1. PICK p \in M : \A q : Side!Outermost(q, M) <=> q = p
    <3>1. M \in SUBSET Side!ToSet(mounted) /\ M # {} BY DEF M
    <3> QED BY <3>1, OutermostIsOne
  <2>2. \A q \in M : q \notin Enclosing[e] BY <1>3
  <2> QED BY <2>1, <2>2, <1>3, <1>a
<1> QED BY <1>1, <1>2, <1>3

\* What the sidebar keeps of itself.
SideInv == /\ Side!TypeOK /\ Side!PinnedNeverPeeks /\ Side!ResizingIsADrag
           /\ Main \in Side!ToSet(mounted)

SideLocals == [on : BOOLEAN, moved : BOOLEAN, collapsed : BOOLEAN]

LEMMA SideParts ==
    ASSUME SideInv
    PROVE  /\ open \in BOOLEAN /\ openMobile \in BOOLEAN /\ mobile \in BOOLEAN
           /\ peeking \in BOOLEAN /\ inside \in BOOLEAN /\ resizing \in BOOLEAN /\ flip \in BOOLEAN
           /\ cookie \in {"unset", "open", "closed"} /\ width \in Nat
           /\ timer \in {"none", "peek", "dismiss"} /\ pointer \in Side!Places
           /\ over \in {"page", "strip", "card", "trigger"}
           /\ drag \in SideLocals
           /\ sheet \in [closing : BOOLEAN, selfClosing : BOOLEAN, wasOpen : BOOLEAN]
           /\ group \in [open : BOOLEAN, settled : BOOLEAN, toggling : BOOLEAN]
           /\ mounted \in Seq(Wrappers) /\ Main \in Side!ToSet(mounted)
           /\ (open => ~peeking /\ timer = "none")
           /\ (resizing <=> drag.on /\ drag.moved)
  BY DEF SideInv, Side!TypeOK, Side!PinnedNeverPeeks, Side!ResizingIsADrag, SideLocals

\* What a step has to show.
LEMMA SideShown ==
    ASSUME open' \in BOOLEAN, openMobile' \in BOOLEAN, mobile' \in BOOLEAN,
           peeking' \in BOOLEAN, inside' \in BOOLEAN, resizing' \in BOOLEAN, flip' \in BOOLEAN,
           cookie' \in {"unset", "open", "closed"}, width' \in Nat,
           timer' \in {"none", "peek", "dismiss"}, pointer' \in Side!Places,
           over' \in {"page", "strip", "card", "trigger"},
           drag' \in SideLocals,
           sheet' \in [closing : BOOLEAN, selfClosing : BOOLEAN, wasOpen : BOOLEAN],
           group' \in [open : BOOLEAN, settled : BOOLEAN, toggling : BOOLEAN],
           mounted' \in Seq(Wrappers), Main \in Side!ToSet(mounted'),
           open' => ~peeking' /\ timer' = "none",
           resizing' <=> drag'.on /\ drag'.moved
    PROVE  SideInv'
<1>1. Side!TypeOK' BY DEF Side!TypeOK, SideLocals, Side!Places
<1>2. Side!PinnedNeverPeeks' BY DEF Side!PinnedNeverPeeks
<1>3. Side!ResizingIsADrag' BY DEF Side!ResizingIsADrag
<1>4. Side!ToSet(mounted)' = Side!ToSet(mounted') BY DEF Side!ToSet
<1> QED BY <1>1, <1>2, <1>3, <1>4 DEF SideInv

\* Opening ends the peek and its timer; closing leaves them off.
LEMMA OpenSet ==
    ASSUME SideInv, NEW next \in BOOLEAN, Side!SetOpen(next), resizing' \in BOOLEAN
    PROVE  /\ open' = next /\ cookie' \in {"open", "closed"} /\ flip' \in BOOLEAN
           /\ peeking' \in BOOLEAN /\ inside' = inside
           /\ timer' \in {timer, "none"}
           /\ open' => ~peeking' /\ timer' = "none"
<1>1. /\ open' = next /\ cookie' \in {"open", "closed"} /\ inside' = inside
  BY DEF Side!SetOpen, Side!PeekEffect
<1>2. flip' = (resizing' /\ (flip \/ open' # open)) BY DEF Side!SetOpen, Side!FlipEffect
<1>3. timer' = IF open' /\ ~open THEN "none" ELSE timer BY DEF Side!SetOpen, Side!PeekEffect
<1>4. peeking' = (peeking /\ ~(open' /\ ~open)) BY DEF Side!SetOpen, Side!PeekEffect
<1>5. flip' \in BOOLEAN
  <2>1. flip \in BOOLEAN BY SideParts
  <2> QED BY <2>1, <1>2
<1>6. peeking' \in BOOLEAN /\ (open' => ~peeking' /\ timer' = "none")
  BY <1>3, <1>4, SideParts
<1>7. timer' \in {timer, "none"} BY <1>3
<1> QED BY <1>1, <1>5, <1>6, <1>7

\* The sidebar is toggled: on a narrow screen its drawer, or else the rail.
LEMMA Toggled ==
    ASSUME SideInv, Side!ToggleSidebar, UNCHANGED <<mobile, pointer, group, mounted>>,
           over' \in {"page", "strip", "card", "trigger"}
    PROVE  SideInv'
<1>1. CASE mobile
  <2>1. /\ openMobile' = ~openMobile /\ sheet' = Side!SheetEffect(~openMobile)
        /\ UNCHANGED <<open, cookie, peeking, timer, inside, drag, resizing, flip, width>>
    BY <1>1 DEF Side!ToggleSidebar, Side!peekVars, Side!dragVars
  <2>2. sheet' \in [closing : BOOLEAN, selfClosing : BOOLEAN, wasOpen : BOOLEAN]
    BY <2>1, SideParts DEF Side!SheetEffect
  <2>3. openMobile' \in BOOLEAN BY <2>1
  <2> QED BY <2>1, <2>2, <2>3, SideParts, SideShown
<1>2. CASE ~mobile
  <2>1. /\ UNCHANGED <<resizing, width, openMobile, sheet>>
        /\ Side!SetOpen(~open) /\ Side!RailEffect(drag)
    BY <1>2 DEF Side!ToggleSidebar
  <2>2. resizing' \in BOOLEAN /\ (~open) \in BOOLEAN
    <3>1. resizing' = resizing BY <2>1
    <3>2. (~open) \in BOOLEAN BY Zenon
    <3> QED BY <3>1, <3>2, SideParts
  <2>3. /\ open' = ~open /\ cookie' \in {"open", "closed"} /\ flip' \in BOOLEAN
        /\ peeking' \in BOOLEAN /\ inside' = inside
        /\ timer' \in {timer, "none"}
        /\ open' => ~peeking' /\ timer' = "none"
    BY <2>1, <2>2, OpenSet
  <2>4. drag' = drag \/ (drag' = Side!NoDrag /\ ~resizing') BY <2>1 DEF Side!RailEffect
  <2>5. drag' \in SideLocals /\ (resizing' <=> drag'.on /\ drag'.moved)
    <3>1. CASE drag' = drag BY <3>1, <2>1, SideParts
    <3>2. CASE drag' = Side!NoDrag /\ ~resizing' BY <3>2 DEF Side!NoDrag, SideLocals
    <3> QED BY <2>4, <3>1, <3>2
  <2> QED BY <2>1, <2>2, <2>3, <2>5, SideParts, SideShown
<1> QED BY <1>1, <1>2

\* The end of two sequences put together is the second.
LEMMA BehindJoin ==
    ASSUME NEW S, NEW s \in Seq(S), NEW t \in Seq(S), NEW k \in 1 .. Len(t)
    PROVE  Len(s) + k \in DOMAIN (s \o t) /\ (s \o t)[Len(s) + k] = t[k]
  OBVIOUS

\* The key, and the providers that come and go.
LEMMA KeyStep ==
    ASSUME Side!SidebarShape, SideInv,
           \/ \E e \in Elements : Side!PressShortcut(e)
           \/ \E p \in Wrappers : Side!Mount(p) \/ Side!Unmount(p)
    PROVE  SideInv'
<1>1. ASSUME NEW e \in Elements, Side!PressShortcut(e) PROVE SideInv'
  <2>1. over' \in {"page", "strip", "card", "trigger"} BY <1>1, SideParts DEF Side!PressShortcut
  <2> QED BY <1>1, <2>1, Toggled DEF Side!PressShortcut
<1>0. ASSUME mounted' \in Seq(Wrappers), Main \in Side!ToSet(mounted'),
             UNCHANGED <<open, openMobile, mobile, cookie, peeking, timer, inside, pointer, over,
                         drag, resizing, flip, width, sheet, group>>
      PROVE  SideInv'
  BY <1>0, SideParts, SideShown
<1>2. ASSUME NEW p \in Wrappers, Side!Mount(p) PROVE SideInv'
  <2>1. /\ mounted' = Append(mounted, p)
        /\ UNCHANGED <<open, openMobile, mobile, cookie, peeking, timer, inside, pointer, over,
                       drag, resizing, flip, width, sheet, group>>
    BY <1>2 DEF Side!Mount, Side!peekVars, Side!dragVars
  <2>2. mounted \in Seq(Wrappers) /\ Main \in Side!ToSet(mounted) BY SideParts
  <2>3. PICK i \in DOMAIN mounted : mounted[i] = Main BY <2>2 DEF Side!ToSet
  <2>4. mounted' \in Seq(Wrappers) /\ i \in DOMAIN mounted' /\ mounted'[i] = Main
    BY <2>1, <2>2, <2>3
  <2>5. Main \in Side!ToSet(mounted') BY <2>4 DEF Side!ToSet
  <2> QED BY <2>1, <2>4, <2>5, <1>0
<1>3. ASSUME NEW p \in Wrappers, Side!Unmount(p) PROVE SideInv'
  <2>1. /\ p # Main
        /\ UNCHANGED <<open, openMobile, mobile, cookie, peeking, timer, inside, pointer, over,
                       drag, resizing, flip, width, sheet, group>>
    BY <1>3 DEF Side!Unmount, Side!peekVars, Side!dragVars
  <2>2. PICK i \in DOMAIN mounted :
            mounted[i] = p /\ mounted' = SubSeq(mounted, 1, i - 1) \o SubSeq(mounted, i + 1, Len(mounted))
    BY <1>3 DEF Side!Unmount, Side!RemoveAt
  <2>3. mounted \in Seq(Wrappers) /\ Main \in Side!ToSet(mounted) BY SideParts
  <2>4. PICK m \in DOMAIN mounted : mounted[m] = Main BY <2>3 DEF Side!ToSet
  <2> DEFINE before == SubSeq(mounted, 1, i - 1)
             after == SubSeq(mounted, i + 1, Len(mounted))
  <2>5. /\ before \in Seq(Wrappers) /\ Len(before) = i - 1
        /\ \A k \in 1 .. i - 1 : before[k] = mounted[k]
    BY <2>3
  <2>6. /\ after \in Seq(Wrappers) /\ Len(after) = Len(mounted) - i
        /\ \A k \in 1 .. Len(mounted) - i : after[k] = mounted[i + k]
    BY <2>3
  <2> HIDE DEF before, after
  <2>7. mounted' = before \o after BY <2>2 DEF before, after
  <2>8. mounted' \in Seq(Wrappers) BY <2>5, <2>6, <2>7
  <2>9. m # i BY <2>1, <2>2, <2>4
  <2>10. CASE m < i
    <3>1. m \in 1 .. i - 1 BY <2>10, <2>3
    <3>2. m \in DOMAIN mounted' /\ mounted'[m] = before[m] BY <3>1, <2>5, <2>6, <2>7, <2>3
    <3>3. mounted'[m] = Main BY <3>1, <3>2, <2>5, <2>4
    <3> QED BY <3>2, <3>3, <2>1, <2>8, <1>0 DEF Side!ToSet
  <2>11. CASE m > i
    <3>1. m - i \in 1 .. Len(mounted) - i BY <2>11, <2>3
    <3>2. m - 1 \in DOMAIN mounted' /\ mounted'[m - 1] = after[m - i]
      <4>1. m - 1 = Len(before) + (m - i) BY <2>5, <2>3
      <4>2. m - i \in 1 .. Len(after) BY <3>1, <2>6
      <4> QED BY <4>1, <4>2, <2>5, <2>6, <2>7, BehindJoin
    <3>3. after[m - i] = mounted[m] BY <3>1, <2>6, <2>3
    <3>4. Main \in Side!ToSet(mounted') BY <3>2, <3>3, <2>4 DEF Side!ToSet
    <3> QED BY <3>4, <2>1, <2>8, <1>0
  <2>12. m < i \/ m > i BY <2>9, <2>3
  <2> QED BY <2>10, <2>11, <2>12
<1> QED BY <1>1, <1>2, <1>3

\* A boundary event sets the timer of a sidebar only that is collapsed.
LEMMA CrossedTimer ==
    ASSUME SideInv, NEW to
    PROVE  /\ Side!Crossed(to) \in {"none", "peek", "dismiss"}
           /\ open => Side!Crossed(to) = timer
<1> DEFINE hovers == Peek = "hover" /\ ~open /\ ~mobile
           shell  == {"strip", "card"}
           left   == IF ~peeking /\ (over = "trigger" \/ (over \in shell /\ to \notin shell))
                     THEN "none" ELSE timer
           stays  == ~hovers \/ resizing \/ over = to
<1>1. Side!Crossed(to) =
          IF stays THEN timer
          ELSE CASE to = "strip"    -> "peek"
                 [] to = "card"     -> IF over = "strip" THEN timer ELSE "none"
                 [] to = "trigger"  -> IF peeking THEN "none" ELSE "peek"
                 [] OTHER           -> left
  BY DEF Side!Crossed
<1>2. timer \in {"none", "peek", "dismiss"} BY SideParts
<1>3. left \in {"none", "peek", "dismiss"} BY <1>2
<1>4. open => stays OBVIOUS
<1>5. stays \in BOOLEAN OBVIOUS
<1> HIDE DEF left, stays
<1>6. CASE stays
  <2>1. Side!Crossed(to) = timer BY <1>1, <1>6
  <2> QED BY <2>1, <1>2
<1>7. CASE ~stays
  <2>1. Side!Crossed(to) =
            CASE to = "strip"      -> "peek"
              [] to = "card"       -> IF over = "strip" THEN timer ELSE "none"
              [] to = "trigger"    -> IF peeking THEN "none" ELSE "peek"
              [] OTHER             -> left
    BY <1>1, <1>7
  <2>2. Side!Crossed(to) \in {"none", "peek", timer, left}
    <3>1. CASE to = "strip" BY <2>1, <3>1
    <3>2. CASE to = "card" BY <2>1, <3>2
    <3>3. CASE to = "trigger" BY <2>1, <3>3
    <3>4. CASE to \notin {"strip", "card", "trigger"} BY <2>1, <3>4
    <3> QED BY <3>1, <3>2, <3>3, <3>4
  <2> QED BY <2>2, <1>2, <1>3, <1>4, <1>7
<1> QED BY <1>6, <1>7

LEMMA HitPlaces == ASSUME NEW p PROVE Side!Hit(p) \in {"page", "strip", "card", "trigger"}
  BY DEF Side!Hit

\* The peek and its timer.
LEMMA PeekStep ==
    ASSUME SideInv,
           \/ \E p \in Side!Places : Side!Move(p)
           \/ Side!Relayout \/ Side!TimerFires \/ Side!ClickStrip \/ Side!Dismiss
           \/ Side!ClickTrigger
    PROVE  SideInv'
<1>0. ASSUME timer' \in {"none", "peek", "dismiss"}, peeking' \in BOOLEAN, inside' \in BOOLEAN,
             pointer' \in Side!Places, over' \in {"page", "strip", "card", "trigger"},
             open => ~peeking' /\ timer' = "none",
             UNCHANGED <<open, openMobile, mobile, cookie, drag, resizing, flip, width, sheet,
                         group, mounted>>
      PROVE  SideInv'
  BY <1>0, SideParts, SideShown
<1>p. /\ peeking \in BOOLEAN /\ inside \in BOOLEAN /\ pointer \in Side!Places
      /\ timer \in {"none", "peek", "dismiss"} /\ over \in {"page", "strip", "card", "trigger"}
      /\ open => ~peeking /\ timer = "none"
  BY SideParts
<1> USE DEF Side!dragVars
<1>1. ASSUME NEW p \in Side!Places, Side!Move(p) PROVE SideInv'
  <2> DEFINE watched == Side!PeekEnabled /\ peeking /\ Peek = "hover"
             within  == p \in Side!InBox /\ ~mobile
  <2>1. /\ pointer' = p /\ over' = Side!Hit(p)
        /\ inside' = IF watched THEN within ELSE inside
        /\ UNCHANGED <<open, openMobile, mobile, cookie, peeking, drag, resizing, flip, width,
                       sheet, group, mounted>>
    BY <1>1 DEF Side!Move
  <2>2. timer' = CASE watched /\ within             -> "none"
                   [] watched /\ ~within /\ inside  -> "dismiss"
                   [] OTHER                         -> Side!Crossed(Side!Hit(p))
    BY <1>1 DEF Side!Move
  <2>3. within \in BOOLEAN OBVIOUS
  <2>4. watched => ~open BY DEF Side!PeekEnabled
  <2> HIDE DEF watched, within
  <2>5. timer' \in {"none", "peek", "dismiss"} BY <2>2, CrossedTimer
  <2>6. open => timer' = "none" BY <2>2, <2>4, CrossedTimer, <1>p
  <2>7. inside' \in BOOLEAN BY <2>1, <2>3, <1>p
  <2> QED BY <2>1, <2>5, <2>6, <2>7, HitPlaces, <1>p, <1>0
<1>2. CASE Side!Relayout
  <2>1. /\ timer' = Side!Crossed(Side!Hit(pointer)) /\ over' = Side!Hit(pointer)
        /\ UNCHANGED <<open, openMobile, mobile, cookie, peeking, inside, pointer, drag, resizing,
                       flip, width, sheet, group, mounted>>
    BY <1>2 DEF Side!Relayout
  <2> QED BY <2>1, CrossedTimer, HitPlaces, <1>p, <1>0
<1>3. CASE Side!TimerFires
  <2>1. /\ timer # "none" /\ timer' = "none" /\ peeking' = (timer = "peek")
        /\ inside' = TRUE \/ inside' = inside
        /\ UNCHANGED <<open, openMobile, mobile, cookie, pointer, over, drag, resizing, flip,
                       width, sheet, group, mounted>>
    BY <1>3 DEF Side!TimerFires, Side!Show
  <2> QED BY <2>1, <1>p, <1>0
<1>4. CASE Side!ClickStrip
  <2>1. /\ ~open /\ timer' = "none" /\ peeking' = TRUE
        /\ inside' = TRUE \/ inside' = inside
        /\ UNCHANGED <<open, openMobile, mobile, cookie, pointer, over, drag, resizing, flip,
                       width, sheet, group, mounted>>
    BY <1>4 DEF Side!ClickStrip, Side!Show, Side!PeekEnabled
  <2> QED BY <2>1, <1>p, <1>0
<1>5. CASE Side!Dismiss
  <2>1. /\ peeking' = FALSE /\ inside' = inside
        /\ UNCHANGED <<open, openMobile, mobile, cookie, timer, pointer, over, drag, resizing,
                       flip, width, sheet, group, mounted>>
    BY <1>5 DEF Side!Dismiss, Side!Show
  <2> QED BY <2>1, <1>p, <1>0
<1>6. CASE Side!ClickTrigger
  <2>1. Side!ToggleSidebar /\ UNCHANGED <<mobile, pointer, over, group, mounted>>
    BY <1>6 DEF Side!ClickTrigger
  <2> QED BY <2>1, <1>p, Toggled
<1> QED BY <1>1, <1>2, <1>3, <1>4, <1>5, <1>6

\* The gesture on the rail.
LEMMA RailStep ==
    ASSUME Side!SidebarShape, SideInv,
           \/ Side!PressRail \/ \E raw \in RawWidths : Side!DragTo(raw)
           \/ Side!ReleaseRail \/ Side!CancelRail \/ Side!FlipLands
    PROVE  SideInv'
<1>0. ASSUME drag' \in SideLocals, resizing' \in BOOLEAN, resizing' <=> drag'.on /\ drag'.moved,
             flip' \in BOOLEAN, width' \in Nat,
             UNCHANGED <<open, openMobile, mobile, cookie, peeking, timer, inside, pointer, over,
                         sheet, group, mounted>>
      PROVE  SideInv'
  BY <1>0, SideParts, SideShown
<1>p. drag \in SideLocals /\ width \in Nat /\ flip \in BOOLEAN /\ (~open) \in BOOLEAN
      /\ resizing \in BOOLEAN /\ (resizing <=> drag.on /\ drag.moved)
  <2>1. (~open) \in BOOLEAN BY Zenon
  <2> QED BY <2>1, SideParts
<1>n. Side!NoDrag \in SideLocals /\ ~Side!NoDrag.on BY DEF Side!NoDrag, SideLocals
<1>f. ASSUME Side!FlipEffect, resizing' \in BOOLEAN PROVE flip' \in BOOLEAN
  <2>1. flip' = (resizing' /\ (flip \/ open' # open)) BY <1>f DEF Side!FlipEffect
  <2> QED BY <2>1, <1>f, <1>p
<1> USE DEF Side!dragVars, Side!peekVars
<1>1. CASE Side!PressRail
  <2>1. /\ ~drag.on /\ drag' = [Side!NoDrag EXCEPT !.on = TRUE]
        /\ UNCHANGED <<open, openMobile, mobile, cookie, peeking, timer, inside, pointer, over,
                       resizing, flip, width, sheet, group, mounted>>
    BY <1>1 DEF Side!PressRail
  <2>2. drag' \in SideLocals /\ ~drag'.moved BY <2>1 DEF Side!NoDrag, SideLocals
  <2> QED BY <2>1, <2>2, <1>p, <1>0
<1>2. ASSUME NEW raw \in RawWidths, Side!DragTo(raw) PROVE SideInv'
  <2> DEFINE past == raw < Side!MinWidth - Side!CollapseSlop
             turn == past # drag.collapsed
  <2>1. /\ drag.on /\ resizing' = TRUE
        /\ width' \in {width, Side!Clamped(raw)}
        /\ drag' = [drag EXCEPT !.moved = TRUE, !.collapsed = past]
        /\ UNCHANGED <<openMobile, mobile, pointer, over, sheet, group, mounted>>
    BY <1>2 DEF Side!DragTo
  <2>2. IF turn THEN Side!SetOpen(~past)
        ELSE open' = open /\ Side!FlipEffect /\ UNCHANGED <<cookie, peeking, timer, inside>>
    BY <1>2 DEF Side!DragTo
  <2>3. past \in BOOLEAN /\ (~past) \in BOOLEAN
    <3>1. past = TRUE \/ past = FALSE OBVIOUS
    <3>2. (~past) \in BOOLEAN BY Zenon
    <3> QED BY <3>1, <3>2
  <2>4. width' \in Nat
    <3>1. raw \in Nat BY DEF Side!SidebarShape
    <3> QED BY <3>1, <2>1, <1>p DEF Side!Clamped, Side!MinWidth, Side!MaxWidth
  <2> HIDE DEF past
  <2>5. drag' \in SideLocals /\ drag'.on /\ drag'.moved BY <2>1, <2>3, <1>p DEF SideLocals
  <2>6. CASE turn
    <3>1. Side!SetOpen(~past) BY <2>2, <2>6
    <3>2. /\ open' = ~past /\ cookie' \in {"open", "closed"} /\ flip' \in BOOLEAN
          /\ peeking' \in BOOLEAN /\ inside' = inside
          /\ timer' \in {timer, "none"}
          /\ open' => ~peeking' /\ timer' = "none"
      BY <3>1, <2>1, <2>3, OpenSet
    <3> QED BY <3>2, <2>1, <2>3, <2>4, <2>5, SideParts, SideShown
  <2>7. CASE ~turn
    <3>1. open' = open /\ Side!FlipEffect /\ UNCHANGED <<cookie, peeking, timer, inside>>
      BY <2>2, <2>7
    <3> QED BY <3>1, <2>1, <2>4, <2>5, <1>f, <1>0
  <2> QED BY <2>6, <2>7
<1>3. CASE Side!ReleaseRail
  <2>1. /\ drag' = Side!NoDrag /\ resizing' = FALSE /\ width' = width
        /\ UNCHANGED <<mobile, pointer, over, group, mounted>>
    BY <1>3 DEF Side!ReleaseRail
  <2>2. CASE drag.moved
    <3>1. /\ open' = open /\ Side!FlipEffect
          /\ UNCHANGED <<cookie, peeking, timer, inside, openMobile, sheet>>
      BY <1>3, <2>2 DEF Side!ReleaseRail
    <3> QED BY <3>1, <2>1, <1>p, <1>n, <1>f, <1>0
  <2>3. CASE ~drag.moved /\ mobile
    <3>1. /\ openMobile' = ~openMobile /\ sheet' = Side!SheetEffect(~openMobile)
          /\ open' = open /\ Side!FlipEffect /\ UNCHANGED <<cookie, peeking, timer, inside>>
      BY <1>3, <2>3 DEF Side!ReleaseRail
    <3>2. sheet' \in [closing : BOOLEAN, selfClosing : BOOLEAN, wasOpen : BOOLEAN]
      BY <3>1, SideParts DEF Side!SheetEffect
    <3>3. openMobile' \in BOOLEAN /\ flip' \in BOOLEAN BY <3>1, <2>1, <1>f
    <3> QED BY <3>1, <3>2, <3>3, <2>1, <1>n, SideParts, SideShown
  <2>4. CASE ~drag.moved /\ ~mobile
    <3>1. Side!SetOpen(~open) /\ UNCHANGED <<openMobile, sheet>>
      BY <1>3, <2>4 DEF Side!ReleaseRail
    <3>2. /\ open' = ~open /\ cookie' \in {"open", "closed"} /\ flip' \in BOOLEAN
          /\ peeking' \in BOOLEAN /\ inside' = inside
          /\ timer' \in {timer, "none"}
          /\ open' => ~peeking' /\ timer' = "none"
      BY <3>1, <2>1, <1>p, OpenSet
    <3>3. open' \in BOOLEAN BY <3>2, <1>p
    <3>4. drag' \in SideLocals /\ (resizing' <=> drag'.on /\ drag'.moved) BY <2>1, <1>n
    <3>5. /\ cookie' \in {"unset", "open", "closed"} /\ flip' \in BOOLEAN
          /\ peeking' \in BOOLEAN /\ inside' \in BOOLEAN
          /\ timer' \in {"none", "peek", "dismiss"}
          /\ open' => ~peeking' /\ timer' = "none"
      BY <3>2, SideParts
    <3>6. openMobile' = openMobile /\ sheet' = sheet BY <3>1
    <3>7. resizing' \in BOOLEAN /\ width' \in Nat BY <2>1, <1>p
    <3>8. UNCHANGED <<mobile, pointer, over, group, mounted>> BY <2>1
    <3> QED BY <3>3, <3>4, <3>5, <3>6, <3>7, <3>8, SideParts, SideShown
  <2> QED BY <2>2, <2>3, <2>4
<1>4. CASE Side!CancelRail
  <2>1. /\ drag' = Side!NoDrag /\ resizing' = FALSE /\ open' = open /\ Side!FlipEffect
        /\ UNCHANGED <<openMobile, mobile, cookie, peeking, timer, inside, pointer, over, width,
                       sheet, group, mounted>>
    BY <1>4 DEF Side!CancelRail
  <2> QED BY <2>1, <1>p, <1>n, <1>f, <1>0
<1>5. CASE Side!FlipLands
  <2>1. /\ flip' = FALSE
        /\ UNCHANGED <<open, openMobile, mobile, cookie, peeking, timer, inside, pointer, over,
                       drag, resizing, width, sheet, group, mounted>>
    BY <1>5 DEF Side!FlipLands
  <2> QED BY <2>1, <1>p, <1>0
<1> QED BY <1>1, <1>2, <1>3, <1>4, <1>5

\* The drawer and the groups.
LEMMA DrawerStep ==
    ASSUME SideInv,
           \/ Side!ResizeWindow \/ Side!DismissSheet \/ Side!SheetLands
           \/ Side!ToggleGroup \/ Side!GroupLands
    PROVE  SideInv'
<1> USE DEF Side!dragVars, Side!peekVars
<1>0. ASSUME openMobile' \in BOOLEAN, mobile' \in BOOLEAN,
             sheet' \in [closing : BOOLEAN, selfClosing : BOOLEAN, wasOpen : BOOLEAN],
             group' \in [open : BOOLEAN, settled : BOOLEAN, toggling : BOOLEAN],
             UNCHANGED <<open, cookie, peeking, timer, inside, pointer, over, drag, resizing,
                         flip, width, mounted>>
      PROVE  SideInv'
  BY <1>0, SideParts, SideShown
<1>p. /\ openMobile \in BOOLEAN /\ mobile \in BOOLEAN
      /\ sheet \in [closing : BOOLEAN, selfClosing : BOOLEAN, wasOpen : BOOLEAN]
      /\ group \in [open : BOOLEAN, settled : BOOLEAN, toggling : BOOLEAN]
  BY SideParts
<1>1. CASE Side!ResizeWindow
  <2>1. /\ mobile' = ~mobile /\ sheet' = Side!NewSheet(openMobile)
        /\ UNCHANGED <<open, openMobile, cookie, peeking, timer, inside, pointer, over, drag,
                       resizing, flip, width, group, mounted>>
    BY <1>1 DEF Side!ResizeWindow
  <2>2. mobile' \in BOOLEAN BY <2>1
  <2>3. sheet' \in [closing : BOOLEAN, selfClosing : BOOLEAN, wasOpen : BOOLEAN]
    BY <2>1, <1>p DEF Side!NewSheet
  <2> QED BY <2>1, <2>2, <2>3, <1>p, <1>0
<1>2. CASE Side!DismissSheet
  <2>1. /\ sheet' = [sheet EXCEPT !.closing = TRUE]
        /\ UNCHANGED <<open, openMobile, mobile, cookie, peeking, timer, inside, pointer, over,
                       drag, resizing, flip, width, group, mounted>>
    BY <1>2 DEF Side!DismissSheet
  <2> QED BY <2>1, <1>p, <1>0
<1>3. CASE Side!SheetLands
  <2>1. /\ openMobile' = FALSE
        /\ sheet' = [closing |-> FALSE, selfClosing |-> ~openMobile, wasOpen |-> FALSE]
        /\ UNCHANGED <<open, mobile, cookie, peeking, timer, inside, pointer, over, drag,
                       resizing, flip, width, group, mounted>>
    BY <1>3 DEF Side!SheetLands
  <2> QED BY <2>1, <1>p, <1>0
<1>4. CASE Side!ToggleGroup
  <2>1. /\ group' = [open |-> ~group.open, toggling |-> TRUE,
                     settled |-> group.settled /\ ~group.open]
        /\ UNCHANGED <<open, openMobile, mobile, cookie, peeking, timer, inside, pointer, over,
                       drag, resizing, flip, width, sheet, mounted>>
    BY <1>4 DEF Side!ToggleGroup
  <2>2. group' \in [open : BOOLEAN, settled : BOOLEAN, toggling : BOOLEAN] BY <2>1, <1>p
  <2> QED BY <2>1, <2>2, <1>p, <1>0
<1>5. CASE Side!GroupLands
  <2>1. /\ group' = [group EXCEPT !.toggling = FALSE, !.settled = @ \/ group.open]
        /\ UNCHANGED <<open, openMobile, mobile, cookie, peeking, timer, inside, pointer, over,
                       drag, resizing, flip, width, sheet, mounted>>
    BY <1>5 DEF Side!GroupLands
  <2>2. group' \in [open : BOOLEAN, settled : BOOLEAN, toggling : BOOLEAN] BY <2>1, <1>p
  <2> QED BY <2>1, <2>2, <1>p, <1>0
<1> QED BY <1>1, <1>2, <1>3, <1>4, <1>5

LEMMA SideStep ==
    ASSUME Side!SidebarShape, SideInv, [Side!Next]_(Side!vars) PROVE SideInv'
<1>1. CASE UNCHANGED Side!vars
  <2>1. UNCHANGED <<open, openMobile, mobile, cookie, peeking, timer, inside, pointer, over, drag,
                    resizing, flip, width, sheet, group, mounted>>
    BY <1>1 DEF Side!vars, Side!peekVars, Side!dragVars
  <2> QED BY <2>1, SideParts, SideShown
<1>2. CASE Side!Next BY <1>2, KeyStep, PeekStep, RailStep, DrawerStep DEF Side!Next
<1> QED BY <1>1, <1>2

LEMMA SideInit == ASSUME Side!SidebarShape PROVE Side!Init => SideInv
<1> SUFFICES ASSUME Side!Init PROVE SideInv OBVIOUS
<1> USE DEF Side!Init
<1>1. mounted \in Seq(Wrappers) /\ mounted[1] = Main /\ 1 \in DOMAIN mounted
  BY DEF Side!SidebarShape
<1>2. Side!TypeOK BY <1>1 DEF Side!TypeOK, Side!Places, Side!NoDrag, Side!NewSheet
<1>3. Side!PinnedNeverPeeks /\ Side!ResizingIsADrag
  BY DEF Side!PinnedNeverPeeks, Side!ResizingIsADrag, Side!NoDrag
<1>4. Main \in Side!ToSet(mounted) BY <1>1 DEF Side!ToSet
<1> QED BY <1>2, <1>3, <1>4 DEF SideInv

LEMMA SideShows ==
    ASSUME Side!SidebarShape, SideInv
    PROVE  Side!PinnedNeverPeeks /\ Side!ResizingIsADrag /\ Side!OneProviderAnswers
  BY SideParts, AnswersIsOne DEF SideInv

\* The sidebar (sidebar-core.tsx): pinned it neither peeks nor is about to, it
\* resizes during a drag that moved and then only, and of the providers of any
\* page, in any order of mounting, one answers the key.
THEOREM SidebarAgrees ==
    ASSUME Side!SidebarShape
    PROVE  Side!Spec =>
               [](Side!PinnedNeverPeeks /\ Side!ResizingIsADrag /\ Side!OneProviderAnswers)
<1>1. Side!Init => SideInv BY SideInit
<1>2. SideInv /\ [Side!Next]_(Side!vars) => SideInv' BY SideStep
<1>3. SideInv => Side!PinnedNeverPeeks /\ Side!ResizingIsADrag /\ Side!OneProviderAnswers
  BY SideShows
<1> QED BY <1>1, <1>2, <1>3, PTL DEF Side!Spec
-----------------------------------------------------------------------------
(* The sidebar menu                                                        *)

\* The scope keeps what the document has: the same rows, if not in the same
\* order, and the flags of those.  Without the flags a row that is mounted again
\* could light up for a button that has gone.
Registered ==
    /\ {dom, ordered, rects} \subseteq Documents /\ Menu!ToSet(ordered) = Menu!ToSet(dom)
    /\ activeMap = flagged \cap Menu!ToSet(dom)

MenuInv == Menu!TypeOK /\ Registered /\ Menu!MeasuredIsCurrent /\ Menu!ActiveRowsAreSeen

LEMMA MenuParts ==
    ASSUME Menu!TypeOK
    PROVE  /\ closed \subseteq Rows /\ flagged \subseteq Rows /\ activeMap \subseteq Rows
           /\ active \in Menu!Slots /\ pick \in Menu!Slots /\ frame \in 0 .. Attempts
           /\ focus \in Rows \cup {None} /\ ring \in Rows \cup {None}
           /\ measured \in BOOLEAN /\ popup \in BOOLEAN /\ laidOut \in BOOLEAN
  BY DEF Menu!TypeOK

\* The places of a document, and the rows in them.
LEMMA Places ==
    ASSUME Menu!MenuShape, NEW s \in Documents
    PROVE  /\ s \in Seq(Rows) /\ DOMAIN s \subseteq Menu!Slots /\ 0 \in Menu!Slots
           /\ Menu!ToSet(s) \subseteq Rows
           /\ \A i \in DOMAIN s : s[i] \in Menu!ToSet(s)
           /\ \A r \in Menu!ToSet(s) : Menu!IndexOf(s, r) \in DOMAIN s
<1>1. s \in Seq(Rows) BY DEF Menu!MenuShape
<1>2. DOMAIN s \subseteq 0 .. Len(s) /\ 0 \in 0 .. Len(s) BY <1>1
<1>3. 0 .. Len(s) \subseteq Menu!Slots BY DEF Menu!Slots
<1>4. \A i \in DOMAIN s : s[i] \in Menu!ToSet(s) BY DEF Menu!ToSet
<1>5. ASSUME NEW r \in Menu!ToSet(s) PROVE r \in Rows /\ Menu!IndexOf(s, r) \in DOMAIN s
  <2>1. \E i \in DOMAIN s : s[i] = r BY <1>5 DEF Menu!ToSet
  <2> QED BY <2>1, <1>1 DEF Menu!IndexOf
<1> QED BY <1>1, <1>2, <1>3, <1>4, <1>5

\* The first row of a document is a root row, which nothing hides.
LEMMA FirstIsRoot ==
    ASSUME Menu!MenuShape, NEW s \in Documents, s # << >>
    PROVE  1 \in DOMAIN s /\ HostOf[s[1]] = None
<1>1. s \in Seq(Rows) /\ Menu!WellNested(s) BY DEF Menu!MenuShape
<1>2. 1 \in DOMAIN s BY <1>1
<1>3. ~\E h \in 1 .. 1 - 1 : TRUE OBVIOUS
<1> QED BY <1>1, <1>2, <1>3 DEF Menu!WellNested

LEMMA MenuReached ==
    ASSUME Menu!MenuShape, MenuInv PROVE Menu!KeyboardReaches
<1> SUFFICES ASSUME dom # << >> PROVE \E r \in Menu!TabStops : ~Menu!RowHidden(r)
  BY DEF Menu!KeyboardReaches
<1>1. CASE activeRows # {}
  <2>1. PICK r \in activeRows : TRUE BY <1>1
  <2>2. r \in flagged \cap Menu!ToSet(dom) /\ ~Menu!RowHidden(r)
    BY <2>1 DEF MenuInv, Menu!ActiveRowsAreSeen
  <2> QED BY <2>2 DEF Menu!TabStops
<1>2. CASE activeRows = {}
  <2>1. dom \in Documents /\ ordered \in Documents /\ Menu!ToSet(ordered) = Menu!ToSet(dom)
    BY DEF MenuInv, Registered
  <2>2. dom[1] \in Menu!ToSet(ordered) BY <2>1, FirstIsRoot, Places
  <2>3. ordered # << >> BY <2>2 DEF Menu!ToSet
  <2>4. HostOf[ordered[1]] = None BY <2>1, <2>3, FirstIsRoot
  <2>5. None \notin closed BY MenuParts DEF MenuInv, Menu!MenuShape
  <2>6. ordered[1] \in Menu!TabStops BY <1>2, <2>3 DEF Menu!TabStops
  <2> QED BY <2>4, <2>5, <2>6 DEF Menu!RowHidden
<1> QED BY <1>1, <1>2

LEMMA MenuInit == ASSUME Menu!MenuShape PROVE Menu!Init => MenuInv
<1> SUFFICES ASSUME Menu!Init PROVE MenuInv OBVIOUS
<1> USE DEF Menu!Init
<1>1. << >> \in Documents BY DEF Menu!MenuShape
<1>2. 0 \in Menu!Slots BY <1>1, Places
<1>3. Menu!ToSet(<< >>) = {} BY DEF Menu!ToSet
<1>4. 0 \in 0 .. Attempts BY DEF Menu!MenuShape
<1>5. UNION {closed, flagged, activeMap, activeRows} \subseteq Rows OBVIOUS
<1>6. Menu!TypeOK
  <2>1. << >> \in Seq(Rows) OBVIOUS
  <2>2. {dom, ordered, rects} \subseteq Seq(Rows) BY <2>1
  <2>3. {active, pick} \subseteq Menu!Slots /\ frame \in 0 .. Attempts BY <1>2, <1>4
  <2> QED BY <1>5, <2>2, <2>3 DEF Menu!TypeOK
<1>7. Registered BY <1>1, <1>3 DEF Registered
<1>8. Menu!MeasuredIsCurrent /\ Menu!ActiveRowsAreSeen
  BY <1>3 DEF Menu!MeasuredIsCurrent, Menu!ActiveRowsAreSeen
<1> QED BY <1>6, <1>7, <1>8 DEF MenuInv

\* What leaves the rows alone: measuring, the pointer and the focus.
LEMMA RowsKept ==
    ASSUME MenuInv, UNCHANGED <<dom, closed, flagged, ordered, activeMap, activeRows>>,
           active' \in Menu!Slots, pick' \in Menu!Slots, frame' \in 0 .. Attempts,
           focus' \in Rows \cup {None}, ring' \in Rows \cup {None},
           popup' \in BOOLEAN, laidOut' \in BOOLEAN, measured' \in BOOLEAN,
           rects' \in {rects, ordered}, measured' => rects' = ordered
    PROVE  MenuInv'
<1>1. Menu!TypeOK' BY DEF MenuInv, Menu!TypeOK, Menu!Slots
<1>2. Registered' BY DEF MenuInv, Registered, Menu!ToSet
<1>3. Menu!MeasuredIsCurrent' BY DEF Menu!MeasuredIsCurrent
<1>4. Menu!ActiveRowsAreSeen'
  BY DEF MenuInv, Menu!ActiveRowsAreSeen, Menu!RowHidden, Menu!ToSet
<1> QED BY <1>1, <1>2, <1>3, <1>4 DEF MenuInv

\* What recomputes the active rows.
LEMMA ActiveSeen ==
    ASSUME Menu!RecomputeActive, Menu!ToSet(ordered') = Menu!ToSet(dom'),
           activeMap' = flagged' \cap Menu!ToSet(dom')
    PROVE  Menu!ActiveRowsAreSeen' /\ activeRows' \subseteq flagged'
<1>1. activeRows' = {r \in Menu!ToSet(ordered') \cap activeMap' : HostOf[r] \notin closed'}
  BY DEF Menu!RecomputeActive, Menu!Lit
<1>2. activeRows' = {r \in flagged' \cap Menu!ToSet(dom') : HostOf[r] \notin closed'}
  BY <1>1
<1>3. activeRows' \subseteq flagged' BY <1>2
<1> QED BY <1>2, <1>3 DEF Menu!ActiveRowsAreSeen, Menu!RowHidden, Menu!ToSet

\* What registers the rows of another document.
LEMMA RowsSynced ==
    ASSUME Menu!MenuShape, MenuInv, dom' \in Documents, Menu!SyncRows,
           activeMap' = flagged' \cap Menu!ToSet(dom'),
           closed' \subseteq Rows, flagged' \subseteq Rows,
           focus' \in Rows \cup {None}, ring' \in Rows \cup {None},
           UNCHANGED <<pick, popup, laidOut>>
    PROVE  MenuInv'
<1>1. /\ ordered' = dom' /\ measured' = FALSE /\ frame' = Attempts /\ rects' = rects
      /\ active' = active \/ active' = 0
  BY DEF Menu!SyncRows, Menu!Remeasure
<1>2. Menu!ActiveRowsAreSeen' /\ activeRows' \subseteq flagged'
  BY <1>1, ActiveSeen DEF Menu!SyncRows
<1>3. Menu!TypeOK'
  <2>1. 0 \in Menu!Slots /\ dom' \in Seq(Rows) BY Places
  <2>2. Attempts \in 0 .. Attempts BY DEF Menu!MenuShape
  <2>3. UNION {closed', flagged', activeMap', activeRows'} \subseteq Rows BY <1>2
  <2>4. rects' \in Seq(Rows) BY <1>1 DEF MenuInv, Menu!TypeOK
  <2>5. active' \in Menu!Slots /\ pick' \in Menu!Slots /\ popup' \in BOOLEAN
        /\ laidOut' \in BOOLEAN
    BY <1>1, <2>1, MenuParts DEF MenuInv
  <2> QED BY <1>1, <2>1, <2>2, <2>3, <2>4, <2>5 DEF Menu!TypeOK, Menu!Slots
<1>4. Registered' BY <1>1 DEF MenuInv, Registered, Menu!ToSet
<1>5. Menu!MeasuredIsCurrent' BY <1>1 DEF Menu!MeasuredIsCurrent
<1> QED BY <1>2, <1>3, <1>4, <1>5 DEF MenuInv

LEMMA MenuRowsStep ==
    ASSUME Menu!MenuShape, MenuInv,
           \/ \E s \in Documents :
                  Menu!Reorder(s) \/ \E r \in Rows : Menu!MountRow(r, s) \/ Menu!UnmountRow(r, s)
           \/ \E r \in Rows : Menu!SetRowActive(r) \/ Menu!ToggleSub(r)
    PROVE  MenuInv'
<1>p. /\ closed \subseteq Rows /\ flagged \subseteq Rows /\ activeMap \subseteq Rows
      /\ active \in Menu!Slots /\ pick \in Menu!Slots /\ frame \in 0 .. Attempts
      /\ focus \in Rows \cup {None} /\ ring \in Rows \cup {None}
      /\ measured \in BOOLEAN /\ popup \in BOOLEAN /\ laidOut \in BOOLEAN
  BY MenuParts DEF MenuInv
<1>r. Menu!TypeOK /\ Registered /\ Menu!MeasuredIsCurrent /\ Menu!ActiveRowsAreSeen
  BY DEF MenuInv
<1>1. ASSUME NEW s \in Documents, Menu!Reorder(s) PROVE MenuInv'
  <2>1. /\ dom' = s /\ Menu!ToSet(s) = Menu!ToSet(dom)
        /\ UNCHANGED <<closed, flagged, ordered, activeMap, activeRows, active, rects,
                       measured, frame, pick, focus, ring, popup, laidOut>>
    BY <1>1 DEF Menu!Reorder, Menu!frameVars
  <2>2. dom' \in Documents /\ dom' \in Seq(Rows) BY <2>1, Places
  <2>3. Menu!TypeOK' BY <2>1, <2>2, <1>r DEF Menu!TypeOK, Menu!Slots
  <2>4. Registered' BY <2>1, <2>2, <1>r DEF Registered, Menu!ToSet
  <2>5. Menu!MeasuredIsCurrent' BY <2>1, <1>r DEF Menu!MeasuredIsCurrent
  <2>6. Menu!ToSet(dom)' = Menu!ToSet(dom) BY <2>1 DEF Menu!ToSet
  <2>7. Menu!ActiveRowsAreSeen'
    BY <2>1, <2>6, <1>r DEF Menu!ActiveRowsAreSeen, Menu!RowHidden
  <2> QED BY <2>3, <2>4, <2>5, <2>7 DEF MenuInv
<1>2. ASSUME NEW s \in Documents, NEW r \in Rows, Menu!MountRow(r, s) PROVE MenuInv'
  <2>1. /\ r \notin Menu!ToSet(dom) /\ Menu!ToSet(s) = Menu!ToSet(dom) \cup {r}
        /\ dom' = s /\ activeMap' = activeMap \cup ({r} \cap flagged) /\ Menu!SyncRows
        /\ UNCHANGED <<closed, flagged, pick, focus, ring, popup, laidOut>>
    BY <1>2 DEF Menu!MountRow
  <2>2. activeMap' = flagged' \cap Menu!ToSet(dom') BY <2>1, <1>r DEF Registered
  <2> QED BY <2>1, <2>2, <1>p, RowsSynced
<1>3. ASSUME NEW s \in Documents, NEW r \in Rows, Menu!UnmountRow(r, s) PROVE MenuInv'
  <2> DEFINE gone == Menu!GoneWith(r, dom)
  <2>1. /\ Menu!ToSet(s) = Menu!ToSet(dom) \ gone /\ dom' = s
        /\ activeMap' = activeMap \ gone /\ flagged' = flagged \ gone /\ closed' = closed \ gone
        /\ focus' \in {focus, None} /\ ring' \in {ring, None}
        /\ UNCHANGED <<pick, popup, laidOut>> /\ Menu!SyncRows
    BY <1>3 DEF Menu!UnmountRow
  <2> HIDE DEF gone
  <2>2. activeMap' = flagged' \cap Menu!ToSet(dom') BY <2>1, <1>r DEF Registered
  <2>3. closed' \subseteq Rows /\ flagged' \subseteq Rows /\ dom' \in Documents BY <2>1, <1>p
  <2>4. focus' \in Rows \cup {None} /\ ring' \in Rows \cup {None} BY <2>1, <1>p
  <2> QED BY <2>1, <2>2, <2>3, <2>4, RowsSynced
<1>4. ASSUME NEW r \in Rows, Menu!SetRowActive(r) PROVE MenuInv'
  <2>1. /\ flagged' = IF r \in flagged THEN flagged \ {r} ELSE flagged \cup {r}
        /\ activeMap' = IF r \notin Menu!ToSet(dom) THEN activeMap
                        ELSE IF r \in flagged THEN activeMap \ {r} ELSE activeMap \cup {r}
        /\ UNCHANGED <<dom, closed, ordered, active, rects, measured, frame, pick, focus, ring,
                       popup, laidOut>>
        /\ Menu!RecomputeActive
    BY <1>4 DEF Menu!SetRowActive, Menu!frameVars
  <2>2. activeMap' = flagged' \cap Menu!ToSet(dom') BY <2>1, <1>r DEF Registered
  <2>3. Menu!ToSet(ordered') = Menu!ToSet(dom') BY <2>1, <1>r DEF Registered
  <2>4. Menu!ActiveRowsAreSeen' /\ activeRows' \subseteq flagged'
    BY <2>1, <2>2, <2>3, ActiveSeen
  <2>5. UNION {closed', flagged', activeMap', activeRows'} \subseteq Rows
    <3>1. flagged' \subseteq Rows BY <2>1, <1>p
    <3> QED BY <3>1, <2>1, <2>2, <2>4, <1>p
  <2>6. Menu!TypeOK' BY <2>1, <2>5, <1>r DEF Menu!TypeOK, Menu!Slots
  <2>7. Registered' BY <2>1, <2>2, <2>3, <1>r DEF Registered, Menu!ToSet
  <2>8. Menu!MeasuredIsCurrent' BY <2>1, <1>r DEF Menu!MeasuredIsCurrent
  <2> QED BY <2>4, <2>6, <2>7, <2>8 DEF MenuInv
<1>5. ASSUME NEW r \in Rows, Menu!ToggleSub(r) PROVE MenuInv'
  <2>1. /\ closed' \subseteq Rows
        /\ UNCHANGED <<dom, flagged, ordered, activeMap, rects, measured, frame, pick, focus,
                       ring, popup, laidOut>>
        /\ active' = active \/ active' = 0
        /\ Menu!RecomputeActive
    BY <1>5, <1>p DEF Menu!ToggleSub, Menu!RefreshVisibility, Menu!frameVars
  <2>2. activeMap' = flagged' \cap Menu!ToSet(dom') BY <2>1, <1>r DEF Registered
  <2>3. Menu!ToSet(ordered') = Menu!ToSet(dom') BY <2>1, <1>r DEF Registered
  <2>4. Menu!ActiveRowsAreSeen' /\ activeRows' \subseteq flagged'
    BY <2>1, <2>2, <2>3, ActiveSeen
  <2>5. UNION {closed', flagged', activeMap', activeRows'} \subseteq Rows
    <3>1. flagged' \subseteq Rows /\ activeMap' \subseteq Rows BY <2>1, <1>p
    <3> QED BY <3>1, <2>1, <2>4
  <2>6. active' \in Menu!Slots
    <3>1. dom \in Documents BY <1>r DEF Registered
    <3> QED BY <3>1, <2>1, <1>p, Places
  <2>7. Menu!TypeOK' BY <2>1, <2>5, <2>6, <1>r DEF Menu!TypeOK, Menu!Slots
  <2>8. Registered' BY <2>1, <2>2, <2>3, <1>r DEF Registered, Menu!ToSet
  <2>9. Menu!MeasuredIsCurrent' BY <2>1, <1>r DEF Menu!MeasuredIsCurrent
  <2> QED BY <2>4, <2>7, <2>8, <2>9 DEF MenuInv
<1> QED BY <1>1, <1>2, <1>3, <1>4, <1>5

\* The queued frames, the pointer and the popup.
LEMMA MenuFrameStep ==
    ASSUME Menu!MenuShape, MenuInv,
           \/ Menu!MeasureFrame \/ Menu!Resized \/ Menu!ChangeLayout
           \/ \E p \in Menu!Slots \ {0} : Menu!MouseMove(p)
           \/ Menu!PickFrame \/ Menu!MouseLeave \/ Menu!PressMenu \/ Menu!TogglePopup
    PROVE  MenuInv'
<1> USE DEF Menu!rowVars, Menu!frameVars
<1>p. /\ active \in Menu!Slots /\ pick \in Menu!Slots /\ frame \in 0 .. Attempts
      /\ focus \in Rows \cup {None} /\ ring \in Rows \cup {None}
      /\ measured \in BOOLEAN /\ popup \in BOOLEAN /\ laidOut \in BOOLEAN
  BY MenuParts DEF MenuInv
<1>m. measured => rects = ordered BY DEF MenuInv, Menu!MeasuredIsCurrent
<1>d. ordered \in Documents /\ rects \in Documents BY DEF MenuInv, Registered
<1>0. 0 \in Menu!Slots BY <1>d, Places
<1>a. Attempts \in 0 .. Attempts /\ 0 \in 0 .. Attempts BY DEF Menu!MenuShape
<1>1. CASE Menu!MeasureFrame
  <2>1. frame - 1 \in 0 .. Attempts \/ ~(frame > 0) BY <1>p DEF Menu!MenuShape
  <2>2. CASE laidOut
    <3>1. /\ rects' = ordered /\ measured' = TRUE /\ frame' = 0
          /\ UNCHANGED <<dom, closed, flagged, ordered, activeMap, activeRows, active, pick,
                         focus, ring, popup, laidOut>>
      BY <1>1, <2>2 DEF Menu!MeasureFrame
    <3> QED BY <3>1, <1>p, <1>a, RowsKept
  <2>3. CASE ~laidOut
    <3>1. /\ frame > 0 /\ frame' = frame - 1
          /\ UNCHANGED <<dom, closed, flagged, ordered, activeMap, activeRows, active, pick,
                         focus, ring, popup, laidOut, rects, measured>>
      BY <1>1, <2>3 DEF Menu!MeasureFrame
    <3> QED BY <3>1, <2>1, <1>p, <1>m, RowsKept
  <2> QED BY <2>2, <2>3
<1>2. CASE Menu!Resized
  <2>1. /\ frame' = Attempts
        /\ UNCHANGED <<dom, closed, flagged, ordered, activeMap, activeRows, active, pick, focus,
                       ring, popup, laidOut, rects, measured>>
    BY <1>2 DEF Menu!Resized
  <2> QED BY <2>1, <1>p, <1>m, <1>a, RowsKept
<1>3. CASE Menu!ChangeLayout
  <2>1. /\ frame' = Attempts /\ laidOut' \in BOOLEAN
        /\ UNCHANGED <<dom, closed, flagged, ordered, activeMap, activeRows, active, pick, focus,
                       ring, popup, rects, measured>>
    BY <1>3 DEF Menu!ChangeLayout
  <2> QED BY <2>1, <1>p, <1>m, <1>a, RowsKept
<1>4. ASSUME NEW p \in Menu!Slots, Menu!MouseMove(p) PROVE MenuInv'
  <2>1. /\ pick' = p
        /\ UNCHANGED <<dom, closed, flagged, ordered, activeMap, activeRows, active, focus,
                       ring, popup, laidOut, rects, measured, frame>>
    BY <1>4 DEF Menu!MouseMove
  <2> QED BY <2>1, <1>p, <1>m, <1>4, RowsKept
<1>5. CASE Menu!PickFrame
  <2>1. /\ pick' = 0 /\ active' \in Menu!Pickable \cup {0}
        /\ UNCHANGED <<dom, closed, flagged, ordered, activeMap, activeRows, focus,
                       ring, popup, laidOut, rects, measured, frame>>
    BY <1>5 DEF Menu!PickFrame
  <2>2. Menu!Pickable \subseteq Menu!Slots BY <1>d, Places DEF Menu!Pickable
  <2> QED BY <2>1, <2>2, <1>p, <1>m, <1>0, RowsKept
<1>6. CASE Menu!MouseLeave
  <2>1. /\ pick' = 0 /\ active' = 0
        /\ UNCHANGED <<dom, closed, flagged, ordered, activeMap, activeRows, focus,
                       ring, popup, laidOut, rects, measured, frame>>
    BY <1>6 DEF Menu!MouseLeave
  <2> QED BY <2>1, <1>p, <1>m, <1>0, RowsKept
<1>7. CASE Menu!PressMenu
  <2>1. /\ ring' = None
        /\ UNCHANGED <<dom, closed, flagged, ordered, activeMap, activeRows, active, pick, focus,
                       popup, laidOut, rects, measured, frame>>
    BY <1>7 DEF Menu!PressMenu
  <2> QED BY <2>1, <1>p, <1>m, RowsKept
<1>8. CASE Menu!TogglePopup
  <2>1. /\ popup' \in BOOLEAN
        /\ UNCHANGED <<dom, closed, flagged, ordered, activeMap, activeRows, active, pick, focus,
                       ring, laidOut, rects, measured, frame>>
    BY <1>8 DEF Menu!TogglePopup
  <2> QED BY <2>1, <1>p, <1>m, RowsKept
<1> QED BY <1>1, <1>2, <1>3, <1>4, <1>5, <1>6, <1>7, <1>8

\* Focus comes to a row of the document, or goes.
LEMMA MenuFocusStep ==
    ASSUME Menu!MenuShape, MenuInv,
           \/ \E r \in Rows : Menu!FocusRow(r)
           \/ \E b \in BOOLEAN : Menu!ArrowKey(b) \/ Menu!EdgeKey(b)
           \/ Menu!Blur
    PROVE  MenuInv'
<1>p. /\ pick \in Menu!Slots /\ frame \in 0 .. Attempts /\ measured \in BOOLEAN
      /\ popup \in BOOLEAN /\ laidOut \in BOOLEAN
  BY MenuParts DEF MenuInv
<1>m. measured => rects = ordered BY DEF MenuInv, Menu!MeasuredIsCurrent
<1>d. dom \in Documents /\ ordered \in Documents /\ Menu!ToSet(ordered) = Menu!ToSet(dom)
  BY DEF MenuInv, Registered
<1>1. ASSUME NEW r \in Menu!ToSet(dom), NEW b, Menu!OnFocus(r, b) PROVE MenuInv'
  <2>1. /\ focus' = r /\ active' = Menu!IndexOf(ordered, r) /\ ring' \in {r, None}
        /\ UNCHANGED <<dom, closed, flagged, ordered, activeMap, activeRows, pick, popup,
                       laidOut, rects, measured, frame>>
    BY <1>1 DEF Menu!OnFocus, Menu!rowVars, Menu!frameVars
  <2>2. r \in Rows /\ Menu!IndexOf(ordered, r) \in Menu!Slots BY <1>d, Places
  <2>3. focus' \in Rows \cup {None} /\ ring' \in Rows \cup {None} /\ active' \in Menu!Slots
    BY <2>1, <2>2
  <2> QED BY <2>1, <2>3, <1>p, <1>m, RowsKept
<1>2. ASSUME NEW r \in Rows, Menu!FocusRow(r) PROVE MenuInv'
  <2>1. CASE r \in Menu!TabStops /\ Menu!OnFocus(r, TRUE)
    <3>1. r \in Menu!ToSet(dom)
      <4>1. CASE r \in flagged \cap Menu!ToSet(dom) BY <4>1
      <4>2. CASE ordered # << >> /\ r = ordered[1]
        <5>1. ordered[1] \in Menu!ToSet(ordered) BY <4>2, <1>d, FirstIsRoot, Places
        <5> QED BY <5>1, <4>2, <1>d
      <4> QED BY <2>1, <4>1, <4>2 DEF Menu!TabStops
    <3> QED BY <3>1, <2>1, <1>1
  <2>2. CASE r \in Menu!ToSet(dom) /\ Menu!OnFocus(r, FALSE) BY <2>2, <1>1
  <2> QED BY <1>2, <2>1, <2>2 DEF Menu!FocusRow
<1>3. ASSUME NEW i \in Menu!Seen, Menu!OnFocus(dom[i], TRUE) PROVE MenuInv'
  <2>1. dom[i] \in Menu!ToSet(dom) BY <1>d, Places DEF Menu!Seen
  <2> QED BY <2>1, <1>3, <1>1
<1>4. ASSUME NEW b \in BOOLEAN, Menu!ArrowKey(b) \/ Menu!EdgeKey(b) PROVE MenuInv'
  <2>1. \E i \in Menu!Seen : Menu!OnFocus(dom[i], TRUE)
    BY <1>4 DEF Menu!ArrowKey, Menu!EdgeKey
  <2> QED BY <2>1, <1>3
<1>5. CASE Menu!Blur
  <2>1. /\ focus' = None /\ ring' = None /\ active' = 0
        /\ UNCHANGED <<dom, closed, flagged, ordered, activeMap, activeRows, pick, popup,
                       laidOut, rects, measured, frame>>
    BY <1>5 DEF Menu!Blur, Menu!rowVars, Menu!frameVars
  <2>2. 0 \in Menu!Slots BY <1>d, Places
  <2> QED BY <2>1, <2>2, <1>p, <1>m, RowsKept
<1> QED BY <1>2, <1>4, <1>5

LEMMA MenuStep ==
    ASSUME Menu!MenuShape, MenuInv, [Menu!Next]_(Menu!vars) PROVE MenuInv'
<1>1. CASE UNCHANGED Menu!vars
  <2>1. UNCHANGED <<dom, closed, flagged, ordered, activeMap, activeRows, active, pick, focus,
                    ring, popup, laidOut, rects, measured, frame>>
    BY <1>1 DEF Menu!vars, Menu!rowVars, Menu!frameVars
  <2>2. measured => rects = ordered BY DEF MenuInv, Menu!MeasuredIsCurrent
  <2> QED BY <2>1, <2>2, MenuParts, RowsKept DEF MenuInv
<1>2. CASE Menu!Next BY <1>2, MenuRowsStep, MenuFrameStep, MenuFocusStep DEF Menu!Next
<1> QED BY <1>1, <1>2

\* The menu of the sidebar (sidebar-menu.tsx), for any document: published boxes
\* are those of the registered rows, the active backgrounds are on the active
\* rows that can be seen, and the keyboard can enter it.
THEOREM MenuAgrees ==
    ASSUME Menu!MenuShape
    PROVE  Menu!Spec =>
               [](Menu!MeasuredIsCurrent /\ Menu!ActiveRowsAreSeen /\ Menu!KeyboardReaches)
<1>1. Menu!Init => MenuInv BY MenuInit
<1>2. MenuInv /\ [Menu!Next]_(Menu!vars) => MenuInv' BY MenuStep
<1>3. MenuInv => Menu!MeasuredIsCurrent /\ Menu!ActiveRowsAreSeen /\ Menu!KeyboardReaches
  BY MenuReached DEF MenuInv
<1> QED BY <1>1, <1>2, <1>3, PTL DEF Menu!Spec
-----------------------------------------------------------------------------
(* The page                                                                *)

\* A behaviour of the page is one of each of its parts.
LEMMA PartsStep ==
    ASSUME [Next]_vars
    PROVE  /\ [Look!Next]_(Look!vars) /\ [Panes!Next]_(Panes!vars)
           /\ [Results!Next]_(Results!vars) /\ [Toggle!Next]_(Toggle!vars)
           /\ [Talk!Next]_(Talk!vars) /\ [Call!Next]_(Call!vars)
           /\ [Thought!Next]_(Thought!vars) /\ [Side!Next]_(Side!vars)
           /\ [Menu!Next]_(Menu!vars)
<1>1. [Look!Next]_(Look!vars)
  <2>1. CASE UNCHANGED vars BY <2>1 DEF vars, lookVars, Look!vars
  <2>2. CASE Next /\ part = "theme" BY <2>2 DEF Next
  <2>3. CASE Next /\ part # "theme"
    <3>1. Others(Parts \ {part}) BY <2>3 DEF Next
    <3> QED BY <3>1, <2>3 DEF Others, Parts, lookVars, Look!vars
  <2> QED BY <2>1, <2>2, <2>3
<1>2. [Panes!Next]_(Panes!vars)
  <2>1. CASE UNCHANGED vars BY <2>1 DEF vars, paneVars, Panes!vars
  <2>2. CASE Next /\ part = "panels" BY <2>2 DEF Next
  <2>3. CASE Next /\ part # "panels"
    <3>1. Others(Parts \ {part}) BY <2>3 DEF Next
    <3> QED BY <3>1, <2>3 DEF Others, Parts, paneVars, Panes!vars
  <2> QED BY <2>1, <2>2, <2>3
<1>3. [Results!Next]_(Results!vars)
  <2>1. CASE UNCHANGED vars BY <2>1 DEF vars, resultVars, Results!vars
  <2>2. CASE Next /\ part = "artifacts" BY <2>2 DEF Next
  <2>3. CASE Next /\ part # "artifacts"
    <3>1. Others(Parts \ {part}) BY <2>3 DEF Next
    <3> QED BY <3>1, <2>3 DEF Others, Parts, resultVars, Results!vars
  <2> QED BY <2>1, <2>2, <2>3
<1>4. [Toggle!Next]_(Toggle!vars)
  <2>1. CASE UNCHANGED vars BY <2>1 DEF vars, toggleVars, Toggle!vars
  <2>2. CASE Next /\ part = "switch" BY <2>2 DEF Next
  <2>3. CASE Next /\ part # "switch"
    <3>1. Others(Parts \ {part}) BY <2>3 DEF Next
    <3> QED BY <3>1, <2>3 DEF Others, Parts, toggleVars, Toggle!vars
  <2> QED BY <2>1, <2>2, <2>3
<1>5. [Talk!Next]_(Talk!vars)
  <2>1. CASE UNCHANGED vars BY <2>1 DEF vars, talkVars, Talk!vars,
                                        Talk!composerVars, Talk!anchorVars
  <2>2. CASE Next /\ part = "conversation" BY <2>2 DEF Next
  <2>3. CASE Next /\ part # "conversation"
    <3>1. Others(Parts \ {part}) BY <2>3 DEF Next
    <3> QED BY <3>1, <2>3 DEF Others, Parts, talkVars, Talk!vars, Talk!composerVars,
                             Talk!anchorVars
  <2> QED BY <2>1, <2>2, <2>3
<1>6. [Call!Next]_(Call!vars)
  <2>1. CASE UNCHANGED vars BY <2>1 DEF vars, callVars, Call!vars
  <2>2. CASE Next /\ part = "call" BY <2>2 DEF Next
  <2>3. CASE Next /\ part # "call"
    <3>1. Others(Parts \ {part}) BY <2>3 DEF Next
    <3> QED BY <3>1, <2>3 DEF Others, Parts, callVars, Call!vars
  <2> QED BY <2>1, <2>2, <2>3
<1>7. [Thought!Next]_(Thought!vars)
  <2>1. CASE UNCHANGED vars BY <2>1 DEF vars, thoughtVars, Thought!vars
  <2>2. CASE Next /\ part = "reasoning" BY <2>2 DEF Next
  <2>3. CASE Next /\ part # "reasoning"
    <3>1. Others(Parts \ {part}) BY <2>3 DEF Next
    <3> QED BY <3>1, <2>3 DEF Others, Parts, thoughtVars, Thought!vars
  <2> QED BY <2>1, <2>2, <2>3
<1>8. [Side!Next]_(Side!vars)
  <2>1. CASE UNCHANGED vars BY <2>1 DEF vars, sideVars, Side!vars, Side!peekVars, Side!dragVars
  <2>2. CASE Next /\ part = "sidebar" BY <2>2 DEF Next
  <2>3. CASE Next /\ part # "sidebar"
    <3>1. Others(Parts \ {part}) BY <2>3 DEF Next
    <3> QED BY <3>1, <2>3 DEF Others, Parts, sideVars, Side!vars, Side!peekVars, Side!dragVars
  <2> QED BY <2>1, <2>2, <2>3
<1>9. [Menu!Next]_(Menu!vars)
  <2>1. CASE UNCHANGED vars BY <2>1 DEF vars, menuVars, Menu!vars, Menu!rowVars, Menu!frameVars
  <2>2. CASE Next /\ part = "menu" BY <2>2 DEF Next
  <2>3. CASE Next /\ part # "menu"
    <3>1. Others(Parts \ {part}) BY <2>3 DEF Next
    <3> QED BY <3>1, <2>3 DEF Others, Parts, menuVars, Menu!vars, Menu!rowVars, Menu!frameVars
  <2> QED BY <2>1, <2>2, <2>3
<1> QED BY <1>1, <1>2, <1>3, <1>4, <1>5, <1>6, <1>7, <1>8, <1>9

\* The theme, the panels, the artifact preview and the switches, in any tab and
\* for any artifacts.
THEOREM LayoutAgrees == Spec => []LayoutHolds
<1> DEFINE Inv == ThemeInv /\ PanelsInv /\ ArtifactsInv /\ SwitchInv
<1>0. Look!ThemeShape /\ Results!ArtifactsShape /\ Toggle!SwitchShape BY Shapes
<1>1. Init => Inv
  BY <1>0, ThemeInit, PanelsInit, ArtifactsInit, SwitchInit DEF Init
<1>2. Inv /\ [Next]_vars => Inv'
  BY <1>0, PartsStep, ThemeStep, PanelsStep, ArtifactsStep, SwitchStep
<1>3. Inv => LayoutHolds
  BY DEF LayoutHolds, ThemeInv, PanelsInv, ArtifactsInv, SwitchInv
<1> QED BY <1>1, <1>2, <1>3, PTL DEF Spec

\* The badge, the approvals and the reasoning preview of the page's conversation.
THEOREM ConversationAgrees == Spec => []ConversationHolds
<1> DEFINE Inv == TalkInv /\ CallInv /\ ThoughtInv
<1>0. Talk!ConversationShape /\ Call!OptionsAssumption /\ Thought!LinesAssumption BY Shapes
<1>1. Init => Inv BY <1>0, TalkInit, CallInit, ThoughtInit DEF Init
<1>2. Inv /\ [Next]_vars => Inv'
  BY <1>0, PartsStep, TalkStep, CallStep, ThoughtStep
<1>3. Inv => ConversationHolds
  <2>1. TalkInv => Talk!TypeOK /\ Talk!BadgeCountsNew BY BadgeCounts DEF TalkInv
  <2>2. CallInv => /\ Call!TypeOK /\ Call!AnswersWereOffered /\ Call!AnsweredOncePerMount
                   /\ Call!WaitingIsShown
    BY CallShows DEF CallInv
  <2>3. ThoughtInv => Thought!TypeOK /\ Thought!FollowsUntilReaderLeaves
                      /\ Thought!FollowedIsNewest
    BY <1>0, ThoughtShows DEF ThoughtInv
  <2> QED BY <2>1, <2>2, <2>3 DEF ConversationHolds
<1> QED BY <1>1, <1>2, <1>3, PTL DEF Spec

\* The sidebar, for any finite page and any providers in it.
THEOREM SidebarOfPage == Spec => []SidebarHolds
<1>0. Side!SidebarShape BY Shapes
<1>1. Init => SideInv BY <1>0, SideInit DEF Init
<1>2. SideInv /\ [Next]_vars => SideInv' BY <1>0, PartsStep, SideStep
<1>3. SideInv => SidebarHolds BY <1>0, SideShows DEF SidebarHolds, SideInv
<1> QED BY <1>1, <1>2, <1>3, PTL DEF Spec

\* Its menu, for any rows in any documents.
THEOREM MenuOfPage == Spec => []MenuHolds
<1>0. Menu!MenuShape BY Shapes
<1>1. Init => MenuInv BY <1>0, MenuInit DEF Init
<1>2. MenuInv /\ [Next]_vars => MenuInv' BY <1>0, PartsStep, MenuStep
<1>3. MenuInv => MenuHolds BY <1>0, MenuReached DEF MenuHolds, MenuInv
<1> QED BY <1>1, <1>2, <1>3, PTL DEF Spec
=============================================================================
