---------------------------- MODULE SidebarMenu ----------------------------
(***************************************************************************)
(* The rows of a sidebar menu and the highlight that travels over them:    *)
(* registration of rows in document order, their active flags, the frames  *)
(* in which their boxes are measured and the pointer is resolved, focus,   *)
(* and the sub-menus that hide rows without unmounting them.  A row's box  *)
(* is abstracted to the row it was measured for; the pointer is at a slot  *)
(* of the measured boxes.  Layout effects run with the commit that makes   *)
(* them due, in React's order.                                             *)
(***************************************************************************)
EXTENDS Naturals, Sequences, SequencesExt

CONSTANTS
    None,
    Rows,       \* root rows and rows of sub-menus
    HostOf,     \* the root row of a sub-menu's row, None for a root row
    Documents,  \* the orders in which a document may hold rows
    Attempts    \* frames a measurement is tried, measurementAttempts

\* A document in which every row of a sub-menu follows its root row.
WellNested(s) ==
    \A i \in DOMAIN s :
        HostOf[s[i]] # None =>
            \E h \in 1 .. i - 1 : /\ s[h] = HostOf[s[i]]
                                  /\ \A j \in h + 1 .. i : HostOf[s[j]] = HostOf[s[i]]

\* The rows of a document come in the order of another.
InOrder(s, t) ==
    \A j \in DOMAIN s : \A i \in 1 .. j - 1 :
        \E l \in DOMAIN t : \E k \in 1 .. l - 1 : t[k] = s[i] /\ t[l] = s[j]

\* A row goes with the rows of its sub-menu.
GoneWith(r, s) == {x \in ToSet(s) : x = r \/ HostOf[x] = r}

\* Assumed of the constants; what is left of a document is one.
MenuShape ==
    /\ None \notin Rows /\ HostOf \in [Rows -> Rows \cup {None}] /\ Attempts \in Nat \ {0}
    /\ \A r \in Rows : HostOf[r] # None => HostOf[HostOf[r]] = None
    /\ Documents \subseteq Seq(Rows) /\ <<>> \in Documents
    /\ \A s \in Documents : WellNested(s) /\ \A i, j \in DOMAIN s : s[i] = s[j] => i = j
    /\ \A s \in Documents : \A r \in ToSet(s) :
           \E t \in Documents : ToSet(t) = ToSet(s) \ GoneWith(r, s) /\ InOrder(t, s)

VARIABLES
    dom,        \* the rows of the document, in its order
    closed,     \* root rows whose sub-menu is collapsed
    flagged,    \* rows whose button is rendered active
    ordered,    \* orderedRows: index to row, as last registered
    activeMap,  \* the scope's copy of the flags
    activeRows, \* rows with an active background
    active,     \* activeIndex, 0 for null
    rects,      \* the rows whose boxes are published, by index
    measured,   \* isMeasured
    frame,      \* attempts left of the queued measurement, 0 if none is queued
    pick,       \* the slot of the queued pointer frame, 0 if none is queued
    focus, ring,\* the focused row and the row with the focus ring
    popup,      \* a popup of the sidebar is open
    laidOut     \* the menu has a layout box

rowVars == <<dom, closed, flagged, ordered, activeMap, activeRows>>
frameVars == <<rects, measured, frame>>
vars == <<rowVars, active, frameVars, pick, focus, ring, popup, laidOut>>

Slots == UNION {0 .. Len(s) : s \in Documents}

TypeOK ==
    /\ {dom, ordered, rects} \subseteq Seq(Rows)
    /\ UNION {closed, flagged, activeMap, activeRows} \subseteq Rows
    /\ {active, pick} \subseteq Slots /\ frame \in 0 .. Attempts
    /\ {focus, ring} \subseteq Rows \cup {None}
    /\ {measured, popup, laidOut} \subseteq BOOLEAN

Init ==
    /\ dom = <<>> /\ closed = {} /\ flagged = {} /\ ordered = <<>> /\ activeMap = {}
    /\ activeRows = {} /\ active = 0 /\ rects = <<>> /\ measured = FALSE /\ frame = 0
    /\ pick = 0 /\ focus = None /\ ring = None /\ popup = FALSE /\ laidOut = TRUE

RowHidden(r) == HostOf[r] \in closed
IndexOf(s, r) == CHOOSE i \in DOMAIN s : s[i] = r
RowAt(i) == IF i \in DOMAIN ordered THEN ordered[i] ELSE None
Hovered == RowAt(active)

-----------------------------------------------------------------------------
(* Registration                                                            *)

Lit(order, map) == {r \in ToSet(order) \cap map : HostOf[r] \notin closed'}

\* recomputeActive
RecomputeActive == activeRows' = Lit(ordered', activeMap')

\* Mutant of Remeasure: readiness is kept until the pass runs.
RemeasureKeepsReadiness == frame' = Attempts /\ UNCHANGED <<rects, measured>>

\* remeasure: readiness drops, and the queued pass is replaced.
Remeasure == measured' = FALSE /\ frame' = Attempts /\ UNCHANGED rects

\* syncRows: the registered rows, which are those of the document, are indexed
\* in its order; an index that is gone takes the highlight with it.
SyncRows ==
    /\ ordered' = dom'
    /\ active' = IF active \in DOMAIN ordered \ DOMAIN ordered' THEN 0 ELSE active
    /\ RecomputeActive /\ Remeasure

\* The flag that the button set before the row was attached is replayed.
MountRow(r, s) ==
    /\ r \notin ToSet(dom) /\ ToSet(s) = ToSet(dom) \cup {r} /\ InOrder(dom, s)
    /\ dom' = s /\ activeMap' = activeMap \cup ({r} \cap flagged)
    /\ UNCHANGED <<closed, flagged, pick, focus, ring, popup, laidOut>>
    /\ SyncRows

\* The flag and the button of a row that goes leave the scope.
UnmountRow(r, s) ==
    LET gone == GoneWith(r, dom)
    IN  /\ r \in ToSet(dom) /\ ToSet(s) = ToSet(dom) \ gone /\ InOrder(s, dom)
        /\ dom' = s
        /\ activeMap' = activeMap \ gone /\ flagged' = flagged \ gone
        /\ closed' = closed \ gone
        /\ focus' = IF focus \in gone THEN None ELSE focus
        /\ ring' = IF ring \in gone THEN None ELSE ring
        /\ UNCHANGED <<pick, popup, laidOut>>
        /\ SyncRows

\* Rows that only change places register nothing and are not measured.
Reorder(s) ==
    /\ s # dom /\ ToSet(s) = ToSet(dom)
    /\ dom' = s
    /\ UNCHANGED <<closed, flagged, ordered, activeMap, activeRows, active, frameVars, pick, focus,
                   ring, popup, laidOut>>

\* The button of a row turns active or is so no longer: setActive, setRowActive.
SetRowActive(r) ==
    /\ flagged' = IF r \in flagged THEN flagged \ {r} ELSE flagged \cup {r}
    /\ activeMap' = IF r \notin ToSet(dom) THEN activeMap
                    ELSE IF r \in flagged THEN activeMap \ {r} ELSE activeMap \cup {r}
    /\ UNCHANGED <<dom, closed, ordered, active, frameVars, pick, focus, ring, popup, laidOut>>
    /\ RecomputeActive

\* Mutant of RefreshVisibility: only the highlight is looked at again.
RefreshHoverOnly ==
    /\ active' = IF Hovered # None /\ HostOf[Hovered] \in closed' THEN 0 ELSE active
    /\ UNCHANGED activeRows

\* A sub-menu toggles; a highlight on a row that collapsed is dropped.
RefreshVisibility ==
    /\ active' = IF Hovered # None /\ HostOf[Hovered] \in closed' THEN 0 ELSE active
    /\ RecomputeActive

ToggleSub(r) ==
    /\ r \in ToSet(dom) /\ HostOf[r] = None
    /\ closed' = IF r \in closed THEN closed \ {r} ELSE closed \cup {r}
    /\ UNCHANGED <<dom, flagged, ordered, activeMap, frameVars, pick, focus, ring, popup, laidOut>>
    /\ RefreshVisibility

-----------------------------------------------------------------------------
(* Measuring                                                               *)

\* The queued frame: a menu without a box publishes nothing and is tried again.
MeasureFrame ==
    /\ frame > 0
    /\ IF laidOut THEN rects' = ordered /\ measured' = TRUE /\ frame' = 0
       ELSE frame' = frame - 1 /\ UNCHANGED <<rects, measured>>
    /\ UNCHANGED <<rowVars, active, pick, focus, ring, popup, laidOut>>

\* A row or the menu changes size: readiness is kept.
Resized ==
    /\ laidOut /\ frame' = Attempts
    /\ UNCHANGED <<rowVars, active, rects, measured, pick, focus, ring, popup, laidOut>>

\* The menu is hidden or shown; the observers see its size change.  (A popup
\* of the sidebar does not outlive it.)
ChangeLayout ==
    /\ ~popup /\ laidOut' = ~laidOut /\ frame' = Attempts
    /\ UNCHANGED <<rowVars, active, rects, measured, pick, focus, ring, popup>>

-----------------------------------------------------------------------------
(* The pointer                                                             *)

Distance(i, j) == IF i < j THEN j - i ELSE i - j

\* pickNearest along one axis: the box under the pointer wins, then the
\* nearest, then the first; rows of a collapsed sub-menu are passed over.
Pickable == {i \in DOMAIN rects : RowAt(i) = None \/ ~RowHidden(RowAt(i))}
PickNearest(p, i) ==
    \A j \in Pickable : \/ Distance(i, p) < Distance(j, p)
                        \/ Distance(i, p) = Distance(j, p) /\ i <= j

\* Tracking freezes while a popup of the sidebar is open.
MouseMove(p) ==
    /\ ~popup /\ laidOut /\ pick' = p
    /\ UNCHANGED <<rowVars, active, frameVars, focus, ring, popup, laidOut>>

PickFrame ==
    /\ pick # 0 /\ pick' = 0
    /\ IF Pickable = {} THEN active' = 0
       ELSE \E i \in Pickable : PickNearest(pick, i) /\ active' = i
    /\ UNCHANGED <<rowVars, frameVars, focus, ring, popup, laidOut>>

MouseLeave ==
    /\ pick' = 0 /\ active' = 0
    /\ UNCHANGED <<rowVars, frameVars, focus, ring, popup, laidOut>>

PressMenu ==
    /\ ring # None /\ ring' = None
    /\ UNCHANGED <<rowVars, active, frameVars, pick, focus, popup, laidOut>>

TogglePopup ==
    /\ laidOut /\ popup' = ~popup
    /\ UNCHANGED <<rowVars, active, frameVars, pick, focus, ring, laidOut>>

-----------------------------------------------------------------------------
(* Focus                                                                   *)

\* The roving tab stop: the active rows, or else the first row.
TabStops ==
    (flagged \cap ToSet(dom))
        \cup (IF activeRows = {} /\ ordered # <<>> THEN {ordered[1]} ELSE {})

OnFocus(r, visible) ==
    /\ focus' = r /\ active' = IndexOf(ordered, r) /\ ring' = IF visible THEN r ELSE None
    /\ UNCHANGED <<rowVars, frameVars, pick, popup, laidOut>>

\* By Tab, or by a press on the row.
FocusRow(r) ==
    /\ laidOut
    /\ \/ r \in TabStops /\ OnFocus(r, TRUE)
       \/ r \in ToSet(dom) /\ ~RowHidden(r) /\ OnFocus(r, FALSE)

\* The arrows walk the rows that can be seen, and come round.
Seen == {i \in DOMAIN dom : ~RowHidden(dom[i])}
Steps(i, j) == (j + Len(dom) - i - 1) % Len(dom)

ArrowKey(forward) ==
    \E at, next \in Seen :
        /\ dom[at] = focus
        /\ \A i \in Seen : IF forward THEN Steps(at, next) <= Steps(at, i)
                           ELSE Steps(next, at) <= Steps(i, at)
        /\ OnFocus(dom[next], TRUE)

EdgeKey(last) ==
    \E at, edge \in Seen :
        /\ dom[at] = focus
        /\ \A i \in Seen : IF last THEN i <= edge ELSE edge <= i
        /\ OnFocus(dom[edge], TRUE)

Blur ==
    /\ focus # None /\ focus' = None /\ ring' = None /\ active' = 0
    /\ UNCHANGED <<rowVars, frameVars, pick, popup, laidOut>>

Next ==
    \/ \E s \in Documents : Reorder(s) \/ \E r \in Rows : MountRow(r, s) \/ UnmountRow(r, s)
    \/ \E r \in Rows : SetRowActive(r) \/ ToggleSub(r) \/ FocusRow(r)
    \/ MeasureFrame \/ Resized \/ ChangeLayout
    \/ \E p \in Slots \ {0} : MouseMove(p)
    \/ PickFrame \/ MouseLeave \/ PressMenu \/ TogglePopup \/ Blur
    \/ \E b \in BOOLEAN : ArrowKey(b) \/ EdgeKey(b)

Spec == Init /\ [][Next]_vars
-----------------------------------------------------------------------------
(* Properties                                                              *)

\* While overlays are drawn, the boxes they take are those of the rows that
\* are registered, index by index.
MeasuredIsCurrent == measured => rects = ordered

\* The active backgrounds are on the rows that are active and can be seen.
ActiveRowsAreSeen ==
    activeRows = {r \in flagged \cap ToSet(dom) : ~RowHidden(r)}

\* The keyboard reaches every menu: some row that can be seen is a tab stop.
KeyboardReaches == dom # <<>> => \E r \in TabStops : ~RowHidden(r)
=============================================================================
