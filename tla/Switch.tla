------------------------------ MODULE Switch ------------------------------
(***************************************************************************)
(* The switch of the tools page and of the settings.  Its thumb can be     *)
(* clicked or dragged; `checked` belongs to the page, whose onToggle turns *)
(* it over in the same batch.  The thumb's spring is its final position.   *)
(***************************************************************************)
EXTENDS Integers

CONSTANTS
    None,
    Moves       \* distances of the pointer from where it went down

\* Assumed of the constants.
SwitchShape == Moves \subseteq Int /\ None \notin Int

VARIABLES
    checked, enabled,
    hovered, pressed,
    dragging, didDrag,
    origin,     \* originX of pointerStart, None when there is none
    thumb,      \* motionX
    clickDue,   \* the browser owes the click of the pointer that went up
    frame,      \* a frame that resets didDrag is queued
    toggles,    \* ghost: onToggle calls since the pointer went down
    cancelled   \* ghost: the last gesture was taken away by the system

vars == <<checked, enabled, hovered, pressed, dragging, didDrag, origin, thumb, clickDue,
          frame, toggles, cancelled>>

\* METRICS.default
TrackWidth  == 34
ThumbSize   == 16
PillExtend  == 2
PressExtend == 4
Offset      == 2
DeadZone    == 2
DragMax     == TrackWidth - Offset - (ThumbSize + PressExtend)

TypeOK ==
    /\ checked \in BOOLEAN /\ enabled \in BOOLEAN /\ hovered \in BOOLEAN /\ pressed \in BOOLEAN
    /\ dragging \in BOOLEAN /\ didDrag \in BOOLEAN /\ clickDue \in BOOLEAN
    /\ frame \in BOOLEAN /\ cancelled \in BOOLEAN
    /\ origin \in Offset .. TrackWidth \cup {None} /\ thumb \in Offset .. TrackWidth
    /\ toggles \in Nat

\* thumbX: where a thumb of the current shape rests.
RestingAt(on, hov, down) ==
    LET extra == CASE down -> PressExtend [] hov /\ ~down -> PillExtend [] OTHER -> 0
    IN  IF on THEN TrackWidth - Offset - ThumbSize - extra ELSE Offset

Init ==
    /\ checked \in BOOLEAN /\ enabled \in BOOLEAN
    /\ hovered = FALSE /\ pressed = FALSE /\ dragging = FALSE /\ didDrag = FALSE
    /\ origin = None /\ thumb = RestingAt(checked, FALSE, FALSE)
    /\ clickDue = FALSE /\ frame = FALSE /\ toggles = 0 /\ cancelled = FALSE

\* The effect on thumbX: it runs when thumbX changed, and not during a drag.
\* Elsewhere the thumb stays where the handler has put it.
Settle(put) ==
    LET goal == RestingAt(checked', hovered', pressed')
    IN  thumb' = IF dragging' \/ goal = RestingAt(checked, hovered, pressed) THEN put ELSE goal

Enable ==
    /\ ~enabled /\ enabled' = TRUE
    /\ UNCHANGED <<checked, hovered, pressed, dragging, didDrag, origin, thumb, clickDue, frame,
                   toggles, cancelled>>

\* Only a mouse hovers; a disabled switch has no pointer events.
Hover(on) ==
    /\ enabled /\ hovered # on /\ hovered' = on
    /\ UNCHANGED <<checked, enabled, pressed, dragging, didDrag, origin, clickDue, frame, toggles,
                   cancelled>>
    /\ Settle(thumb)

\* handlePointerDown of the primary button or of one finger: a second finger
\* during a drag would begin a gesture of its own, and is left out.
PointerDown ==
    /\ enabled /\ origin = None /\ ~clickDue
    /\ pressed' = TRUE /\ dragging' = FALSE /\ didDrag' = FALSE /\ origin' = thumb
    /\ toggles' = 0 /\ cancelled' = FALSE
    /\ UNCHANGED <<checked, enabled, hovered, clickDue, frame>>
    /\ Settle(thumb)

\* handlePointerMove: within the dead zone nothing moves until a drag is on.
PointerMove(delta) ==
    LET raw == origin + delta
    IN  /\ origin # None
        /\ dragging \/ delta >= DeadZone \/ -delta >= DeadZone
        /\ dragging' = TRUE
        /\ thumb' = CASE raw < Offset -> Offset [] raw > DragMax -> DragMax [] OTHER -> raw
        /\ UNCHANGED <<checked, enabled, hovered, pressed, didDrag, origin, clickDue, frame,
                       toggles, cancelled>>

BeyondMidpoint == 2 * thumb > Offset + DragMax

Toggle == checked' = ~checked /\ toggles' = toggles + 1

\* handlePointerUp.  A click follows before the next frame, unless the pointer
\* was a finger that moved.
PointerUp(clicks) ==
    /\ origin # None /\ origin' = None /\ pressed' = FALSE /\ dragging' = FALSE
    /\ (clicks \/ dragging) /\ clickDue' = clicks
    /\ didDrag' = (didDrag \/ dragging) /\ frame' = (frame \/ dragging)
    /\ IF dragging /\ BeyondMidpoint # checked THEN Toggle ELSE UNCHANGED <<checked, toggles>>
    /\ UNCHANGED <<enabled, hovered, cancelled>>
    /\ Settle(IF dragging /\ BeyondMidpoint = checked THEN RestingAt(checked, FALSE, FALSE)
              ELSE thumb)

\* Mutant of PointerCancel: the thumb is left where the drag took it.
CancelLeavesThumb ==
    /\ origin # None /\ origin' = None /\ pressed' = FALSE /\ dragging' = FALSE
    /\ cancelled' = TRUE
    /\ UNCHANGED <<checked, enabled, hovered, didDrag, clickDue, frame, toggles>>
    /\ Settle(thumb)

\* handlePointerCancel: the thumb goes back and nothing is toggled.
PointerCancel ==
    /\ origin # None /\ origin' = None /\ pressed' = FALSE /\ dragging' = FALSE
    /\ cancelled' = TRUE
    /\ UNCHANGED <<checked, enabled, hovered, didDrag, clickDue, frame, toggles>>
    /\ Settle(IF dragging THEN RestingAt(checked, FALSE, FALSE) ELSE thumb)

\* Mutant of Click: a drag is not told from a click.
ClickAlwaysToggles ==
    /\ clickDue /\ clickDue' = FALSE /\ Toggle
    /\ UNCHANGED <<enabled, hovered, pressed, dragging, didDrag, origin, frame, cancelled>>
    /\ Settle(thumb)

\* The click on the switch or its label.
Click ==
    /\ clickDue /\ clickDue' = FALSE
    /\ IF didDrag THEN UNCHANGED <<checked, toggles>> ELSE Toggle
    /\ UNCHANGED <<enabled, hovered, pressed, dragging, didDrag, origin, frame, cancelled>>
    /\ Settle(thumb)

\* onCheckedChange from the keyboard.
Key ==
    /\ enabled /\ ~clickDue /\ ~didDrag /\ checked' = ~checked
    /\ UNCHANGED <<enabled, hovered, pressed, dragging, didDrag, origin, clickDue, frame, toggles,
                   cancelled>>
    /\ Settle(thumb)

Frame ==
    /\ frame /\ ~clickDue /\ frame' = FALSE /\ didDrag' = FALSE
    /\ UNCHANGED <<checked, enabled, hovered, pressed, dragging, origin, thumb, clickDue, toggles,
                   cancelled>>

Next ==
    \/ Enable \/ PointerDown \/ PointerCancel \/ Click \/ Key \/ Frame
    \/ \E on \in BOOLEAN : Hover(on) \/ PointerUp(on)
    \/ \E delta \in Moves : PointerMove(delta)

Spec == Init /\ [][Next]_vars
-----------------------------------------------------------------------------
(* Properties                                                              *)

\* Whenever no drag is on, however the last one ended, the thumb rests where
\* `checked` and its shape put it; during a drag it stays on the track.
ThumbShowsChecked ==
    IF dragging THEN thumb \in Offset .. DragMax ELSE thumb = RestingAt(checked, hovered, pressed)

\* A gesture turns the switch over at most once, as a drag or as the click that
\* follows it, and one that is cancelled does not.
OneTogglePerGesture == toggles <= 1 /\ (cancelled => toggles = 0)
=============================================================================
