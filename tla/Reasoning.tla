----------------------------- MODULE Reasoning -----------------------------
(***************************************************************************)
(* The live preview of a reasoning part                                    *)
(* (components/assistant-ui/reasoning.tsx): a disclosure held open while   *)
(* the text streams, until the reader toggles it, and a text that follows  *)
(* its newest line unless the reader has scrolled up.  Heights are whole   *)
(* lines, View of which are visible.  The browser reports a scroll and a   *)
(* change of the content's height later than they happen, in either order  *)
(* and once for several changes.                                           *)
(***************************************************************************)
EXTENDS Integers, FiniteSetsExt

CONSTANTS None, View, MaxLines

\* Assumed of the constants.
LinesAssumption == None \notin BOOLEAN /\ View \in Nat \ {0} /\ MaxLines \in Nat

VARIABLES streaming, userOpen,
          lines, top,              \* of the element: scrollHeight, scrollTop
          pinned, lastTop, lastHeight,
          scrollDue, resizeDue,    \* events the browser has not delivered
          leftBottom,              \* history: the reader moved up
          regrown                  \* history: the text shrank and grew back

vars == <<streaming, userOpen, lines, top, pinned, lastTop, lastHeight, scrollDue,
          resizeDue, leftBottom, regrown>>

TypeOK ==
    /\ userOpen \in BOOLEAN \cup {None}
    /\ {streaming, pinned, scrollDue, resizeDue, leftBottom, regrown} \subseteq BOOLEAN
    /\ {lines, top, lastTop, lastHeight} \subseteq 0 .. MaxLines

IsOpen    == IF userOpen = None THEN streaming ELSE userOpen
IsPreview == streaming /\ IsOpen

MaxTop(n)  == Max({0, n - View})
AtBottom   == top = MaxTop(lines)

Init ==
    /\ streaming = FALSE /\ userOpen = None
    /\ lines = 0 /\ top = 0
    /\ pinned = FALSE /\ lastTop = 0 /\ lastHeight = 0
    /\ scrollDue = FALSE /\ resizeDue = FALSE
    /\ leftBottom = FALSE /\ regrown = FALSE

\* The effect of the text: a preview that starts reads where the element is (at
\* its top if a closed panel was unmounted meanwhile), pins it to the newest line
\* and observes it; one that ends stops listening.
TextEffect(preview) ==
    IF preview /\ ~IsPreview
    THEN /\ pinned' = TRUE /\ lastHeight' = lines
         /\ lastTop' \in IF IsOpen THEN {top} ELSE {top, 0}
         /\ top' = MaxTop(lines)
         /\ scrollDue' = (top' # lastTop') /\ resizeDue' = TRUE
         /\ leftBottom' = FALSE /\ regrown' = FALSE
    ELSE /\ scrollDue' = FALSE /\ resizeDue' = FALSE
         /\ UNCHANGED << top, pinned, lastTop, lastHeight, leftBottom, regrown >>

\* A part of the group starts or stops to run.
SetStreaming ==
    /\ streaming' = ~streaming
    /\ TextEffect(streaming' /\ (IF userOpen = None THEN streaming' ELSE userOpen))
    /\ UNCHANGED << userOpen, lines >>

\* handleOpenChange: from the first toggle on the reader decides.
ToggleReasoning ==
    /\ userOpen' = ~IsOpen
    /\ TextEffect(streaming /\ userOpen')
    /\ UNCHANGED << streaming, lines >>

Grow ==
    /\ streaming /\ lines < MaxLines
    /\ lines' = lines + 1
    /\ resizeDue' = IsPreview
    /\ regrown' = (regrown \/ lines + 1 = lastHeight)
    /\ UNCHANGED << streaming, userOpen, top, pinned, lastTop, lastHeight,
                    scrollDue, leftBottom >>

\* Markdown parsed again may take fewer lines: the browser clamps the offset.
Shrink ==
    /\ streaming /\ lines > 0
    /\ lines' = lines - 1
    /\ top' = Min({top, MaxTop(lines - 1)})
    /\ resizeDue' = IsPreview
    /\ scrollDue' = (scrollDue \/ (IsPreview /\ top' # top))
    /\ UNCHANGED << streaming, userOpen, pinned, lastTop, lastHeight,
                    leftBottom, regrown >>

\* The ResizeObserver calls pin.
Resized ==
    /\ IsPreview /\ resizeDue
    /\ resizeDue' = FALSE
    /\ top' = IF pinned THEN MaxTop(lines) ELSE top
    /\ scrollDue' = (scrollDue \/ top' # top)
    /\ UNCHANGED << streaming, userOpen, lines, pinned, lastTop, lastHeight,
                    leftBottom, regrown >>

ReaderScrolls(to) ==
    /\ IsOpen /\ to # top
    /\ top' = to
    /\ scrollDue' = IsPreview
    /\ leftBottom' = (leftBottom \/ to < top)
    /\ UNCHANGED << streaming, userOpen, lines, pinned, lastTop, lastHeight,
                    resizeDue, regrown >>

\* Mutant of Scrolled: whatever is not at the bottom counts as the reader's move.
ScrolledUnpins ==
    /\ IsPreview /\ scrollDue
    /\ scrollDue' = FALSE
    /\ pinned' = AtBottom
    /\ lastTop' = top /\ lastHeight' = lines
    /\ leftBottom' = (leftBottom /\ ~AtBottom)
    /\ regrown' = (regrown /\ ~AtBottom)
    /\ UNCHANGED << streaming, userOpen, lines, top, resizeDue >>

\* onScroll
Scrolled ==
    /\ IsPreview /\ scrollDue
    /\ scrollDue' = FALSE
    /\ pinned' = (AtBottom \/ (pinned /\ ~(top < lastTop /\ lines = lastHeight)))
    /\ lastTop' = top /\ lastHeight' = lines
    /\ leftBottom' = (leftBottom /\ ~AtBottom)
    /\ regrown' = (regrown /\ ~AtBottom)
    /\ UNCHANGED << streaming, userOpen, lines, top, resizeDue >>

Next ==
    \/ SetStreaming \/ ToggleReasoning
    \/ Grow \/ Shrink \/ Resized \/ Scrolled
    \/ \E to \in 0 .. MaxTop(lines) : ReaderScrolls(to)

Spec == Init /\ [][Next]_vars
-----------------------------------------------------------------------------
(* Properties                                                              *)

\* The preview stops following only because the reader moved up (or because
\* the text shrank and grew back before the browser reported it, which looks
\* the same), never because of its own scrolling or of new lines.
FollowsUntilReaderLeaves == IsPreview /\ ~pinned => leftBottom \/ regrown

\* A preview that follows and has heard of every change shows the newest line,
\* unless the reader moved up while the height was changing.
FollowedIsNewest ==
    IsPreview /\ pinned /\ ~scrollDue /\ ~resizeDue => AtBottom \/ leftBottom
=============================================================================
