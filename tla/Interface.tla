----------------------------- MODULE Interface -----------------------------
(***************************************************************************)
(* The parts of the interface that keep state of their own.  They share no *)
(* state and call none of each other's handlers: a state of the page is    *)
(* one state of each, and a step of the page a step of one.  A behaviour   *)
(* is therefore that of one part, chosen at the start.                     *)
(***************************************************************************)
EXTENDS Integers, Sequences

CONSTANTS None,
          Peek, Elements, Enclosing, Wrappers, Main, RawWidths,      \* Sidebar
          Rows, HostOf, Documents, Attempts,                         \* SidebarMenu
          Tabs, MaxStyles,                                           \* Theme
          Ids, Markdown, Unlinked,                                   \* Artifacts
          MaxMessages, MaxQueue,                                     \* Conversation
          Options, AllowOptions, CustomOptions, Confirmed, MaxRequests, MaxMounts,
          View, MaxLines,                                            \* Reasoning
          Moves                                                      \* Switch

VARIABLES part,
          open, openMobile, mobile, cookie, width, peeking, timer, inside, pointer, over,
          drag, resizing, flip, sheet, group, mounted,
          dom, closed, flagged, ordered, activeMap, activeRows, active, rects, measured,
          frame, pick, focus, ring, popup, laidOut,
          stored, systemDark, theme, dark, listening, phase, styles,
          window, store, collapsed, notice, saved,
          artifacts, cards, selected, shown, preview, requests,
          loading, messages, running, ready, drafted, editing, queued, offered, atBottom,
          lastSeen, gained, shortened,
          toolStatus, request, cardOpen, panel, submitted, confirmingId, asked, sent,
          mounts, folded,
          streaming, userOpen, lines, top, pinned, lastTop, lastHeight, scrollDue,
          resizeDue, leftBottom, regrown,
          checked, enabled, hovered, pressed, dragging, didDrag, origin, thumb, clickDue,
          toggleFrame, toggles, cancelled

Side    == INSTANCE Sidebar
Menu    == INSTANCE SidebarMenu
Look    == INSTANCE Theme
Panes   == INSTANCE Panels
Results == INSTANCE Artifacts
Talk    == INSTANCE Conversation
Call    == INSTANCE ToolCall
Thought == INSTANCE Reasoning
Toggle  == INSTANCE Switch WITH frame <- toggleFrame

ASSUME Shapes ==
    /\ Side!SidebarShape /\ Menu!MenuShape /\ Look!ThemeShape /\ Results!ArtifactsShape
    /\ Talk!ConversationShape /\ Call!OptionsAssumption /\ Thought!LinesAssumption
    /\ Toggle!SwitchShape

Parts == {"sidebar", "menu", "theme", "panels", "artifacts", "conversation", "call",
          "reasoning", "switch"}

sideVars    == <<open, openMobile, mobile, cookie, width, peeking, timer, inside, pointer,
                 over, drag, resizing, flip, sheet, group, mounted>>
menuVars    == <<dom, closed, flagged, ordered, activeMap, activeRows, active, rects,
                 measured, frame, pick, focus, ring, popup, laidOut>>
lookVars    == <<stored, systemDark, theme, dark, listening, phase, styles>>
paneVars    == <<window, store, collapsed, notice, saved>>
resultVars  == <<artifacts, cards, selected, shown, preview, requests>>
talkVars    == <<loading, messages, running, ready, drafted, editing, queued, offered,
                 atBottom, lastSeen, gained, shortened>>
callVars    == <<toolStatus, request, cardOpen, panel, submitted, confirmingId, asked,
                 sent, mounts, folded>>
thoughtVars == <<streaming, userOpen, lines, top, pinned, lastTop, lastHeight, scrollDue,
                 resizeDue, leftBottom, regrown>>
toggleVars  == <<checked, enabled, hovered, pressed, dragging, didDrag, origin, thumb,
                 clickDue, toggleFrame, toggles, cancelled>>
vars == <<part, sideVars, menuVars, lookVars, paneVars, resultVars, talkVars, callVars,
          thoughtVars, toggleVars>>

Init ==
    /\ part \in Parts
    /\ Side!Init /\ Menu!Init /\ Look!Init /\ Panes!Init /\ Results!Init /\ Talk!Init
    /\ Call!Init /\ Thought!Init /\ Toggle!Init
    /\ part # "theme" => ~systemDark
    /\ part # "panels" => window = "wide"
    /\ part # "switch" => checked /\ enabled

Others(S) ==
    /\ "sidebar"      \in S => UNCHANGED sideVars
    /\ "menu"         \in S => UNCHANGED menuVars
    /\ "theme"        \in S => UNCHANGED lookVars
    /\ "panels"       \in S => UNCHANGED paneVars
    /\ "artifacts"    \in S => UNCHANGED resultVars
    /\ "conversation" \in S => UNCHANGED talkVars
    /\ "call"         \in S => UNCHANGED callVars
    /\ "reasoning"    \in S => UNCHANGED thoughtVars
    /\ "switch"       \in S => UNCHANGED toggleVars

Next ==
    /\ \/ part = "sidebar"      /\ Side!Next
       \/ part = "menu"         /\ Menu!Next
       \/ part = "theme"        /\ Look!Next
       \/ part = "panels"       /\ Panes!Next
       \/ part = "artifacts"    /\ Results!Next
       \/ part = "conversation" /\ Talk!Next
       \/ part = "call"         /\ Call!Next
       \/ part = "reasoning"    /\ Thought!Next
       \/ part = "switch"       /\ Toggle!Next
    /\ Others(Parts \ {part}) /\ UNCHANGED part

Spec == Init /\ [][Next]_vars
-----------------------------------------------------------------------------
(* Properties                                                              *)

\* The sidebar: a pinned sidebar neither peeks nor has a timer that will make
\* it, it counts as resizing exactly during a drag that has moved (also after
\* the gesture is cancelled), and a key press toggles at most one of the
\* providers of the page, the nearest or the outermost.
SidebarHolds ==
    part = "sidebar" =>
        Side!TypeOK /\ Side!PinnedNeverPeeks /\ Side!ResizingIsADrag /\ Side!OneProviderAnswers

\* Its menu: boxes that count as measured are those of the rows as they are
\* registered, rows with an active background are exactly those that can be
\* seen, and the keyboard can enter the menu.
MenuHolds ==
    part = "menu" =>
        Menu!TypeOK /\ Menu!MeasuredIsCurrent /\ Menu!ActiveRowsAreSeen /\ Menu!KeyboardReaches

\* The workspace: the panels are what the store says of them, the document of
\* every tab has the theme of its store, the preview of an artifact is that of
\* the selected one, whatever answer arrives late, and a switch shows what it is
\* and is turned over once by a gesture.
LayoutHolds ==
    /\ part = "panels"    => Panes!TypeOK /\ Panes!PanelsAgree
    /\ part = "theme"     => Look!TypeOK /\ Look!DocumentFollowsTheme
    /\ part = "artifacts" => Results!TypeOK /\ Results!PreviewIsOfSelected
    /\ part = "switch"    =>
           Toggle!TypeOK /\ Toggle!ThumbShowsChecked /\ Toggle!OneTogglePerGesture

\* The conversation: the badge counts the messages that came while the reader
\* was away, a tool's approval is answered with what its request offered and
\* once per rendering of its controls, and a reasoning preview follows its text
\* until the reader leaves it.
ConversationHolds ==
    /\ part = "conversation" => Talk!TypeOK /\ Talk!BadgeCountsNew
    /\ part = "call" =>
           /\ Call!TypeOK /\ Call!AnswersWereOffered /\ Call!AnsweredOncePerMount
           /\ Call!WaitingIsShown
    /\ part = "reasoning" =>
           Thought!TypeOK /\ Thought!FollowsUntilReaderLeaves /\ Thought!FollowedIsNewest
=============================================================================
