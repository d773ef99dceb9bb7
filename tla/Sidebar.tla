------------------------------ MODULE Sidebar ------------------------------
(***************************************************************************)
(* The sidebar component: the open state of the desktop rail, its hover    *)
(* peek, the drag of its edge, the drawer that stands in for it on a       *)
(* narrow screen, its collapsible groups, and the key that toggles it.     *)
(* Times are abstracted to the order in which timers fire and animations   *)
(* land.  React's effects run with the event that makes them due.          *)
(***************************************************************************)
EXTENDS Naturals, Sequences, SequencesExt, FiniteSets

CONSTANTS
    Peek,       \* "hover", "click" or "none"
    Elements,   \* elements of the page that may hold focus or wrap a provider
    Enclosing,  \* an element and those that enclose it
    Wrappers,   \* elements that are the root of a SidebarProvider
    Main,       \* the provider whose state is modelled
    RawWidths   \* bound: positions of the dragged edge, in px

\* Assumed of the constants; the elements of a page are trees.
SidebarShape ==
    /\ Peek \in {"hover", "click", "none"} /\ RawWidths \subseteq Nat
    /\ Main \in Wrappers /\ Wrappers \subseteq Elements /\ IsFiniteSet(Elements)
    /\ Enclosing \in [Elements -> SUBSET Elements]
    /\ \A e \in Elements : e \in Enclosing[e]
    /\ \A e \in Elements : \A a \in Enclosing[e] : Enclosing[a] \subseteq Enclosing[e]
    /\ \A a, b \in Elements : a \in Enclosing[b] /\ b \in Enclosing[a] => a = b
    /\ \A e \in Elements : \A a, b \in Enclosing[e] : a \in Enclosing[b] \/ b \in Enclosing[a]

VARIABLES
    open, openMobile, mobile, cookie, width,
    peeking,    \* the collapsed sidebar floats over the page
    timer,      \* the one timer of the peek
    inside,     \* wasInside of the pointermove listener
    pointer,    \* where the pointer is
    over,       \* the element it last entered
    drag,       \* the gesture on the rail
    resizing,
    flip,       \* dragFlip of the shell
    sheet,      \* the drawer
    group,      \* a collapsible group
    mounted     \* the registry of providers, in the order of mounting

peekVars == <<peeking, timer, inside>>
dragVars == <<drag, resizing, flip, width>>
vars == <<open, openMobile, mobile, cookie, peekVars, pointer, over, dragVars, sheet,
          group, mounted>>

MinWidth == 160
MaxWidth == 360
CollapseSlop == 56

Places == {"away", "strip", "trigger", "covered", "panel", "portal"}
InBox  == {"strip", "covered", "panel", "portal"} \* the card's box and its margin
NoDrag == [on |-> FALSE, moved |-> FALSE, collapsed |-> FALSE]
NewSheet(now) == [closing |-> FALSE, selfClosing |-> FALSE, wasOpen |-> now]

TypeOK ==
    /\ {open, openMobile, mobile, peeking, inside, resizing, flip} \subseteq BOOLEAN
    /\ cookie \in {"unset", "open", "closed"} /\ width \in Nat
    /\ timer \in {"none", "peek", "dismiss"} /\ pointer \in Places
    /\ over \in {"page", "strip", "card", "trigger"}
    /\ drag \in [on : BOOLEAN, moved : BOOLEAN, collapsed : BOOLEAN]
    /\ sheet \in [closing : BOOLEAN, selfClosing : BOOLEAN, wasOpen : BOOLEAN]
    /\ group \in [open : BOOLEAN, settled : BOOLEAN, toggling : BOOLEAN]
    /\ mounted \in Seq(Wrappers)

Init ==
    /\ open = TRUE /\ openMobile = FALSE /\ mobile = FALSE /\ cookie = "unset" /\ width = 256
    /\ peeking = FALSE /\ timer = "none" /\ inside = TRUE /\ pointer = "away" /\ over = "page"
    /\ drag = NoDrag /\ resizing = FALSE /\ flip = FALSE
    /\ sheet = NewSheet(FALSE)
    /\ group = [open |-> TRUE, settled |-> TRUE, toggling |-> FALSE]
    /\ mounted = <<Main>>

PeekEnabled == Peek # "none" /\ ~open /\ ~resizing
SheetShown  == mobile /\ (openMobile \/ sheet.closing)

-----------------------------------------------------------------------------
(* Opening and closing                                                     *)

\* Mutant of PeekEffect: the timer that is already armed is left alone.
PeekEffectLeavesTimer ==
    /\ UNCHANGED <<timer, inside>> /\ peeking' = (peeking /\ ~(open' /\ ~open))

\* The provider's effect: an open sidebar neither peeks nor is about to.
PeekEffect ==
    LET clear == open' /\ ~open
    IN  /\ timer' = IF clear THEN "none" ELSE timer
        /\ peeking' = (peeking /\ ~clear) /\ UNCHANGED inside

\* The shell's effect: a flip of the state during a drag springs.
FlipEffect == flip' = (resizing' /\ (flip \/ open' # open))

\* The strip of the peek takes the place of the rail and ends its gesture.
RailEffect(held) ==
    drag' = IF Peek # "none" /\ ~open' /\ ~resizing' THEN NoDrag ELSE held

SetOpen(next) ==
    /\ open' = next /\ cookie' = IF next THEN "open" ELSE "closed"
    /\ PeekEffect /\ FlipEffect

\* The drawer's effect on its open state: a close it did not ask for is shown.
SheetEffect(now) ==
    [closing     |-> sheet.closing \/ (sheet.wasOpen /\ ~now /\ ~sheet.selfClosing),
     selfClosing |-> sheet.selfClosing /\ now,
     wasOpen     |-> now]

ToggleSidebar ==
    IF mobile
    THEN /\ openMobile' = ~openMobile /\ sheet' = SheetEffect(~openMobile)
         /\ UNCHANGED <<open, cookie, peekVars, dragVars>>
    ELSE /\ UNCHANGED <<resizing, width, openMobile, sheet>>
         /\ SetOpen(~open) /\ RailEffect(drag)

-----------------------------------------------------------------------------
(* The key                                                                 *)

Encloses(root, e) == root \in Enclosing[e]

Others(root) == ToSet(mounted) \ {root}

\* A provider of a set that no other of the set encloses; the first mounted.
Top(p, S) == p \in S /\ ~\E q \in S \ {p} : Encloses(q, p)
Outermost(root, S) ==
    \E i \in DOMAIN mounted :
        mounted[i] = root /\ Top(root, S) /\ \A j \in 1 .. i - 1 : ~Top(mounted[j], S)

\* Whether a provider answers a key pressed at a target.
Answers(root, target) ==
    LET wrapped == {p \in ToSet(mounted) : Encloses(target, p)}
    IN  IF Encloses(root, target)
        THEN /\ ~\E p \in Others(root) : Encloses(root, p) /\ Encloses(p, target)
             /\ ~\E p \in Others(root) : Encloses(target, p)
        ELSE IF wrapped # {} THEN Outermost(root, wrapped)
        ELSE /\ ~\E p \in Others(root) : Encloses(p, target)
             /\ Outermost(root, ToSet(mounted))

PressShortcut(target) ==
    /\ target \notin Wrappers /\ Answers(Main, target)
    /\ ToggleSidebar /\ UNCHANGED <<mobile, pointer, over, group, mounted>>

Mount(p) ==
    /\ p \in Wrappers \ ToSet(mounted) /\ mounted' = Append(mounted, p)
    /\ UNCHANGED <<open, openMobile, mobile, cookie, peekVars, pointer, over, dragVars, sheet,
                   group>>

Unmount(p) ==
    /\ p # Main
    /\ \E i \in DOMAIN mounted : mounted[i] = p /\ mounted' = RemoveAt(mounted, i)
    /\ UNCHANGED <<open, openMobile, mobile, cookie, peekVars, pointer, over, dragVars, sheet,
                   group>>

-----------------------------------------------------------------------------
(* The peek                                                                *)

Show(next) ==
    /\ peeking' = next /\ inside' = IF next /\ ~peeking THEN TRUE ELSE inside

\* The element under a place: the card covers what it floats over, and a
\* portalled menu covers the card.
Hit(p) ==
    CASE p = "strip" /\ PeekEnabled /\ ~mobile                      -> "strip"
      [] p \in {"panel", "covered"} /\ PeekEnabled /\ peeking /\ ~mobile -> "card"
      [] p \in {"trigger", "covered"}                               -> "trigger"
      [] OTHER                                                      -> "page"

\* The boundary handlers of strip, shell and trigger, on the timer.
Crossed(to) ==
    LET hovers == Peek = "hover" /\ ~open /\ ~mobile
        shell  == {"strip", "card"}
        left   == IF ~peeking /\ (over = "trigger" \/ (over \in shell /\ to \notin shell))
                  THEN "none" ELSE timer
    IN  IF ~hovers \/ resizing \/ over = to
        THEN timer
        ELSE CASE to = "strip"    -> "peek"
               [] to = "card"     -> IF over = "strip" THEN timer ELSE "none"
               [] to = "trigger"  -> IF peeking THEN "none" ELSE "peek"
               [] OTHER           -> left

\* The card moves under a pointer that rests: boundary events, no move.
Relayout ==
    /\ ~drag.on /\ over # Hit(pointer)
    /\ timer' = Crossed(Hit(pointer)) /\ over' = Hit(pointer)
    /\ UNCHANGED <<open, openMobile, mobile, cookie, peeking, inside, pointer, dragVars, sheet,
                   group, mounted>>

\* The listener on the document decides by position while the card is shown.
Move(p) ==
    LET watched == PeekEnabled /\ peeking /\ Peek = "hover"
        within  == p \in InBox /\ ~mobile
    IN  /\ ~drag.on /\ pointer' = p /\ over' = Hit(p)
        /\ inside' = IF watched THEN within ELSE inside
        /\ timer' = CASE watched /\ within             -> "none"
                      [] watched /\ ~within /\ inside  -> "dismiss"
                      [] OTHER                         -> Crossed(Hit(p))
        /\ UNCHANGED <<open, openMobile, mobile, cookie, peeking, dragVars, sheet, group, mounted>>

TimerFires ==
    /\ timer # "none" /\ timer' = "none" /\ Show(timer = "peek")
    /\ UNCHANGED <<open, openMobile, mobile, cookie, pointer, over, dragVars, sheet, group, mounted>>

ClickStrip ==
    /\ over = "strip" /\ PeekEnabled /\ timer' = "none" /\ Show(TRUE)
    /\ UNCHANGED <<open, openMobile, mobile, cookie, pointer, over, dragVars, sheet, group, mounted>>

\* Escape, or a press outside the shell: the timer stays armed.
Dismiss ==
    /\ PeekEnabled /\ peeking /\ Show(FALSE)
    /\ UNCHANGED <<open, openMobile, mobile, cookie, timer, pointer, over, dragVars, sheet, group,
                   mounted>>

\* A press on the trigger is a press outside the shell too, unless it opens
\* the rail, which ends the peek itself.
ClickTrigger ==
    /\ over = "trigger" /\ ~SheetShown /\ ~drag.on
    /\ ToggleSidebar /\ UNCHANGED <<mobile, pointer, over, group, mounted>>

-----------------------------------------------------------------------------
(* The rail                                                                *)

PressRail ==
    /\ open /\ ~mobile /\ ~drag.on /\ drag' = [NoDrag EXCEPT !.on = TRUE]
    /\ UNCHANGED <<open, openMobile, mobile, cookie, peekVars, pointer, over, resizing, flip, width,
                   sheet, group, mounted>>

Clamped(raw) == IF raw < MinWidth THEN MinWidth ELSE IF raw > MaxWidth THEN MaxWidth ELSE raw

\* Far past the minimum the drag previews the collapse, and takes it back.
DragTo(raw) ==
    LET past == raw < MinWidth - CollapseSlop
        turn == past # drag.collapsed
    IN  /\ drag.on /\ (drag.moved \/ raw # width)
        /\ resizing' = TRUE /\ width' = IF past /\ ~turn THEN width ELSE Clamped(raw)
        /\ drag' = [drag EXCEPT !.moved = TRUE, !.collapsed = past]
        /\ IF turn THEN SetOpen(~past)
           ELSE open' = open /\ FlipEffect /\ UNCHANGED <<cookie, peekVars>>
        /\ UNCHANGED <<openMobile, mobile, pointer, over, sheet, group, mounted>>

\* A press that never moved is a click; a cancelled one ends where it stands.
ReleaseRail ==
    /\ drag.on /\ resizing' = FALSE /\ drag' = NoDrag /\ UNCHANGED width
    /\ IF drag.moved THEN open' = open /\ FlipEffect /\ UNCHANGED <<cookie, peekVars, openMobile, sheet>>
       ELSE IF mobile
            THEN /\ openMobile' = ~openMobile /\ sheet' = SheetEffect(~openMobile)
                 /\ open' = open /\ FlipEffect /\ UNCHANGED <<cookie, peekVars>>
            ELSE SetOpen(~open) /\ UNCHANGED <<openMobile, sheet>>
    /\ UNCHANGED <<mobile, pointer, over, group, mounted>>

\* Mutant of CancelRail: the resize is not ended.
CancelKeepsResizing ==
    /\ drag.on /\ drag' = NoDrag
    /\ UNCHANGED <<open, openMobile, mobile, cookie, peekVars, pointer, over, resizing, flip, width,
                   sheet, group, mounted>>

CancelRail ==
    /\ drag.on /\ resizing' = FALSE /\ drag' = NoDrag /\ open' = open /\ FlipEffect
    /\ UNCHANGED <<openMobile, mobile, cookie, peekVars, pointer, over, width, sheet, group, mounted>>

FlipLands ==
    /\ flip /\ flip' = FALSE
    /\ UNCHANGED <<open, openMobile, mobile, cookie, peekVars, pointer, over, drag, resizing, width,
                   sheet, group, mounted>>

-----------------------------------------------------------------------------
(* The drawer and the groups                                               *)

\* useIsMobile; the drawer exists below the breakpoint only.
ResizeWindow ==
    /\ mobile' = ~mobile /\ sheet' = NewSheet(openMobile)
    /\ UNCHANGED <<open, openMobile, cookie, peekVars, pointer, over, dragVars, group, mounted>>

DismissSheet ==
    /\ SheetShown /\ sheet' = [sheet EXCEPT !.closing = TRUE]
    /\ UNCHANGED <<open, openMobile, mobile, cookie, peekVars, pointer, over, dragVars, group, mounted>>

\* The exit lands, by its animation or by the fallback timer.
SheetLands ==
    /\ mobile /\ sheet.closing /\ openMobile' = FALSE
    /\ sheet' = [closing |-> FALSE, selfClosing |-> ~openMobile, wasOpen |-> FALSE]
    /\ UNCHANGED <<open, mobile, cookie, peekVars, pointer, over, dragVars, group, mounted>>

ToggleGroup ==
    /\ group' = [open |-> ~group.open, toggling |-> TRUE, settled |-> group.settled /\ ~group.open]
    /\ UNCHANGED <<open, openMobile, mobile, cookie, peekVars, pointer, over, dragVars, sheet, mounted>>

GroupLands ==
    /\ group' = [group EXCEPT !.toggling = FALSE, !.settled = @ \/ group.open]
    /\ group' # group
    /\ UNCHANGED <<open, openMobile, mobile, cookie, peekVars, pointer, over, dragVars, sheet, mounted>>

Next ==
    \/ \E e \in Elements : PressShortcut(e)
    \/ \E p \in Wrappers : Mount(p) \/ Unmount(p)
    \/ \E p \in Places : Move(p)
    \/ Relayout \/ TimerFires \/ ClickStrip \/ Dismiss \/ ClickTrigger
    \/ PressRail \/ \E raw \in RawWidths : DragTo(raw)
    \/ ReleaseRail \/ CancelRail \/ FlipLands
    \/ ResizeWindow \/ DismissSheet \/ SheetLands \/ ToggleGroup \/ GroupLands

Spec == Init /\ [][Next]_vars
-----------------------------------------------------------------------------
(* Properties                                                              *)

\* A sidebar that is pinned open neither peeks nor is about to peek.
PinnedNeverPeeks == open => ~peeking /\ timer = "none"

\* The width spring is off only while a drag is under way, on the rail that
\* the peek's strip would otherwise replace.
ResizingIsADrag == resizing <=> drag.on /\ drag.moved

\* One provider answers the key, wherever the focus is.
OneProviderAnswers ==
    \A e \in Elements \ Wrappers :
        \E p \in ToSet(mounted) : \A q \in ToSet(mounted) : Answers(q, e) <=> q = p
=============================================================================
