------------------------------ MODULE Panels -------------------------------
(***************************************************************************)
(* The panels of the workspace: the persisted store, the resizable group   *)
(* of the desktop layout, which keeps sizes of its own for every window     *)
(* class, and the sheets that replace panels on narrow screens.  A panel's *)
(* size is abstracted to whether it is collapsed.  The panel library tells *)
(* a panel's size after every change of it, the first one included, and    *)
(* does so later: the notice may be overtaken by clicks.                   *)
(***************************************************************************)
EXTENDS Naturals

VARIABLES
    window,    \* its width: "mobile", "compact" or "wide"
    store,     \* sidebarCollapsed, processPanelOpen, the tab and the sheets
    collapsed, \* what the panels of the mounted group are
    notice,    \* panels whose onResize is due
    saved      \* the layout in localStorage, if any, by width class

vars == <<window, store, collapsed, notice, saved>>

Sides  == {"sidebar", "process"}
Widths == {"mobile", "compact", "wide"}
Views  == {"activity", "sources", "artifacts"}
Layouts == [Sides -> BOOLEAN]

TypeOK ==
    /\ window \in Widths /\ collapsed \in Layouts /\ notice \subseteq Sides
    /\ store \in [sidebarCollapsed : BOOLEAN, processPanelOpen : BOOLEAN, tab : Views,
                  sidebarSheet : BOOLEAN, processSheet : BOOLEAN]
    /\ saved \in [{"compact", "wide"} -> SUBSET Layouts]

Compact == window \in {"mobile", "compact"}
Mounted(w) == CASE w = "wide" -> Sides [] w = "compact" -> {"sidebar"} [] w = "mobile" -> {}

\* What the store wants of a panel.
Wants(s) ==
    [p \in Sides |-> IF p = "sidebar" THEN s.sidebarCollapsed ELSE ~s.processPanelOpen]

Init ==
    /\ window \in Widths /\ saved = [w \in {"compact", "wide"} |-> {}]
    /\ store = [sidebarCollapsed |-> FALSE, processPanelOpen |-> TRUE, tab |-> "activity",
                sidebarSheet |-> FALSE, processSheet |-> FALSE]
    /\ collapsed = Wants(store) /\ notice = Mounted(window)

\* onLayoutChanged persists the sizes of the group.
SaveLayout ==
    saved' = IF window' = "mobile" THEN saved ELSE [saved EXCEPT ![window'] = {collapsed'}]

\* Mutant of Reconcile: a panel is collapsed but never expanded again.
ReconcileCollapses ==
    LET wants == Wants(store')
        moved == {p \in Mounted(window) : wants[p] /\ ~Wants(store)[p] /\ ~collapsed[p]}
    IN  /\ collapsed' = [p \in Sides |-> IF p \in moved THEN wants[p] ELSE collapsed[p]]
        /\ notice' = notice \cup moved
        /\ UNCHANGED window /\ SaveLayout

\* The effects on the store: a panel that differs is collapsed or expanded.
Reconcile ==
    LET wants == Wants(store')
        moved == {p \in Mounted(window) : wants[p] # Wants(store)[p] /\ wants[p] # collapsed[p]}
    IN  /\ collapsed' = [p \in Sides |-> IF p \in moved THEN wants[p] ELSE collapsed[p]]
        /\ notice' = notice \cup moved
        /\ UNCHANGED window /\ SaveLayout

\* usePaneActions: the header's toggles, which open a sheet where there is
\* no panel.
ToggleSidebar ==
    /\ store' = IF window = "mobile" THEN [store EXCEPT !.sidebarSheet = TRUE]
                ELSE [store EXCEPT !.sidebarCollapsed = ~@]
    /\ Reconcile

ToggleProcess ==
    /\ store' = IF Compact THEN [store EXCEPT !.processSheet = TRUE]
                ELSE [store EXCEPT !.processPanelOpen = ~@]
    /\ Reconcile

\* The close button of the process panel, in a panel or in a sheet.
CloseProcess ==
    /\ IF Compact THEN store.processSheet ELSE store.processPanelOpen
    /\ store' = IF Compact THEN [store EXCEPT !.processSheet = FALSE]
                ELSE [store EXCEPT !.processPanelOpen = FALSE]
    /\ Reconcile

DismissSidebarSheet ==
    /\ window = "mobile" /\ store.sidebarSheet
    /\ store' = [store EXCEPT !.sidebarSheet = FALSE] /\ Reconcile

ProcessShown == IF Compact THEN store.processSheet ELSE store.processPanelOpen

ChooseTab(v) ==
    /\ ProcessShown /\ store' = [store EXCEPT !.tab = v] /\ Reconcile

\* A card in the conversation opens the panel, not the sheet, at its artifact.
OpenArtifact ==
    /\ store' = [store EXCEPT !.processPanelOpen = TRUE, !.tab = "artifacts"] /\ Reconcile

\* The user drags a handle past a panel's minimum, or back.
Drag(p) ==
    /\ p \in Mounted(window)
    /\ collapsed' = [collapsed EXCEPT ![p] = ~@] /\ notice' = notice \cup {p}
    /\ UNCHANGED <<window, store>> /\ SaveLayout

\* onResize: the store learns what dragging did.
Resized(p) ==
    /\ p \in notice /\ notice' = notice \ {p}
    /\ store' = IF p = "sidebar" THEN [store EXCEPT !.sidebarCollapsed = collapsed[p]]
                ELSE [store EXCEPT !.processPanelOpen = ~collapsed[p]]
    /\ UNCHANGED <<window, collapsed, saved>>

\* The window crosses a breakpoint.  The group is mounted anew, with the
\* layout saved for its class; only a desktop layout that was not mounted at
\* all reconciles it with the store at once.
Cross(w) ==
    LET start == IF w = "mobile" \/ saved[w] = {} THEN Wants(store)
                 ELSE CHOOSE layout \in saved[w] : TRUE
        fresh == window = "mobile"
    IN  /\ w # window /\ window' = w
        /\ collapsed' = [p \in Sides |-> IF p \in Mounted(w) /\ ~fresh THEN start[p]
                                         ELSE Wants(store)[p]]
        /\ notice' = Mounted(w) /\ UNCHANGED store /\ SaveLayout

\* The page is loaded anew: sheets are closed, the rest was persisted.
Reload ==
    /\ store' = [store EXCEPT !.sidebarSheet = FALSE, !.processSheet = FALSE]
    /\ collapsed' = Wants(store) /\ notice' = Mounted(window)
    /\ UNCHANGED window /\ SaveLayout

Next ==
    \/ ToggleSidebar \/ ToggleProcess \/ CloseProcess \/ DismissSidebarSheet \/ OpenArtifact
    \/ \E v \in Views : ChooseTab(v)
    \/ \E p \in Sides : Drag(p) \/ Resized(p)
    \/ \E w \in Widths : Cross(w)
    \/ Reload

Spec == Init /\ [][Next]_vars
-----------------------------------------------------------------------------
(* Properties                                                              *)

\* The store is truthful: unless a panel's notice is still due, the store and
\* the panel say the same of it.
PanelsAgree ==
    \A p \in Mounted(window) \ notice : collapsed[p] = Wants(store)[p]
=============================================================================
