------------------------------- MODULE Theme -------------------------------
(***************************************************************************)
(* The theme of the application: the preference in the persisted store of  *)
(* every tab, the class on its document, and the system's own preference.  *)
(***************************************************************************)
EXTENDS Naturals

CONSTANTS
    Tabs,
    MaxStyles   \* bound: flips of a tab within the two frames of their styles

\* Assumed of the constants.
ThemeShape == MaxStyles \in Nat

VARIABLES
    stored,     \* the theme in localStorage, "none" before the first write
    systemDark, \* prefers-color-scheme
    theme,      \* the store of a tab
    dark,       \* the class on its document
    listening,  \* the media listener of AppProviders
    phase,      \* of the page: the store exists before the providers mount
    styles      \* style elements that hold transitions off

vars == <<stored, systemDark, theme, dark, listening, phase, styles>>

Modes == {"dark", "light", "system"}

TypeOK ==
    /\ stored \in Modes \cup {"none"} /\ systemDark \in BOOLEAN
    /\ theme \in [Tabs -> Modes]
    /\ dark \in [Tabs -> BOOLEAN] /\ listening \in [Tabs -> BOOLEAN]
    /\ phase \in [Tabs -> {"closed", "loaded", "mounted"}]
    /\ styles \in [Tabs -> 0 .. MaxStyles]

Init ==
    /\ stored = "none" /\ systemDark \in BOOLEAN
    /\ theme = [t \in Tabs |-> "dark"] /\ dark = [t \in Tabs |-> FALSE]
    /\ listening = [t \in Tabs |-> FALSE] /\ phase = [t \in Tabs |-> "closed"]
    /\ styles = [t \in Tabs |-> 0]

IsDark(mode, system) == mode = "dark" \/ (mode = "system" /\ system)

\* applyTheme, n times in a row; each holds transitions off for two frames.
ApplyTheme(t, mode, n) ==
    /\ styles[t] + n <= MaxStyles /\ styles' = [styles EXCEPT ![t] = @ + n]
    /\ dark' = [dark EXCEPT ![t] = IsDark(mode, systemDark')]

\* A page loads: the store rehydrates and applies what it reads.
Load(t) ==
    LET mode == IF stored = "none" THEN "dark" ELSE stored
    IN  /\ phase[t] = "closed" /\ phase' = [phase EXCEPT ![t] = "loaded"]
        /\ theme' = [theme EXCEPT ![t] = mode]
        /\ UNCHANGED <<stored, systemDark, listening>> /\ ApplyTheme(t, mode, 1)

\* The effect of AppProviders, on mount and after a change of the theme.
Mount(t) ==
    /\ phase[t] = "loaded" /\ phase' = [phase EXCEPT ![t] = "mounted"]
    /\ listening' = [listening EXCEPT ![t] = theme[t] = "system"]
    /\ UNCHANGED <<stored, systemDark, theme>> /\ ApplyTheme(t, theme[t], 1)

Leave(t) ==
    /\ phase[t] # "closed" /\ phase' = [phase EXCEPT ![t] = "closed"]
    /\ dark' = [dark EXCEPT ![t] = FALSE] /\ listening' = [listening EXCEPT ![t] = FALSE]
    /\ styles' = [styles EXCEPT ![t] = 0] /\ UNCHANGED <<stored, systemDark, theme>>

\* The setter applies the theme, and so does the effect, which a change runs.
TimesApplied(t, mode) == IF mode = theme[t] THEN 1 ELSE 2

\* Mutant of SetTheme: the effect leaves the old listener where it is.
SetThemeKeepsListening(t, mode) ==
    /\ phase[t] = "mounted"
    /\ theme' = [theme EXCEPT ![t] = mode] /\ stored' = mode
    /\ listening' = [listening EXCEPT ![t] = @ \/ mode = "system"]
    /\ UNCHANGED <<systemDark, phase>> /\ ApplyTheme(t, mode, TimesApplied(t, mode))

\* setTheme applies and persists; the effect applies again and listens anew.
SetTheme(t, mode) ==
    /\ phase[t] = "mounted"
    /\ theme' = [theme EXCEPT ![t] = mode] /\ stored' = mode
    /\ listening' = [listening EXCEPT ![t] = mode = "system"]
    /\ UNCHANGED <<systemDark, phase>> /\ ApplyTheme(t, mode, TimesApplied(t, mode))

\* Every write of the store persists the whole of it, the theme with the rest.
PersistOther(t) ==
    /\ phase[t] = "mounted" /\ stored' = theme[t]
    /\ UNCHANGED <<systemDark, theme, dark, listening, phase, styles>>

\* The system changes its mind; the listeners apply "system".
SystemFlips ==
    /\ systemDark' = ~systemDark
    /\ \A t \in Tabs : listening[t] => styles[t] < MaxStyles
    /\ dark' = [t \in Tabs |-> IF listening[t] THEN systemDark' ELSE dark[t]]
    /\ styles' = [t \in Tabs |-> IF listening[t] THEN styles[t] + 1 ELSE styles[t]]
    /\ UNCHANGED <<stored, theme, listening, phase>>

FramesPass(t) ==
    /\ styles[t] > 0 /\ styles' = [styles EXCEPT ![t] = @ - 1]
    /\ UNCHANGED <<stored, systemDark, theme, dark, listening, phase>>

Next ==
    \/ SystemFlips
    \/ \E t \in Tabs : \/ Load(t) \/ Mount(t) \/ Leave(t) \/ PersistOther(t) \/ FramesPass(t)
                       \/ \E mode \in Modes : SetTheme(t, mode)

Spec == Init /\ [][Next]_vars
-----------------------------------------------------------------------------
(* Properties                                                              *)

\* Once a page is up, its document is dark exactly when its theme, or the
\* system it defers to, says so.
DocumentFollowsTheme ==
    \A t \in Tabs : phase[t] = "mounted" => (dark[t] <=> IsDark(theme[t], systemDark))
=============================================================================
