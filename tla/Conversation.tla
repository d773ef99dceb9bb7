---------------------------- MODULE Conversation ----------------------------
(***************************************************************************)
(* The conversation a reader sees (components/assistant-ui/thread.tsx with *)
(* the follow-up suggestions, the queue and the scroll anchor): what the   *)
(* interface offers in which state, and the badge that counts messages     *)
(* while the reader is scrolled up.  The runtime behind it, which appends, *)
(* queues and branches, is external and modelled from how it is used; a    *)
(* message is abstracted to its place in the path that is shown.           *)
(***************************************************************************)
EXTENDS Integers, FiniteSetsExt

CONSTANTS
    MaxMessages, \* bound: messages of a path
    MaxQueue     \* bound: messages that wait for a run

\* Assumed of the constants.
ConversationShape == MaxMessages \in Nat \ {0} /\ MaxQueue \in Nat

VARIABLES
    loading,   \* what is not there yet: the list of threads, the history
    messages,  \* length of the path that is shown
    running,
    ready,     \* useRunReadiness
    drafted,   \* the composer holds text
    editing,   \* the editor of an earlier message is open
    queued,    \* messages sent during a run
    offered,   \* the thread has follow-up suggestions
    atBottom,  \* isAtBottom of the viewport
    lastSeen,  \* lastSeenCountRef
    gained,    \* history: messages that came since the bottom was left, capped
    shortened  \* history: a shorter branch was shown since then

composerVars == <<ready, drafted, editing>>
anchorVars   == <<atBottom, lastSeen, gained, shortened>>
vars == <<loading, messages, running, composerVars, queued, offered, anchorVars>>

TypeOK ==
    /\ loading \in {"threads", "history", "nothing"} /\ messages \in 0 .. MaxMessages
    /\ {running, ready, drafted, editing, offered, atBottom, shortened} \subseteq BOOLEAN
    /\ queued \in 0 .. MaxQueue /\ lastSeen \in 0 .. MaxMessages /\ gained \in 0 .. MaxMessages

Init ==
    /\ loading = "threads" /\ messages = 0 /\ running = FALSE
    /\ ready = FALSE /\ drafted = FALSE /\ editing = FALSE /\ queued = 0 /\ offered = FALSE
    /\ atBottom = TRUE /\ lastSeen = 0 /\ gained = 0 /\ shortened = FALSE

\* The thread's own loading flag is set until its history is there.
IsNewChatView == messages = 0 /\ loading # "history"

\* Mutant of AnchorEffect: it depends on isAtBottom only.
AnchorOnReturn ==
    /\ lastSeen' = IF atBottom' /\ ~atBottom THEN messages' ELSE lastSeen
    /\ gained' = IF atBottom' THEN 0 ELSE Min({MaxMessages, gained + Max({0, messages' - messages})})
    /\ shortened' = (~atBottom' /\ (shortened \/ messages' < messages))

\* The effect of the scroll anchor: the count is taken at the bottom.
AnchorEffect ==
    /\ lastSeen' = IF atBottom' THEN messages' ELSE lastSeen
    /\ gained' = IF atBottom' THEN 0 ELSE Min({MaxMessages, gained + Max({0, messages' - messages})})
    /\ shortened' = (~atBottom' /\ (shortened \/ messages' < messages))

Unread == IF atBottom THEN 0 ELSE Max({0, messages - lastSeen})

\* Another length of path; the viewport may move in the same commit.
Show(n) ==
    /\ n <= MaxMessages /\ messages' = n
    /\ atBottom' \in BOOLEAN /\ AnchorEffect

Load ==
    \/ loading = "threads" /\ loading' = "history" /\ Show(0)
       /\ UNCHANGED <<running, composerVars, queued, offered>>
    \/ loading = "history" /\ loading' = "nothing" /\ \E n \in 0 .. MaxMessages : Show(n)
       /\ UNCHANGED <<running, composerVars, queued, offered>>

SetReady ==
    /\ ready' = ~ready
    /\ UNCHANGED <<loading, messages, running, drafted, editing, queued, offered, anchorVars>>

SetSuggestions ==
    /\ offered' = ~offered
    /\ UNCHANGED <<loading, messages, running, composerVars, queued, anchorVars>>

\* The composer is typed in, dictated to, or filled by a starter pill, which
\* does not send.
Type ==
    /\ drafted' \in BOOLEAN
    /\ UNCHANGED <<loading, messages, running, ready, editing, queued, offered, anchorVars>>

StarterPill ==
    /\ IsNewChatView /\ drafted' = TRUE
    /\ UNCHANGED <<loading, messages, running, ready, editing, queued, offered, anchorVars>>

\* The runtime takes a message: it starts a run after n messages of the path, or
\* waits for the one that is going.
Turn(n) ==
    \/ /\ ~running /\ running' = TRUE /\ Show(n + 1) /\ UNCHANGED queued
    \/ /\ running /\ queued < MaxQueue /\ queued' = queued + 1
       /\ UNCHANGED <<messages, running, anchorVars>>

\* Enter, or the button that is drawn while nothing runs; both want readiness.
SubmitComposer ==
    /\ ready /\ drafted /\ drafted' = FALSE /\ Turn(messages)
    /\ UNCHANGED <<loading, ready, editing, offered>>

\* A suggestion of a new conversation, drawn under an empty composer, and a
\* follow-up: neither looks at readiness.
ClickSuggestion ==
    /\ IsNewChatView /\ ~drafted /\ Turn(messages)
    /\ UNCHANGED <<loading, composerVars, offered>>

ClickFollowUp ==
    /\ messages > 0 /\ ~running /\ offered
    /\ drafted' = FALSE /\ Turn(messages)
    /\ UNCHANGED <<loading, ready, editing, offered>>

\* The action bars are hidden during a run; an editor that is open stays.
Regenerate(n) ==
    /\ ~running /\ n < messages /\ running' = TRUE /\ Show(n + 1)
    /\ UNCHANGED <<loading, composerVars, queued, offered>>

StartEdit ==
    /\ ~running /\ messages > 0 /\ ~editing /\ editing' = TRUE
    /\ UNCHANGED <<loading, messages, running, ready, drafted, queued, offered, anchorVars>>

SubmitEdit(n) ==
    /\ editing /\ ready /\ n < messages /\ editing' = FALSE /\ Turn(n)
    /\ UNCHANGED <<loading, ready, drafted, offered>>

CancelEdit ==
    /\ editing /\ editing' = FALSE
    /\ UNCHANGED <<loading, messages, running, ready, drafted, queued, offered, anchorVars>>

\* The other versions of a message may end in shorter or longer paths; the
\* picker is drawn during a run too.
PickBranch(n) ==
    /\ messages > 0 /\ n > 0 /\ Show(n)
    /\ editing' \in {editing, FALSE}
    /\ UNCHANGED <<loading, running, ready, drafted, queued, offered>>

Stream ==
    /\ running /\ Show(messages + 1)
    /\ UNCHANGED <<loading, running, composerVars, queued, offered>>

\* A run ends, or is stopped by the button or Escape; the queue goes on.
EndRun ==
    /\ running
    /\ IF queued = 0 THEN running' = FALSE /\ Show(messages) /\ UNCHANGED queued
                     ELSE queued' = queued - 1 /\ Show(messages + 1) /\ UNCHANGED running
    /\ UNCHANGED <<loading, composerVars, offered>>

\* "Run now" of a queued message, and its removal.
Steer ==
    /\ queued > 0 /\ queued' = queued - 1 /\ running' = TRUE /\ Show(messages + 1)
    /\ UNCHANGED <<loading, composerVars, offered>>

Unqueue ==
    /\ queued > 0 /\ queued' = queued - 1
    /\ UNCHANGED <<loading, messages, running, composerVars, offered, anchorVars>>

\* The reader scrolls, or uses the anchor, drawn away from the bottom.
Scroll ==
    /\ atBottom' = ~atBottom /\ messages' = messages /\ AnchorEffect
    /\ UNCHANGED <<loading, running, composerVars, queued, offered>>

Next ==
    \/ Load \/ SetReady \/ SetSuggestions \/ Type \/ StarterPill
    \/ SubmitComposer \/ ClickSuggestion \/ ClickFollowUp
    \/ StartEdit \/ CancelEdit
    \/ \E n \in 0 .. MaxMessages : Regenerate(n) \/ SubmitEdit(n) \/ PickBranch(n)
    \/ Stream \/ EndRun \/ Steer \/ Unqueue \/ Scroll

Spec == Init /\ [][Next]_vars
-----------------------------------------------------------------------------
(* Properties                                                              *)

\* The badge never promises more messages than came while the reader was away
\* from the bottom, and as many as long as no shorter branch was shown.
BadgeCountsNew == Unread <= gained /\ (~atBottom /\ ~shortened => Unread = gained)
=============================================================================
