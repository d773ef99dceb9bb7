----------------------------- MODULE Artifacts -----------------------------
(***************************************************************************)
(* The artifacts tab of the process panel and the cards in the             *)
(* conversation that select an artifact: the preview of the selected one   *)
(* is fetched, and fetched again when the artifact it is of changes.  The  *)
(* effects of React run with the event that makes them due; an answer may  *)
(* arrive in any order, also after its request was given up.               *)
(***************************************************************************)
EXTENDS Naturals

CONSTANTS
    None,
    Ids,        \* artifacts that a conversation may hold
    Markdown,   \* those that can be previewed: their media type and URL
    Unlinked    \* those whose card carries no address of the API

\* Assumed of the constants.
ArtifactsShape == None \notin Ids /\ Markdown \cup Unlinked \subseteq Ids

VARIABLES
    artifacts,  \* the state of the run: what became of each artifact
    cards,      \* cards in the conversation
    selected,   \* selectedArtifactId; it outlives the conversation
    shown,      \* the tab is mounted
    preview,    \* the state of useArtifactPreview
    requests    \* requests without an answer, given up or not

vars == <<artifacts, cards, selected, shown, preview, requests>>

Statuses == {"absent", "generating", "ready", "failed"}
Preview(s, id) == [status |-> s, of |-> id]
Idle == Preview("idle", None)

TypeOK ==
    /\ artifacts \in [Ids -> Statuses] /\ cards \subseteq Ids /\ selected \in Ids \cup {None}
    /\ shown \in BOOLEAN
    /\ preview \in [status : {"idle", "loading", "ready", "error"}, of : Ids \cup {None}]
    /\ requests \subseteq [of : Ids, active : BOOLEAN]

Init ==
    /\ artifacts = [a \in Ids |-> "absent"] /\ cards = {} /\ selected = None /\ shown = FALSE
    /\ preview = Idle /\ requests = {}

\* What the effect depends on.
Subject(arts, sel) ==
    IF sel = None \/ arts[sel] = "absent" THEN Idle ELSE Preview(arts[sel], sel)

Previewable(subject) == subject.status = "ready" /\ subject.of \in Markdown

GivenUp == {[r EXCEPT !.active = FALSE] : r \in requests}

\* Mutant of PreviewEffect: the cleanup does not give the request up.
EffectWithoutCleanup ==
    LET subject == Subject(artifacts', selected')
    IN  IF shown' = shown /\ subject = Subject(artifacts, selected)
        THEN UNCHANGED <<preview, requests>>
        ELSE IF shown' /\ Previewable(subject)
        THEN /\ preview' = Preview("loading", subject.of)
             /\ requests' = requests \cup {[of |-> subject.of, active |-> TRUE]}
        ELSE preview' = Idle /\ UNCHANGED requests

\* The effect: the request of the former subject is given up.
PreviewEffect ==
    LET subject == Subject(artifacts', selected')
    IN  IF shown' = shown /\ subject = Subject(artifacts, selected)
        THEN UNCHANGED <<preview, requests>>
        ELSE IF shown' /\ Previewable(subject)
        THEN /\ preview' = Preview("loading", subject.of)
             /\ requests' = GivenUp \cup {[of |-> subject.of, active |-> TRUE]}
        ELSE preview' = Idle /\ requests' = GivenUp

\* A tool starts an artifact, finishes it, or fails; a card follows a finished one.
Progress(a) ==
    /\ \/ artifacts[a] = "absent" /\ artifacts' = [artifacts EXCEPT ![a] = "generating"]
          /\ UNCHANGED cards
       \/ artifacts[a] = "generating" /\ artifacts' = [artifacts EXCEPT ![a] = "failed"]
          /\ UNCHANGED cards
       \/ artifacts[a] = "generating" /\ artifacts' = [artifacts EXCEPT ![a] = "ready"]
          /\ cards' = cards \cup {a}
    /\ UNCHANGED <<selected, shown>> /\ PreviewEffect

\* Another conversation, or a run that starts from an older state.
OtherState(arts) ==
    /\ artifacts' = arts /\ cards' = {a \in Ids : arts[a] = "ready"}
    /\ UNCHANGED <<selected, shown>> /\ PreviewEffect

\* A card without a usable address is not drawn.
ClickCard(a) ==
    /\ a \in cards \ Unlinked /\ selected' = a /\ shown' \in {shown, TRUE}
    /\ UNCHANGED <<artifacts, cards>> /\ PreviewEffect

\* The tab is left, or the panel closes and opens.
ShowTab ==
    /\ shown' = ~shown /\ UNCHANGED <<artifacts, cards, selected>> /\ PreviewEffect

Answer(r, ok) ==
    /\ r \in requests /\ requests' = requests \ {r}
    /\ preview' = IF r.active THEN Preview(IF ok THEN "ready" ELSE "error", r.of) ELSE preview
    /\ UNCHANGED <<artifacts, cards, selected, shown>>

Next ==
    \/ \E a \in Ids : Progress(a) \/ ClickCard(a)
    \/ \E arts \in [Ids -> {"absent", "ready"}] : OtherState(arts)
    \/ ShowTab
    \/ \E r \in requests, ok \in BOOLEAN : Answer(r, ok)

Spec == Init /\ [][Next]_vars
-----------------------------------------------------------------------------
(* Properties                                                              *)

\* The preview drawn under the selected artifact is its own, of the artifact
\* as it is now, and one that is loading has a request that will be heard.
PreviewIsOfSelected ==
    /\ preview # Idle =>
          shown /\ selected = preview.of /\ artifacts[selected] = "ready" /\ selected \in Markdown
    /\ preview.status = "loading" <=> \E r \in requests : r.active
=============================================================================
