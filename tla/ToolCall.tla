------------------------------ MODULE ToolCall ------------------------------
(***************************************************************************)
(* The card of one tool call and the approval it asks for                  *)
(* (components/assistant-ui/tool-fallback.tsx).  The runtime gives the     *)
(* card a status, an approval with or without a list of options, and an    *)
(* interrupt; the card opens itself when the call starts to wait for the   *)
(* reader, who may fold it, pick an option, confirm it or go back.  The    *)
(* controls are part of the panel: React forgets their state when the      *)
(* panel is unmounted, which happens when its closing animation has ended  *)
(* or when the card takes its other form.                                  *)
(***************************************************************************)
EXTENDS Naturals, Sequences, FiniteSets

CONSTANTS None,
          Options,       \* ids of the options a host may declare
          AllowOptions,  \* those of an allow kind
          CustomOptions, \* those of a kind the kit does not know
          Confirmed,     \* those that ask for a confirmation
          MaxRequests, MaxMounts

\* Assumed of the constants.
OptionsAssumption ==
    /\ AllowOptions \subseteq Options /\ CustomOptions \subseteq Options
    /\ AllowOptions \cap CustomOptions = {} /\ {None, "allow", "deny"} \cap Options = {}
    /\ MaxRequests \in Nat /\ MaxMounts \in Nat

VARIABLES toolStatus,  \* "running", "requires-action", "complete" or "incomplete"
          request,     \* what the runtime asks: reason, approval, interrupt, resolved
          cardOpen,    \* open: the disclosure of the card
          panel,       \* the panel is mounted
          submitted, confirmingId,
          asked,       \* history: the requests made so far
          sent,        \* history: the answers given, with request and mount
          mounts,      \* history: how often the controls were mounted
          folded       \* history: the reader folded the card while it waited

vars == <<toolStatus, request, cardOpen, panel, submitted, confirmingId, asked, sent,
          mounts, folded>>

NoRequest == [reason |-> None, approval |-> None, interrupt |-> FALSE, resolved |-> FALSE]

\* What the runtime may ask: a result for a tool of the page, or an interrupt,
\* with a plain approval (no list), an approval with a list, or no approval.
Lists    == {{}} \cup {{o} : o \in Options} \cup {{o, p} : o, p \in Options}
Requests == [reason : {"tool-calls", "interrupt"},
             approval : {None, [list |-> None]} \cup [list : Lists],
             interrupt : BOOLEAN, resolved : {FALSE}]
Resolved(req) == [req EXCEPT !.resolved = TRUE]

TypeOK ==
    /\ toolStatus \in {"running", "requires-action", "complete", "incomplete"}
    /\ request \in Requests \cup {Resolved(req) : req \in Requests} \cup {NoRequest}
    /\ {cardOpen, panel, submitted, folded} \subseteq BOOLEAN
    /\ confirmingId \in Options \cup {None}
    /\ asked \in Seq(Requests) /\ Len(asked) <= MaxRequests /\ mounts \in 0 .. MaxMounts
    /\ sent \in Seq([request : DOMAIN asked, mount : 1 .. mounts,
                     answer : Options \cup {"allow", "deny"}])

Waiting(status) == status = "requires-action"
\* offersInterruptAction
Offers(req) == req.reason # "interrupt" \/ req.approval # None \/ req.interrupt
ShowsApproval(status, req) == Waiting(status) /\ Offers(req)
Controls == panel /\ ShowsApproval(toolStatus, request) /\ ~request.resolved

Declared(req) == IF req.approval = None THEN None ELSE req.approval.list
HasList(req)  == Declared(req) # None
Usable(req)   == IF HasList(req) THEN Declared(req) \ CustomOptions ELSE {}
\* Mutant of Confirming: the option is kept, not looked up.
ConfirmingKept == confirmingId # None

\* An id that is no longer among the options confirms nothing.
Confirming    == confirmingId # None /\ confirmingId \in Usable(request)
Listed(req)   == HasList(req) /\ Declared(req) # {}

Init ==
    /\ toolStatus = "running" /\ request = NoRequest
    /\ cardOpen = FALSE /\ panel = FALSE
    /\ submitted = FALSE /\ confirmingId = None
    /\ asked = << >> /\ sent = << >> /\ mounts = 0 /\ folded = FALSE

\* The card is rendered with another status or request: it opens itself when
\* the call starts to wait, and the controls are mounted, kept or dropped.
Render(status, req) ==
    /\ toolStatus' = status /\ request' = req
    /\ cardOpen' = (cardOpen \/ (Waiting(status) /\ ~Waiting(toolStatus)))
    /\ LET shown == ShowsApproval(status, req)
           kept  == shown /\ panel /\ ShowsApproval(toolStatus, request)
       IN  /\ panel' = (shown /\ (cardOpen' \/ kept))
           /\ mounts' = IF panel' /\ ~kept THEN mounts + 1 ELSE mounts
           /\ submitted' = (kept /\ submitted)
           /\ confirmingId' = IF kept THEN confirmingId ELSE None

\* The runtime asks; the next request may come before the status has left
\* requires-action in any render.
Ask(req) ==
    /\ Waiting(toolStatus) => request.resolved
    /\ toolStatus \in {"running", "requires-action"}
    /\ Len(asked) < MaxRequests /\ mounts < MaxMounts
    /\ Render("requires-action", req)
    /\ asked' = Append(asked, req)
    /\ folded' = (folded /\ Waiting(toolStatus))
    /\ UNCHANGED sent

\* The approval is decided, here or elsewhere: the controls disappear but the
\* component keeps its state.
Decide ==
    /\ Waiting(toolStatus) /\ ~request.resolved /\ request.approval # None
    /\ Render("requires-action", Resolved(request))
    /\ UNCHANGED <<asked, sent, folded>>

Resume ==
    /\ Waiting(toolStatus)
    /\ Render("running", NoRequest)
    /\ UNCHANGED <<asked, sent, folded>>

Settle(status) ==
    /\ toolStatus \in {"running", "requires-action"}
    /\ Render(status, NoRequest)
    /\ UNCHANGED <<asked, sent, folded>>

\* The reader opens or folds the card; a panel that has not gone yet is reused.
ToggleCard ==
    /\ cardOpen' = ~cardOpen
    /\ folded' = (cardOpen /\ Waiting(toolStatus))
    /\ LET mount == cardOpen' /\ ~panel /\ ShowsApproval(toolStatus, request)
       IN  /\ mount => mounts < MaxMounts
           /\ panel' = (panel \/ mount)
           /\ mounts' = IF mount THEN mounts + 1 ELSE mounts
    /\ UNCHANGED <<toolStatus, request, submitted, confirmingId,
                    asked, sent>>

\* The closing animation has ended: the panel and its state are gone.
PanelGone ==
    /\ panel /\ ~cardOpen
    /\ panel' = FALSE /\ submitted' = FALSE /\ confirmingId' = None
    /\ UNCHANGED <<toolStatus, request, cardOpen, asked, sent,
                    mounts, folded>>

Answer(a) ==
    /\ ~submitted
    /\ sent' = Append(sent, [request |-> Len(asked), mount |-> mounts, answer |-> a])
    /\ submitted' = TRUE
    /\ UNCHANGED <<toolStatus, request, cardOpen, panel, asked, mounts, folded>>

\* respond(true), of the plain pair of buttons.
Allow == /\ Controls /\ ~Confirming /\ ~Listed(request)
         /\ Answer("allow") /\ UNCHANGED confirmingId

\* The buttons that are drawn and not disabled: an option, a refusal, which is
\* also offered when the list has none of its own, and the way back.
OptionOffered(o) == /\ Controls /\ ~Confirming /\ ~submitted
                    /\ Listed(request) /\ o \in Usable(request)
DenyOffered == /\ Controls /\ ~Confirming /\ ~submitted
               /\ Listed(request) => Usable(request) \subseteq AllowOptions
BackOffered == Controls /\ Confirming /\ ~submitted

\* respond(false)
Deny == DenyOffered /\ Answer("deny") /\ UNCHANGED confirmingId

\* handleOption
Pick(o) ==
    /\ OptionOffered(o)
    /\ \/ /\ o \in Confirmed /\ confirmingId' = o
          /\ UNCHANGED <<toolStatus, request, cardOpen, panel, submitted, asked,
                         sent, mounts, folded>>
       \/ o \notin Confirmed /\ Answer(o) /\ confirmingId' = None

Confirm == /\ Controls /\ Confirming
           /\ Answer(confirmingId) /\ confirmingId' = None

Back ==
    /\ BackOffered /\ confirmingId' = None
    /\ UNCHANGED <<toolStatus, request, cardOpen, panel, submitted, asked, sent, mounts, folded>>

Next ==
    \/ \E req \in Requests : Ask(req)
    \/ Decide \/ Resume
    \/ \E status \in {"complete", "incomplete"} : Settle(status)
    \/ ToggleCard \/ PanelGone
    \/ Allow \/ Deny \/ Confirm \/ Back
    \/ \E o \in Options : Pick(o)

Spec == Init /\ [][Next]_vars
-----------------------------------------------------------------------------
(* Properties                                                              *)

\* An answer belongs to the request it is sent for: an option was declared by
\* that request, and a list is never approved beyond its options, even when the
\* request changes while a confirmation is shown.
AnswersWereOffered ==
    \A i \in DOMAIN sent :
        LET req == asked[sent[i].request] IN
        /\ sent[i].answer \in Options => sent[i].answer \in Usable(req)
        /\ sent[i].answer = "allow" => ~Listed(req)

\* Controls that stay mounted answer a request once.  (Folding the card and
\* opening it again forgets that it was answered.)
AnsweredOncePerMount ==
    \A i, j \in DOMAIN sent :
        sent[i].request = sent[j].request /\ sent[i].mount = sent[j].mount => i = j

\* A call that waits is unfolded unless the reader folded it, and as long as
\* nothing was sent from its controls the reader can refuse, at once or after
\* going back from a confirmation.
WaitingIsShown ==
    /\ Waiting(toolStatus) /\ ~cardOpen => folded
    /\ Controls /\ ~submitted =>
           BackOffered \/ DenyOffered \/ \E o \in Options \ AllowOptions : OptionOffered(o)
=============================================================================
