----------------------------- MODULE HistoryHead -----------------------------
(***************************************************************************)
(* The browser's side of a conversation: the ordered message writes of the *)
(* history adapter, the run request that waits for them, and the component *)
(* that publishes the selected branch head, with the server's tree behind  *)
(* them.  A write of the adapter is one step, from the request to the      *)
(* answer; a head write has its phases, since a later branch change may    *)
(* abandon it in any of them.                                              *)
(***************************************************************************)
EXTENDS Naturals, Sequences, SequencesExt

CONSTANTS
    None,        \* null
    Users,       \* messages the user types
    Answers,     \* messages a run streams
    ParentOf,    \* the message each one hangs below
    InitialHead, \* what the bootstrap of the thread restored
    Restorable,  \* the messages of the bootstrap
    MaxRetries,  \* head writes retried
    MaxMoves,    \* bound: branch switches and regenerations
    Mishaps      \* what may go wrong

MsgIds     == Users \cup Answers
Optimistic == "__optimistic__"
Unset      == "undefined"

ASSUME HistoryShape ==
    /\ Users \cap Answers = {} /\ {None, Optimistic, Unset} \cap MsgIds = {}
    /\ None \notin {Optimistic, Unset}
    /\ ParentOf \in [MsgIds -> MsgIds \cup {None}]
    /\ Restorable \subseteq MsgIds /\ InitialHead \in Restorable \cup {None}
    /\ MaxRetries \in Nat /\ MaxMoves \in Nat
    /\ Mishaps \subseteq {"write", "head", "late", "run", "switch", "return"}

VARIABLES
    restored, local, head, running, moves, \* the assistant-ui runtime
    writes, outcome, barrier,              \* the adapter's promise chain
    request,                               \* the run request
    sync, chain, strays,                   \* HistoryHeadSync and its retries
    stored, serverHead                     \* the thread on the server

runtimeVars == <<restored, local, head, running, moves>>
writeVars   == <<writes, outcome, barrier>>
syncVars    == <<sync, chain, strays>>
serverVars  == <<stored, serverHead>>
vars == <<runtimeVars, writeVars, request, syncVars, serverVars>>

Failed    == {"lost", "rejected"}
NoRequest == [phase |-> "none", on |-> None, input |-> None, answer |-> None]
NoChain   == [phase |-> "idle", on |-> None, attempt |-> 0]
MsgRef    == MsgIds \cup {None}

TypeOK ==
    /\ restored \in BOOLEAN /\ running \in BOOLEAN /\ moves \in 0..MaxMoves
    /\ local \subseteq MsgIds /\ head \in MsgRef \cup {Optimistic}
    /\ writes \in Seq(MsgIds)
    /\ outcome \in [MsgIds -> {"none", "queued", "stored"} \cup Failed]
    /\ barrier \in MsgRef
    /\ request \in [phase : {"none", "barrier", "capabilities", "reserved", "completed"},
                    on : MsgRef, input : MsgRef, answer : MsgRef]
    /\ sync \in [loaded : BOOLEAN, last : MsgRef,
                 pending : MsgRef \cup {Unset}, desired : MsgRef \cup {Optimistic}]
    /\ chain \in [phase : {"idle", "barrier", "wire", "delay"}, on : MsgRef,
                  attempt : 0..MaxRetries]
    /\ strays \subseteq MsgRef
    /\ stored \subseteq MsgIds /\ serverHead \in MsgRef

Init ==
    /\ restored = FALSE /\ local = {} /\ head = None /\ running = FALSE /\ moves = 0
    /\ writes = <<>> /\ barrier = None
    /\ outcome = [m \in MsgIds |-> IF m \in Restorable THEN "stored" ELSE "none"]
    /\ request = NoRequest
    /\ sync = [loaded |-> FALSE, last |-> InitialHead, pending |-> Unset, desired |-> None]
    /\ chain = NoChain /\ strays = {}
    /\ stored = Restorable /\ serverHead = InitialHead

-----------------------------------------------------------------------------
(* The effect of HistoryHeadSync, after each change of head or run state   *)

\* Mutant of Superseded: a branch change leaves the running retries alone.
NeverSuperseded(h) == FALSE

\* A changed head abandons the retries for the old one.
Superseded(h) == sync.desired # h

\* A streaming run, a placeholder id and the empty repository before the
\* first load are not published.
Publishable(h, run) ==
    ~run /\ h # Optimistic /\ (sync.loaded \/ h # None)

SyncEffect(h, run) ==
    LET pending == IF Superseded(h) THEN Unset ELSE sync.pending
        starts  == /\ Publishable(h, run)
                   /\ sync.last # h /\ pending # h
    IN  /\ sync' = [loaded  |-> sync.loaded \/ Publishable(h, run),
                    last    |-> sync.last,
                    pending |-> IF starts THEN h ELSE pending,
                    desired |-> h]
        /\ chain' = IF starts THEN [phase |-> "barrier", on |-> barrier', attempt |-> 0]
                    ELSE IF Superseded(h) THEN NoChain ELSE chain
        /\ strays' = IF Superseded(h) /\ chain.phase = "wire"
                     THEN strays \cup {sync.pending} ELSE strays

-----------------------------------------------------------------------------
(* The runtime                                                             *)

\* The adapter's load, from the bootstrap the route fetched.
Load ==
    /\ ~restored /\ restored' = TRUE
    /\ local' = Restorable /\ head' = InitialHead
    /\ UNCHANGED <<running, moves, writeVars, request, serverVars>>
    /\ SyncEffect(head', running)

\* enqueue: behind the writes before it; the newest write is the barrier.
Enqueue(m) ==
    /\ writes' = Append(writes, m)
    /\ outcome' = [outcome EXCEPT ![m] = "queued"]
    /\ barrier' = m

Leaf(h)  == \A m \in local : ParentOf[m] # h
Appended == \A a \in Answers \cap local : outcome[a] # "none"

Send(u) ==
    /\ restored /\ ~running /\ Appended
    /\ u \in Users \ local /\ ParentOf[u] = head
    /\ local' = local \cup {u} /\ head' = u /\ running' = TRUE
    /\ Enqueue(u)
    /\ request' = [NoRequest EXCEPT !.phase = "barrier", !.on = u, !.input = u]
    /\ UNCHANGED <<restored, moves, serverVars>>
    /\ SyncEffect(head', running')

\* A new answer to a message that is already there: nothing is appended.
Regenerate(u) ==
    /\ restored /\ ~running /\ Appended /\ moves < MaxMoves
    /\ u \in Users \cap local
    /\ u = sync.last => "return" \in Mishaps
    /\ head' = u /\ running' = TRUE /\ moves' = moves + 1
    /\ request' = [NoRequest EXCEPT !.phase = "barrier", !.on = barrier, !.input = u]
    /\ UNCHANGED <<restored, local, writeVars, serverVars>>
    /\ SyncEffect(head', running')

\* The branch picker; a branch may also change while a run streams, and change
\* back to the published one before the new one is published.
Switch(h) ==
    /\ restored /\ moves < MaxMoves /\ h \in local /\ h # head /\ Leaf(h)
    /\ running => "switch" \in Mishaps
    /\ h = sync.last => "return" \in Mishaps
    /\ head' = h /\ moves' = moves + 1
    /\ UNCHANGED <<restored, local, running, writeVars, request, serverVars>>
    /\ SyncEffect(head', running)

\* The placeholder of an answer that has no id yet.
Placeholder ==
    /\ request.phase \in {"barrier", "capabilities", "reserved"}
    /\ request.answer = None /\ head = request.input
    /\ head' = Optimistic
    /\ UNCHANGED <<restored, local, running, moves, writeVars, request, serverVars>>
    /\ SyncEffect(head', running)

Stream(a) ==
    /\ request.phase = "reserved" /\ request.answer = None
    /\ a \in Answers \ local /\ ParentOf[a] = request.input
    /\ local' = local \cup {a}
    /\ head' = IF head \in {Optimistic, request.input} THEN a ELSE head
    /\ request' = [request EXCEPT !.answer = a]
    /\ UNCHANGED <<restored, running, moves, writeVars, serverVars>>
    /\ SyncEffect(head', running)

\* The answer's own write is enqueued some time after it became visible, and
\* before another run starts.
AppendAnswer(a) ==
    /\ a \in Answers \cap local /\ outcome[a] = "none"
    /\ Enqueue(a)
    /\ UNCHANGED <<runtimeVars, request, syncVars, serverVars>>

-----------------------------------------------------------------------------
(* Message writes                                                          *)

\* Mutant of Due: a write does not wait for the one before it.
DueAtOnce == DOMAIN writes

\* writes.then(operation): one write at a time, in order.
Due == {i \in DOMAIN writes : i = 1}

\* The server's PUT: an unknown parent is refused; the head follows a message
\* that extends it.
Accepts(m) == ParentOf[m] \in stored \cup {None}
StoreMessage(m) ==
    /\ stored' = stored \cup {m}
    /\ serverHead' = IF serverHead = ParentOf[m] THEN m ELSE serverHead

\* Success lifts the barrier if it is still this write's; a failure leaves it.
WriteSettles(i, result) ==
    /\ writes' = RemoveAt(writes, i)
    /\ outcome' = [outcome EXCEPT ![writes[i]] = result]
    /\ barrier' = IF barrier = writes[i] /\ result = "stored" THEN None ELSE barrier

Write(i) ==
    /\ \/ Accepts(writes[i]) /\ StoreMessage(writes[i]) /\ WriteSettles(i, "stored")
       \/ ~Accepts(writes[i]) /\ WriteSettles(i, "rejected") /\ UNCHANGED serverVars
       \/ /\ "write" \in Mishaps /\ WriteSettles(i, "lost")
          /\ UNCHANGED serverVars \/ (Accepts(writes[i]) /\ StoreMessage(writes[i]))
    /\ UNCHANGED <<runtimeVars, request, syncVars>>

-----------------------------------------------------------------------------
(* The run request                                                         *)

Passed(m) == m \in MsgIds => outcome[m] = "stored"
Broken(m) == m \in MsgIds /\ outcome[m] \in Failed

RunEnds ==
    /\ running' = FALSE /\ request' = NoRequest
    /\ head' = IF head = Optimistic THEN request.input ELSE head
    /\ UNCHANGED <<restored, local, moves>>
    /\ SyncEffect(head', FALSE)

\* Mutant of RequestPasses: the request does not wait for the writes.
RequestPassesEarly ==
    /\ request.phase = "barrier"
    /\ request' = [request EXCEPT !.phase = "capabilities"]
    /\ UNCHANGED <<runtimeVars, writeVars, syncVars, serverVars>>

\* createAgentFetch, up to the refresh of the agent's capabilities.
RequestPasses ==
    /\ request.phase = "barrier" /\ Passed(request.on)
    /\ request' = [request EXCEPT !.phase = "capabilities"]
    /\ UNCHANGED <<runtimeVars, writeVars, syncVars, serverVars>>

\* The request fails with the write it waited for and takes its barrier away.
RequestBlocked ==
    /\ request.phase = "barrier" /\ Broken(request.on)
    /\ barrier' = IF barrier = request.on THEN None ELSE barrier
    /\ UNCHANGED <<writes, outcome, serverVars>>
    /\ RunEnds

\* The POST: the server reserves the run, stores its input and selects it.
Post ==
    /\ request.phase = "capabilities"
    /\ IF ParentOf[request.input] \in stored \cup {None}
       THEN /\ request' = [request EXCEPT !.phase = "reserved"]
            /\ stored' = stored \cup {request.input} /\ serverHead' = request.input
            /\ UNCHANGED <<runtimeVars, writeVars, syncVars>>
       ELSE UNCHANGED <<writeVars, serverVars>> /\ RunEnds

\* run_completed: the answer is stored, and selected if its input still is.
Complete ==
    /\ request.phase = "reserved" /\ request.answer # None
    /\ request' = [request EXCEPT !.phase = "completed"]
    /\ stored' = stored \cup {request.answer}
    /\ serverHead' = IF serverHead = request.input THEN request.answer ELSE serverHead
    /\ UNCHANGED <<runtimeVars, writeVars, syncVars>>

RunSettles ==
    /\ \/ request.phase = "completed"
       \/ request.phase \in {"capabilities", "reserved"} /\ "run" \in Mishaps
    /\ UNCHANGED <<writeVars, serverVars>>
    /\ RunEnds

-----------------------------------------------------------------------------
(* persistThreadHeadWithRetry                                              *)

\* Another attempt after a pause; the last failure gives the head up.
ChainFails ==
    IF chain.attempt < MaxRetries
    THEN /\ chain' = [chain EXCEPT !.phase = "delay", !.attempt = @ + 1]
         /\ UNCHANGED sync
    ELSE chain' = NoChain /\ sync' = [sync EXCEPT !.pending = Unset]

\* The barrier of the attempt is left for the run request to take.  A head
\* write may overtake one that was abandoned.
HeadWaits ==
    /\ chain.phase = "barrier"
    /\ strays # {} => "late" \in Mishaps
    /\ \/ Passed(chain.on) /\ chain' = [chain EXCEPT !.phase = "wire"] /\ UNCHANGED sync
       \/ Broken(chain.on) /\ ChainFails
    /\ UNCHANGED <<runtimeVars, writeVars, request, strays, serverVars>>

\* Mutant of RetryTimer: every attempt is the first one.
RetryTimerForever ==
    /\ chain.phase = "delay"
    /\ chain' = [phase |-> "barrier", on |-> barrier, attempt |-> 0]
    /\ UNCHANGED <<runtimeVars, writeVars, request, sync, strays, serverVars>>

RetryTimer ==
    /\ chain.phase = "delay"
    /\ chain' = [chain EXCEPT !.phase = "barrier", !.on = barrier]
    /\ UNCHANGED <<runtimeVars, writeVars, request, sync, strays, serverVars>>

KnownHead(h) == h \in stored \cup {None}

\* The head write is answered, refused (409), or its answer is lost.
HeadAnswered ==
    /\ chain.phase = "wire"
    /\ \/ /\ KnownHead(sync.pending)
          /\ serverHead' = sync.pending
          /\ chain' = NoChain
          /\ sync' = [sync EXCEPT !.last = sync.pending, !.pending = Unset]
       \/ /\ ~KnownHead(sync.pending)
          /\ ChainFails /\ UNCHANGED serverHead
       \/ /\ "head" \in Mishaps /\ ChainFails
          /\ \/ UNCHANGED serverHead
             \/ KnownHead(sync.pending) /\ serverHead' = sync.pending
    /\ UNCHANGED <<runtimeVars, writeVars, request, strays, stored>>

\* An abandoned head write that had left the browser reaches the server.
StrayArrives(h) ==
    /\ h \in strays /\ strays' = strays \ {h}
    /\ serverHead' = IF KnownHead(h) THEN h ELSE serverHead
    /\ UNCHANGED <<runtimeVars, writeVars, request, sync, chain, stored>>

-----------------------------------------------------------------------------
(* Specification                                                           *)

User == \/ \E u \in Users : Send(u) \/ Regenerate(u)
        \/ \E h \in MsgIds : Switch(h)

System ==
    \/ Load \/ Placeholder
    \/ \E a \in Answers : Stream(a) \/ AppendAnswer(a)
    \/ \E i \in Due : Write(i)
    \/ RequestPasses \/ RequestBlocked \/ Post \/ Complete \/ RunSettles
    \/ HeadWaits \/ RetryTimer \/ HeadAnswered
    \/ \E h \in MsgRef : StrayArrives(h)

Next == User \/ System

Spec == Init /\ [][Next]_vars

\* The browser runs its promises and timers, and every request is answered.
FairSpec ==
    /\ Spec
    /\ WF_vars(Load)
    /\ WF_vars(\E i \in Due : Write(i))
    /\ WF_vars(\E a \in Answers : AppendAnswer(a))
    /\ WF_vars(\E a \in Answers : Stream(a))
    /\ WF_vars(RequestPasses \/ RequestBlocked \/ Post \/ Complete \/ RunSettles)
    /\ WF_vars(HeadWaits \/ RetryTimer \/ HeadAnswered)
    /\ WF_vars(\E h \in MsgRef : StrayArrives(h))

-----------------------------------------------------------------------------
(* Properties                                                              *)

\* A message is refused by the server only below one that was not stored: the
\* adapter's writes reach the server in the order they were made.
OrderedWrites ==
    \A m \in MsgIds : outcome[m] = "rejected" =>
        ParentOf[m] \in MsgIds /\ outcome[ParentOf[m]] \in Failed

\* A request gets past createAgentFetch only after every write that was made
\* before it has settled and the one it waited for was stored.
PostAfterWrites ==
    [][request.phase = "barrier" /\ request'.phase = "capabilities"
         => /\ request.on # None => outcome[request.on] = "stored"
            /\ \A m \in MsgIds : outcome[m] # "queued"]_vars

Quiet == /\ restored /\ ~running /\ writes = <<>> /\ chain = NoChain /\ strays = {}
         /\ Appended

\* Once everything has settled, the branch the browser believes it has
\* published is the one a reload would restore.
PublishedHeadIsRestored == Quiet /\ sync.last = head => serverHead = head

\* Once the user is done, writes, retries and runs come to rest.
ComesToRest == <>[]Quiet
=============================================================================
