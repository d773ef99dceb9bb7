------------------------------ MODULE RunStore ------------------------------
(***************************************************************************)
(* The PostgreSQL state of Fleet Agent and the transactions that change    *)
(* it: threads with their selected branch head, the message tree, the run  *)
(* rows and the public-state snapshots stored per branch head.             *)
(*                                                                         *)
(* One action is one transaction.  The message PUT is two: its parent and  *)
(* cycle checks read the tree without locking it, and its upsert and head  *)
(* update come later, so other transactions can commit in between.         *)
(* Reservations lock the thread row, settlements lock the run row.         *)
(*                                                                         *)
(* A run is driven by one coordinator in the API process; stage records    *)
(* how far it has come.  A restart kills every coordinator.                *)
(***************************************************************************)
EXTENDS Branch

CONSTANTS
    Threads,     \* thread ids
    Runs,        \* run ids; a client never reuses one (they are UUIDs)
    OutputOf,    \* run id -> id of its answer, the code's f"msg-{run_id}"
    Payloads,    \* what a run request's messages say: input and continuation
    Puts,        \* the message writes clients send
    MaxPending   \* bound: message PUTs past their checks and not yet written

Formats == {"ag-ui/v1", "aui/v0"}
Roles   == {"user", "assistant"}

ASSUME OutputIds ==
    /\ OutputOf \in [Runs -> MsgIds]
    /\ \A r, s \in Runs : OutputOf[r] = OutputOf[s] => r = s
ASSUME RequestTypes ==
    /\ Payloads \subseteq [input : MsgRef, cont : MsgRef]
    /\ Puts \subseteq [id : MsgIds, role : Roles, parent : MsgRef,
                       format : Formats]
    /\ None \notin Runs \cup Threads /\ MaxPending \in Nat

VARIABLES
    thread,   \* thread rows: status, active_head_message_id, last_run_id
    msg,      \* message rows by (thread, message id)
    run,      \* run rows
    state,    \* run_states rows by (thread, head message id or NULL)
    stage,    \* the coordinator of each run
    pending   \* message PUTs between their checks and their write

vars == <<thread, msg, run, state, stage, pending>>

LiveStatus     == {"queued", "running"}
TerminalStatus == {"completed", "failed", "cancelled"}

NoMsg   == [role |-> "none", parent |-> None, format |-> "none"]
NoRun   == [status |-> "absent", thread |-> None, input |-> None,
            cont |-> None, output |-> None]
NoState == [run |-> None, status |-> "none"]

ThreadRow == [status : {"new", "live", "deleted"}, head : MsgRef,
              lastRun : Runs \cup {None}]
MsgRow    == [role : Roles \cup {"none"}, parent : MsgRef,
              format : Formats \cup {"none"}]
RunRow    == [status : LiveStatus \cup TerminalStatus \cup {"absent", "deleted"},
              thread : Threads \cup {None}, input : MsgRef, cont : MsgRef,
              output : MsgRef]
StateRow  == [run : Runs \cup {None},
              status : {"none", "running"} \cup TerminalStatus]

TypeOK ==
    /\ thread \in [Threads -> ThreadRow]
    /\ msg \in [Threads -> [MsgIds -> MsgRow]]
    /\ run \in [Runs -> RunRow]
    /\ state \in [Threads -> [MsgRef -> StateRow]]
    /\ stage \in [Runs -> {"none", "reserved", "running", "failing"}]
    /\ pending \subseteq Threads \X Puts

-----------------------------------------------------------------------------
(* Message rows                                                            *)

Live(t)      == thread[t].status = "live"
Exists(t, m) == msg[t][m].role # "none"
ParentsOf(t) == [m \in MsgIds |-> msg[t][m].parent]

\* Mutant of UpsertAllowed: a row found under another parent is accepted.
UpsertAnyParent(old, m, role, parent) ==
    parent # m /\ (old # NoMsg => old.role = role)

\* upsert_in_session: the ValueErrors it raises ...
UpsertAllowed(old, m, role, parent) ==
    /\ parent # m
    /\ old # NoMsg => /\ old.role = role
                      /\ old.parent \in {None, parent}

\* Mutant of Upserted: the last writer's format wins.
UpsertedLastFormat(old, role, parent, format) ==
    [role   |-> role,
     parent |-> IF old.parent = None THEN parent ELSE old.parent,
     format |-> format]

\* ... and the row it leaves: a server write never replaces an exact
\* assistant-ui row, a missing parent is filled in and never replaced.
Upserted(old, role, parent, format) ==
    IF old = NoMsg
    THEN [role |-> role, parent |-> parent, format |-> format]
    ELSE [role   |-> role,
          parent |-> IF old.parent = None THEN parent ELSE old.parent,
          format |-> IF old.format = "aui/v0" THEN "aui/v0" ELSE format]

-----------------------------------------------------------------------------
(* Threads                                                                 *)

CreateThread(t) ==
    /\ thread[t].status = "new"
    /\ thread' = [thread EXCEPT ![t].status = "live"]
    /\ UNCHANGED <<msg, run, state, stage, pending>>

\* Mutant of DeleteThread: the runs of the thread stay behind.
DeleteThreadKeepsRuns(t) ==
    /\ Live(t)
    /\ thread' = [thread EXCEPT ![t] = [status |-> "deleted", head |-> None,
                                        lastRun |-> None]]
    /\ msg' = [msg EXCEPT ![t] = [m \in MsgIds |-> NoMsg]]
    /\ state' = [state EXCEPT ![t] = [h \in MsgRef |-> NoState]]
    /\ UNCHANGED <<run, stage, pending>>

\* ThreadsRepository.delete removes every row of the thread.
DeleteThread(t) ==
    /\ Live(t)
    /\ thread' = [thread EXCEPT ![t] = [status |-> "deleted", head |-> None,
                                        lastRun |-> None]]
    /\ msg' = [msg EXCEPT ![t] = [m \in MsgIds |-> NoMsg]]
    /\ run' = [r \in Runs |-> IF run[r].thread = t
                              THEN [NoRun EXCEPT !.status = "deleted"]
                              ELSE run[r]]
    /\ state' = [state EXCEPT ![t] = [h \in MsgRef |-> NoState]]
    /\ UNCHANGED <<stage, pending>>

\* Mutant of SetHead: the selected message is not looked up.
SetHeadUnchecked(t, h) ==
    /\ Live(t)
    /\ thread' = [thread EXCEPT ![t].head = h]
    /\ UNCHANGED <<msg, run, state, stage, pending>>

\* PUT /threads/{t}/history/head
SetHead(t, h) ==
    /\ Live(t)
    /\ h # None => Exists(t, h)
    /\ thread' = [thread EXCEPT ![t].head = h]
    /\ UNCHANGED <<msg, run, state, stage, pending>>

-----------------------------------------------------------------------------
(* PUT /threads/{t}/messages/{id}                                          *)

\* Mutant of CheckPut: the walk up from the parent is missing.
CheckPutWithoutWalk(t, q) ==
    /\ Cardinality(pending) < MaxPending
    /\ \A r \in Runs : q.id = OutputOf[r] => run[r] # NoRun
    /\ Live(t)
    /\ q.parent # q.id
    /\ q.parent # None => Exists(t, q.parent)
    /\ pending' = pending \cup {<<t, q>>}
    /\ UNCHANGED <<thread, msg, run, state, stage>>

\* Parent and cycle checks of persist_thread_message, on unlocked rows.
\* A client learns the id of an answer from the run that streams it.
CheckPut(t, q) ==
    /\ Cardinality(pending) < MaxPending
    /\ \A r \in Runs : q.id = OutputOf[r] => run[r] # NoRun
    /\ Live(t)
    /\ q.parent # q.id
    /\ q.parent # None =>
         /\ Exists(t, q.parent)
         /\ q.id \notin Path(ParentsOf(t), q.parent)
    /\ pending' = pending \cup {<<t, q>>}
    /\ UNCHANGED <<thread, msg, run, state, stage>>

\* Mutant of MovableHeads: every write selects the message it wrote.
AllHeadsMove(q) == MsgRef

\* The heads a write may move: the parent it extends, or, for an edit made in
\* the browser, the edited message itself.
MovableHeads(q) ==
    IF q.role = "user" /\ q.format = "aui/v0" THEN {q.parent, q.id}
                                              ELSE {q.parent}

\* Upsert and conditional head update; both fail on a deleted thread.
WritePut(t, q) ==
    /\ <<t, q>> \in pending
    /\ pending' = pending \ {<<t, q>>}
    /\ IF Live(t) /\ UpsertAllowed(msg[t][q.id], q.id, q.role, q.parent)
       THEN /\ msg' = [msg EXCEPT ![t][q.id] =
                                 Upserted(@, q.role, q.parent, q.format)]
            /\ thread' = [thread EXCEPT ![t].head =
                             IF @ \in MovableHeads(q) THEN q.id ELSE @]
       ELSE UNCHANGED <<msg, thread>>
    /\ UNCHANGED <<run, state, stage>>

-----------------------------------------------------------------------------
(* Reserving a run                                                         *)

\* The message the run continues from.  Reloading an answered user message
\* resumes from the selected answer, else from the message's own parent; a
\* new message without a predecessor in the request continues the head.
Continuation(t, p) ==
    LET head == thread[t].head
        answered == /\ head \notin {None, p.input}
                    /\ msg[t][head].role = "assistant"
                    /\ msg[t][head].parent = p.input
    IN  IF p.cont # None THEN p.cont
        ELSE IF p.input # None /\ Exists(t, p.input)
             THEN IF answered THEN head ELSE msg[t][p.input].parent
        ELSE IF head # p.input THEN head ELSE None

\* _validate_message_reference: not a message of another thread only.
KnownHereOrNowhere(t, m) ==
    Exists(t, m) \/ \A o \in Threads : ~Exists(o, m)

\* RunPersistence.reserve_run, in one transaction under the thread row lock.
ReserveRun(t, r, p) ==
    LET cont == Continuation(t, p)
        old  == IF p.input = None THEN NoMsg ELSE msg[t][p.input]
    IN
    /\ Live(t)
    /\ run[r] = NoRun
    /\ p.input # None => KnownHereOrNowhere(t, p.input)
    /\ old.role \in {"none", "user"}
    /\ cont # p.input
    /\ cont # None => Exists(t, cont)
    /\ run' = [run EXCEPT ![r] = [status |-> "queued", thread |-> t,
                                  input |-> p.input, cont |-> cont,
                                  output |-> None]]
    /\ msg' = IF p.input = None THEN msg
              ELSE [msg EXCEPT ![t][p.input] =
                       Upserted(old, "user",
                                IF old = NoMsg THEN cont ELSE old.parent,
                                "ag-ui/v1")]
    /\ thread' = [thread EXCEPT ![t].head = p.input, ![t].lastRun = r]
    /\ stage' = [stage EXCEPT ![r] = "reserved"]
    /\ UNCHANGED <<state, pending>>

-----------------------------------------------------------------------------
(* The coordinator of a run                                                *)

\* run_states upsert: one row per branch head, the last writer owns it.
Snapshot(t, head, r, status) ==
    [state EXCEPT ![t][head] = [run |-> r, status |-> status]]

\* Only a queued row becomes running, but the snapshot is written anyway.
MarkRunning(r) ==
    /\ stage[r] = "reserved"
    /\ run[r].thread # None
    /\ run' = [run EXCEPT ![r].status = IF @ = "queued" THEN "running" ELSE @]
    /\ state' = Snapshot(run[r].thread, run[r].input, r, "running")
    /\ stage' = [stage EXCEPT ![r] = "running"]
    /\ UNCHANGED <<thread, msg, pending>>

\* The row is gone or the database failed: the coordinator goes on to settle.
MarkRunningFails(r) ==
    /\ stage[r] = "reserved"
    /\ stage' = [stage EXCEPT ![r] = "failing"]
    /\ UNCHANGED <<thread, msg, run, state, pending>>

\* RunPersistence.run_completed: answer, run row, snapshot and head together.
\* The head moves when it still is the run's input; for a run without an input
\* message the condition reads IS NULL, so a thread without a head gets one.
RunCompleted(r) ==
    LET t == run[r].thread
        a == OutputOf[r]
    IN
    /\ stage[r] = "running"
    /\ run[r].status \in LiveStatus
    /\ UpsertAllowed(msg[t][a], a, "assistant", run[r].input)
    /\ msg' = [msg EXCEPT ![t][a] =
                  Upserted(@, "assistant", run[r].input, "ag-ui/v1")]
    /\ run' = [run EXCEPT ![r].status = "completed", ![r].output = a]
    /\ state' = Snapshot(t, a, r, "completed")
    /\ thread' = [thread EXCEPT ![t].head =
                     IF @ = run[r].input THEN a ELSE @]
    /\ UNCHANGED <<stage, pending>>

\* Mutant of SettleNonCompleted: a run that is settled is settled again.
SettleAgain(r, status) ==
    /\ stage[r] \in {"running", "failing"}
    /\ run[r].thread # None
    /\ run' = [run EXCEPT ![r].status = status]
    /\ state' = Snapshot(run[r].thread, run[r].input, r, status)
    /\ UNCHANGED <<thread, msg, stage, pending>>

\* run_failed and run_cancelled: the snapshot goes to the input message.
SettleNonCompleted(r, status) ==
    /\ stage[r] \in {"running", "failing"}
    /\ run[r].status \in LiveStatus
    /\ run' = [run EXCEPT ![r].status = status]
    /\ state' = Snapshot(run[r].thread, run[r].input, r, status)
    /\ UNCHANGED <<thread, msg, stage, pending>>

-----------------------------------------------------------------------------
(* Restart                                                                 *)

Orphans == {r \in Runs : run[r].status \in LiveStatus}

\* Mutant of Swept: the snapshots of the orphans are left as they are.
SweptRowsOnly ==
    /\ run' = [r \in Runs |-> IF r \in Orphans
                              THEN [run[r] EXCEPT !.status = "failed"]
                              ELSE run[r]]
    /\ UNCHANGED state

\* mark_orphaned_interrupted: fail every live run and rewrite its snapshots.
Swept ==
    /\ run' = [r \in Runs |-> IF r \in Orphans
                              THEN [run[r] EXCEPT !.status = "failed"]
                              ELSE run[r]]
    /\ state' = [t \in Threads |-> [h \in MsgRef |->
                    IF state[t][h].run \in Orphans
                    THEN [state[t][h] EXCEPT !.status = "failed"]
                    ELSE state[t][h]]]

\* The process dies with its coordinators and open transactions; the next one
\* sweeps, unless the database cannot be reached while it starts.
Restart ==
    /\ stage' = [r \in Runs |-> "none"]
    /\ pending' = {}
    /\ \/ Swept
       \/ UNCHANGED <<run, state>>
    /\ UNCHANGED <<thread, msg>>

-----------------------------------------------------------------------------

Init ==
    /\ thread = [t \in Threads |-> [status |-> "new", head |-> None,
                                    lastRun |-> None]]
    /\ msg = [t \in Threads |-> [m \in MsgIds |-> NoMsg]]
    /\ run = [r \in Runs |-> NoRun]
    /\ state = [t \in Threads |-> [h \in MsgRef |-> NoState]]
    /\ stage = [r \in Runs |-> "none"]
    /\ pending = {}

Client ==
    \E t \in Threads :
        \/ CreateThread(t)
        \/ DeleteThread(t)
        \/ \E h \in MsgRef : SetHead(t, h)
        \/ \E q \in Puts : CheckPut(t, q) \/ WritePut(t, q)
        \/ \E r \in Runs, p \in Payloads : ReserveRun(t, r, p)

Coordinator ==
    \E r \in Runs :
        \/ MarkRunning(r)
        \/ MarkRunningFails(r)
        \/ RunCompleted(r)
        \/ \E s \in {"failed", "cancelled"} : SettleNonCompleted(r, s)

Next == Client \/ Coordinator \/ Restart

Spec == Init /\ [][Next]_vars

-----------------------------------------------------------------------------
(* Properties                                                              *)

\* What nothing in the schema enforces (the columns are plain strings): every
\* message a thread, a message or a run names is a row of the same thread.
RefersTo(t, m) == m # None => Exists(t, m)

ThreadRefsExist ==
    \A t \in Threads :
        /\ RefersTo(t, thread[t].head)
        /\ thread[t].lastRun # None => run[thread[t].lastRun].thread = t

ParentsExist == \A t \in Threads, m \in MsgIds : RefersTo(t, msg[t][m].parent)

RunRefsExist ==
    \A r \in Runs : run[r].thread # None =>
        /\ RefersTo(run[r].thread, run[r].input)
        /\ RefersTo(run[r].thread, run[r].cont)
        /\ RefersTo(run[r].thread, run[r].output)

RefsExist == ThreadRefsExist /\ ParentsExist /\ RunRefsExist

\* A completed run, and no other, has its answer: an assistant message below
\* the run's input, with the completed snapshot stored against it.
AnswerRecorded ==
    \A r \in Runs :
        LET t == run[r].thread
            a == OutputOf[r]
        IN  IF run[r].status = "completed"
            THEN /\ run[r].output = a
                 /\ msg[t][a].role = "assistant"
                 /\ run[r].input \in {None, msg[t][a].parent}
                 /\ state[t][a] = [run |-> r, status |-> "completed"]
            ELSE run[r].output = None

\* A snapshot never contradicts the failure or the cancellation of the run
\* that wrote it, whoever settled that run (coordinator or restart sweep).
FailureReachesSnapshots ==
    \A t \in Threads, h \in MsgRef :
        LET s == state[t][h] IN
        s.run # None /\ run[s.run].status \in {"failed", "cancelled"}
            => s.status = run[s.run].status

\* The message tree never becomes cyclic (persist_thread_message's walk).
NoBranchCycle == \A t \in Threads : Acyclic(ParentsOf(t))

\* A settled run keeps its outcome and its answer until its thread is deleted:
\* late settlements, restarts and duplicate requests change nothing.
TerminalIsFinal ==
    [][\A r \in Runs : run[r].status \in TerminalStatus =>
            run'[r] = run[r] \/ run'[r].status = "deleted"]_vars

\* Writes that arrive in the background (a message PUT, a settlement) only
\* extend the branch the user has selected; they never switch branches.
HeadOnlyExtends ==
    [][\A t \in Threads :
          /\ pending' # pending \/ run' # run
          /\ thread'[t].status = "live"
          /\ thread'[t].lastRun = thread[t].lastRun
          => \/ thread'[t].head = thread[t].head
             \/ /\ thread'[t].head # None
                /\ msg'[t][thread'[t].head].parent = thread[t].head]_vars

\* A message keeps its role and, once it has one, its parent; an exact
\* assistant-ui row stays one.
NodesAreStable ==
    [][\A t \in Threads, m \in MsgIds :
          Exists(t, m) /\ thread'[t].status = "live" =>
             LET old == msg[t][m]
                 new == msg'[t][m]
             IN  /\ new.role = old.role
                 /\ old.parent \in {None, new.parent}
                 /\ old.format = "aui/v0" => new.format = "aui/v0"]_vars

\* What a reload of the thread restores: the snapshot nearest to its head; an
\* input message without a row of its own takes the row of its run's answer.
Restored(t) ==
    LET answers(h)  == {r \in Runs : /\ run[r].thread = t /\ run[r].input = h
                                     /\ state[t][OutputOf[r]] # NoState}
        rowOf(h)    == IF state[t][h] = NoState /\ h # None /\ answers(h) # {}
                       THEN state[t][OutputOf[CHOOSE r \in answers(h) : TRUE]]
                       ELSE state[t][h]
        anchors     == {h \in MsgRef : rowOf(h) # NoState}
    IN  rowOf(NearestAnchor(ParentsOf(t), anchors, thread[t].head))

\* A reload never shows a run as live in a thread that has no live run.
RestoredIsSettled ==
    \A t \in Threads :
        Live(t) /\ (\A r \in Orphans : run[r].thread # t)
            => Restored(t).status # "running"

-----------------------------------------------------------------------------
(* What makes the properties above inductive (see RunStoreProofs)          *)

\* Rows without a run id are unused; the thread of a run is set while it lives.
RunShape ==
    \A r \in Runs :
        /\ run[r].status = "absent" => run[r] = NoRun
        /\ run[r].thread = None <=> run[r].status \in {"absent", "deleted"}

\* A message without a role has no row.
MsgShape ==
    \A t \in Threads, m \in MsgIds : ~Exists(t, m) => msg[t][m] = NoMsg

\* A checked PUT still finds its parent when it writes.
PendingFindParent ==
    \A w \in pending : /\ thread[w[1]].status # "new"
                       /\ Live(w[1]) => RefersTo(w[1], w[2].parent)

\* A coordinator that has not started its run has a run nobody has settled.
ReservedIsQueued ==
    \A r \in Runs : stage[r] = "reserved" => run[r].status \in {"queued", "deleted"}

InputIsUser ==
    \A r \in Runs : run[r].thread # None /\ run[r].input # None =>
                       msg[run[r].thread][run[r].input].role = "user"

\* A snapshot sits at its run's input, or at its answer once completed.
SnapshotPlace ==
    \A t \in Threads, h \in MsgRef :
        LET r == state[t][h].run IN
        r # None => /\ run[r].thread = t
                    /\ \/ h = run[r].input
                       \/ run[r].status = "completed" /\ h = OutputOf[r]

\* The inductive invariant, on top of TypeOK.
StoreInv ==
    /\ MsgShape /\ RunShape /\ ThreadRefsExist /\ ParentsExist /\ RunRefsExist
    /\ PendingFindParent /\ ReservedIsQueued
    /\ InputIsUser /\ SnapshotPlace /\ AnswerRecorded /\ FailureReachesSnapshots
=============================================================================
