--------------------------- MODULE RunStoreProofs ---------------------------
(***************************************************************************)
(* TLAPS proofs about RunStore, for every set of threads, messages, runs   *)
(* and requests: type correctness together with the store's invariant, the *)
(* safety invariants that follow from it, and two action properties.       *)
(***************************************************************************)
EXTENDS RunStore, FiniteSetTheorems, TLAPS

-----------------------------------------------------------------------------
(* Typing                                                                  *)

\* The merge of a stored message row with a write is a message row again.
LEMMA UpsertedType ==
    ASSUME NEW old \in MsgRow, NEW role \in Roles, NEW parent \in MsgRef,
           NEW format \in Formats
    PROVE  Upserted(old, role, parent, format) \in MsgRow
<1>1. [role |-> role, parent |-> parent, format |-> format] \in MsgRow
  BY DEF MsgRow
<1>2. old.parent \in MsgRef
  BY DEF MsgRow
<1>. QED
  BY <1>1, <1>2 DEF Upserted, MsgRow, Formats

\* A run continues from a message id or from nothing.
LEMMA ContinuationType ==
    ASSUME TypeOK, NEW t \in Threads, NEW p, p.input \in MsgRef, p.cont \in MsgRef
    PROVE  Continuation(t, p) \in MsgRef
<1>1. thread[t].head \in MsgRef
  BY DEF TypeOK, ThreadRow
<1>2. p.input # None => msg[t][p.input].parent \in MsgRef
  BY DEF TypeOK, MsgRow, MsgRef
<1>3. None \in MsgRef
  BY DEF MsgRef
<1>. QED
  BY <1>1, <1>2, <1>3 DEF Continuation

\* Storing a snapshot keeps run_states a table of snapshot rows.
LEMMA SnapshotType ==
    ASSUME TypeOK, NEW t \in Threads, NEW h \in MsgRef, NEW r \in Runs,
           NEW status \in {"running"} \cup TerminalStatus
    PROVE  Snapshot(t, h, r, status) \in [Threads -> [MsgRef -> StateRow]]
<1>1. [run |-> r, status |-> status] \in StateRow
  BY DEF StateRow
<1>. QED
  BY <1>1 DEF Snapshot, TypeOK

\* So do a message row and a selected head.
LEMMA MsgUpdateType ==
    ASSUME TypeOK, NEW t \in Threads, NEW m \in MsgIds, NEW row \in MsgRow
    PROVE  [msg EXCEPT ![t][m] = row] \in [Threads -> [MsgIds -> MsgRow]]
  BY DEF TypeOK

LEMMA HeadUpdateType ==
    ASSUME TypeOK, NEW t \in Threads, NEW h \in MsgRef
    PROVE  [thread EXCEPT ![t].head = h] \in [Threads -> ThreadRow]
  BY DEF TypeOK, ThreadRow

\* The fields of a write the clients send.
LEMMA PutFields ==
    ASSUME NEW q \in Puts
    PROVE  q.id \in MsgIds /\ q.role \in Roles /\ q.parent \in MsgRef
           /\ q.format \in Formats
  BY RequestTypes

LEMMA PayloadFields ==
    ASSUME NEW p \in Payloads PROVE p.input \in MsgRef /\ p.cont \in MsgRef
  BY RequestTypes

LEMMA TypeInit == Init => TypeOK
<1>. SUFFICES ASSUME Init PROVE TypeOK
  OBVIOUS
<1>1. [status |-> "new", head |-> None, lastRun |-> None] \in ThreadRow
  BY DEF ThreadRow, MsgRef
<1>2. NoMsg \in MsgRow
  BY DEF NoMsg, MsgRow, MsgRef
<1>3. NoRun \in RunRow
  BY DEF NoRun, RunRow, MsgRef
<1>4. NoState \in StateRow
  BY DEF NoState, StateRow
<1>. QED
  BY <1>1, <1>2, <1>3, <1>4 DEF Init, TypeOK

LEMMA TypeCreateThread ==
    ASSUME TypeOK, NEW t \in Threads, CreateThread(t) PROVE TypeOK'
<1>1. thread' \in [Threads -> ThreadRow]
  <2>1. thread \in [Threads -> ThreadRow]
    BY DEF TypeOK
  <2>2. [thread[t] EXCEPT !.status = "live"] \in ThreadRow
    BY <2>1 DEF ThreadRow
  <2>. QED
    BY <2>1, <2>2 DEF CreateThread
<1>. QED
  BY <1>1 DEF CreateThread, TypeOK

LEMMA TypeDeleteThread ==
    ASSUME TypeOK, NEW t \in Threads, DeleteThread(t) PROVE TypeOK'
<1>1. [status |-> "deleted", head |-> None, lastRun |-> None] \in ThreadRow
  BY DEF ThreadRow, MsgRef
<1>2. NoMsg \in MsgRow /\ NoState \in StateRow
  BY DEF NoMsg, MsgRow, MsgRef, NoState, StateRow
<1>3. [NoRun EXCEPT !.status = "deleted"] \in RunRow
  BY DEF NoRun, RunRow, MsgRef
<1>. QED
  BY <1>1, <1>2, <1>3 DEF DeleteThread, TypeOK

LEMMA TypeSetHead ==
    ASSUME TypeOK, NEW t \in Threads, NEW h \in MsgRef, SetHead(t, h)
    PROVE  TypeOK'
<1>1. thread' \in [Threads -> ThreadRow]
  <2>1. thread \in [Threads -> ThreadRow]
    BY DEF TypeOK
  <2>2. [thread[t] EXCEPT !.head = h] \in ThreadRow
    BY <2>1 DEF ThreadRow
  <2>. QED
    BY <2>1, <2>2 DEF SetHead
<1>. QED
  BY <1>1 DEF SetHead, TypeOK

LEMMA TypeCheckPut ==
    ASSUME TypeOK, NEW t \in Threads, NEW q \in Puts, CheckPut(t, q)
    PROVE  TypeOK'
  BY DEF CheckPut, TypeOK

LEMMA TypeWritePut ==
    ASSUME TypeOK, NEW t \in Threads, NEW q \in Puts, WritePut(t, q)
    PROVE  TypeOK'
<1>. DEFINE new  == Upserted(msg[t][q.id], q.role, q.parent, q.format)
            head == IF thread[t].head \in MovableHeads(q) THEN q.id
                                                        ELSE thread[t].head
<1>1. q.id \in MsgIds /\ q.role \in Roles /\ q.parent \in MsgRef
      /\ q.format \in Formats
  BY PutFields
<1>2. new \in MsgRow
  <2>1. msg[t][q.id] \in MsgRow
    BY <1>1 DEF TypeOK
  <2>. QED
    BY <1>1, <2>1, UpsertedType
<1>3. head \in MsgRef
  BY <1>1 DEF TypeOK, ThreadRow, MsgRef
<1>4. \/ UNCHANGED <<msg, thread>>
      \/ /\ msg' = [msg EXCEPT ![t][q.id] = new]
         /\ thread' = [thread EXCEPT ![t].head = head]
  BY <1>1 DEF WritePut, TypeOK
<1>. HIDE DEF new, head
<1>5. msg' \in [Threads -> [MsgIds -> MsgRow]]
  <2>1. [msg EXCEPT ![t][q.id] = new] \in [Threads -> [MsgIds -> MsgRow]]
    BY <1>1, <1>2, MsgUpdateType
  <2>2. msg \in [Threads -> [MsgIds -> MsgRow]]
    BY DEF TypeOK
  <2>. QED
    BY <1>4, <2>1, <2>2
<1>6. thread' \in [Threads -> ThreadRow]
  BY <1>3, <1>4, HeadUpdateType DEF TypeOK
<1>. QED
  BY <1>5, <1>6 DEF WritePut, TypeOK

LEMMA TypeReserveRun ==
    ASSUME TypeOK, NEW t \in Threads, NEW r \in Runs, NEW p \in Payloads,
           ReserveRun(t, r, p)
    PROVE  TypeOK'
<1>. DEFINE cont == Continuation(t, p)
            old  == IF p.input = None THEN NoMsg ELSE msg[t][p.input]
            par  == IF old = NoMsg THEN cont ELSE old.parent
            new  == Upserted(old, "user", par, "ag-ui/v1")
            row  == [status |-> "queued", thread |-> t, input |-> p.input,
                     cont |-> cont, output |-> None]
<1>1. p.input \in MsgRef /\ p.cont \in MsgRef
  BY PayloadFields
<1>2. cont \in MsgRef
  BY <1>1, ContinuationType
<1>3. row \in RunRow
  BY <1>1, <1>2 DEF RunRow, LiveStatus, MsgRef
<1>4. p.input # None => p.input \in MsgIds /\ new \in MsgRow
  <2>. SUFFICES ASSUME p.input # None PROVE p.input \in MsgIds /\ new \in MsgRow
    OBVIOUS
  <2>1. p.input \in MsgIds
    BY <1>1 DEF MsgRef
  <2>2. old \in MsgRow
    BY <2>1 DEF TypeOK
  <2>3. par \in MsgRef
    BY <1>2, <2>2 DEF MsgRow
  <2>. HIDE DEF old, par
  <2>4. "user" \in Roles /\ "ag-ui/v1" \in Formats
    BY DEF Roles, Formats
  <2>. QED
    BY <2>1, <2>2, <2>3, <2>4, UpsertedType
<1>5. /\ run' = [run EXCEPT ![r] = row]
      /\ \/ p.input = None /\ msg' = msg
         \/ p.input # None /\ msg' = [msg EXCEPT ![t][p.input] = new]
      /\ thread' = [thread EXCEPT ![t].head = p.input, ![t].lastRun = r]
  BY DEF ReserveRun
<1>. HIDE DEF row, new, par, old, cont
<1>6. run' \in [Runs -> RunRow]
  BY <1>3, <1>5 DEF TypeOK
<1>7. msg' \in [Threads -> [MsgIds -> MsgRow]]
  <2>1. p.input # None =>
          [msg EXCEPT ![t][p.input] = new] \in [Threads -> [MsgIds -> MsgRow]]
    BY <1>4, MsgUpdateType
  <2>2. msg \in [Threads -> [MsgIds -> MsgRow]]
    BY DEF TypeOK
  <2>. QED
    BY <1>5, <2>1, <2>2
<1>8. thread' \in [Threads -> ThreadRow]
  <2>. DEFINE next == [thread[t] EXCEPT !.head = p.input, !.lastRun = r]
  <2>1. thread \in [Threads -> ThreadRow]
    BY DEF TypeOK
  <2>2. thread' = [thread EXCEPT ![t] = next]
    BY <1>5
  <2>3. next \in ThreadRow
    BY <1>1, <2>1 DEF ThreadRow
  <2>. QED
    BY <2>1, <2>2, <2>3
<1>9. stage' \in [Runs -> {"none", "reserved", "running", "failing"}]
  BY DEF ReserveRun, TypeOK
<1>10. UNCHANGED <<state, pending>>
  BY DEF ReserveRun
<1>. QED
  BY <1>6, <1>7, <1>8, <1>9, <1>10 DEF TypeOK

\* A run row with another status is a run row.
LEMMA StatusType ==
    ASSUME NEW row \in RunRow, NEW status \in LiveStatus \cup TerminalStatus
    PROVE  [row EXCEPT !.status = status] \in RunRow
  BY DEF RunRow

LEMMA TypeMarkRunning ==
    ASSUME TypeOK, NEW r \in Runs, MarkRunning(r) PROVE TypeOK'
<1>1. run[r].thread \in Threads /\ run[r].input \in MsgRef
  BY DEF MarkRunning, TypeOK, RunRow
<1>2. run' \in [Runs -> RunRow]
  <2>1. run \in [Runs -> RunRow]
    BY DEF TypeOK
  <2>2. [run[r] EXCEPT !.status = "running"] \in RunRow
    BY <2>1, StatusType DEF LiveStatus
  <2>3. run' = run \/ run' = [run EXCEPT ![r] = [run[r] EXCEPT !.status = "running"]]
    BY <2>1 DEF MarkRunning, RunRow
  <2>. QED
    BY <2>1, <2>2, <2>3
<1>3. state' \in [Threads -> [MsgRef -> StateRow]]
  BY <1>1, SnapshotType DEF MarkRunning
<1>. QED
  BY <1>2, <1>3 DEF MarkRunning, TypeOK

LEMMA TypeMarkRunningFails ==
    ASSUME TypeOK, NEW r \in Runs, MarkRunningFails(r) PROVE TypeOK'
  BY DEF MarkRunningFails, TypeOK

LEMMA TypeRunCompleted ==
    ASSUME TypeOK, RunShape, NEW r \in Runs, RunCompleted(r) PROVE TypeOK'
<1>. DEFINE t   == run[r].thread
            a   == OutputOf[r]
            new == Upserted(msg[t][a], "assistant", run[r].input, "ag-ui/v1")
            head == IF thread[t].head = run[r].input THEN a ELSE thread[t].head
<1>1. run[r] \in RunRow
  BY DEF TypeOK
<1>2. t \in Threads /\ run[r].input \in MsgRef
  BY <1>1 DEF RunCompleted, RunShape, RunRow, LiveStatus
<1>3. a \in MsgIds /\ a \in MsgRef
  BY OutputIds DEF MsgRef
<1>4. new \in MsgRow
  <2>1. msg[t][a] \in MsgRow
    BY <1>2, <1>3 DEF TypeOK
  <2>2. "assistant" \in Roles /\ "ag-ui/v1" \in Formats
    BY DEF Roles, Formats
  <2>. QED
    BY <1>2, <2>1, <2>2, UpsertedType
<1>5. head \in MsgRef
  BY <1>2, <1>3 DEF TypeOK, ThreadRow
<1>6. /\ msg' = [msg EXCEPT ![t][a] = new]
      /\ run' = [run EXCEPT ![r].status = "completed", ![r].output = a]
      /\ state' = Snapshot(t, a, r, "completed")
      /\ thread' = [thread EXCEPT ![t].head = head]
  BY <1>2, <1>3 DEF RunCompleted, TypeOK
<1>7. run' \in [Runs -> RunRow]
  <2>1. run' = [run EXCEPT ![r] = [run[r] EXCEPT !.status = "completed", !.output = a]]
    BY <1>6 DEF TypeOK
  <2>2. [run[r] EXCEPT !.status = "completed", !.output = a] \in RunRow
    BY <1>1, <1>3 DEF RunRow, TerminalStatus
  <2>. QED
    BY <2>1, <2>2 DEF TypeOK
<1>. HIDE DEF t, a, new, head
<1>8. msg' \in [Threads -> [MsgIds -> MsgRow]]
  BY <1>2, <1>3, <1>4, <1>6, MsgUpdateType
<1>9. state' \in [Threads -> [MsgRef -> StateRow]]
  BY <1>2, <1>3, <1>6, SnapshotType DEF TerminalStatus
<1>10. thread' \in [Threads -> ThreadRow]
  BY <1>2, <1>5, <1>6, HeadUpdateType
<1>. QED
  BY <1>7, <1>8, <1>9, <1>10 DEF RunCompleted, TypeOK

LEMMA TypeSettleNonCompleted ==
    ASSUME TypeOK, RunShape, NEW r \in Runs, NEW s \in {"failed", "cancelled"},
           SettleNonCompleted(r, s)
    PROVE  TypeOK'
<1>1. run[r] \in RunRow
  BY DEF TypeOK
<1>2. run[r].thread \in Threads /\ run[r].input \in MsgRef
  BY <1>1 DEF SettleNonCompleted, RunShape, RunRow, LiveStatus
<1>3. run' \in [Runs -> RunRow]
  <2>1. [run[r] EXCEPT !.status = s] \in RunRow
    BY <1>1, StatusType DEF TerminalStatus
  <2>. QED
    BY <2>1 DEF SettleNonCompleted, TypeOK
<1>4. state' \in [Threads -> [MsgRef -> StateRow]]
  BY <1>2, SnapshotType DEF SettleNonCompleted, TerminalStatus
<1>. QED
  BY <1>3, <1>4 DEF SettleNonCompleted, TypeOK

LEMMA TypeRestart == ASSUME TypeOK, Restart PROVE TypeOK'
<1>1. ASSUME NEW r \in Runs PROVE [run[r] EXCEPT !.status = "failed"] \in RunRow
  BY StatusType DEF TypeOK, TerminalStatus
<1>2. ASSUME NEW t \in Threads, NEW h \in MsgRef
      PROVE  [state[t][h] EXCEPT !.status = "failed"] \in StateRow
  <2>1. state[t][h] \in StateRow
    BY DEF TypeOK
  <2>. QED
    BY <2>1 DEF StateRow, TerminalStatus
<1>3. CASE Swept
  BY <1>1, <1>2, <1>3 DEF Restart, Swept, TypeOK
<1>4. CASE UNCHANGED <<run, state>>
  BY <1>4 DEF Restart, TypeOK
<1>. QED
  BY <1>3, <1>4 DEF Restart

-----------------------------------------------------------------------------
(* Consistency of the rows                                                 *)

\* An accepted write leaves a row with the role and the parent it names.
LEMMA UpsertedRow ==
    ASSUME NEW old, NEW role, NEW parent, NEW format,
           old = NoMsg \/ (old.role = role /\ old.parent \in {None, parent})
    PROVE  /\ Upserted(old, role, parent, format).role = role
           /\ Upserted(old, role, parent, format).parent = parent
  BY DEF Upserted

\* Writing one message row leaves every row there, with its role.
LEMMA NodeWritten ==
    ASSUME TypeOK, NEW t \in Threads, NEW m \in MsgIds, NEW row \in MsgRow,
           msg[t][m].role \in {"none", row.role}, msg' = [msg EXCEPT ![t][m] = row]
    PROVE  /\ msg'[t][m] = row
           /\ \A u \in Threads, n \in MsgIds :
                 /\ <<u, n>> # <<t, m>> => msg'[u][n] = msg[u][n]
                 /\ msg'[u][n].role = msg[u][n].role \/ msg[u][n].role = "none"
  BY DEF TypeOK

\* One stored snapshot.
LEMMA SnapshotWritten ==
    ASSUME TypeOK, NEW t \in Threads, NEW h \in MsgRef, NEW r, NEW status,
           state' = Snapshot(t, h, r, status)
    PROVE  /\ state'[t][h] = [run |-> r, status |-> status]
           /\ \A u \in Threads, g \in MsgRef :
                 <<u, g>> # <<t, h>> => state'[u][g] = state[u][g]
  BY DEF TypeOK, Snapshot

LEMMA InitInv == Init => StoreInv
<1>. SUFFICES ASSUME Init PROVE StoreInv
  OBVIOUS
<1>. USE DEF Init
<1>1. MsgShape
  BY DEF MsgShape
<1>2. RunShape
  BY DEF RunShape, NoRun
<1>3. ThreadRefsExist
  BY DEF ThreadRefsExist, RefersTo
<1>4. ParentsExist
  BY DEF ParentsExist, RefersTo, NoMsg
<1>5. RunRefsExist
  BY DEF RunRefsExist, NoRun
<1>6. PendingFindParent /\ ReservedIsQueued
  BY DEF PendingFindParent, ReservedIsQueued
<1>7. InputIsUser
  BY DEF InputIsUser, NoRun
<1>8. SnapshotPlace /\ FailureReachesSnapshots
  BY DEF SnapshotPlace, FailureReachesSnapshots, NoState
<1>9. AnswerRecorded
  BY DEF AnswerRecorded, NoRun
<1>. QED
  BY <1>1, <1>2, <1>3, <1>4, <1>5, <1>6, <1>7, <1>8, <1>9 DEF StoreInv

\* Most of the invariant speaks of messages, runs and snapshots only.
LEMMA RowsUnmoved ==
    ASSUME StoreInv, UNCHANGED <<msg, run, state>>
    PROVE  /\ MsgShape' /\ RunShape' /\ ParentsExist' /\ RunRefsExist'
           /\ InputIsUser' /\ SnapshotPlace' /\ AnswerRecorded'
           /\ FailureReachesSnapshots'
<1>1. MsgShape' /\ ParentsExist'
  BY DEF StoreInv, MsgShape, ParentsExist, RefersTo, Exists
<1>2. RunShape'
  BY DEF StoreInv, RunShape
<1>3. RunRefsExist'
  BY DEF StoreInv, RunRefsExist, RefersTo, Exists
<1>4. InputIsUser'
  BY DEF StoreInv, InputIsUser
<1>5. SnapshotPlace'
  BY DEF StoreInv, SnapshotPlace
<1>6. AnswerRecorded'
  BY DEF StoreInv, AnswerRecorded
<1>7. FailureReachesSnapshots'
  BY DEF StoreInv, FailureReachesSnapshots
<1>. QED
  BY <1>1, <1>2, <1>3, <1>4, <1>5, <1>6, <1>7

LEMMA ThreadsUnmoved ==
    ASSUME StoreInv, UNCHANGED <<thread, msg, run>> PROVE ThreadRefsExist'
  BY DEF StoreInv, ThreadRefsExist, RefersTo, Exists

LEMMA PendingUnmoved ==
    ASSUME StoreInv, UNCHANGED <<thread, msg>>, pending' \subseteq pending
    PROVE  PendingFindParent'
  BY DEF StoreInv, PendingFindParent, Live, RefersTo, Exists

LEMMA StagesUnmoved ==
    ASSUME StoreInv, UNCHANGED <<run, stage>> PROVE ReservedIsQueued'
  BY DEF StoreInv, ReservedIsQueued

LEMMA InvCreateThread ==
    ASSUME TypeOK, StoreInv, NEW t \in Threads, CreateThread(t) PROVE StoreInv'
<1>1. \A u \in Threads : /\ thread'[u].head = thread[u].head
                         /\ thread'[u].lastRun = thread[u].lastRun
                         /\ u # t => thread'[u] = thread[u]
      /\ UNCHANGED <<msg, run, state, stage, pending>>
  BY DEF CreateThread, TypeOK, ThreadRow
<1>2. ThreadRefsExist'
  BY <1>1 DEF StoreInv, ThreadRefsExist, RefersTo, Exists
<1>3. PendingFindParent'
  <2>1. \A w \in pending : w[1] \in Threads /\ w[1] # t
    BY DEF StoreInv, PendingFindParent, TypeOK, CreateThread
  <2>. QED
    BY <1>1, <2>1 DEF StoreInv, PendingFindParent, Live, RefersTo, Exists
<1>. QED
  BY <1>1, <1>2, <1>3, RowsUnmoved, StagesUnmoved DEF StoreInv

LEMMA InvSetHead ==
    ASSUME TypeOK, StoreInv, NEW t \in Threads, NEW h \in MsgRef, SetHead(t, h)
    PROVE  StoreInv'
<1>1. \A u \in Threads : /\ thread'[u].status = thread[u].status
                         /\ thread'[u].lastRun = thread[u].lastRun
                         /\ thread'[u].head = IF u = t THEN h ELSE thread[u].head
      /\ UNCHANGED <<msg, run, state, stage, pending>>
  BY DEF SetHead, TypeOK, ThreadRow
<1>2. ThreadRefsExist'
  BY <1>1 DEF StoreInv, ThreadRefsExist, RefersTo, Exists, SetHead
<1>3. PendingFindParent'
  <2>1. \A w \in pending : w[1] \in Threads
    BY DEF TypeOK
  <2>. QED
    BY <1>1, <2>1 DEF StoreInv, PendingFindParent, Live, RefersTo, Exists
<1>. QED
  BY <1>1, <1>2, <1>3, RowsUnmoved, StagesUnmoved DEF StoreInv

LEMMA InvCheckPut ==
    ASSUME TypeOK, StoreInv, NEW t \in Threads, NEW q \in Puts, CheckPut(t, q)
    PROVE  StoreInv'
<1>1. PendingFindParent'
  BY DEF CheckPut, StoreInv, PendingFindParent, Live, RefersTo, Exists
<1>2. UNCHANGED <<thread, msg, run, state, stage>>
  BY DEF CheckPut
<1>. QED
  BY <1>1, <1>2, RowsUnmoved, ThreadsUnmoved, StagesUnmoved DEF StoreInv

LEMMA InvMarkRunningFails ==
    ASSUME StoreInv, NEW r \in Runs, MarkRunningFails(r) PROVE StoreInv'
<1>1. ReservedIsQueued'
  BY DEF MarkRunningFails, StoreInv, ReservedIsQueued
<1>2. UNCHANGED <<thread, msg, run, state, pending>>
  BY DEF MarkRunningFails
<1>. QED
  BY <1>1, <1>2, RowsUnmoved, ThreadsUnmoved, PendingUnmoved DEF StoreInv

LEMMA InvDeleteThread ==
    ASSUME TypeOK, StoreInv, NEW t \in Threads, DeleteThread(t) PROVE StoreInv'
<1>1. /\ thread'[t] = [status |-> "deleted", head |-> None, lastRun |-> None]
      /\ \A u \in Threads \ {t} : thread'[u] = thread[u]
  BY DEF DeleteThread, TypeOK
<1>2. /\ \A m \in MsgIds : msg'[t][m] = NoMsg
      /\ \A u \in Threads \ {t} : msg'[u] = msg[u]
  BY DEF DeleteThread, TypeOK
<1>3. /\ \A h \in MsgRef : state'[t][h] = NoState
      /\ \A u \in Threads \ {t} : state'[u] = state[u]
  BY DEF DeleteThread, TypeOK
<1>4. \A r \in Runs :
         /\ run[r].thread = t => /\ run'[r].status = "deleted"
                                 /\ run'[r].thread = None
                                 /\ run'[r].input = None
                                 /\ run'[r].output = None
         /\ run[r].thread # t => run'[r] = run[r]
  BY DEF DeleteThread, NoRun
<1>5. UNCHANGED <<stage, pending>>
  BY DEF DeleteThread
<1>6. \A r \in Runs : run'[r].thread # None =>
         run[r].thread \in Threads \ {t} /\ run'[r] = run[r]
  BY <1>4 DEF TypeOK, RunRow
<1>7. \A u \in Threads, h \in MsgRef : state'[u][h].run # None =>
         /\ u # t /\ state'[u][h] = state[u][h]
         /\ state[u][h].run \in Runs /\ run[state[u][h].run].thread = u
         /\ run'[state[u][h].run] = run[state[u][h].run]
  BY <1>3, <1>4 DEF NoState, TypeOK, StateRow, StoreInv, SnapshotPlace
<1>8. MsgShape'
  BY <1>2 DEF StoreInv, MsgShape, Exists
<1>9. RunShape'
  BY <1>4 DEF StoreInv, RunShape, NoRun
<1>10. ThreadRefsExist'
  <2>. SUFFICES ASSUME NEW u \in Threads
                PROVE  /\ RefersTo(u, thread[u].head)'
                       /\ thread'[u].lastRun # None => run'[thread'[u].lastRun].thread = u
    BY DEF ThreadRefsExist
  <2>1. CASE u = t
    BY <1>1, <2>1 DEF RefersTo
  <2>2. CASE u # t
    <3>1. thread[u].lastRun \in Runs \cup {None}
      BY DEF TypeOK, ThreadRow
    <3>. QED
      BY <1>1, <1>2, <1>4, <2>2, <3>1 DEF StoreInv, ThreadRefsExist, RefersTo, Exists
  <2>. QED
    BY <2>1, <2>2
<1>11. ParentsExist'
  BY <1>2 DEF StoreInv, ParentsExist, RefersTo, Exists, NoMsg
<1>12. RunRefsExist'
  BY <1>2, <1>6 DEF StoreInv, RunRefsExist, RefersTo, Exists
<1>13. PendingFindParent'
  BY <1>1, <1>2, <1>5 DEF StoreInv, PendingFindParent, Live, RefersTo, Exists, TypeOK
<1>14. ReservedIsQueued'
  BY <1>4, <1>5 DEF StoreInv, ReservedIsQueued
<1>15. InputIsUser'
  BY <1>2, <1>6 DEF StoreInv, InputIsUser
<1>16. SnapshotPlace'
  BY <1>7 DEF StoreInv, SnapshotPlace
<1>17. AnswerRecorded'
  <2>1. \A r \in Runs : run'[r].status = "completed" => run'[r].thread # None
    BY <1>9 DEF RunShape
  <2>2. \A r \in Runs : run'[r].output = IF run[r].thread = t THEN None ELSE run[r].output
    BY <1>4
  <2>3. ASSUME NEW r \in Runs, run'[r].status = "completed"
        PROVE  LET u == run[r].thread
                   a == OutputOf[r]
               IN  /\ run'[r] = run[r] /\ run[r].status = "completed"
                   /\ msg'[u][a] = msg[u][a] /\ state'[u][a] = state[u][a]
    <3>1. run[r].thread \in Threads \ {t} /\ run'[r] = run[r]
      BY <1>6, <2>1, <2>3
    <3>. QED
      BY <1>2, <1>3, <2>3, <3>1
  <2>4. \A r \in Runs : run'[r].status # "completed" => run'[r].output = None
    BY <1>4, <2>2 DEF StoreInv, AnswerRecorded
  <2>. SUFFICES ASSUME NEW r \in Runs, run'[r].status = "completed"
                PROVE  LET u == run'[r].thread
                           a == OutputOf[r]
                       IN  /\ run'[r].output = a
                           /\ msg'[u][a].role = "assistant"
                           /\ run'[r].input \in {None, msg'[u][a].parent}
                           /\ state'[u][a] = [run |-> r, status |-> "completed"]
    BY <2>4 DEF AnswerRecorded
  <2>. QED
    BY <2>3 DEF StoreInv, AnswerRecorded
<1>18. FailureReachesSnapshots'
  BY <1>7 DEF StoreInv, FailureReachesSnapshots
<1>. QED
  BY <1>8, <1>9, <1>10, <1>11, <1>12, <1>13, <1>14, <1>15, <1>16, <1>17, <1>18
     DEF StoreInv

LEMMA InvWritePut ==
    ASSUME TypeOK, StoreInv, NEW t \in Threads, NEW q \in Puts, WritePut(t, q)
    PROVE  StoreInv'
<1>1. q.id \in MsgIds /\ q.role \in Roles /\ q.parent \in MsgRef
      /\ q.format \in Formats
  BY PutFields
<1>. DEFINE new  == Upserted(msg[t][q.id], q.role, q.parent, q.format)
            head == IF thread[t].head \in MovableHeads(q) THEN q.id
                                                        ELSE thread[t].head
<1>2. UNCHANGED <<run, state, stage>> /\ pending' \subseteq pending
  BY DEF WritePut
<1>3. CASE ~(Live(t) /\ UpsertAllowed(msg[t][q.id], q.id, q.role, q.parent))
  <2>1. UNCHANGED <<msg, thread>>
    BY <1>3 DEF WritePut
  <2>. QED
    BY <1>2, <2>1, RowsUnmoved, ThreadsUnmoved, PendingUnmoved, StagesUnmoved
       DEF StoreInv
<1>4. CASE Live(t) /\ UpsertAllowed(msg[t][q.id], q.id, q.role, q.parent)
  <2>1. /\ msg' = [msg EXCEPT ![t][q.id] = new]
        /\ thread' = [thread EXCEPT ![t].head = head]
    BY <1>1, <1>4 DEF WritePut, TypeOK
  <2>2. new.role = q.role /\ new.parent = q.parent
    BY <1>4, UpsertedRow DEF UpsertAllowed
  <2>3. new \in MsgRow
    <3>1. msg[t][q.id] \in MsgRow
      BY <1>1 DEF TypeOK
    <3>. QED
      BY <1>1, <3>1, UpsertedType
  <2>4. new.role # "none"
    BY <1>1, <2>2 DEF Roles
  <2>5. msg[t][q.id].role \in {"none", new.role}
    BY <1>4, <2>2 DEF UpsertAllowed, NoMsg
  <2>6. q.parent # None => Exists(t, q.parent)
    BY <1>4 DEF WritePut, StoreInv, PendingFindParent, RefersTo
  <2>7. head \in {thread[t].head, q.id}
    OBVIOUS
  <2>. HIDE DEF new, head
  <2>8. /\ msg'[t][q.id] = new
        /\ \A u \in Threads, n \in MsgIds :
              /\ <<u, n>> # <<t, q.id>> => msg'[u][n] = msg[u][n]
              /\ msg'[u][n].role = msg[u][n].role \/ msg[u][n].role = "none"
    BY <1>1, <2>1, <2>3, <2>5, NodeWritten
  <2>9. \A u \in Threads, n \in MsgRef : RefersTo(u, n) => RefersTo(u, n)'
    BY <2>8 DEF RefersTo, Exists, MsgRef
  <2>10. MsgShape'
    <3>. SUFFICES ASSUME NEW u \in Threads, NEW n \in MsgIds, msg'[u][n].role = "none"
                  PROVE  msg'[u][n] = NoMsg
      BY DEF MsgShape, Exists
    <3>1. <<u, n>> # <<t, q.id>>
      BY <2>4, <2>8
    <3>2. msg'[u][n] = msg[u][n]
      BY <2>8, <3>1
    <3>. QED
      BY <3>2 DEF StoreInv, MsgShape, Exists
  <2>11. \A u \in Threads : /\ thread'[u].status = thread[u].status
                            /\ thread'[u].lastRun = thread[u].lastRun
                            /\ thread'[u].head = IF u = t THEN head ELSE thread[u].head
    BY <2>1 DEF TypeOK, ThreadRow
  <2>12. ThreadRefsExist'
    <3>1. Exists(t, q.id)'
      BY <2>2, <2>4, <2>8 DEF Exists
    <3>2. \A u \in Threads : thread[u].head \in MsgRef
      BY DEF TypeOK, ThreadRow
    <3>. QED
      BY <1>2, <2>7, <2>9, <2>11, <3>1, <3>2
         DEF StoreInv, ThreadRefsExist, RefersTo, Exists
  <2>13. ParentsExist'
    <3>. SUFFICES ASSUME NEW u \in Threads, NEW n \in MsgIds
                  PROVE  RefersTo(u, msg[u][n].parent)'
      BY DEF ParentsExist
    <3>1. msg[u][n].parent \in MsgRef /\ RefersTo(u, msg[u][n].parent)
      BY DEF StoreInv, ParentsExist, TypeOK, MsgRow
    <3>2. RefersTo(t, q.parent)
      BY <2>6 DEF RefersTo
    <3>3. CASE <<u, n>> = <<t, q.id>>
      BY <1>1, <2>2, <2>8, <2>9, <3>2, <3>3 DEF RefersTo, Exists
    <3>4. CASE <<u, n>> # <<t, q.id>>
      BY <2>8, <2>9, <3>1, <3>4 DEF RefersTo, Exists
    <3>. QED
      BY <3>3, <3>4
  <2>14. \A r \in Runs : run[r].thread # None =>
            /\ run[r].thread \in Threads
            /\ run[r].input \in MsgRef /\ run[r].cont \in MsgRef
            /\ run[r].output \in MsgRef
    BY DEF TypeOK, RunRow
  <2>15. RunRefsExist'
    BY <1>2, <2>9, <2>14 DEF StoreInv, RunRefsExist, RefersTo, Exists
  <2>16. PendingFindParent'
    <3>1. \A w \in pending : w[1] \in Threads /\ w[2].parent \in MsgRef
      BY RequestTypes DEF TypeOK
    <3>. QED
      BY <1>2, <2>9, <2>11, <3>1 DEF StoreInv, PendingFindParent, Live, RefersTo, Exists
  <2>17. InputIsUser'
    BY <1>2, <2>8, <2>14 DEF StoreInv, InputIsUser, RunRefsExist, RefersTo, Exists, MsgRef
  <2>18. AnswerRecorded'
    <3>. SUFFICES ASSUME NEW r \in Runs, run[r].status = "completed"
                  PROVE  /\ msg'[run[r].thread][OutputOf[r]].role = "assistant"
                         /\ run[r].input \in {None, msg'[run[r].thread][OutputOf[r]].parent}
      BY <1>2 DEF StoreInv, AnswerRecorded
    <3>1. run[r].thread \in Threads /\ OutputOf[r] \in MsgIds
      BY OutputIds DEF StoreInv, RunShape, TypeOK, RunRow
    <3>2. /\ msg[run[r].thread][OutputOf[r]].role = "assistant"
          /\ run[r].input \in {None, msg[run[r].thread][OutputOf[r]].parent}
      BY DEF StoreInv, AnswerRecorded
    <3>3. CASE <<run[r].thread, OutputOf[r]>> = <<t, q.id>>
      <4>1. msg[t][q.id].parent \in {None, q.parent}
        BY <1>4, <3>2, <3>3 DEF UpsertAllowed, NoMsg
      <4>. QED
        BY <2>2, <2>5, <2>8, <3>2, <3>3, <4>1 DEF Exists
    <3>4. CASE <<run[r].thread, OutputOf[r]>> # <<t, q.id>>
      BY <2>8, <3>1, <3>2, <3>4
    <3>. QED
      BY <3>3, <3>4
  <2>. QED
    BY <1>2, <2>10, <2>12, <2>13, <2>15, <2>16, <2>17, <2>18
       DEF StoreInv, RunShape, ReservedIsQueued, SnapshotPlace,
           FailureReachesSnapshots
<1>. QED
  BY <1>3, <1>4

LEMMA InvReserveRun ==
    ASSUME TypeOK, StoreInv, NEW t \in Threads, NEW r \in Runs,
           NEW p \in Payloads, ReserveRun(t, r, p)
    PROVE  StoreInv'
<1>. DEFINE cont == Continuation(t, p)
            old  == IF p.input = None THEN NoMsg ELSE msg[t][p.input]
            par  == IF old = NoMsg THEN cont ELSE old.parent
            new  == Upserted(old, "user", par, "ag-ui/v1")
            row  == [status |-> "queued", thread |-> t, input |-> p.input,
                     cont |-> cont, output |-> None]
<1>1. /\ p.input \in MsgRef /\ cont \in MsgRef
      /\ cont # None => Exists(t, cont)
      /\ run[r] = NoRun
  BY PayloadFields, ContinuationType DEF ReserveRun
<1>2. /\ run' = [run EXCEPT ![r] = row]
      /\ thread' = [thread EXCEPT ![t].head = p.input, ![t].lastRun = r]
      /\ stage' = [stage EXCEPT ![r] = "reserved"]
      /\ UNCHANGED <<state, pending>>
  BY DEF ReserveRun
<1>3. \/ p.input = None /\ msg' = msg
      \/ p.input # None /\ msg' = [msg EXCEPT ![t][p.input] = new]
  BY DEF ReserveRun
<1>4. /\ run'[r] = row
      /\ \A s \in Runs \ {r} : run'[s] = run[s]
  BY <1>2 DEF TypeOK
<1>5. \A u \in Threads :
         /\ thread'[u].status = thread[u].status
         /\ u = t => thread'[u].head = p.input /\ thread'[u].lastRun = r
         /\ u # t => thread'[u] = thread[u]
  BY <1>2 DEF TypeOK, ThreadRow
<1>6. ASSUME p.input # None
      PROVE  /\ p.input \in MsgIds /\ new \in MsgRow /\ new.role = "user"
             /\ new.parent \in {cont, msg[t][p.input].parent}
             /\ msg[t][p.input].role \in {"none", new.role}
  <2>1. p.input \in MsgIds
    BY <1>1, <1>6 DEF MsgRef
  <2>2. old = msg[t][p.input] /\ old \in MsgRow
    BY <1>6, <2>1 DEF TypeOK
  <2>3. par \in MsgRef
    BY <1>1, <2>2 DEF MsgRow
  <2>4. old = NoMsg \/ old.role = "user"
    BY <2>1, <2>2 DEF ReserveRun, StoreInv, MsgShape, Exists
  <2>5. par \in {cont, msg[t][p.input].parent}
    BY <2>2
  <2>6. old = NoMsg \/ (old.role = "user" /\ old.parent \in {None, par})
    BY <2>4
  <2>7. "user" \in Roles /\ "ag-ui/v1" \in Formats
    BY DEF Roles, Formats
  <2>. HIDE DEF old, par, cont
  <2>8. new \in MsgRow /\ new.role = "user" /\ new.parent = par
    BY <2>2, <2>3, <2>6, <2>7, UpsertedType, UpsertedRow
  <2>9. msg[t][p.input].role \in {"none", "user"}
    BY <2>2, <2>4 DEF NoMsg
  <2>. QED
    BY <2>1, <2>5, <2>8, <2>9
<1>. HIDE DEF new, old, par, cont
<1>7. \A u \in Threads, n \in MsgIds :
         /\ <<u, n>> # <<t, p.input>> => msg'[u][n] = msg[u][n]
         /\ msg'[u][n].role = msg[u][n].role \/ msg[u][n].role = "none"
  <2>1. CASE p.input = None
    BY <1>3, <2>1
  <2>2. CASE p.input # None
    BY <1>3, <1>6, <2>2, NodeWritten
  <2>. QED
    BY <2>1, <2>2
<1>8. p.input # None => msg'[t][p.input] = new
  BY <1>3, <1>6, NodeWritten
<1>9. \A u \in Threads, n \in MsgRef : RefersTo(u, n) => RefersTo(u, n)'
  BY <1>7 DEF RefersTo, Exists, MsgRef
<1>10. RefersTo(t, p.input)'
  BY <1>6, <1>8 DEF RefersTo, Exists
<1>11. RefersTo(t, cont)
  BY <1>1 DEF RefersTo
<1>12. MsgShape'
  <2>. SUFFICES ASSUME NEW u \in Threads, NEW n \in MsgIds, msg'[u][n].role = "none"
                PROVE  msg'[u][n] = NoMsg
    BY DEF MsgShape, Exists
  <2>1. CASE <<u, n>> = <<t, p.input>>
    BY <1>6, <1>8, <2>1, NoneIsNoMessage
  <2>2. CASE <<u, n>> # <<t, p.input>>
    BY <1>7, <2>2 DEF StoreInv, MsgShape, Exists
  <2>. QED
    BY <2>1, <2>2
<1>13. RunShape'
  BY <1>4, RequestTypes DEF StoreInv, RunShape
<1>14. ThreadRefsExist'
  <2>. SUFFICES ASSUME NEW u \in Threads
                PROVE  /\ RefersTo(u, thread[u].head)'
                       /\ thread'[u].lastRun # None => run'[thread'[u].lastRun].thread = u
    BY DEF ThreadRefsExist
  <2>1. CASE u = t
    BY <1>4, <1>5, <1>10, <2>1 DEF RefersTo, Exists
  <2>2. CASE u # t
    <3>1. thread[u].lastRun \in Runs \cup {None} /\ thread[u].head \in MsgRef
      BY DEF TypeOK, ThreadRow
    <3>2. /\ RefersTo(u, thread[u].head)
          /\ thread[u].lastRun # None => run[thread[u].lastRun].thread = u
      BY DEF StoreInv, ThreadRefsExist
    <3>3. thread[u].lastRun # r
      BY <1>1, <3>2, RequestTypes DEF NoRun
    <3>. QED
      BY <1>4, <1>5, <1>9, <2>2, <3>1, <3>2, <3>3 DEF RefersTo, Exists
  <2>. QED
    BY <2>1, <2>2
<1>15. ParentsExist'
  <2>. SUFFICES ASSUME NEW u \in Threads, NEW n \in MsgIds
                PROVE  RefersTo(u, msg[u][n].parent)'
    BY DEF ParentsExist
  <2>1. msg[u][n].parent \in MsgRef /\ RefersTo(u, msg[u][n].parent)
    BY DEF StoreInv, ParentsExist, TypeOK, MsgRow
  <2>2. CASE <<u, n>> = <<t, p.input>>
    <3>1. p.input # None
      BY <2>2, NoneIsNoMessage
    <3>. QED
      BY <1>1, <1>6, <1>8, <1>9, <1>11, <2>1, <2>2, <3>1 DEF RefersTo, Exists
  <2>3. CASE <<u, n>> # <<t, p.input>>
    BY <1>7, <1>9, <2>1, <2>3 DEF RefersTo, Exists
  <2>. QED
    BY <2>2, <2>3
<1>16. \A s \in Runs : run[s].thread # None =>
          /\ run[s].thread \in Threads
          /\ run[s].input \in MsgRef /\ run[s].cont \in MsgRef
          /\ run[s].output \in MsgRef
  BY DEF TypeOK, RunRow
<1>17. RunRefsExist'
  <2>. SUFFICES ASSUME NEW s \in Runs, run'[s].thread # None
                PROVE  /\ RefersTo(run[s].thread, run[s].input)'
                       /\ RefersTo(run[s].thread, run[s].cont)'
                       /\ RefersTo(run[s].thread, run[s].output)'
    BY DEF RunRefsExist
  <2>1. CASE s = r
    BY <1>1, <1>4, <1>9, <1>10, <1>11, <2>1 DEF RefersTo, Exists
  <2>2. CASE s # r
    BY <1>4, <1>9, <1>16, <2>2 DEF StoreInv, RunRefsExist, RefersTo, Exists
  <2>. QED
    BY <2>1, <2>2
<1>18. PendingFindParent'
  <2>1. \A w \in pending : w[1] \in Threads /\ w[2].parent \in MsgRef
    BY RequestTypes DEF TypeOK
  <2>. QED
    <3>. SUFFICES ASSUME NEW w \in pending
                  PROVE  /\ thread'[w[1]].status # "new"
                         /\ Live(w[1])' => RefersTo(w[1], w[2].parent)'
      BY <1>2 DEF PendingFindParent
    <3>1. thread'[w[1]].status = thread[w[1]].status
      BY <1>5, <2>1
    <3>2. /\ thread[w[1]].status # "new"
          /\ Live(w[1]) => RefersTo(w[1], w[2].parent)
      BY DEF StoreInv, PendingFindParent
    <3>. QED
      BY <1>9, <2>1, <3>1, <3>2 DEF Live
<1>19. ReservedIsQueued'
  BY <1>2, <1>4 DEF StoreInv, ReservedIsQueued, TypeOK
<1>20. InputIsUser'
  <2>. SUFFICES ASSUME NEW s \in Runs, run'[s].thread # None, run'[s].input # None
                PROVE  msg'[run'[s].thread][run'[s].input].role = "user"
    BY DEF InputIsUser
  <2>1. CASE s = r
    BY <1>4, <1>6, <1>8, <2>1
  <2>2. CASE s # r
    <3>1. run[s].thread \in Threads /\ run[s].input \in MsgIds
          /\ run'[s] = run[s]
      BY <1>4, <1>16, <2>2 DEF MsgRef
    <3>. QED
      BY <1>7, <3>1 DEF StoreInv, InputIsUser
  <2>. QED
    BY <2>1, <2>2
<1>21. \A u \in Threads, h \in MsgRef : state[u][h].run # None =>
          state[u][h].run \in Runs \ {r}
  BY <1>1, RequestTypes DEF StoreInv, SnapshotPlace, TypeOK, StateRow, NoRun
<1>22. SnapshotPlace'
  BY <1>2, <1>4, <1>21 DEF StoreInv, SnapshotPlace
<1>23. FailureReachesSnapshots'
  BY <1>2, <1>4, <1>21 DEF StoreInv, FailureReachesSnapshots
<1>24. AnswerRecorded'
  <2>. SUFFICES ASSUME NEW s \in Runs
                PROVE  LET u == run'[s].thread
                           a == OutputOf[s]
                       IN  IF run'[s].status = "completed"
                           THEN /\ run'[s].output = a
                                /\ msg'[u][a].role = "assistant"
                                /\ run'[s].input \in {None, msg'[u][a].parent}
                                /\ state'[u][a] = [run |-> s, status |-> "completed"]
                           ELSE run'[s].output = None
    BY DEF AnswerRecorded
  <2>1. CASE s = r
    BY <1>4, <2>1
  <2>2. CASE s # r
    <3>1. CASE run[s].status # "completed"
      BY <1>4, <2>2, <3>1 DEF StoreInv, AnswerRecorded
    <3>2. CASE run[s].status = "completed"
      <4>1. run[s].thread \in Threads /\ OutputOf[s] \in MsgIds
        BY <3>2, OutputIds DEF StoreInv, RunShape, TypeOK, RunRow
      <4>2. msg[run[s].thread][OutputOf[s]].role = "assistant"
        BY <3>2 DEF StoreInv, AnswerRecorded
      <4>3. <<run[s].thread, OutputOf[s]>> # <<t, p.input>>
        BY <1>6, <4>1, <4>2, NoneIsNoMessage
      <4>4. msg'[run[s].thread][OutputOf[s]] = msg[run[s].thread][OutputOf[s]]
        BY <1>7, <4>1, <4>3
      <4>5. run'[s] = run[s] /\ state' = state
        BY <1>2, <1>4, <2>2
      <4>. QED
        BY <3>2, <4>4, <4>5 DEF StoreInv, AnswerRecorded
    <3>. QED
      BY <3>1, <3>2
  <2>. QED
    BY <2>1, <2>2
<1>. QED
  BY <1>12, <1>13, <1>14, <1>15, <1>17, <1>18, <1>19, <1>20, <1>22, <1>23, <1>24
     DEF StoreInv

\* A queued run starts; the run of a deleted thread has no thread and does not.
LEMMA InvMarkRunning ==
    ASSUME TypeOK, StoreInv, NEW r \in Runs, MarkRunning(r) PROVE StoreInv'
<1>1. /\ run[r] \in RunRow /\ run[r].thread \in Threads /\ run[r].input \in MsgRef
      /\ run[r].status = "queued"
  BY DEF MarkRunning, StoreInv, ReservedIsQueued, RunShape, TypeOK, RunRow
<1>2. /\ \A s \in Runs : /\ run'[s].thread = run[s].thread
                         /\ run'[s].input = run[s].input
                         /\ run'[s].cont = run[s].cont
                         /\ run'[s].output = run[s].output
                         /\ s # r => run'[s] = run[s]
      /\ run'[r].status = "running"
  BY <1>1 DEF MarkRunning, TypeOK, RunRow
<1>3. /\ UNCHANGED <<thread, msg, pending>>
      /\ stage' = [stage EXCEPT ![r] = "running"]
  BY DEF MarkRunning
<1>4. /\ state'[run[r].thread][run[r].input] = [run |-> r, status |-> "running"]
      /\ \A u \in Threads, g \in MsgRef :
            <<u, g>> # <<run[r].thread, run[r].input>> => state'[u][g] = state[u][g]
  BY <1>1, SnapshotWritten DEF MarkRunning
<1>5. MsgShape' /\ ThreadRefsExist' /\ ParentsExist'
  <2>1. \A u \in Threads : thread[u].lastRun \in Runs \cup {None}
    BY DEF TypeOK, ThreadRow
  <2>2. MsgShape' /\ ParentsExist'
    BY <1>3 DEF StoreInv, MsgShape, ParentsExist, RefersTo, Exists
  <2>3. ThreadRefsExist'
    BY <1>2, <1>3, <2>1 DEF StoreInv, ThreadRefsExist, RefersTo, Exists
  <2>. QED
    BY <2>2, <2>3
<1>6. RunShape'
  BY <1>1, <1>2, RequestTypes DEF StoreInv, RunShape
<1>7. RunRefsExist' /\ InputIsUser'
  BY <1>2, <1>3 DEF StoreInv, RunRefsExist, InputIsUser, RefersTo, Exists
<1>8. PendingFindParent'
  BY <1>3 DEF StoreInv, PendingFindParent, Live, RefersTo, Exists
<1>9. ReservedIsQueued'
  BY <1>2, <1>3 DEF StoreInv, ReservedIsQueued, TypeOK
<1>10. ASSUME NEW u \in Threads, NEW h \in MsgRef, state'[u][h].run # None
       PROVE  /\ state'[u][h].run \in Runs /\ run[state'[u][h].run].thread = u
              /\ \/ h = run[state'[u][h].run].input
                 \/ /\ run[state'[u][h].run].status = "completed"
                    /\ h = OutputOf[state'[u][h].run]
              /\ \/ state'[u][h].run = r
                 \/ state'[u][h] = state[u][h]
  BY <1>4, <1>10 DEF StoreInv, SnapshotPlace, TypeOK, StateRow
<1>11. SnapshotPlace'
  BY <1>1, <1>2, <1>10 DEF SnapshotPlace
<1>12. FailureReachesSnapshots'
  BY <1>2, <1>10 DEF StoreInv, FailureReachesSnapshots
<1>13. AnswerRecorded'
  <2>. SUFFICES ASSUME NEW s \in Runs
                PROVE  LET u == run'[s].thread
                           a == OutputOf[s]
                       IN  IF run'[s].status = "completed"
                           THEN /\ run'[s].output = a
                                /\ msg'[u][a].role = "assistant"
                                /\ run'[s].input \in {None, msg'[u][a].parent}
                                /\ state'[u][a] = [run |-> s, status |-> "completed"]
                           ELSE run'[s].output = None
    BY DEF AnswerRecorded
  <2>1. CASE run[s].status # "completed" \/ s = r
    BY <1>1, <1>2, <2>1 DEF StoreInv, AnswerRecorded
  <2>2. CASE run[s].status = "completed" /\ s # r
    <3>1. run[s].thread \in Threads /\ OutputOf[s] \in MsgIds
      BY <2>2, OutputIds DEF StoreInv, RunShape, TypeOK, RunRow
    <3>2. msg[run[s].thread][OutputOf[s]].role = "assistant"
      BY <2>2 DEF StoreInv, AnswerRecorded
    <3>3. run[r].input # None => msg[run[r].thread][run[r].input].role = "user"
      BY <1>1 DEF StoreInv, InputIsUser, RunShape
    <3>4. <<run[s].thread, OutputOf[s]>> # <<run[r].thread, run[r].input>>
      BY <3>1, <3>2, <3>3, NoneIsNoMessage
    <3>5. state'[run[s].thread][OutputOf[s]] = state[run[s].thread][OutputOf[s]]
      BY <1>4, <3>1, <3>4 DEF MsgRef
    <3>. QED
      BY <1>2, <1>3, <2>2, <3>5 DEF StoreInv, AnswerRecorded
  <2>. QED
    BY <2>1, <2>2
<1>. QED
  BY <1>5, <1>6, <1>7, <1>8, <1>9, <1>11, <1>12, <1>13 DEF StoreInv

LEMMA InvSettleNonCompleted ==
    ASSUME TypeOK, StoreInv, NEW r \in Runs, NEW status \in {"failed", "cancelled"},
           SettleNonCompleted(r, status)
    PROVE  StoreInv'
<1>1. /\ run[r] \in RunRow /\ run[r].thread \in Threads /\ run[r].input \in MsgRef
      /\ run[r].status \in LiveStatus /\ stage[r] # "reserved"
  BY DEF SettleNonCompleted, StoreInv, RunShape, TypeOK, RunRow, LiveStatus
<1>2. /\ \A s \in Runs : /\ run'[s].thread = run[s].thread
                         /\ run'[s].input = run[s].input
                         /\ run'[s].cont = run[s].cont
                         /\ run'[s].output = run[s].output
                         /\ s # r => run'[s] = run[s]
      /\ run'[r].status = status
  BY <1>1 DEF SettleNonCompleted, TypeOK, RunRow
<1>3. UNCHANGED <<thread, msg, pending, stage>>
  BY DEF SettleNonCompleted
<1>4. /\ state'[run[r].thread][run[r].input] = [run |-> r, status |-> status]
      /\ \A u \in Threads, g \in MsgRef :
            <<u, g>> # <<run[r].thread, run[r].input>> => state'[u][g] = state[u][g]
  BY <1>1, SnapshotWritten DEF SettleNonCompleted
<1>5. MsgShape' /\ ThreadRefsExist' /\ ParentsExist'
  <2>1. \A u \in Threads : thread[u].lastRun \in Runs \cup {None}
    BY DEF TypeOK, ThreadRow
  <2>2. MsgShape' /\ ParentsExist'
    BY <1>3 DEF StoreInv, MsgShape, ParentsExist, RefersTo, Exists
  <2>3. ThreadRefsExist'
    BY <1>2, <1>3, <2>1 DEF StoreInv, ThreadRefsExist, RefersTo, Exists
  <2>. QED
    BY <2>2, <2>3
<1>6. RunShape'
  BY <1>1, <1>2, RequestTypes DEF StoreInv, RunShape
<1>7. RunRefsExist' /\ InputIsUser'
  BY <1>2, <1>3 DEF StoreInv, RunRefsExist, InputIsUser, RefersTo, Exists
<1>8. PendingFindParent'
  BY <1>3 DEF StoreInv, PendingFindParent, Live, RefersTo, Exists
<1>9. ReservedIsQueued'
  BY <1>1, <1>2, <1>3 DEF StoreInv, ReservedIsQueued
<1>10. ASSUME NEW u \in Threads, NEW h \in MsgRef, state'[u][h].run # None
       PROVE  /\ state'[u][h].run \in Runs /\ run[state'[u][h].run].thread = u
              /\ \/ h = run[state'[u][h].run].input
                 \/ /\ run[state'[u][h].run].status = "completed"
                    /\ h = OutputOf[state'[u][h].run]
              /\ \/ /\ state'[u][h].run # r
                    /\ state'[u][h] = state[u][h]
                 \/ /\ state'[u][h].run = r
                    /\ state'[u][h].status = status
  BY <1>1, <1>4, <1>10 DEF StoreInv, SnapshotPlace, TypeOK, StateRow, LiveStatus
<1>11. SnapshotPlace'
  BY <1>1, <1>2, <1>10 DEF SnapshotPlace, LiveStatus
<1>12. FailureReachesSnapshots'
  BY <1>2, <1>10 DEF StoreInv, FailureReachesSnapshots
<1>13. AnswerRecorded'
  <2>. SUFFICES ASSUME NEW s \in Runs
                PROVE  LET u == run'[s].thread
                           a == OutputOf[s]
                       IN  IF run'[s].status = "completed"
                           THEN /\ run'[s].output = a
                                /\ msg'[u][a].role = "assistant"
                                /\ run'[s].input \in {None, msg'[u][a].parent}
                                /\ state'[u][a] = [run |-> s, status |-> "completed"]
                           ELSE run'[s].output = None
    BY DEF AnswerRecorded
  <2>1. CASE run[s].status # "completed" \/ s = r
    BY <1>1, <1>2, <2>1 DEF StoreInv, AnswerRecorded, LiveStatus
  <2>2. CASE run[s].status = "completed" /\ s # r
    <3>1. run[s].thread \in Threads /\ OutputOf[s] \in MsgIds
      BY <2>2, OutputIds DEF StoreInv, RunShape, TypeOK, RunRow
    <3>2. msg[run[s].thread][OutputOf[s]].role = "assistant"
      BY <2>2 DEF StoreInv, AnswerRecorded
    <3>3. run[r].input # None => msg[run[r].thread][run[r].input].role = "user"
      BY <1>1, RequestTypes DEF StoreInv, InputIsUser
    <3>4. <<run[s].thread, OutputOf[s]>> # <<run[r].thread, run[r].input>>
      BY <3>1, <3>2, <3>3, NoneIsNoMessage
    <3>5. state'[run[s].thread][OutputOf[s]] = state[run[s].thread][OutputOf[s]]
      BY <1>4, <3>1, <3>4 DEF MsgRef
    <3>. QED
      BY <1>2, <1>3, <2>2, <3>5 DEF StoreInv, AnswerRecorded
  <2>. QED
    BY <2>1, <2>2
<1>. QED
  BY <1>5, <1>6, <1>7, <1>8, <1>9, <1>11, <1>12, <1>13 DEF StoreInv

LEMMA InvRunCompleted ==
    ASSUME TypeOK, StoreInv, NEW r \in Runs, RunCompleted(r) PROVE StoreInv'
<1>. DEFINE t    == run[r].thread
            a    == OutputOf[r]
            in   == run[r].input
            new  == Upserted(msg[t][a], "assistant", in, "ag-ui/v1")
            head == IF thread[t].head = in THEN a ELSE thread[t].head
<1>1. /\ run[r] \in RunRow /\ t \in Threads /\ in \in MsgRef /\ a \in MsgIds
      /\ a \in MsgRef /\ a # None
      /\ run[r].status \in LiveStatus /\ stage[r] = "running"
  <2>1. a \in MsgIds
    BY OutputIds
  <2>2. /\ run[r] \in RunRow
        /\ run[r].status \in LiveStatus /\ stage[r] = "running"
    BY DEF RunCompleted, TypeOK
  <2>3. t \in Threads /\ in \in MsgRef
    BY <2>2 DEF StoreInv, RunShape, RunRow, LiveStatus
  <2>. QED
    BY <2>1, <2>2, <2>3, NoneIsNoMessage DEF MsgRef
<1>2. /\ \A s \in Runs : /\ run'[s].thread = run[s].thread
                         /\ run'[s].input = run[s].input
                         /\ run'[s].cont = run[s].cont
                         /\ s # r => run'[s] = run[s]
      /\ run'[r].status = "completed" /\ run'[r].output = a
  BY <1>1 DEF RunCompleted, TypeOK, RunRow
<1>3. /\ UNCHANGED <<pending, stage>>
      /\ msg' = [msg EXCEPT ![t][a] = new]
      /\ thread' = [thread EXCEPT ![t].head = head]
      /\ state' = Snapshot(t, a, r, "completed")
  BY <1>1 DEF RunCompleted, TypeOK
<1>4. new \in MsgRow /\ new.role = "assistant" /\ new.parent = in
  <2>1. msg[t][a] \in MsgRow
    BY <1>1 DEF TypeOK
  <2>2. "assistant" \in Roles /\ "ag-ui/v1" \in Formats
    BY DEF Roles, Formats
  <2>3. msg[t][a] = NoMsg \/ (msg[t][a].role = "assistant" /\ msg[t][a].parent \in {None, in})
    BY DEF RunCompleted, UpsertAllowed
  <2>. QED
    BY <1>1, <2>1, <2>2, <2>3, UpsertedType, UpsertedRow
<1>5. msg[t][a].role \in {"none", new.role}
  <2>1. msg[t][a] = NoMsg \/ msg[t][a].role = "assistant"
    BY DEF RunCompleted, UpsertAllowed
  <2>. QED
    BY <1>4, <2>1 DEF NoMsg
<1>6. \A u \in Threads : /\ thread'[u].status = thread[u].status
                         /\ thread'[u].lastRun = thread[u].lastRun
                         /\ thread'[u].head = IF u = t THEN head ELSE thread[u].head
  BY <1>1, <1>3 DEF TypeOK, ThreadRow
<1>7. head \in {thread[t].head, a}
  OBVIOUS
<1>8. in # None => msg[t][in].role = "user"
  BY <1>1, RequestTypes DEF StoreInv, InputIsUser
<1>9. RefersTo(t, in)
  BY <1>1, RequestTypes DEF StoreInv, RunRefsExist
<1>. HIDE DEF t, a, in, new, head
<1>10. /\ msg'[t][a] = new
       /\ \A u \in Threads, n \in MsgIds :
             /\ <<u, n>> # <<t, a>> => msg'[u][n] = msg[u][n]
             /\ msg'[u][n].role = msg[u][n].role \/ msg[u][n].role = "none"
  BY <1>1, <1>3, <1>4, <1>5, NodeWritten
<1>11. \A u \in Threads, n \in MsgRef : RefersTo(u, n) => RefersTo(u, n)'
  BY <1>10 DEF RefersTo, Exists, MsgRef
<1>12. msg'[t][a].role # "none"
  BY <1>4, <1>10
<1>13. /\ state'[t][a] = [run |-> r, status |-> "completed"]
       /\ \A u \in Threads, g \in MsgRef :
             <<u, g>> # <<t, a>> => state'[u][g] = state[u][g]
  BY <1>1, <1>3, SnapshotWritten
<1>14. MsgShape'
  BY <1>4, <1>10 DEF StoreInv, MsgShape, Exists
<1>15. RunShape'
  BY <1>1, <1>2, RequestTypes DEF StoreInv, RunShape, t
<1>16. \A u \in Threads : /\ thread[u].lastRun \in Runs \cup {None}
                          /\ thread[u].head \in MsgRef
  BY DEF TypeOK, ThreadRow
<1>17. ThreadRefsExist'
  <2>. SUFFICES ASSUME NEW u \in Threads
                PROVE  /\ thread'[u].head # None => msg'[u][thread'[u].head].role # "none"
                       /\ thread'[u].lastRun # None => run'[thread'[u].lastRun].thread = u
    BY DEF ThreadRefsExist, RefersTo, Exists
  <2>1. thread[u].head # None => msg'[u][thread[u].head].role # "none"
    BY <1>11, <1>16 DEF StoreInv, ThreadRefsExist, RefersTo, Exists
  <2>. QED
    BY <1>2, <1>6, <1>7, <1>12, <1>16, <2>1 DEF StoreInv, ThreadRefsExist
<1>18. ParentsExist'
  <2>. SUFFICES ASSUME NEW u \in Threads, NEW n \in MsgIds
                PROVE  RefersTo(u, msg[u][n].parent)'
    BY DEF ParentsExist
  <2>1. msg[u][n].parent \in MsgRef /\ RefersTo(u, msg[u][n].parent)
    BY DEF StoreInv, ParentsExist, TypeOK, MsgRow
  <2>2. CASE <<u, n>> = <<t, a>>
    BY <1>1, <1>4, <1>9, <1>10, <1>11, <2>2 DEF RefersTo, Exists
  <2>3. CASE <<u, n>> # <<t, a>>
    BY <1>10, <1>11, <2>1, <2>3 DEF RefersTo, Exists
  <2>. QED
    BY <2>2, <2>3
<1>19. \A s \in Runs : run[s].thread # None =>
          /\ run[s].thread \in Threads
          /\ run[s].input \in MsgRef /\ run[s].cont \in MsgRef
          /\ run[s].output \in MsgRef
  BY DEF TypeOK, RunRow
<1>20. RunRefsExist'
  <2>. SUFFICES ASSUME NEW s \in Runs, run'[s].thread # None
                PROVE  /\ RefersTo(run[s].thread, run[s].input)'
                       /\ RefersTo(run[s].thread, run[s].cont)'
                       /\ RefersTo(run[s].thread, run[s].output)'
    BY DEF RunRefsExist
  <2>1. RefersTo(run[s].thread, run[s].input)' /\ RefersTo(run[s].thread, run[s].cont)'
    BY <1>2, <1>11, <1>19 DEF StoreInv, RunRefsExist, RefersTo, Exists
  <2>2. CASE s = r
    BY <1>2, <1>12, <2>1, <2>2 DEF RefersTo, Exists, t
  <2>3. CASE s # r
    BY <1>2, <1>11, <1>19, <2>1, <2>3 DEF StoreInv, RunRefsExist, RefersTo, Exists
  <2>. QED
    BY <2>2, <2>3
<1>21. PendingFindParent'
  <2>1. \A w \in pending : w[1] \in Threads /\ w[2].parent \in MsgRef
    BY RequestTypes DEF TypeOK
  <2>. QED
    BY <1>3, <1>6, <1>11, <2>1 DEF StoreInv, PendingFindParent, Live, RefersTo, Exists
<1>22. ReservedIsQueued'
  BY <1>1, <1>2, <1>3 DEF StoreInv, ReservedIsQueued
<1>23. InputIsUser'
  <2>. SUFFICES ASSUME NEW s \in Runs, run[s].thread # None, run[s].input # None
                PROVE  msg'[run[s].thread][run[s].input].role = "user"
    BY <1>2 DEF InputIsUser
  <2>1. run[s].thread \in Threads /\ run[s].input \in MsgIds
    BY <1>19 DEF MsgRef
  <2>2. msg[run[s].thread][run[s].input].role = "user"
    BY DEF StoreInv, InputIsUser
  <2>. QED
    BY <1>10, <2>1, <2>2
<1>24. ASSUME NEW u \in Threads, NEW h \in MsgRef, state'[u][h].run # None
       PROVE  \/ /\ u = t /\ h = a
                 /\ state'[u][h] = [run |-> r, status |-> "completed"]
              \/ /\ state'[u][h] = state[u][h]
                 /\ state[u][h].run \in Runs /\ run[state[u][h].run].thread = u
                 /\ \/ h = run[state[u][h].run].input
                    \/ /\ run[state[u][h].run].status = "completed"
                       /\ h = OutputOf[state[u][h].run]
  BY <1>13, <1>24 DEF StoreInv, SnapshotPlace, TypeOK, StateRow
<1>25. SnapshotPlace'
  <2>. SUFFICES ASSUME NEW u \in Threads, NEW h \in MsgRef, state'[u][h].run # None
                PROVE  LET s == state'[u][h].run IN
                       /\ run'[s].thread = u
                       /\ \/ h = run'[s].input
                          \/ run'[s].status = "completed" /\ h = OutputOf[s]
    BY DEF SnapshotPlace
  <2>. QED
    BY <1>2, <1>24 DEF t, a
<1>26. FailureReachesSnapshots'
  <2>. SUFFICES ASSUME NEW u \in Threads, NEW h \in MsgRef, state'[u][h].run # None,
                       run'[state'[u][h].run].status \in {"failed", "cancelled"}
                PROVE  state'[u][h].status = run'[state'[u][h].run].status
    BY DEF FailureReachesSnapshots
  <2>1. state'[u][h].run # r
    BY <1>2
  <2>. QED
    BY <1>2, <1>24, <2>1 DEF StoreInv, FailureReachesSnapshots
<1>27. AnswerRecorded'
  <2>. SUFFICES ASSUME NEW s \in Runs
                PROVE  LET u == run'[s].thread
                           o == OutputOf[s]
                       IN  IF run'[s].status = "completed"
                           THEN /\ run'[s].output = o
                                /\ msg'[u][o].role = "assistant"
                                /\ run'[s].input \in {None, msg'[u][o].parent}
                                /\ state'[u][o] = [run |-> s, status |-> "completed"]
                           ELSE run'[s].output = None
    BY DEF AnswerRecorded
  <2>1. CASE s = r
    BY <1>2, <1>4, <1>10, <1>13, <2>1 DEF t, a, in
  <2>2. CASE s # r /\ run[s].status # "completed"
    BY <1>2, <2>2 DEF StoreInv, AnswerRecorded
  <2>3. CASE s # r /\ run[s].status = "completed"
    <3>1. run[s].thread \in Threads /\ OutputOf[s] \in MsgIds /\ OutputOf[s] # a
      BY <2>3, OutputIds DEF StoreInv, RunShape, TypeOK, RunRow, a
    <3>2. /\ msg'[run[s].thread][OutputOf[s]] = msg[run[s].thread][OutputOf[s]]
          /\ state'[run[s].thread][OutputOf[s]] = state[run[s].thread][OutputOf[s]]
      BY <1>10, <1>13, <3>1 DEF MsgRef
    <3>. QED
      BY <1>2, <2>3, <3>2 DEF StoreInv, AnswerRecorded
  <2>. QED
    BY <2>1, <2>2, <2>3
<1>. QED
  BY <1>14, <1>15, <1>17, <1>18, <1>20, <1>21, <1>22, <1>23, <1>25, <1>26, <1>27
     DEF StoreInv

\* A restart leaves no coordinator and no pending write; a sweep fails the live
\* runs together with every snapshot they own.
LEMMA InvRestart == ASSUME TypeOK, StoreInv, Restart PROVE StoreInv'
<1>1. /\ UNCHANGED <<thread, msg>> /\ pending' = {}
      /\ \A r \in Runs : stage'[r] = "none"
  BY DEF Restart
<1>2. PendingFindParent' /\ ReservedIsQueued'
  BY <1>1 DEF PendingFindParent, ReservedIsQueued
<1>3. CASE UNCHANGED <<run, state>>
  BY <1>1, <1>2, <1>3, RowsUnmoved, ThreadsUnmoved DEF StoreInv
<1>4. CASE Swept
  <2>1. \A r \in Runs :
           /\ run'[r].thread = run[r].thread /\ run'[r].input = run[r].input
           /\ run'[r].cont = run[r].cont /\ run'[r].output = run[r].output
           /\ r \in Orphans => run'[r].status = "failed"
           /\ r \notin Orphans => run'[r] = run[r]
    BY <1>4 DEF Swept, TypeOK, RunRow
  <2>2. \A u \in Threads, h \in MsgRef :
           /\ state'[u][h].run = state[u][h].run
           /\ state[u][h].run \in Orphans => state'[u][h].status = "failed"
           /\ state[u][h].run \notin Orphans => state'[u][h] = state[u][h]
    BY <1>4 DEF Swept, TypeOK, StateRow
  <2>3. MsgShape' /\ ThreadRefsExist' /\ ParentsExist'
    <3>1. \A u \in Threads : thread[u].lastRun \in Runs \cup {None}
      BY DEF TypeOK, ThreadRow
    <3>. QED
      BY <1>1, <2>1, <3>1
         DEF StoreInv, MsgShape, ThreadRefsExist, ParentsExist, RefersTo, Exists
  <2>4. RunShape'
    BY <2>1 DEF StoreInv, RunShape, Orphans, LiveStatus
  <2>5. RunRefsExist' /\ InputIsUser'
    BY <1>1, <2>1 DEF StoreInv, RunRefsExist, InputIsUser, RefersTo, Exists
  <2>6. \A u \in Threads, h \in MsgRef : state[u][h].run \in Runs \cup {None}
    BY DEF TypeOK, StateRow
  <2>7. SnapshotPlace'
    BY <2>1, <2>2, <2>6 DEF StoreInv, SnapshotPlace, Orphans, LiveStatus
  <2>8. FailureReachesSnapshots'
    BY <2>1, <2>2, <2>6 DEF StoreInv, FailureReachesSnapshots
  <2>9. AnswerRecorded'
    <3>. SUFFICES ASSUME NEW s \in Runs
                  PROVE  LET u == run'[s].thread
                             o == OutputOf[s]
                         IN  IF run'[s].status = "completed"
                             THEN /\ run'[s].output = o
                                  /\ msg'[u][o].role = "assistant"
                                  /\ run'[s].input \in {None, msg'[u][o].parent}
                                  /\ state'[u][o] = [run |-> s, status |-> "completed"]
                             ELSE run'[s].output = None
      BY DEF AnswerRecorded
    <3>1. CASE run[s].status # "completed"
      BY <2>1, <3>1 DEF StoreInv, AnswerRecorded
    <3>2. CASE run[s].status = "completed"
      <4>1. s \notin Orphans
        BY <3>2 DEF Orphans, LiveStatus
      <4>2. run[s].thread \in Threads /\ OutputOf[s] \in MsgRef
        BY <3>2, OutputIds DEF StoreInv, RunShape, TypeOK, RunRow, MsgRef
      <4>3. state[run[s].thread][OutputOf[s]] = [run |-> s, status |-> "completed"]
        BY <3>2 DEF StoreInv, AnswerRecorded
      <4>4. state'[run[s].thread][OutputOf[s]] = state[run[s].thread][OutputOf[s]]
        BY <2>2, <4>1, <4>2, <4>3
      <4>. QED
        BY <1>1, <2>1, <3>2, <4>1, <4>4 DEF StoreInv, AnswerRecorded
    <3>. QED
      BY <3>1, <3>2
  <2>. QED
    BY <1>2, <2>3, <2>4, <2>5, <2>7, <2>8, <2>9 DEF StoreInv
<1>. QED
  BY <1>3, <1>4 DEF Restart

-----------------------------------------------------------------------------
(* The invariants                                                          *)

LEMMA TypeStep == ASSUME TypeOK, StoreInv, [Next]_vars PROVE TypeOK'
<1>1. RunShape
  BY DEF StoreInv
<1>2. CASE Client
  BY <1>2, TypeCreateThread, TypeDeleteThread, TypeSetHead, TypeCheckPut,
     TypeWritePut, TypeReserveRun DEF Client
<1>3. CASE Coordinator
  BY <1>1, <1>3, TypeMarkRunning, TypeMarkRunningFails, TypeRunCompleted,
     TypeSettleNonCompleted DEF Coordinator
<1>4. CASE Restart
  BY <1>4, TypeRestart
<1>5. CASE UNCHANGED vars
  BY <1>5 DEF vars, TypeOK
<1>. QED
  BY <1>2, <1>3, <1>4, <1>5 DEF Next

LEMMA InvStep == ASSUME TypeOK, StoreInv, [Next]_vars PROVE StoreInv'
<1>1. CASE Client
  BY <1>1, InvCreateThread, InvDeleteThread, InvSetHead, InvCheckPut,
     InvWritePut, InvReserveRun DEF Client
<1>2. CASE Coordinator
  BY <1>2, InvMarkRunning, InvMarkRunningFails, InvRunCompleted,
     InvSettleNonCompleted DEF Coordinator
<1>3. CASE Restart
  BY <1>3, InvRestart
<1>4. CASE UNCHANGED vars
  BY <1>4, RowsUnmoved, ThreadsUnmoved, PendingUnmoved, StagesUnmoved
     DEF vars, StoreInv
<1>. QED
  BY <1>1, <1>2, <1>3, <1>4 DEF Next

\* Every reachable database state satisfies the inductive invariant.
THEOREM StoreInvariant == Spec => [](TypeOK /\ StoreInv)
<1>1. Init => TypeOK /\ StoreInv
  BY TypeInit, InitInv
<1>2. TypeOK /\ StoreInv /\ [Next]_vars => (TypeOK /\ StoreInv)'
  BY TypeStep, InvStep
<1>. QED
  BY <1>1, <1>2, PTL DEF Spec

\* Rows keep their types, for any threads, runs, messages and requests.
THEOREM TypeCorrect == Spec => []TypeOK
  BY StoreInvariant, PTL

\* No thread, message or run ever names a message outside its own thread's
\* rows, although the schema has no foreign key for any of these columns.
THEOREM ReferencesExist == Spec => []RefsExist
<1>1. StoreInv => RefsExist
  BY DEF StoreInv, RefsExist
<1>. QED
  BY <1>1, StoreInvariant, PTL

\* A run is completed exactly when its answer is stored below its input with
\* the completed snapshot: run_completed is one transaction, and no later PUT,
\* reservation, settlement or restart takes the answer away.
THEOREM AnswersRecorded == Spec => []AnswerRecorded
<1>1. StoreInv => AnswerRecorded
  BY DEF StoreInv
<1>. QED
  BY <1>1, StoreInvariant, PTL

\* A failed or cancelled run leaves no snapshot that shows it otherwise.
THEOREM FailuresReachSnapshots == Spec => []FailureReachesSnapshots
<1>1. StoreInv => FailureReachesSnapshots
  BY DEF StoreInv
<1>. QED
  BY <1>1, StoreInvariant, PTL

-----------------------------------------------------------------------------
(* What a step may never do                                                *)

LEMMA TerminalStep ==
    ASSUME TypeOK, StoreInv, [Next]_vars, NEW r \in Runs,
           run[r].status \in TerminalStatus
    PROVE  run'[r] = run[r] \/ run'[r].status = "deleted"
<1>1. run[r].status \notin {"absent", "queued", "running"}
  BY DEF TerminalStatus
<1>2. CASE Client
  <2>. SUFFICES ASSUME NEW t \in Threads,
                       \/ CreateThread(t) \/ DeleteThread(t)
                       \/ \E h \in MsgRef : SetHead(t, h)
                       \/ \E q \in Puts : CheckPut(t, q) \/ WritePut(t, q)
                       \/ \E s \in Runs, p \in Payloads : ReserveRun(t, s, p)
                PROVE  run'[r] = run[r] \/ run'[r].status = "deleted"
    BY <1>2 DEF Client
  <2>1. CASE DeleteThread(t)
    BY <2>1 DEF DeleteThread, NoRun
  <2>2. ASSUME NEW s \in Runs, NEW p \in Payloads, ReserveRun(t, s, p)
        PROVE  run'[r] = run[r]
    <3>1. s # r
      BY <1>1, <2>2 DEF ReserveRun, NoRun
    <3>. QED
      BY <2>2, <3>1 DEF ReserveRun, TypeOK
  <2>. QED
    BY <2>1, <2>2 DEF CreateThread, SetHead, CheckPut, WritePut
<1>3. CASE Coordinator
  <2>. SUFFICES ASSUME NEW s \in Runs,
                       \/ MarkRunning(s) \/ MarkRunningFails(s) \/ RunCompleted(s)
                       \/ \E e \in {"failed", "cancelled"} : SettleNonCompleted(s, e)
                PROVE  run'[r] = run[r]
    BY <1>3 DEF Coordinator
  <2>1. CASE s # r
    BY <2>1
       DEF MarkRunning, MarkRunningFails, RunCompleted, SettleNonCompleted, TypeOK
  <2>2. CASE s = r
    <3>1. ~RunCompleted(r) /\ \A e : ~SettleNonCompleted(r, e)
      BY <1>1 DEF RunCompleted, SettleNonCompleted, LiveStatus
    <3>2. ~MarkRunning(r)
      BY <1>1 DEF MarkRunning, StoreInv, ReservedIsQueued, RunShape
    <3>. QED
      BY <2>2, <3>1, <3>2 DEF MarkRunningFails
  <2>. QED
    BY <2>1, <2>2
<1>4. CASE Restart
  BY <1>1, <1>4 DEF Restart, Swept, Orphans, LiveStatus
<1>5. CASE UNCHANGED vars
  BY <1>5 DEF vars
<1>. QED
  BY <1>2, <1>3, <1>4, <1>5 DEF Next

\* Once a run is settled no settlement, restart or repeated request changes its
\* row; only the deletion of its thread removes it.
THEOREM OutcomesAreFinal == Spec => TerminalIsFinal
<1>1. TypeOK /\ StoreInv /\ [Next]_vars
        => [\A r \in Runs : run[r].status \in TerminalStatus =>
               run'[r] = run[r] \/ run'[r].status = "deleted"]_vars
  BY TerminalStep
<1>. QED
  BY <1>1, StoreInvariant, PTL DEF Spec, TerminalIsFinal

\* How a step can write a message row: not at all, or one row that keeps role
\* and parent of the row it replaces.
LEMMA NodeStep ==
    ASSUME TypeOK, StoreInv, [Next]_vars, NEW t \in Threads, NEW m \in MsgIds,
           Exists(t, m), thread'[t].status = "live"
    PROVE  /\ msg'[t][m].role = msg[t][m].role
           /\ msg[t][m].parent \in {None, msg'[t][m].parent}
           /\ msg[t][m].format = "aui/v0" => msg'[t][m].format = "aui/v0"
<1>. DEFINE Stable(new) == /\ new.role = msg[t][m].role
                           /\ msg[t][m].parent \in {None, new.parent}
                           /\ msg[t][m].format = "aui/v0" => new.format = "aui/v0"
<1>1. msg[t][m] # NoMsg
  BY DEF Exists, NoMsg
<1>2. ASSUME NEW role, NEW parent, NEW format, msg[t][m].role = role
      PROVE  Stable(Upserted(msg[t][m], role, parent, format))
  BY <1>1, <1>2 DEF Upserted
<1>3. CASE Client
  <2>. SUFFICES ASSUME NEW u \in Threads,
                       \/ CreateThread(u) \/ DeleteThread(u)
                       \/ \E h \in MsgRef : SetHead(u, h)
                       \/ \E q \in Puts : CheckPut(u, q) \/ WritePut(u, q)
                       \/ \E r \in Runs, p \in Payloads : ReserveRun(u, r, p)
                PROVE  Stable(msg'[t][m])
    BY <1>3 DEF Client
  <2>1. CASE DeleteThread(u)
    BY <2>1 DEF DeleteThread, TypeOK
  <2>2. ASSUME NEW q \in Puts, WritePut(u, q) PROVE Stable(msg'[t][m])
    <3>1. CASE UNCHANGED msg
      BY <3>1
    <3>2. CASE /\ UpsertAllowed(msg[u][q.id], q.id, q.role, q.parent)
               /\ msg' = [msg EXCEPT ![u][q.id] = Upserted(@, q.role, q.parent, q.format)]
      <4>1. CASE u = t /\ q.id = m
        <5>1. msg[t][m].role = q.role
          BY <1>1, <3>2, <4>1 DEF UpsertAllowed
        <5>2. msg'[t][m] = Upserted(msg[t][m], q.role, q.parent, q.format)
          BY <3>2, <4>1 DEF TypeOK
        <5>. QED
          BY <1>2, <5>1, <5>2
      <4>2. CASE ~(u = t /\ q.id = m)
        BY <3>2, <4>2 DEF TypeOK
      <4>. QED
        BY <4>1, <4>2
    <3>. QED
      BY <2>2, <3>1, <3>2 DEF WritePut
  <2>3. ASSUME NEW r \in Runs, NEW p \in Payloads, ReserveRun(u, r, p)
        PROVE  Stable(msg'[t][m])
    <3>. DEFINE old == IF p.input = None THEN NoMsg ELSE msg[u][p.input]
                par == IF old = NoMsg THEN Continuation(u, p) ELSE old.parent
                new == Upserted(old, "user", par, "ag-ui/v1")
    <3>0. \/ msg' = msg
          \/ p.input # None /\ msg' = [msg EXCEPT ![u][p.input] = new]
      BY <2>3 DEF ReserveRun
    <3>1. CASE u = t /\ p.input = m
      <4>1. m # None
        BY NoneIsNoMessage
      <4>2. msg[t][m].role = "user"
        BY <2>3, <3>1, <4>1 DEF ReserveRun, Exists
      <4>3. Stable(new)
        BY <1>2, <3>1, <4>1, <4>2
      <4>. HIDE DEF new
      <4>4. msg'[t][m] \in {msg[t][m], new}
        BY <3>0, <3>1 DEF TypeOK
      <4>. QED
        BY <4>3, <4>4
    <3>2. CASE ~(u = t /\ p.input = m)
      <4>. HIDE DEF new
      <4>. QED
        BY <3>0, <3>2 DEF TypeOK
    <3>. QED
      BY <3>1, <3>2
  <2>. QED
    BY <2>1, <2>2, <2>3 DEF CreateThread, SetHead, CheckPut
<1>4. CASE Coordinator
  <2>1. ASSUME NEW r \in Runs, RunCompleted(r) PROVE Stable(msg'[t][m])
    <3>1. CASE run[r].thread = t /\ OutputOf[r] = m
      <4>1. msg[t][m].role = "assistant"
        BY <1>1, <2>1, <3>1 DEF RunCompleted, UpsertAllowed
      <4>2. msg'[t][m] = Upserted(msg[t][m], "assistant", run[r].input, "ag-ui/v1")
        BY <2>1, <3>1 DEF RunCompleted, TypeOK
      <4>. QED
        BY <1>2, <4>1, <4>2
    <3>2. CASE ~(run[r].thread = t /\ OutputOf[r] = m)
      <4>1. \E new : msg' = [msg EXCEPT ![run[r].thread][OutputOf[r]] = new]
        BY <2>1 DEF RunCompleted
      <4>2. msg'[t][m] = msg[t][m]
        BY <3>2, <4>1 DEF TypeOK
      <4>. QED
        BY <1>2, <4>2
    <3>. QED
      BY <3>1, <3>2
  <2>. QED
    BY <1>4, <2>1 DEF Coordinator, MarkRunning, MarkRunningFails, SettleNonCompleted
<1>5. CASE Restart \/ UNCHANGED vars
  BY <1>5 DEF Restart, vars
<1>. QED
  BY <1>3, <1>4, <1>5 DEF Next

\* A stored message keeps its role, its parent link and its exact format.
THEOREM MessagesAreStable == Spec => NodesAreStable
<1>1. TypeOK /\ StoreInv /\ [Next]_vars
        => [\A t \in Threads, m \in MsgIds :
              Exists(t, m) /\ thread'[t].status = "live" =>
                 LET old == msg[t][m]
                     new == msg'[t][m]
                 IN  /\ new.role = old.role
                     /\ old.parent \in {None, new.parent}
                     /\ old.format = "aui/v0" => new.format = "aui/v0"]_vars
  BY NodeStep
<1>. QED
  BY <1>1, StoreInvariant, PTL DEF Spec, NodesAreStable

-----------------------------------------------------------------------------
(* The selected head                                                       *)

\* A message that a PUT writes hangs below the parent the PUT names.
LEMMA WrittenBelow ==
    ASSUME NEW old, NEW m, NEW role, NEW parent, NEW format,
           UpsertAllowed(old, m, role, parent)
    PROVE  Upserted(old, role, parent, format).parent = parent
  BY DEF UpsertAllowed, Upserted

LEMMA HeadStep ==
    ASSUME TypeOK, StoreInv, [Next]_vars, NEW t \in Threads,
           pending' # pending \/ run' # run,
           thread'[t].status = "live",
           thread'[t].lastRun = thread[t].lastRun
    PROVE  \/ thread'[t].head = thread[t].head
           \/ /\ thread'[t].head # None
              /\ msg'[t][thread'[t].head].parent = thread[t].head
<1>. DEFINE Extends == \/ thread'[t].head = thread[t].head
                       \/ /\ thread'[t].head # None
                          /\ msg'[t][thread'[t].head].parent = thread[t].head
<1>0. thread \in [Threads -> ThreadRow] /\ msg \in [Threads -> [MsgIds -> MsgRow]]
  BY DEF TypeOK
<1>1. ASSUME NEW u \in Threads, DeleteThread(u) PROVE Extends
  BY <1>0, <1>1 DEF DeleteThread
<1>2. ASSUME NEW u \in Threads, NEW q \in Puts, WritePut(u, q) PROVE Extends
  <2>1. CASE UNCHANGED thread
    BY <2>1
  <2>2. CASE /\ UpsertAllowed(msg[u][q.id], q.id, q.role, q.parent)
             /\ msg' = [msg EXCEPT ![u][q.id] = Upserted(@, q.role, q.parent, q.format)]
             /\ thread' = [thread EXCEPT ![u].head =
                              IF @ \in MovableHeads(q) THEN q.id ELSE @]
    <3>1. q.id \in MsgIds /\ q.id # None
      BY PutFields, NoneIsNoMessage
    <3>2. CASE u = t /\ thread[t].head = q.parent
      <4>1. thread'[t].head = q.id
        BY <1>0, <2>2, <3>2 DEF MovableHeads, ThreadRow
      <4>2. msg'[t][q.id] = Upserted(msg[t][q.id], q.role, q.parent, q.format)
        BY <1>0, <2>2, <3>1, <3>2
      <4>. QED
        BY <2>2, <3>1, <3>2, <4>1, <4>2, WrittenBelow
    <3>3. CASE ~(u = t /\ thread[t].head = q.parent)
      BY <1>0, <2>2, <3>3 DEF MovableHeads, ThreadRow
    <3>. QED
      BY <3>2, <3>3
  <2>. QED
    BY <1>2, <2>1, <2>2 DEF WritePut
<1>3. ASSUME NEW u \in Threads, NEW r \in Runs, NEW p \in Payloads, ReserveRun(u, r, p)
      PROVE  Extends
  <2>1. CASE u = t
    <3>1. thread'[t].lastRun = r
      BY <1>0, <1>3, <2>1 DEF ReserveRun, ThreadRow
    <3>2. run[r].thread = None /\ r # None /\ t # None
      BY <1>3, RequestTypes DEF ReserveRun, NoRun
    <3>. QED
      BY <3>1, <3>2 DEF StoreInv, ThreadRefsExist
  <2>2. CASE u # t
    BY <1>0, <1>3, <2>2 DEF ReserveRun
  <2>. QED
    BY <2>1, <2>2
<1>4. ASSUME NEW r \in Runs, RunCompleted(r) PROVE Extends
  <2>. DEFINE a == OutputOf[r]
  <2>1. a \in MsgIds /\ a # None
    BY OutputIds, NoneIsNoMessage
  <2>2. CASE run[r].thread = t /\ thread[t].head = run[r].input
    <3>1. thread'[t].head = a
      BY <1>0, <1>4, <2>2 DEF RunCompleted, ThreadRow
    <3>2. msg'[t][a] = Upserted(msg[t][a], "assistant", run[r].input, "ag-ui/v1")
      BY <1>0, <1>4, <2>1, <2>2 DEF RunCompleted
    <3>3. UpsertAllowed(msg[t][a], a, "assistant", run[r].input)
      BY <1>4, <2>2 DEF RunCompleted
    <3>. QED
      BY <2>1, <2>2, <3>1, <3>2, <3>3, WrittenBelow
  <2>3. CASE ~(run[r].thread = t /\ thread[t].head = run[r].input)
    BY <1>0, <1>4, <2>3 DEF RunCompleted, ThreadRow
  <2>. QED
    BY <2>2, <2>3
<1>5. CASE UNCHANGED thread
  BY <1>5
<1>6. \A u \in Threads : CreateThread(u) \/ (\E h \in MsgRef : SetHead(u, h)) => UNCHANGED <<pending, run>>
  BY DEF CreateThread, SetHead
<1>. QED
  BY <1>1, <1>2, <1>3, <1>4, <1>5, <1>6
     DEF Next, Client, Coordinator, CheckPut, MarkRunning, MarkRunningFails,
         SettleNonCompleted, Restart, vars

\* What is written in the background (a message PUT, the answer of a run) selects
\* a message only below the one that was selected: persist_thread_message and
\* run_completed move the head under a condition, and never to another branch.
THEOREM HeadsOnlyExtend == Spec => HeadOnlyExtends
<1>1. TypeOK /\ StoreInv /\ [Next]_vars
        => [\A t \in Threads :
              /\ pending' # pending \/ run' # run
              /\ thread'[t].status = "live"
              /\ thread'[t].lastRun = thread[t].lastRun
              => \/ thread'[t].head = thread[t].head
                 \/ /\ thread'[t].head # None
                    /\ msg'[t][thread'[t].head].parent = thread[t].head]_vars
  BY HeadStep
<1>. QED
  BY <1>1, StoreInvariant, PTL DEF Spec, HeadOnlyExtends
-----------------------------------------------------------------------------
(* The message tree                                                        *)

\* The links of a tree, and a path in it.
LEMMA PathContains ==
    ASSUME NEW parent, NEW head \in MsgRef
    PROVE  /\ Path(parent, head) \subseteq MsgIds
           /\ head \in Path(parent, head) \cup {None}
  BY DEF Path, MsgRef

LEMMA PathIsClosed ==
    ASSUME NEW parent \in [MsgIds -> MsgRef], NEW head \in MsgRef
    PROVE  Closed(parent, Path(parent, head))
<1>. SUFFICES ASSUME NEW m \in Path(parent, head), parent[m] # None
              PROVE  parent[m] \in Path(parent, head)
  BY DEF Closed
<1>1. m \in MsgIds /\ parent[m] \in MsgIds
  BY DEF Path, MsgRef
<1>2. ASSUME NEW S \in SUBSET MsgIds, head \in S \cup {None}, Closed(parent, S)
      PROVE  parent[m] \in S
  <2>1. m \in S
    BY <1>2 DEF Path
  <2>. QED
    BY <1>2, <2>1 DEF Closed
<1>. QED
  BY <1>1, <1>2 DEF Path

\* No closed set that holds the head misses a message of its path.
LEMMA PathIsSmallest ==
    ASSUME NEW parent, NEW head \in MsgRef, NEW S \in SUBSET MsgIds,
           head \in S \cup {None}, Closed(parent, S)
    PROVE  Path(parent, head) \subseteq S
  BY DEF Path

\* From nowhere the walk visits nothing.
LEMMA NoPathFromNone ==
    ASSUME NEW parent PROVE Path(parent, None) = {}
<1>1. Closed(parent, {}) /\ {} \in SUBSET MsgIds /\ None \in {} \cup {None}
  BY DEF Closed
<1>. QED
  BY <1>1 DEF Path

\* Giving a message without a parent one keeps the tree a tree, if the walk
\* from the new parent does not come by the message.
LEMMA LinkKeepsTree ==
    ASSUME NEW parent \in [MsgIds -> MsgRef], Acyclic(parent),
           NEW x \in MsgIds, parent[x] = None,
           NEW p \in MsgRef, x \notin Path(parent, p)
    PROVE  Acyclic([parent EXCEPT ![x] = p])
<1>. DEFINE new == [parent EXCEPT ![x] = p]
            A   == Path(parent, p)
<1>1. A \subseteq MsgIds /\ p \in A \cup {None} /\ Closed(parent, A)
  BY PathContains, PathIsClosed
<1>2. Closed(new, A)
  BY <1>1 DEF Closed
<1>. SUFFICES ASSUME NEW m \in MsgIds PROVE m \notin Path(new, new[m])
  BY DEF Acyclic
<1>3. new[m] \in MsgRef
  OBVIOUS
<1>4. ASSUME NEW S \in SUBSET MsgIds, new[m] \in S \cup {None}, Closed(new, S), m \notin S
      PROVE  m \notin Path(new, new[m])
  BY <1>3, <1>4, PathIsSmallest
<1>5. CASE m = x
  BY <1>1, <1>2, <1>4, <1>5
<1>6. CASE m # x
  <2>. DEFINE B == Path(parent, parent[m])
  <2>1. new[m] = parent[m] /\ parent[m] \in MsgRef
    BY <1>6
  <2>2. B \subseteq MsgIds /\ parent[m] \in B \cup {None} /\ Closed(parent, B) /\ m \notin B
    BY <2>1, PathContains, PathIsClosed DEF Acyclic
  <2>3. CASE x \notin B
    <3>1. Closed(new, B)
      BY <2>2, <2>3 DEF Closed
    <3>. QED
      BY <1>4, <2>1, <2>2, <3>1
  <2>4. CASE x \in B
    <3>1. Closed(new, A \cup B)
      BY <1>1, <2>2 DEF Closed
    <3>2. m \notin A
      <4>1. SUFFICES ASSUME m \in A PROVE FALSE
        OBVIOUS
      <4>2. parent[m] \in A \cup {None}
        BY <1>1, <4>1 DEF Closed
      <4>3. B \subseteq A
        BY <1>1, <2>1, <4>2, PathIsSmallest
      <4>. QED
        BY <2>4, <4>3
    <3>. HIDE DEF A, B, new
    <3>. QED
      BY <1>1, <1>4, <2>1, <2>2, <3>1, <3>2
  <2>. QED
    BY <2>3, <2>4
<1>. QED
  BY <1>5, <1>6

\* A message that is nobody's parent is on no path but those that start at it,
\* and hanging it elsewhere changes none of the others.
LEMMA LeafIsOnNoPath ==
    ASSUME NEW parent \in [MsgIds -> MsgRef], NEW x \in MsgIds,
           \A m \in MsgIds : parent[m] # x,
           NEW h \in MsgRef, h # x
    PROVE  x \notin Path(parent, h)
<1>1. Closed(parent, MsgIds \ {x})
  BY DEF Closed, MsgRef
<1>2. h \in (MsgIds \ {x}) \cup {None}
  BY DEF MsgRef
<1>. QED
  BY <1>1, <1>2, PathIsSmallest

LEMMA LeafChangesNoPath ==
    ASSUME NEW parent \in [MsgIds -> MsgRef], NEW x \in MsgIds,
           \A m \in MsgIds : parent[m] # x,
           NEW h \in MsgRef, h # x, NEW p
    PROVE  Path([parent EXCEPT ![x] = p], h) \subseteq Path(parent, h)
<1>. DEFINE new == [parent EXCEPT ![x] = p]
            S   == Path(parent, h)
<1>1. S \subseteq MsgIds /\ h \in S \cup {None} /\ Closed(parent, S) /\ x \notin S
  BY PathContains, PathIsClosed, LeafIsOnNoPath
<1>2. Closed(new, S)
  BY <1>1 DEF Closed
<1>. HIDE DEF new, S
<1>3. Path(new, h) \subseteq S
  BY <1>1, <1>2, PathIsSmallest
<1>. QED
  BY <1>3 DEF new, S

\* What a writer relies on: while it has not written, the walk it made from the
\* new parent still does not come by its message ...
PendingWalk ==
    \A w \in pending : Live(w[1]) => w[2].id \notin Path(ParentsOf(w[1]), w[2].parent)

\* ... because nobody else is between the check and the write ...
OnePending == \A v, w \in pending : v = w

\* ... and an answer without a parent is that of a run that is over.
RootAnswers ==
    \A t \in Threads, r \in Runs :
        msg[t][OutputOf[r]].role = "assistant" /\ msg[t][OutputOf[r]].parent = None
            => run[r].status \in TerminalStatus \cup {"deleted"}

TreeInv == NoBranchCycle /\ PendingWalk /\ OnePending /\ RootAnswers

\* A client sends the answer of a run below a message (persistThreadMessage is
\* called with the parentId of the runtime, and a run answers a message).
AnswersHaveParents ==
    \A q \in Puts, r \in Runs :
        q.id = OutputOf[r] /\ q.role = "assistant" => q.parent # None

LEMMA TreeTypes ==
    ASSUME TypeOK, NEW t \in Threads
    PROVE  /\ ParentsOf(t) \in [MsgIds -> MsgRef]
           /\ \A m \in MsgIds : msg[t][m].parent \in MsgRef
  BY DEF TypeOK, ParentsOf, MsgRow

\* A message that has no row is nobody's parent and has none.
LEMMA NoRowIsLeaf ==
    ASSUME TypeOK, StoreInv, NEW t \in Threads, NEW x \in MsgIds, ~Exists(t, x)
    PROVE  /\ msg[t][x] = NoMsg /\ ParentsOf(t)[x] = None
           /\ \A m \in MsgIds : ParentsOf(t)[m] # x
<1>1. x # None
  BY NoneIsNoMessage
<1>. QED
  BY <1>1 DEF StoreInv, MsgShape, ParentsExist, RefersTo, ParentsOf, NoMsg

\* Writing a row leaves the links as they are or sets the one it had not.
LEMMA LinkWritten ==
    ASSUME TypeOK, NEW t \in Threads, NEW x \in MsgIds, NEW row,
           msg' = [msg EXCEPT ![t][x] = row]
    PROVE  /\ ParentsOf(t)' = [ParentsOf(t) EXCEPT ![x] = row.parent]
           /\ \A u \in Threads \ {t} : ParentsOf(u)' = ParentsOf(u)
<1>1. msg \in [Threads -> [MsgIds -> MsgRow]]
  BY DEF TypeOK
<1>. QED
  BY <1>1 DEF ParentsOf

\* A row that keeps its link keeps all of them.
LEMMA LinkKept ==
    ASSUME TypeOK, NEW t \in Threads, NEW x \in MsgIds, NEW row,
           msg' = [msg EXCEPT ![t][x] = row], row.parent = msg[t][x].parent
    PROVE  \A u \in Threads : ParentsOf(u)' = ParentsOf(u)
<1>1. ParentsOf(t)' = ParentsOf(t)
  BY LinkWritten DEF ParentsOf
<1>. QED
  BY <1>1, LinkWritten

\* A new row below an existing message, or below none, leaves a tree and does
\* not invalidate a walk that was made.
LEMMA RowAdded ==
    ASSUME TypeOK, StoreInv, TreeInv, NEW t \in Threads, NEW x \in MsgIds,
           ~Exists(t, x), NEW row,
           row.parent \in MsgRef, row.parent # x,
           msg' = [msg EXCEPT ![t][x] = row], pending' \subseteq pending,
           \A u \in Threads : Live(u)' => Live(u)
    PROVE  NoBranchCycle' /\ PendingWalk' /\ OnePending'
<1>. DEFINE old == ParentsOf(t)
<1>1. /\ old \in [MsgIds -> MsgRef] /\ old[x] = None
      /\ \A m \in MsgIds : old[m] # x
      /\ ParentsOf(t)' = [old EXCEPT ![x] = row.parent]
      /\ \A u \in Threads \ {t} : ParentsOf(u)' = ParentsOf(u)
  BY TreeTypes, NoRowIsLeaf, LinkWritten
<1>2. NoBranchCycle'
  <2>1. Acyclic(old)
    BY DEF TreeInv, NoBranchCycle
  <2>2. x \notin Path(old, row.parent)
    BY <1>1, LeafIsOnNoPath
  <2>3. Acyclic([old EXCEPT ![x] = row.parent])
    BY <1>1, <2>1, <2>2, LinkKeepsTree
  <2>. QED
    BY <1>1, <2>3 DEF TreeInv, NoBranchCycle
<1>3. PendingWalk'
  <2>. SUFFICES ASSUME NEW w \in pending', Live(w[1])'
                PROVE  w[2].id \notin Path(ParentsOf(w[1])', w[2].parent)
    BY DEF PendingWalk
  <2>1. w \in pending /\ w[1] \in Threads /\ w[2] \in Puts
    BY DEF TypeOK
  <2>2. w[2].id \notin Path(ParentsOf(w[1]), w[2].parent)
    BY <2>1 DEF TreeInv, PendingWalk
  <2>3. CASE w[1] = t
    <3>1. w[2].parent \in MsgRef /\ w[2].parent # x
      BY <2>1, <2>3, PutFields, NoneIsNoMessage
         DEF StoreInv, PendingFindParent, RefersTo, MsgRef
    <3>2. Path([old EXCEPT ![x] = row.parent], w[2].parent) \subseteq Path(old, w[2].parent)
      BY <1>1, <3>1, LeafChangesNoPath
    <3>. QED
      BY <1>1, <2>2, <2>3, <3>2
  <2>4. CASE w[1] # t
    BY <1>1, <2>1, <2>2, <2>4
  <2>. QED
    BY <2>3, <2>4
<1>. QED
  BY <1>2, <1>3 DEF TreeInv, OnePending

\* Where no link and no pending write changes and no thread is created, neither
\* does the tree.
LEMMA TreeUnmoved ==
    ASSUME TypeOK, TreeInv, \A t \in Threads : ParentsOf(t)' = ParentsOf(t),
           pending' \subseteq pending,
           \A w \in pending : Live(w[1])' => Live(w[1])
    PROVE  NoBranchCycle' /\ PendingWalk' /\ OnePending'
<1>1. NoBranchCycle' /\ OnePending'
  BY DEF TreeInv, NoBranchCycle, OnePending
<1>2. PendingWalk'
  <2>. SUFFICES ASSUME NEW w \in pending', Live(w[1])'
                PROVE  w[2].id \notin Path(ParentsOf(w[1])', w[2].parent)
    BY DEF PendingWalk
  <2>1. w \in pending /\ w[1] \in Threads
    BY DEF TypeOK
  <2>. QED
    BY <2>1 DEF TreeInv, PendingWalk
<1>. QED
  BY <1>1, <1>2

LEMMA TreeInit == Init => TreeInv
<1>. SUFFICES ASSUME Init PROVE TreeInv
  OBVIOUS
<1>1. ASSUME NEW t \in Threads PROVE Acyclic(ParentsOf(t))
  <2>1. \A m \in MsgIds : ParentsOf(t)[m] = None
    BY DEF Init, ParentsOf, NoMsg
  <2>2. Path(ParentsOf(t), None) = {}
    BY NoPathFromNone
  <2>. QED
    BY <2>1, <2>2 DEF Acyclic
<1>2. NoBranchCycle
  BY <1>1 DEF NoBranchCycle
<1>. QED
  BY <1>2, OutputIds DEF Init, TreeInv, PendingWalk, OnePending, RootAnswers, NoMsg

\* The deleted thread has no links, and no write that will be made.
LEMMA TreeDeleteThread ==
    ASSUME TypeOK, TreeInv, NEW t \in Threads, DeleteThread(t) PROVE TreeInv'
<1>0. OutputOf \in [Runs -> MsgIds] /\ thread \in [Threads -> ThreadRow]
      /\ msg \in [Threads -> [MsgIds -> MsgRow]]
  BY OutputIds DEF TypeOK
<1>1. \A m \in MsgIds : ParentsOf(t)'[m] = None
  BY <1>0 DEF DeleteThread, ParentsOf, NoMsg
<1>2. \A u \in Threads \ {t} : ParentsOf(u)' = ParentsOf(u)
  BY <1>0 DEF DeleteThread, ParentsOf
<1>3. Acyclic(ParentsOf(t)')
  <2>1. Path(ParentsOf(t)', None) = {}
    BY NoPathFromNone
  <2>. QED
    BY <1>1, <2>1 DEF Acyclic
<1>4. ~Live(t)' /\ \A u \in Threads : Live(u)' => Live(u)
  BY <1>0 DEF DeleteThread, Live
<1>5. PendingWalk'
  <2>. SUFFICES ASSUME NEW w \in pending, Live(w[1])'
                PROVE  w[2].id \notin Path(ParentsOf(w[1])', w[2].parent)
    BY DEF PendingWalk, DeleteThread
  <2>1. w[1] \in Threads /\ w[1] # t
    BY <1>4 DEF TypeOK
  <2>. QED
    BY <1>2, <1>4, <2>1 DEF TreeInv, PendingWalk
<1>6. RootAnswers'
  <2>. SUFFICES ASSUME NEW u \in Threads, NEW r \in Runs,
                       msg'[u][OutputOf[r]].role = "assistant",
                       msg'[u][OutputOf[r]].parent = None
                PROVE  run'[r].status \in TerminalStatus \cup {"deleted"}
    BY DEF RootAnswers
  <2>1. u # t
    BY <1>0 DEF DeleteThread, NoMsg
  <2>2. run[r].status \in TerminalStatus \cup {"deleted"}
    BY <1>0, <2>1 DEF TreeInv, RootAnswers, DeleteThread
  <2>. QED
    BY <2>2 DEF DeleteThread, NoRun
<1>. QED
  BY <1>2, <1>3, <1>5, <1>6 DEF TreeInv, NoBranchCycle, OnePending, DeleteThread

\* The next write is checked only when none is between check and write.
LEMMA TreeCheckPut ==
    ASSUME MaxPending <= 1, TypeOK, TreeInv,
           NEW t \in Threads, NEW q \in Puts, CheckPut(t, q)
    PROVE  TreeInv'
<1>1. pending = {}
  <2>. SUFFICES ASSUME NEW w \in pending PROVE FALSE
    OBVIOUS
  <2>1. pending = {w}
    BY DEF TreeInv, OnePending
  <2>2. Cardinality(pending) = 1
    BY <2>1, FS_Singleton
  <2>. QED
    BY <2>2, RequestTypes DEF CheckPut
<1>2. pending' = {<<t, q>>}
  BY <1>1 DEF CheckPut
<1>3. q.id \notin Path(ParentsOf(t), q.parent)
  BY NoPathFromNone DEF CheckPut
<1>4. \A u \in Threads : ParentsOf(u)' = ParentsOf(u)
  BY DEF CheckPut, ParentsOf
<1>. QED
  BY <1>2, <1>3, <1>4
     DEF TreeInv, NoBranchCycle, PendingWalk, OnePending, RootAnswers, CheckPut, Live

LEMMA TreeWritePut ==
    ASSUME AnswersHaveParents, TypeOK, StoreInv, TreeInv,
           NEW t \in Threads, NEW q \in Puts, WritePut(t, q)
    PROVE  TreeInv'
<1>. DEFINE x   == q.id
            row == Upserted(msg[t][x], q.role, q.parent, q.format)
<1>0. /\ x \in MsgIds /\ q.parent \in MsgRef
      /\ msg \in [Threads -> [MsgIds -> MsgRow]] /\ thread \in [Threads -> ThreadRow]
      /\ OutputOf \in [Runs -> MsgIds]
  BY PutFields, OutputIds DEF TypeOK
<1>1. <<t, q>> \in pending /\ pending' = pending \ {<<t, q>>} /\ UNCHANGED run
  BY DEF WritePut
<1>2. CASE UNCHANGED <<msg, thread>>
  <2>1. RootAnswers'
    BY <1>1, <1>2 DEF TreeInv, RootAnswers
  <2>2. NoBranchCycle' /\ PendingWalk' /\ OnePending'
    BY <1>1, <1>2, TreeUnmoved DEF ParentsOf, Live
  <2>. QED
    BY <2>1, <2>2 DEF TreeInv
<1>3. CASE /\ Live(t) /\ UpsertAllowed(msg[t][x], x, q.role, q.parent)
           /\ msg' = [msg EXCEPT ![t][x] = row]
           /\ \A u \in Threads : Live(u)' => Live(u)
  <2>1. row.parent = q.parent
    BY <1>3, WrittenBelow
  <2>2. RootAnswers'
    <3>. SUFFICES ASSUME NEW u \in Threads, NEW r \in Runs,
                         msg'[u][OutputOf[r]].role = "assistant",
                         msg'[u][OutputOf[r]].parent = None
                  PROVE  run[r].status \in TerminalStatus \cup {"deleted"}
      BY <1>1 DEF RootAnswers
    <3>1. CASE u = t /\ OutputOf[r] = x
      <4>1. msg'[u][OutputOf[r]] = row
        BY <1>0, <1>3, <3>1
      <4>2. row.role = q.role
        BY DEF Upserted
      <4>3. q.parent # None
        BY <3>1, <4>1, <4>2 DEF AnswersHaveParents
      <4>. QED
        BY <2>1, <4>1, <4>3
    <3>2. CASE ~(u = t /\ OutputOf[r] = x)
      <4>1. msg'[u][OutputOf[r]] = msg[u][OutputOf[r]]
        BY <1>0, <1>3, <3>2
      <4>. QED
        BY <4>1 DEF TreeInv, RootAnswers
    <3>. QED
      BY <3>1, <3>2
  <2>3. CASE ~Exists(t, x)
    <3>1. q.parent # x
      BY <1>3 DEF UpsertAllowed
    <3>2. row.parent \in MsgRef /\ row.parent # x /\ pending' \subseteq pending
      BY <1>0, <1>1, <2>1, <3>1
    <3>. HIDE DEF row, x
    <3>. QED
      BY <1>0, <1>3, <2>2, <2>3, <3>2, RowAdded DEF TreeInv
  <2>4. CASE Exists(t, x) /\ msg[t][x].parent # None
    <3>1. row.parent = msg[t][x].parent
      BY <2>4 DEF Upserted, NoMsg, Exists
    <3>2. \A u \in Threads : ParentsOf(u)' = ParentsOf(u)
      BY <1>0, <1>3, <3>1, LinkKept
    <3>3. \A w \in pending : Live(w[1])' => Live(w[1])
      BY <1>3 DEF TypeOK
    <3>4. pending' \subseteq pending
      BY <1>1
    <3>. QED
      BY <2>2, <3>2, <3>3, <3>4, TreeUnmoved DEF TreeInv
  <2>5. CASE Exists(t, x) /\ msg[t][x].parent = None
    <3>1. pending' = {}
      BY <1>1 DEF TreeInv, OnePending
    <3>2. x \notin Path(ParentsOf(t), q.parent)
      BY <1>1, <1>3 DEF TreeInv, PendingWalk
    <3>3. ParentsOf(t) \in [MsgIds -> MsgRef] /\ ParentsOf(t)[x] = None
      BY <1>0, <2>5, TreeTypes DEF ParentsOf
    <3>4. Acyclic(ParentsOf(t))
      BY DEF TreeInv, NoBranchCycle
    <3>5. Acyclic([ParentsOf(t) EXCEPT ![x] = q.parent])
      BY <1>0, <3>2, <3>3, <3>4, LinkKeepsTree
    <3>. HIDE DEF row, x
    <3>6. /\ ParentsOf(t)' = [ParentsOf(t) EXCEPT ![x] = row.parent]
          /\ \A u \in Threads \ {t} : ParentsOf(u)' = ParentsOf(u)
      BY <1>0, <1>3, LinkWritten
    <3>7. NoBranchCycle'
      BY <2>1, <3>5, <3>6 DEF TreeInv, NoBranchCycle
    <3>. QED
      BY <2>2, <3>1, <3>7 DEF TreeInv, PendingWalk, OnePending
  <2>. QED
    BY <2>3, <2>4, <2>5
<1>4. CASE /\ Live(t) /\ UpsertAllowed(msg[t][x], x, q.role, q.parent)
           /\ msg' = [msg EXCEPT ![t][x] = row]
           /\ thread' = [thread EXCEPT ![t].head =
                             IF @ \in MovableHeads(q) THEN x ELSE @]
  <2>1. \A u \in Threads : Live(u)' => Live(u)
    BY <1>0, <1>4 DEF Live, ThreadRow
  <2>. QED
    BY <1>3, <1>4, <2>1
<1>. QED
  BY <1>2, <1>4 DEF WritePut

\* A message that is stored keeps its link; one that is not hangs below the
\* message the run continues.
LEMMA TreeReserveRun ==
    ASSUME TypeOK, StoreInv, TreeInv,
           NEW t \in Threads, NEW r \in Runs, NEW p \in Payloads, ReserveRun(t, r, p)
    PROVE  TreeInv'
<1>. DEFINE x    == p.input
            cont == Continuation(t, p)
            old  == IF x = None THEN NoMsg ELSE msg[t][x]
            row  == Upserted(old, "user", IF old = NoMsg THEN cont ELSE old.parent,
                             "ag-ui/v1")
<1>0. /\ x \in MsgRef /\ cont \in MsgRef
      /\ msg \in [Threads -> [MsgIds -> MsgRow]] /\ thread \in [Threads -> ThreadRow]
      /\ OutputOf \in [Runs -> MsgIds] /\ run \in [Runs -> RunRow]
  BY PayloadFields, ContinuationType, OutputIds DEF TypeOK
<1>1. \A u \in Threads : Live(u)' => Live(u)
  BY <1>0 DEF ReserveRun, Live, ThreadRow
<1>2. UNCHANGED pending /\ run[r] = NoRun /\ \A s \in Runs \ {r} : run'[s] = run[s]
  BY <1>0 DEF ReserveRun
<1>3. CASE x = None
  <2>1. UNCHANGED msg
    BY <1>3 DEF ReserveRun
  <2>2. \A u \in Threads : ParentsOf(u)' = ParentsOf(u)
    BY <2>1 DEF ParentsOf
  <2>3. NoBranchCycle' /\ PendingWalk' /\ OnePending'
    BY <1>1, <1>2, <2>2, TreeUnmoved DEF TypeOK
  <2>4. RootAnswers'
    BY <1>2, <2>1 DEF TreeInv, RootAnswers, NoRun, TerminalStatus
  <2>. QED
    BY <2>3, <2>4 DEF TreeInv
<1>4. CASE x # None
  <2>1. x \in MsgIds /\ msg' = [msg EXCEPT ![t][x] = row]
    BY <1>0, <1>4 DEF ReserveRun, MsgRef
  <2>2. row.role = "user"
    BY DEF Upserted
  <2>3. RootAnswers'
    <3>. SUFFICES ASSUME NEW u \in Threads, NEW s \in Runs,
                         msg'[u][OutputOf[s]].role = "assistant",
                         msg'[u][OutputOf[s]].parent = None
                  PROVE  run'[s].status \in TerminalStatus \cup {"deleted"}
      BY DEF RootAnswers
    <3>. HIDE DEF row
    <3>1. msg'[u][OutputOf[s]] = msg[u][OutputOf[s]]
      BY <1>0, <2>1, <2>2
    <3>2. run[s].status \in TerminalStatus \cup {"deleted"}
      BY <3>1 DEF TreeInv, RootAnswers
    <3>. QED
      BY <1>2, <3>2 DEF NoRun, TerminalStatus
  <2>4. CASE ~Exists(t, x)
    <3>1. msg[t][x] = NoMsg
      BY <2>1, <2>4, NoRowIsLeaf
    <3>2. row.parent = cont /\ cont # x
      BY <1>4, <3>1 DEF Upserted, ReserveRun
    <3>. HIDE DEF row, cont, x
    <3>. QED
      BY <1>0, <1>1, <1>2, <2>1, <2>3, <2>4, <3>2, RowAdded DEF TreeInv
  <2>5. CASE Exists(t, x)
    <3>1. row.parent = msg[t][x].parent
      BY <1>4, <2>5 DEF Upserted, Exists, NoMsg
    <3>. HIDE DEF row, cont, x
    <3>2. \A u \in Threads : ParentsOf(u)' = ParentsOf(u)
      BY <2>1, <3>1, LinkKept
    <3>3. NoBranchCycle' /\ PendingWalk' /\ OnePending'
      BY <1>1, <1>2, <3>2, TreeUnmoved DEF TypeOK
    <3>. QED
      BY <2>3, <3>3 DEF TreeInv
  <2>. QED
    BY <2>4, <2>5
<1>. QED
  BY <1>3, <1>4

\* run_completed walks nowhere: its answer is new, or has the run's input as its
\* parent already.
LEMMA TreeRunCompleted ==
    ASSUME TypeOK, StoreInv, TreeInv, NEW r \in Runs, RunCompleted(r)
    PROVE  TreeInv'
<1>. DEFINE t   == run[r].thread
            a   == OutputOf[r]
            inp == run[r].input
            row == Upserted(msg[t][a], "assistant", inp, "ag-ui/v1")
<1>0. /\ a \in MsgIds /\ OutputOf \in [Runs -> MsgIds]
      /\ msg \in [Threads -> [MsgIds -> MsgRow]] /\ thread \in [Threads -> ThreadRow]
      /\ run \in [Runs -> RunRow]
  BY OutputIds DEF TypeOK
<1>1. t \in Threads /\ inp \in MsgRef
  <2>1. t # None
    BY DEF RunCompleted, StoreInv, RunShape, LiveStatus
  <2>. QED
    BY <1>0, <2>1 DEF RunRow
<1>2. /\ msg' = [msg EXCEPT ![t][a] = row] /\ UNCHANGED pending
      /\ UpsertAllowed(msg[t][a], a, "assistant", inp)
      /\ run[r].status \in LiveStatus
      /\ run' = [run EXCEPT ![r].status = "completed", ![r].output = a]
  BY DEF RunCompleted
<1>3. \A u \in Threads : Live(u)' => Live(u)
  BY <1>0, <1>1 DEF RunCompleted, Live, ThreadRow
<1>4. row.parent = inp /\ inp # a
  <2>1. row.parent = inp
    BY <1>2, WrittenBelow
  <2>. QED
    BY <1>2, <2>1 DEF UpsertAllowed
<1>5. RootAnswers'
  <2>. SUFFICES ASSUME NEW u \in Threads, NEW s \in Runs,
                       msg'[u][OutputOf[s]].role = "assistant",
                       msg'[u][OutputOf[s]].parent = None
                PROVE  run'[s].status \in TerminalStatus \cup {"deleted"}
    BY DEF RootAnswers
  <2>1. CASE s = r
    BY <1>0, <1>2, <2>1 DEF RunRow, TerminalStatus
  <2>2. CASE s # r
    <3>. HIDE DEF row
    <3>1. msg'[u][OutputOf[s]] = msg[u][OutputOf[s]]
      BY <1>0, <1>2, <2>2, OutputIds
    <3>. QED
      BY <1>0, <1>2, <2>2, <3>1 DEF TreeInv, RootAnswers
  <2>. QED
    BY <2>1, <2>2
<1>6. CASE ~Exists(t, a)
  <2>. HIDE DEF row, t, a, inp
  <2>. QED
    BY <1>0, <1>1, <1>2, <1>3, <1>4, <1>5, <1>6, RowAdded DEF TreeInv
<1>7. CASE Exists(t, a)
  <2>1. msg[t][a].role = "assistant" /\ msg[t][a].parent \in {None, inp}
    BY <1>2, <1>7 DEF UpsertAllowed, Exists, NoMsg
  <2>2. msg[t][a].parent # None
    BY <1>1, <1>2, <2>1 DEF TreeInv, RootAnswers, LiveStatus, TerminalStatus
  <2>3. row.parent = msg[t][a].parent
    BY <1>4, <2>1, <2>2
  <2>. HIDE DEF row, t, a, inp
  <2>4. \A u \in Threads : ParentsOf(u)' = ParentsOf(u)
    BY <1>0, <1>1, <1>2, <2>3, LinkKept
  <2>5. NoBranchCycle' /\ PendingWalk' /\ OnePending'
    BY <1>2, <1>3, <2>4, TreeUnmoved DEF TypeOK
  <2>. QED
    BY <1>5, <2>5 DEF TreeInv
<1>. QED
  BY <1>6, <1>7

\* The steps that write no message: a run that has an outcome keeps one.
LEMMA TreeOtherStep ==
    ASSUME TypeOK, TreeInv, UNCHANGED msg, pending' \subseteq pending,
           \A w \in pending' : Live(w[1])' => Live(w[1]),
           \A r \in Runs : run[r].status \in TerminalStatus \cup {"deleted"}
                             => run'[r].status \in TerminalStatus \cup {"deleted"}
    PROVE  TreeInv'
<1>1. \A t \in Threads : ParentsOf(t)' = ParentsOf(t)
  BY DEF ParentsOf
<1>2. NoBranchCycle' /\ OnePending' /\ RootAnswers'
  BY <1>1 DEF TreeInv, NoBranchCycle, OnePending, RootAnswers
<1>3. PendingWalk'
  <2>. SUFFICES ASSUME NEW w \in pending', Live(w[1])'
                PROVE  w[2].id \notin Path(ParentsOf(w[1])', w[2].parent)
    BY DEF PendingWalk
  <2>1. w \in pending /\ w[1] \in Threads /\ Live(w[1])
    BY DEF TypeOK
  <2>. QED
    BY <1>1, <2>1 DEF TreeInv, PendingWalk
<1>. QED
  BY <1>2, <1>3 DEF TreeInv

\* One obligation per action.
LEMMA TreeStep ==
    ASSUME MaxPending <= 1, AnswersHaveParents, TypeOK, StoreInv, TreeInv, [Next]_vars
    PROVE  TreeInv'
<1>0. /\ run \in [Runs -> RunRow] /\ thread \in [Threads -> ThreadRow]
      /\ pending \subseteq Threads \X Puts
  BY DEF TypeOK
<1>1. CASE UNCHANGED vars
  BY <1>1, TreeOtherStep DEF vars, Live
<1>2. ASSUME NEW t \in Threads, CreateThread(t) PROVE TreeInv'
  \* a checked write is for a thread that has been created
  <2>1. \A w \in pending : Live(w[1])' => Live(w[1])
    BY <1>0, <1>2 DEF CreateThread, StoreInv, PendingFindParent, Live
  <2>. QED
    BY <1>2, <2>1, TreeOtherStep DEF CreateThread
<1>3. ASSUME NEW t \in Threads, NEW h \in MsgRef, SetHead(t, h) PROVE TreeInv'
  <2>1. \A w \in pending : Live(w[1])' => Live(w[1])
    BY <1>0, <1>3 DEF SetHead, Live, ThreadRow
  <2>. QED
    BY <1>3, <2>1, TreeOtherStep DEF SetHead
<1>4. ASSUME NEW r \in Runs, MarkRunning(r) \/ MarkRunningFails(r) PROVE TreeInv'
  <2>1. UNCHANGED <<thread, msg, pending>>
    BY <1>4 DEF MarkRunning, MarkRunningFails
  <2>2. \A s \in Runs : run[s].status \in TerminalStatus \cup {"deleted"}
                          => run'[s].status \in TerminalStatus \cup {"deleted"}
    BY <1>0, <1>4 DEF MarkRunning, MarkRunningFails, LiveStatus, TerminalStatus, RunRow
  <2>. QED
    BY <2>1, <2>2, TreeOtherStep DEF Live
<1>5. ASSUME NEW r \in Runs, NEW s \in {"failed", "cancelled"}, SettleNonCompleted(r, s)
      PROVE  TreeInv'
  <2>1. UNCHANGED <<thread, msg, pending>>
    BY <1>5 DEF SettleNonCompleted
  <2>2. \A q \in Runs : run[q].status \in TerminalStatus \cup {"deleted"}
                          => run'[q].status \in TerminalStatus \cup {"deleted"}
    BY <1>0, <1>5 DEF SettleNonCompleted, TerminalStatus, RunRow
  <2>. QED
    BY <2>1, <2>2, TreeOtherStep DEF Live
<1>6. CASE Restart
  <2>1. UNCHANGED <<thread, msg>> /\ pending' = {}
    BY <1>6 DEF Restart
  <2>2. \A q \in Runs : run[q].status \in TerminalStatus \cup {"deleted"}
                          => run'[q].status \in TerminalStatus \cup {"deleted"}
    BY <1>0, <1>6 DEF Restart, Swept, Orphans, LiveStatus, TerminalStatus, RunRow
  <2>. QED
    BY <2>1, <2>2, TreeOtherStep DEF Live
<1>. QED
  BY <1>1, <1>2, <1>3, <1>4, <1>5, <1>6, TreeDeleteThread, TreeCheckPut,
     TreeWritePut, TreeReserveRun, TreeRunCompleted
     DEF Next, Client, Coordinator

\* A client that sends one message PUT at a time, and never an answer without
\* its parent, cannot close a cycle in the message tree, whatever runs, head
\* moves, deletions and restarts come between the walk and the write.
THEOREM TreesStayTrees ==
    ASSUME MaxPending <= 1, AnswersHaveParents PROVE Spec => []NoBranchCycle
<1>1. Init => TreeInv
  BY TreeInit
<1>2. TypeOK /\ StoreInv /\ TreeInv /\ [Next]_vars => TreeInv'
  BY TreeStep
<1>3. TreeInv => NoBranchCycle
  BY DEF TreeInv
<1>. QED
  BY <1>1, <1>2, <1>3, StoreInvariant, PTL DEF Spec
=============================================================================
