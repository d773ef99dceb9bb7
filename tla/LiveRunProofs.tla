--------------------------- MODULE LiveRunProofs ---------------------------
(***************************************************************************)
(* TLAPS proofs about LiveRun, for any number of tool calls and any engine *)
(* results, under the mishaps each theorem names.  At is where the         *)
(* generator is going: its position, or the one its yield leads to.        *)
(***************************************************************************)
EXTENDS LiveRun, TLAPS

Kinds  == {"started", "body", "finished", "error"}
At     == IF pc = "yield" THEN after ELSE pc
Before == {"entry", "marking", "polling", "history", "build", "poll", "take", "record",
           "join"}

\* Until the generator settles the run, or a disconnect does, it is live; a run
\* whose failure or cancellation is reported has not completed.
RowInv ==
    /\ At \in Before \cup {"settleCompleted", "fallback"} => settler = "none" /\ Live(row)
    /\ At \in {"settling0", "settling", "reaping", "settleFailed"} => row # "completed"
    /\ pc \in {"entry", "marking"} => row = "queued"
    /\ pc = "report" /\ after = "settleCompleted" =>
           settler = "none" /\ row \notin {"failed", "cancelled"}
    /\ pc = "report" /\ after # "settleCompleted" => row # "completed"

Errors == {<<"body", "error">>, <<"error">>}

\* Nothing follows the terminal event, and what is still to be sent before it
\* leads to the end of the stream.
LastInv ==
    /\ pc \in {"entry", "marking", "polling"} => wire = <<>>
    /\ LastSent \in Promise!Terminal =>
           pc = "ended" \/ (pc = "yield" /\ after = "ended" /\ todo = <<>>)
    /\ LastSent = "finished" => settler = "none"
    /\ pc = "yield" =>
           \/ todo \in {<<>>, <<"body">>, <<"body", "body">>}
           \/ todo \in Errors /\ after = "ended" /\ row # "completed"

\* A generator past its first poll has opened the stream.
OpenInv ==
    wire = <<>> => pc \in {"entry", "marking", "polling", "settling0", "cancelling",
                           "waiting", "ended"}

-----------------------------------------------------------------------------
(* Types                                                                   *)

\* One event goes out, and rest is to follow it before the generator is at l.
Sends(e, rest, l) ==
    /\ pc' = "yield" /\ after' = l
    /\ todo' = rest /\ wire' = Append(wire, e)

LEMMA YieldSends ==
    ASSUME NEW l
    PROVE  /\ Yield(<<"started", "body", "body">>, l) =>
                  Sends("started", <<"body", "body">>, l)
           /\ Yield(<<"body">>, l) => Sends("body", <<>>, l)
           /\ Yield(<<"body", "body">>, l) => Sends("body", <<"body">>, l)
           /\ Yield(<<"finished">>, l) => Sends("finished", <<>>, l)
           /\ Yield(<<"error">>, l) => Sends("error", <<>>, l)
           /\ Yield(<<"body", "error">>, l) => Sends("body", <<"error">>, l)
           /\ Yield(<<"body", "body", "error">>, l) => Sends("body", <<"body", "error">>, l)
  BY DEF Yield, Sends

LEMMA Sent ==
    ASSUME wire \in Seq(Kinds), NEW e \in Kinds, NEW rest, NEW l, Sends(e, rest, l)
    PROVE  wire' \in Seq(Kinds) /\ wire' # <<>> /\ LastSent' = e
<1>1. wire' \in Seq(Kinds) /\ Len(wire') = Len(wire) + 1 /\ wire'[Len(wire) + 1] = e
  BY DEF Sends
<1>. QED
  BY <1>1 DEF LastSent

\* Where a yield may lead.
Targets == {"history", "build", "poll", "settleCompleted", "settleFailed", "fallback",
            "ended"}

\* Where the generator is and what it sends.
StreamOK ==
    /\ pc \in Guarded \cup Unguarded \cup {"yield", "build", "join", "reaping", "report",
                                           "ended"}
    /\ todo \in Seq({"body", "error"}) /\ wire \in Seq(Kinds)
    /\ after \in {"none"} \cup Targets
    /\ pc = "yield" => after \in Targets
    /\ pc = "report" => after \in {"settleCompleted", "settleFailed", "fallback"}

\* Everything else; an engine that ended has a result.
RestOK ==
    /\ row \in {"queued", "running"} \cup Outcomes
    /\ snap \in {"queued", "running"} \cup Outcomes
    /\ public \in {"running"} \cup Outcomes
    /\ queue \in Seq({"tool", "source", "final", "DONE"})
    /\ worker \in {"none", "ready", "checked", "tool", "done"} /\ calls \in 0..MaxCalls
    /\ result \in Results \cup {"none", "raised"}
    /\ worker = "done" => result # "none"
    /\ token \in BOOLEAN /\ gone \in BOOLEAN
    /\ settled \in BOOLEAN /\ emitted \in BOOLEAN
    /\ timer \in {"off", "armed"}
    /\ settler \in {"none", "try", "retry", "done", "killed"}

LEMMA SendsType ==
    ASSUME StreamOK, NEW e \in Kinds, NEW rest \in Seq({"body", "error"}),
           NEW l \in Targets, Sends(e, rest, l)
    PROVE  StreamOK'
<1>1. wire' \in Seq(Kinds)
  BY Sent DEF StreamOK
<1>. QED
  BY <1>1 DEF Sends, StreamOK

LEMMA Rests ==
    /\ <<>> \in Seq({"body", "error"}) /\ <<"body">> \in Seq({"body", "error"})
    /\ <<"body", "body">> \in Seq({"body", "error"})
    /\ <<"body", "error">> \in Seq({"body", "error"})
  OBVIOUS

LEMMA Published ==
    ASSUME queue \in Seq({"tool", "source", "final", "DONE"}),
           NEW s \in Seq({"tool", "source", "final", "DONE"}), Publish(s)
    PROVE  queue' \in Seq({"tool", "source", "final", "DONE"})
  BY DEF Publish

LEMMA Publications ==
    /\ <<>> \in Seq({"tool", "source", "final", "DONE"})
    /\ <<"tool">> \in Seq({"tool", "source", "final", "DONE"})
    /\ <<"tool", "source">> \in Seq({"tool", "source", "final", "DONE"})
    /\ <<"DONE">> \in Seq({"tool", "source", "final", "DONE"})
    /\ <<"final", "DONE">> \in Seq({"tool", "source", "final", "DONE"})
  OBVIOUS

LEMMA Outcome == \A at : OutcomeAt(at) \in {"completed", "failed"}
  BY DEF OutcomeAt

LEMMA CommitType ==
    ASSUME RestOK, NEW o \in Outcomes, Commit(o)
    PROVE  row' \in {"queued", "running"} \cup Outcomes
           /\ snap' \in {"queued", "running"} \cup Outcomes
  BY DEF Commit, RestOK, dbVars

LEMMA RaiseType ==
    ASSUME StreamOK, RestOK, Raise
    PROVE  /\ StreamOK'
           /\ timer' \in {"off", "armed"} /\ public' \in {"running"} \cup Outcomes
<1>1. pc' \in {"ended", "fallback"} /\ UNCHANGED wireVars /\ public' \in {public, "failed"}
  BY DEF Raise, Goto, RestOK
<1>. QED
  BY <1>1 DEF Raise, StreamOK, RestOK, wireVars, Unguarded, Outcomes

LEMMA GotoType ==
    ASSUME StreamOK,
           NEW l \in Guarded \cup Unguarded \cup {"build", "join", "reaping", "ended"},
           Goto(l)
    PROVE  StreamOK'
  BY DEF Goto, StreamOK, wireVars, Guarded, Unguarded

LEMMA TypeStep == ASSUME StreamOK, RestOK, [Next]_vars PROVE StreamOK' /\ RestOK'
<1>. USE DEF dbVars, workerVars, flags
<1>1. CASE Preflight
  BY <1>1, GotoType DEF Preflight, RestOK, Guarded
<1>2. CASE MarkRunning
  BY <1>2, GotoType DEF MarkRunning, RestOK, Guarded, Outcomes
<1>3. CASE MarkRunningFails
  BY <1>3, RaiseType DEF MarkRunningFails, RestOK
<1>4. CASE FirstPoll
  <2>1. CASE gone
    BY <1>4, <2>1, GotoType DEF FirstPoll, RestOK, StartSettler, Guarded, Outcomes
  <2>2. CASE ~gone
    <3>1. Sends("started", <<"body", "body">>, "history")
      BY <1>4, <2>2, YieldSends DEF FirstPoll
    <3>2. StreamOK'
      BY <3>1, SendsType, Rests DEF Kinds, Targets
    <3>. QED
      BY <1>4, <2>2, <3>2 DEF FirstPoll, RestOK
  <2>. QED
    BY <2>1, <2>2
<1>5. CASE LoadHistory
  <2>1. CASE Raise
    BY <1>5, <2>1, RaiseType DEF LoadHistory, RestOK
  <2>2. CASE Yield(<<"body">>, "build") /\ UNCHANGED <<public, timer>>
    <3>1. Sends("body", <<>>, "build")
      BY <2>2, YieldSends
    <3>2. StreamOK'
      BY <3>1, SendsType, Rests DEF Kinds, Targets
    <3>. QED
      BY <1>5, <2>2, <3>2 DEF LoadHistory, RestOK
  <2>. QED
    BY <1>5, <2>1, <2>2 DEF LoadHistory
<1>6. CASE Build
  <2>1. CASE Raise /\ UNCHANGED worker
    BY <1>6, <2>1, RaiseType DEF Build, RestOK
  <2>2. CASE worker' = "ready" /\ timer' = "armed" /\ Goto("poll") /\ UNCHANGED public
    BY <1>6, <2>2, GotoType DEF Build, RestOK, Guarded
  <2>. QED
    BY <1>6, <2>1, <2>2 DEF Build
<1>7. CASE Poll
  <2>1. StreamOK'
    BY <1>7, GotoType DEF Poll, Guarded
  <2>. QED
    <3>1. token' \in BOOLEAN
      BY <1>7 DEF Poll, RestOK
    <3>2. settler' \in {settler, "try"} /\ public' \in {public, "cancelled"}
      BY <1>7 DEF Poll, StartSettler
    <3>. QED
      BY <1>7, <2>1, <3>1, <3>2 DEF Poll, RestOK, Outcomes
<1>8. CASE Take
  <2>1. RestOK'
    BY <1>8 DEF Take, RestOK
  <2>2. CASE Goto("join") \/ Goto("record")
    BY <2>1, <2>2, GotoType DEF Guarded
  <2>3. CASE Yield(<<"body">>, "poll")
    <3>1. Sends("body", <<>>, "poll")
      BY <2>3, YieldSends
    <3>. QED
      BY <2>1, <3>1, SendsType, Rests DEF Kinds, Targets
  <2>. QED
    BY <1>8, <2>2, <2>3 DEF Take
<1>9. CASE Record
  <2>1. CASE Raise
    BY <1>9, <2>1, RaiseType DEF Record, RestOK
  <2>2. CASE Yield(<<"body">>, "poll") /\ UNCHANGED <<public, timer>>
    <3>1. Sends("body", <<>>, "poll")
      BY <2>2, YieldSends
    <3>2. StreamOK'
      BY <3>1, SendsType, Rests DEF Kinds, Targets
    <3>. QED
      BY <1>9, <2>2, <3>2 DEF Record, RestOK
  <2>. QED
    BY <1>9, <2>1, <2>2 DEF Record
<1>10. CASE Join
  <2>1. CASE Raise
    BY <1>10, <2>1, RaiseType DEF Join, RestOK
  <2>2. CASE result # "raised"
    <3>1. PICK l \in {"settleCompleted", "settleFailed"} : Yield(<<"body", "body">>, l)
      BY <1>10, <2>2 DEF Join
    <3>2. StreamOK'
      BY <3>1, YieldSends, SendsType, Rests DEF Kinds, Targets
    <3>3. public' \in Outcomes /\ timer' = "off"
      BY <1>10, <2>2, InstanceShape DEF Join, RestOK, Outcomes
    <3>. QED
      BY <1>10, <3>2, <3>3 DEF Join, RestOK
  <2>. QED
    BY <1>10, <2>1, <2>2 DEF Join
<1>11. CASE Reap
  <2>1. Sends("body", <<"body">>, "settleFailed")
    BY <1>11, YieldSends DEF Reap
  <2>2. StreamOK'
    BY <2>1, SendsType, Rests DEF Kinds, Targets
  <2>. QED
    BY <1>11, <2>2 DEF Reap, RestOK, Outcomes
<1>12. CASE Resume
  <2>1. RestOK'
    BY <1>12 DEF Resume, RestOK
  <2>2. CASE todo = <<>>
    BY <1>12, <2>1, <2>2 DEF Resume, StreamOK, Goto, wireVars, Guarded, Unguarded, Targets
  <2>3. CASE todo # <<>>
    <3>1. Sends(Head(todo), Tail(todo), after)
      BY <1>12, <2>3 DEF Resume, Yield, Sends
    <3>2. Head(todo) \in Kinds /\ Tail(todo) \in Seq({"body", "error"}) /\ after \in Targets
      BY <1>12, <2>3 DEF Resume, StreamOK, Kinds
    <3>. QED
      BY <2>1, <3>1, <3>2, SendsType
  <2>. QED
    BY <2>2, <2>3
<1>13. CASE Settle
  <2>1. StreamOK'
    BY <1>13 DEF Settle, StreamOK, Targets
  <2>. QED
    BY <1>13, <2>1, Outcome, CommitType DEF Settle, RestOK, Outcomes
<1>14. CASE Report
  <2>1. \/ Yield(<<"finished">>, "ended") \/ Yield(<<"error">>, "ended")
        \/ Yield(<<"body", "body", "error">>, "ended")
    BY <1>14 DEF Report, StreamOK
  <2>2. StreamOK'
    BY <2>1, YieldSends, SendsType, Rests DEF Kinds, Targets
  <2>. QED
    BY <1>14, <2>2 DEF Report, RestOK
<1>15. CASE CancelSettled
  BY <1>15, GotoType DEF CancelSettled, RestOK
<1>16. CASE RunTimeout
  BY <1>16, GotoType DEF RunTimeout, RestOK
<1>17. CASE Drop
  BY <1>17, GotoType DEF Drop, RestOK
<1>18. CASE ClientLeaves
  BY <1>18 DEF ClientLeaves, StreamOK, RestOK, wireVars
<1>19. CASE Cancelled
  <2>1. row' \in {"queued", "running"} \cup Outcomes /\ snap' \in {"queued", "running"} \cup Outcomes
    BY <1>19, Outcome, CommitType DEF Cancelled, Interrupted, RestOK, Outcomes
  <2>2. StreamOK'
    BY <1>19, GotoType DEF Cancelled, Unguarded
  <2>. QED
    BY <1>19, <2>1, <2>2 DEF Cancelled, RestOK, StartSettler, Outcomes
<1>20. CASE Escapes
  <2>1. row' \in {"queued", "running"} \cup Outcomes /\ snap' \in {"queued", "running"} \cup Outcomes
    BY <1>20, Outcome, CommitType DEF Escapes, Interrupted, RestOK, Outcomes
  <2>. QED
    BY <1>20, <2>1, GotoType DEF Escapes, RestOK
<1>21. CASE SettleBound
  <2>1. row' \in {"queued", "running"} \cup Outcomes /\ snap' \in {"queued", "running"} \cup Outcomes
    BY <1>21, CommitType DEF SettleBound, RestOK, Outcomes
  <2>. QED
    BY <1>21, <2>1, GotoType DEF SettleBound, RestOK
<1>22. CASE SettlerStep
  BY <1>22, CommitType DEF SettlerStep, StreamOK, RestOK, wireVars, Outcomes
<1>23. CASE Worker
  <2>1. queue' \in Seq({"tool", "source", "final", "DONE"})
    BY <1>23, Published, Publications
       DEF Worker, ToolCheck, ToolStart, ToolEnd, EngineEnds, Finish, RestOK
  <2>2. calls' \in 0..MaxCalls
    BY <1>23, InstanceShape DEF Worker, ToolCheck, ToolStart, ToolEnd, EngineEnds, RestOK
  <2>3. /\ worker' \in {"none", "ready", "checked", "tool", "done"}
        /\ result' \in Results \cup {"none", "raised"}
        /\ worker' = "done" => result' # "none"
    BY <1>23, InstanceShape
       DEF Worker, ToolCheck, ToolStart, ToolEnd, EngineEnds, Finish, RestOK
  <2>. QED
    BY <1>23, <2>1, <2>2, <2>3 DEF Worker, StreamOK, RestOK, wireVars
<1>24. CASE UNCHANGED vars
  BY <1>24 DEF vars, StreamOK, RestOK
<1>. QED
  BY <1>1, <1>2, <1>3, <1>4, <1>5, <1>6, <1>7, <1>8, <1>9, <1>10, <1>11, <1>12, <1>13,
     <1>14, <1>15, <1>16, <1>17, <1>18, <1>19, <1>20, <1>21, <1>22, <1>23, <1>24
     DEF Next, Coordinator

LEMMA TypeInit == ASSUME Init PROVE StreamOK /\ RestOK
<1>1. StreamOK
  <2>1. pc = "entry" /\ todo = <<>> /\ wire = <<>> /\ after = "none"
    BY DEF Init
  <2>2. todo \in Seq({"body", "error"}) /\ wire \in Seq(Kinds)
    BY <2>1
  <2>. QED
    BY <2>1, <2>2 DEF StreamOK, Unguarded
<1>2. RestOK
  <2>1. queue = <<>> /\ queue \in Seq({"tool", "source", "final", "DONE"})
    BY DEF Init
  <2>2. calls \in 0..MaxCalls
    BY InstanceShape DEF Init
  <2>3. /\ token \in BOOLEAN /\ gone \in BOOLEAN
        /\ settled \in BOOLEAN /\ emitted \in BOOLEAN
    BY DEF Init
  <2>. QED
    BY <2>1, <2>2, <2>3 DEF Init, RestOK, Outcomes
<1>. QED
  BY <1>1, <1>2

\* Types: whatever mishaps an instance has.
THEOREM TypeCorrect == Spec => []TypeOK
<1>1. Init => StreamOK /\ RestOK
  BY TypeInit
<1>2. StreamOK /\ RestOK /\ [Next]_vars => (StreamOK /\ RestOK)'
  BY TypeStep
<1>3. StreamOK /\ RestOK => TypeOK
  BY DEF StreamOK, RestOK, TypeOK, Kinds, Targets
<1>. QED
  BY <1>1, <1>2, <1>3, PTL DEF Spec

-----------------------------------------------------------------------------
(* The stored outcome                                                      *)

LEMMA YieldGoes == ASSUME NEW s, NEW l, Yield(s, l) PROVE pc' = "yield" /\ after' = l
  BY DEF Yield

LEMMA RowStep == ASSUME StreamOK, RestOK, RowInv, [Next]_vars PROVE RowInv'
<1>. USE DEF RowInv, At, Before, Live, dbVars, wireVars, workerVars, flags, Goto
<1>1. CASE Preflight \/ MarkRunning
  BY <1>1 DEF Preflight, MarkRunning
<1>2. CASE MarkRunningFails
  BY <1>2 DEF MarkRunningFails, Raise
<1>3. CASE FirstPoll
  BY <1>3, YieldGoes DEF FirstPoll, StartSettler
<1>4. CASE LoadHistory \/ Build \/ Record
  BY <1>4, YieldGoes DEF LoadHistory, Build, Record, Raise
<1>5. CASE Poll
  BY <1>5 DEF Poll, StartSettler
<1>6. CASE Take
  BY <1>6, YieldGoes DEF Take
<1>7. CASE Join
  BY <1>7, YieldGoes DEF Join, Raise
<1>8. CASE Reap
  BY <1>8, YieldGoes DEF Reap
<1>9. CASE Resume
  BY <1>9, YieldGoes DEF Resume, StreamOK, Targets
<1>10. CASE Settle
  BY <1>10 DEF Settle, Commit, OutcomeAt
<1>11. CASE Report
  BY <1>11, YieldGoes DEF Report
<1>12. CASE CancelSettled \/ RunTimeout \/ Drop
  BY <1>12 DEF CancelSettled, RunTimeout, Drop
<1>13. CASE ClientLeaves \/ Worker
  BY <1>13 DEF ClientLeaves, Worker
<1>14. CASE Cancelled
  BY <1>14 DEF Cancelled
<1>15. CASE Escapes
  BY <1>15 DEF Escapes
<1>16. CASE SettleBound
  BY <1>16 DEF SettleBound
<1>17. CASE SettlerStep
  BY <1>17 DEF SettlerStep, Commit
<1>18. CASE UNCHANGED vars
  BY <1>18 DEF vars
<1>. QED
  BY <1>1, <1>2, <1>3, <1>4, <1>5, <1>6, <1>7, <1>8, <1>9, <1>10, <1>11, <1>12, <1>13,
     <1>14, <1>15, <1>16, <1>17, <1>18 DEF Next, Coordinator

-----------------------------------------------------------------------------
(* The stream                                                              *)

LEMMA LastStep == ASSUME StreamOK, RestOK, RowInv, LastInv, [Next]_vars PROVE LastInv'
<1>. USE DEF LastInv, Promise!Terminal, wireVars, Goto
<1>a. ASSUME UNCHANGED wire PROVE LastSent' = LastSent
  BY <1>a DEF LastSent
\* A step that sends one more event.
<1>b. ASSUME NEW e \in Kinds, NEW rest, NEW l \in Targets, Sends(e, rest, l),
             LastSent \notin Promise!Terminal,
             e \in Promise!Terminal => l = "ended" /\ rest = <<>>,
             e = "finished" => settler' = "none",
             \/ rest \in {<<>>, <<"body">>, <<"body", "body">>}
             \/ rest \in Errors /\ l = "ended" /\ row' # "completed"
      PROVE  LastInv'
  <2>1. pc' = "yield" /\ after' = l /\ todo' = rest /\ LastSent' = e
    BY <1>b, Sent DEF Sends, StreamOK
  <2>. QED
    BY <1>b, <2>1
<1>1. CASE Preflight \/ MarkRunning
  BY <1>1, <1>a DEF Preflight, MarkRunning
<1>2. CASE MarkRunningFails
  BY <1>2, <1>a DEF MarkRunningFails, Raise
<1>3. CASE FirstPoll
  <2>1. CASE gone
    BY <1>3, <2>1, <1>a DEF FirstPoll, LastSent
  <2>2. CASE ~gone
    <3>1. Sends("started", <<"body", "body">>, "history")
      BY <1>3, <2>2, YieldSends DEF FirstPoll
    <3>2. LastSent \notin Promise!Terminal
      BY <1>3 DEF FirstPoll
    <3>. QED
      BY <3>1, <3>2, <1>b DEF Kinds, Targets
  <2>. QED
    BY <2>1, <2>2
<1>4. CASE LoadHistory \/ Record
  <2>1. CASE Raise
    BY <1>4, <2>1, <1>a DEF Raise, LoadHistory, Record
  <2>2. CASE Yield(<<"body">>, "build") \/ Yield(<<"body">>, "poll")
    <3>1. Sends("body", <<>>, "build") \/ Sends("body", <<>>, "poll")
      BY <2>2, YieldSends
    <3>2. LastSent \notin Promise!Terminal
      BY <1>4 DEF LoadHistory, Record
    <3>. QED
      BY <3>1, <3>2, <1>b DEF Kinds, Targets
  <2>. QED
    BY <1>4, <2>1, <2>2 DEF LoadHistory, Record
<1>5. CASE Build
  BY <1>5, <1>a DEF Build, Raise
<1>6. CASE Poll
  BY <1>6, <1>a DEF Poll, LastSent
<1>7. CASE Take
  <2>1. LastSent \notin Promise!Terminal /\ settler' = settler /\ pc = "take"
    BY <1>7 DEF Take
  <2>2. CASE Goto("join") \/ Goto("record")
    BY <2>1, <2>2, <1>a
  <2>3. CASE Yield(<<"body">>, "poll")
    <3>1. Sends("body", <<>>, "poll")
      BY <2>3, YieldSends
    <3>. QED
      BY <2>1, <3>1, <1>b DEF Kinds, Targets
  <2>. QED
    BY <1>7, <2>2, <2>3 DEF Take
<1>8. CASE Join
  <2>1. LastSent \notin Promise!Terminal
    BY <1>8 DEF Join
  <2>2. CASE Raise
    BY <1>8, <2>1, <2>2, <1>a DEF Raise, Join
  <2>3. CASE ~Raise
    <3>1. PICK l \in {"settleCompleted", "settleFailed"} : Sends("body", <<"body">>, l)
      BY <1>8, <2>3, YieldSends DEF Join
    <3>. QED
      BY <2>1, <3>1, <1>b DEF Kinds, Targets
  <2>. QED
    BY <2>2, <2>3
<1>9. CASE Reap
  <2>1. Sends("body", <<"body">>, "settleFailed") /\ LastSent \notin Promise!Terminal
    BY <1>9, YieldSends DEF Reap
  <2>. QED
    BY <2>1, <1>b DEF Kinds, Targets
<1>10. CASE Resume
  <2>1. CASE todo = <<>>
    BY <1>10, <2>1, <1>a DEF Resume, StreamOK, Targets
  <2>2. CASE todo # <<>>
    <3>1. Yield(todo, after) /\ after \in Targets /\ LastSent \notin Promise!Terminal
      BY <1>10, <2>2 DEF Resume, StreamOK
    <3>2. CASE todo = <<"body">> \/ todo = <<"body", "body">>
      <4>1. Sends("body", <<>>, after) \/ Sends("body", <<"body">>, after)
        BY <3>1, <3>2, YieldSends
      <4>. QED
        BY <3>1, <4>1, <1>b DEF Kinds
    <3>3. CASE todo = <<"body", "error">> \/ todo = <<"error">>
      <4>1. Sends("body", <<"error">>, after) \/ Sends("error", <<>>, after)
        BY <3>1, <3>3, YieldSends
      <4>2. after = "ended" /\ row # "completed" /\ row' = row
        BY <1>10, <3>3 DEF Resume, Errors, dbVars
      <4>. QED
        BY <3>1, <4>1, <4>2, <1>b DEF Kinds, Errors
    <3>. QED
      BY <1>10, <2>2, <3>2, <3>3 DEF Resume, Errors
  <2>. QED
    BY <2>1, <2>2
<1>11. CASE Settle
  BY <1>11, <1>a DEF Settle
<1>12. CASE Report
  <2>1. LastSent \notin Promise!Terminal /\ settler' = settler /\ row' = row
    BY <1>12 DEF Report, dbVars
  <2>2. CASE after = "settleCompleted"
    <3>1. Sends("finished", <<>>, "ended") /\ settler = "none"
      BY <1>12, <2>2, YieldSends DEF Report, RowInv
    <3>. QED
      BY <2>1, <3>1, <1>b DEF Kinds, Targets
  <2>3. CASE after \in {"settleFailed", "fallback"}
    <3>1. Sends("error", <<>>, "ended") \/ Sends("body", <<"body", "error">>, "ended")
      BY <1>12, <2>3, YieldSends DEF Report
    <3>2. row # "completed"
      BY <1>12, <2>3 DEF Report, RowInv
    <3>. QED
      BY <2>1, <3>1, <3>2, <1>b DEF Kinds, Targets, Errors
  <2>. QED
    BY <1>12, <2>2, <2>3 DEF Report, StreamOK
<1>13. CASE CancelSettled \/ RunTimeout \/ Drop
  BY <1>13, <1>a DEF CancelSettled, RunTimeout, Drop
<1>14. CASE ClientLeaves \/ Worker
  BY <1>14, <1>a DEF ClientLeaves, Worker, dbVars
<1>15. CASE Cancelled
  BY <1>15, <1>a DEF Cancelled, Guarded
<1>16. CASE Escapes
  BY <1>16, <1>a DEF Escapes, Unguarded
<1>17. CASE SettleBound
  BY <1>17, <1>a DEF SettleBound
<1>18. CASE SettlerStep
  BY <1>18, <1>a DEF SettlerStep, Commit, dbVars
<1>19. CASE UNCHANGED vars
  BY <1>19, <1>a DEF vars
<1>. QED
  BY <1>1, <1>2, <1>3, <1>4, <1>5, <1>6, <1>7, <1>8, <1>9, <1>10, <1>11, <1>12, <1>13,
     <1>14, <1>15, <1>16, <1>17, <1>18, <1>19 DEF Next, Coordinator

LEMMA OpenStep ==
    ASSUME "mark" \notin Mishaps, StreamOK, RowInv, LastInv, OpenInv, [Next]_vars
    PROVE  OpenInv'
<1>. USE DEF OpenInv, wireVars, Goto
<1>1. ASSUME NEW s, NEW l, Yield(s, l) PROVE wire' # <<>>
  <2>1. wire' = Append(wire, Head(s))
    BY <1>1 DEF Yield
  <2>2. wire \in Seq(Kinds)
    BY DEF StreamOK
  <2>3. Len(wire') = Len(wire) + 1 /\ Len(wire) \in Nat
    BY <2>1, <2>2
  <2>. QED
    BY <2>3
<1>2. CASE Preflight \/ MarkRunning \/ FirstPoll \/ LoadHistory \/ Build \/ Record
  BY <1>1, <1>2 DEF Preflight, MarkRunning, FirstPoll, LoadHistory, Build, Record, Raise
<1>3. CASE Poll \/ Join \/ Reap \/ Resume \/ Report
  BY <1>1, <1>3 DEF Poll, Join, Reap, Resume, Report, Raise
<1>4. CASE Take
  BY <1>1, <1>4 DEF Take
<1>5. CASE Settle \/ CancelSettled \/ RunTimeout \/ Drop
  BY <1>5 DEF Settle, CancelSettled, RunTimeout, Drop
<1>6. CASE ClientLeaves \/ Worker \/ SettlerStep
  BY <1>6 DEF ClientLeaves, Worker, SettlerStep
<1>7. CASE Cancelled \/ Escapes \/ SettleBound
  BY <1>7 DEF Cancelled, Escapes, SettleBound
<1>8. CASE UNCHANGED vars
  BY <1>8 DEF vars
<1>. QED
  BY <1>2, <1>3, <1>4, <1>5, <1>6, <1>7, <1>8 DEF Next, Coordinator, MarkRunningFails

StreamInv == StreamOK /\ RestOK /\ RowInv /\ LastInv

LEMMA StreamInvInit == ASSUME Init PROVE StreamInv
<1>1. StreamOK /\ RestOK
  BY TypeInit
<1>2. RowInv /\ LastInv
  BY DEF Init, RowInv, LastInv, At, Before, Live, LastSent, Promise!Terminal
<1>. QED
  BY <1>1, <1>2 DEF StreamInv

LEMMA StreamInvStep == ASSUME StreamInv, [Next]_vars PROVE StreamInv'
  BY TypeStep, RowStep, LastStep DEF StreamInv

-----------------------------------------------------------------------------
(* The contract                                                            *)

Kept == [Promise!ContractNext]_<<wire, row>>

\* A settlement is one of the contract, or finds the run settled.
LEMMA CommitKeeps ==
    ASSUME RestOK, NEW o \in Outcomes, Commit(o), UNCHANGED wire,
           LastSent = "finished" => ~Live(row), LastSent = "error" => o # "completed"
    PROVE  Kept
<1>1. CASE Live(row)
  <2>1. Promise!Settle(o)
    BY <1>1 DEF Commit, Live, LastSent, Promise!Settle, Promise!Outcomes
  <2>. QED
    BY <2>1 DEF Kept, Promise!ContractNext, Promise!Outcomes, Outcomes
<1>2. CASE ~Live(row)
  BY <1>2 DEF Commit, dbVars, Kept
<1>. QED
  BY <1>1, <1>2

\* A body event goes out on an open stream.
LEMMA BodyKeeps ==
    ASSUME wire # <<>>, LastSent \notin Promise!Terminal, UNCHANGED row, NEW rest, NEW l,
           Sends("body", rest, l)
    PROVE  Kept
<1>1. Promise!Body
  BY DEF Sends, LastSent, Promise!Body, Promise!Send, Promise!Open
<1>. QED
  BY <1>1 DEF Kept, Promise!ContractNext

LEMMA ContractStep ==
    ASSUME StreamOK, RestOK, RowInv, LastInv, OpenInv, [Next]_vars, "mark" \notin Mishaps
    PROVE  Kept
<1>. USE DEF Goto, wireVars, dbVars
<1>a. pc \notin {"yield", "ended"} => LastSent \notin Promise!Terminal
  BY DEF LastInv
<1>1. CASE MarkRunning
  <2>1. row = "queued"
    BY <1>1 DEF MarkRunning, RowInv
  <2>. QED
    BY <1>1, <2>1 DEF MarkRunning, Kept, Promise!ContractNext, Promise!Run
<1>2. CASE FirstPoll
  <2>1. CASE gone
    BY <1>2, <2>1 DEF FirstPoll, Kept
  <2>2. CASE ~gone
    <3>1. Sends("started", <<"body", "body">>, "history") /\ wire = <<>>
      BY <1>2, <2>2, YieldSends DEF FirstPoll, LastInv
    <3>. QED
      BY <1>2, <3>1 DEF FirstPoll, Sends, Kept, Promise!ContractNext, Promise!Start,
                        Promise!Send
  <2>. QED
    BY <2>1, <2>2
<1>3. CASE LoadHistory \/ Record
  <2>1. CASE Raise
    BY <1>3, <2>1 DEF LoadHistory, Record, Raise, Kept
  <2>2. CASE Yield(<<"body">>, "build") \/ Yield(<<"body">>, "poll")
    <3>1. \E rest, l : Sends("body", rest, l)
      BY <2>2, YieldSends
    <3>2. wire # <<>> /\ LastSent \notin Promise!Terminal /\ row' = row
      BY <1>3, <1>a DEF LoadHistory, Record, OpenInv
    <3>. QED
      BY <3>1, <3>2, BodyKeeps
  <2>. QED
    BY <1>3, <2>1, <2>2 DEF LoadHistory, Record
<1>4. CASE Preflight \/ Build \/ Poll
  BY <1>4 DEF Preflight, Build, Poll, Raise, Kept
<1>5. CASE Take
  <2>1. CASE Goto("join") \/ Goto("record")
    BY <1>5, <2>1 DEF Take, Kept
  <2>2. CASE Yield(<<"body">>, "poll")
    <3>1. Sends("body", <<>>, "poll")
      BY <2>2, YieldSends
    <3>2. wire # <<>> /\ LastSent \notin Promise!Terminal /\ row' = row
      BY <1>5, <1>a DEF Take, OpenInv
    <3>. QED
      BY <3>1, <3>2, BodyKeeps
  <2>. QED
    BY <1>5, <2>1, <2>2 DEF Take
<1>6. CASE Join \/ Reap
  <2>1. CASE Raise
    BY <1>6, <2>1 DEF Join, Reap, Raise, Kept
  <2>2. CASE ~Raise
    <3>1. \E rest, l : Sends("body", rest, l)
      BY <1>6, <2>2, YieldSends DEF Join, Reap
    <3>2. wire # <<>> /\ LastSent \notin Promise!Terminal /\ row' = row
      BY <1>6, <1>a DEF Join, Reap, OpenInv
    <3>. QED
      BY <3>1, <3>2, BodyKeeps
  <2>. QED
    BY <2>1, <2>2
<1>7. CASE Resume
  <2>1. CASE todo = <<>>
    BY <1>7, <2>1 DEF Resume, Kept
  <2>2. CASE todo # <<>>
    <3>1. /\ Yield(todo, after) /\ wire # <<>> /\ LastSent \notin Promise!Terminal
          /\ row' = row
      BY <1>7, <2>2 DEF Resume, LastInv, OpenInv
    <3>2. CASE todo = <<"error">>
      <4>1. Sends("error", <<>>, after) /\ row # "completed"
        BY <1>7, <3>1, <3>2, YieldSends DEF Resume, LastInv
      <4>. QED
        BY <3>1, <4>1 DEF Sends, LastSent, Kept, Promise!ContractNext, Promise!Fail,
                          Promise!Open, Promise!Send
    <3>3. CASE todo \in {<<"body">>, <<"body", "body">>, <<"body", "error">>}
      <4>1. \E rest : Sends("body", rest, after)
        BY <3>1, <3>3, YieldSends
      <4>. QED
        BY <3>1, <4>1, BodyKeeps
    <3>. QED
      BY <1>7, <2>2, <3>2, <3>3 DEF Resume, LastInv, Errors
  <2>. QED
    BY <2>1, <2>2
<1>8. CASE Settle
  <2>1. UNCHANGED wire /\ LastSent \notin Promise!Terminal
    BY <1>8, <1>a DEF Settle
  <2>2. CASE Commit(OutcomeAt(pc))
    BY <2>1, <2>2, CommitKeeps, Outcome DEF Outcomes, Promise!Terminal
  <2>. QED
    BY <1>8, <2>1, <2>2 DEF Settle, Kept
<1>9. CASE Report
  <2>1. wire # <<>> /\ LastSent \notin Promise!Terminal /\ row' = row
    BY <1>9, <1>a DEF Report, OpenInv
  <2>2. CASE after = "settleCompleted"
    <3>1. Sends("finished", <<>>, "ended") /\ row \notin {"failed", "cancelled"}
      BY <1>9, <2>2, YieldSends DEF Report, RowInv
    <3>. QED
      BY <2>1, <3>1 DEF Sends, LastSent, Kept, Promise!ContractNext, Promise!Finish,
                        Promise!Open, Promise!Send
  <2>3. CASE after = "settleFailed"
    <3>1. Sends("error", <<>>, "ended") /\ row # "completed"
      BY <1>9, <2>3, YieldSends DEF Report, RowInv
    <3>. QED
      BY <2>1, <3>1 DEF Sends, LastSent, Kept, Promise!ContractNext, Promise!Fail,
                        Promise!Open, Promise!Send
  <2>4. CASE after = "fallback"
    <3>1. Sends("body", <<"body", "error">>, "ended")
      BY <1>9, <2>4, YieldSends DEF Report
    <3>. QED
      BY <2>1, <3>1, BodyKeeps
  <2>. QED
    BY <1>9, <2>2, <2>3, <2>4 DEF Report, StreamOK
<1>10. CASE CancelSettled \/ RunTimeout \/ Drop \/ ClientLeaves \/ Worker
  BY <1>10 DEF CancelSettled, RunTimeout, Drop, ClientLeaves, Worker, Kept
<1>11. ASSUME Interrupted, UNCHANGED wire, pc \in Guarded \cup Unguarded PROVE Kept
  <2>1. LastSent \notin Promise!Terminal
    BY <1>11, <1>a DEF Guarded, Unguarded
  <2>2. CASE pc = "marking" /\ row' = "running"
    <3>1. row = "queued"
      BY <2>2 DEF RowInv
    <3>. QED
      BY <1>11, <2>2, <3>1 DEF Kept, Promise!ContractNext, Promise!Run
  <2>3. CASE Commit(OutcomeAt(pc))
    BY <1>11, <2>1, <2>3, CommitKeeps, Outcome DEF Outcomes, Promise!Terminal
  <2>. QED
    BY <1>11, <2>2, <2>3 DEF Interrupted, Kept
<1>12. CASE Cancelled \/ Escapes
  BY <1>11, <1>12 DEF Cancelled, Escapes
<1>13. CASE SettleBound \/ SettlerStep
  <2>1. UNCHANGED wire /\ settler \in {"try", "retry"}
    BY <1>13 DEF SettleBound, SettlerStep
  <2>2. LastSent # "finished"
    BY <2>1 DEF LastInv
  <2>3. CASE Commit("cancelled")
    BY <2>1, <2>2, <2>3, CommitKeeps DEF Outcomes
  <2>. QED
    BY <1>13, <2>1, <2>3 DEF SettleBound, SettlerStep, Kept
<1>14. CASE UNCHANGED vars
  BY <1>14 DEF vars, Kept
<1>. QED
  BY <1>1, <1>2, <1>3, <1>4, <1>5, <1>6, <1>7, <1>8, <1>9, <1>10, <1>12, <1>13, <1>14
     DEF Next, Coordinator, MarkRunningFails

\* The live coordinator implements the contract of a run, unless the very start of the
\* run cannot be stored: whatever else fails or times out, and whenever the client
\* leaves, its stream opens and closes as the contract says, and the stored outcome is
\* written once and not contradicted.
THEOREM LiveRunKeepsContract == "mark" \notin Mishaps => (Spec => KeepsContract)
<1>. SUFFICES ASSUME "mark" \notin Mishaps PROVE Spec => KeepsContract
  OBVIOUS
<1>1. Init => StreamInv /\ OpenInv
  BY StreamInvInit DEF Init, OpenInv
<1>2. StreamInv /\ OpenInv /\ [Next]_vars => (StreamInv /\ OpenInv)'
  BY StreamInvStep, OpenStep DEF StreamInv
<1>3. StreamInv /\ OpenInv /\ [Next]_vars => Kept
  BY ContractStep DEF StreamInv
<1>4. Init => Promise!ContractInit
  BY DEF Init, Promise!ContractInit
<1>. QED
  BY <1>1, <1>2, <1>3, <1>4, PTL DEF Spec, KeepsContract, Promise!Contract, Kept

-----------------------------------------------------------------------------
(* What is stored before it is told                                        *)

\* Told or about to be told the end of its run, the client is told what is stored.
DurableInv ==
    /\ DurableBeforeTerminal
    /\ pc = "report" => ~Live(row)
    /\ pc = "yield" /\ todo \in Errors => ~Live(row)

LEMMA CommitSettles == ASSUME NEW o \in Outcomes, Commit(o) PROVE ~Live(row')
  BY DEF Commit, Live, Outcomes, dbVars

\* A settled run stays settled.
LEMMA StaysSettled == ASSUME RowInv, [Next]_vars, ~Live(row) PROVE ~Live(row')
<1>. USE DEF dbVars
<1>1. CASE MarkRunning
  BY <1>1 DEF MarkRunning, RowInv, Live
<1>2. CASE Settle
  BY <1>2, Outcome, CommitSettles DEF Settle, Outcomes
<1>3. CASE Cancelled \/ Escapes
  BY <1>3, Outcome, CommitSettles DEF Cancelled, Escapes, Interrupted, Outcomes, RowInv, Live
<1>4. CASE SettleBound \/ SettlerStep
  BY <1>4, CommitSettles DEF SettleBound, SettlerStep, Outcomes
<1>5. CASE UNCHANGED row
  BY <1>5
<1>. QED
  BY <1>1, <1>2, <1>3, <1>4, <1>5
     DEF Next, Coordinator, vars, Preflight, MarkRunningFails, FirstPoll, LoadHistory, Build,
         Poll, Take, Record, Join, Reap, Resume, Report, CancelSettled, RunTimeout, Drop,
         ClientLeaves, Worker

LEMMA DurableStep ==
    ASSUME StreamOK, RestOK, RowInv, LastInv, DurableInv, [Next]_vars, "settle" \notin Mishaps
    PROVE  DurableInv'
<1>. USE DEF DurableInv, DurableBeforeTerminal, wireVars, dbVars, flags, Goto
<1>a. ~Live(row) => ~Live(row')
  BY StaysSettled
<1>b. ASSUME UNCHANGED <<wire, settled>>, pc' \notin {"report", "yield"} PROVE DurableInv'
  BY <1>a, <1>b DEF LastSent
\* A body event that precedes the settlement.
<1>c. ASSUME NEW rest, NEW l, Sends("body", rest, l), rest \notin Errors, UNCHANGED settled
      PROVE  DurableInv'
  <2>1. LastSent' = "body" /\ pc' = "yield" /\ todo' = rest
    BY <1>c, Sent DEF Sends, StreamOK, Kinds
  <2>. QED
    BY <1>a, <1>c, <2>1
<1>d. <<>> \notin Errors /\ <<"body">> \notin Errors /\ <<"body", "body">> \notin Errors
  BY DEF Errors
<1>1. CASE Preflight \/ MarkRunning \/ MarkRunningFails \/ Build \/ Poll
  BY <1>1, <1>b DEF Preflight, MarkRunning, MarkRunningFails, Build, Poll, Raise
<1>2. CASE FirstPoll
  <2>1. CASE gone
    BY <1>2, <2>1, <1>b DEF FirstPoll
  <2>2. CASE ~gone
    <3>1. Sends("started", <<"body", "body">>, "history")
      BY <1>2, <2>2, YieldSends DEF FirstPoll
    <3>2. LastSent' = "started" /\ pc' = "yield" /\ todo' = <<"body", "body">>
      BY <3>1, Sent DEF Sends, StreamOK, Kinds
    <3>. QED
      BY <1>2, <3>2, <1>a, <1>d DEF FirstPoll
  <2>. QED
    BY <2>1, <2>2
<1>3. CASE LoadHistory \/ Record
  <2>1. CASE Raise
    BY <1>3, <2>1, <1>b DEF LoadHistory, Record, Raise
  <2>2. CASE Yield(<<"body">>, "build") \/ Yield(<<"body">>, "poll")
    BY <1>3, <2>2, YieldSends, <1>c, <1>d DEF LoadHistory, Record
  <2>. QED
    BY <1>3, <2>1, <2>2 DEF LoadHistory, Record
<1>4. CASE Take
  <2>1. CASE Goto("join") \/ Goto("record")
    BY <1>4, <2>1, <1>b DEF Take
  <2>2. CASE Yield(<<"body">>, "poll")
    BY <1>4, <2>2, YieldSends, <1>c, <1>d DEF Take
  <2>. QED
    BY <1>4, <2>1, <2>2 DEF Take
<1>5. CASE Join \/ Reap
  <2>1. CASE Raise
    BY <1>5, <2>1, <1>b DEF Join, Reap, Raise
  <2>2. CASE ~Raise
    <3>1. \E l : Yield(<<"body", "body">>, l)
      BY <1>5, <2>2 DEF Join, Reap
    <3>. QED
      BY <1>5, <3>1, YieldSends, <1>c, <1>d DEF Join, Reap
  <2>. QED
    BY <2>1, <2>2
<1>6. CASE Resume
  <2>1. CASE todo = <<>>
    <3>1. pc' \in Targets /\ UNCHANGED <<wire, settled>>
      BY <1>6, <2>1 DEF Resume, StreamOK
    <3>. QED
      BY <3>1, <1>b DEF Targets
  <2>2. CASE todo = <<"body">> \/ todo = <<"body", "body">>
    BY <1>6, <2>2, YieldSends, <1>c, <1>d DEF Resume
  <2>3. CASE todo \in Errors
    <3>1. ~Live(row')
      BY <1>6, <2>3, <1>a DEF Resume
    <3>. QED
      BY <3>1
  <2>. QED
    BY <1>6, <2>1, <2>2, <2>3 DEF Resume, LastInv
<1>7. CASE Settle
  <2>1. ~Live(row')
    BY <1>7, Outcome, CommitSettles DEF Settle, Outcomes
  <2>. QED
    BY <2>1
<1>8. CASE Report
  <2>1. ~Live(row')
    BY <1>8, <1>a DEF Report
  <2>. QED
    BY <2>1
<1>9. CASE CancelSettled \/ RunTimeout \/ Drop \/ Cancelled \/ Escapes \/ SettleBound
  BY <1>9, <1>b DEF CancelSettled, RunTimeout, Drop, Cancelled, Escapes, SettleBound
<1>10. CASE SettlerStep
  <2>1. ~Live(row')
    BY <1>10, CommitSettles DEF SettlerStep, Outcomes
  <2>. QED
    BY <2>1
<1>11. CASE ClientLeaves \/ Worker \/ UNCHANGED vars
  BY <1>11 DEF ClientLeaves, Worker, vars, LastSent
<1>. QED
  BY <1>1, <1>2, <1>3, <1>4, <1>5, <1>6, <1>7, <1>8, <1>9, <1>10, <1>11
     DEF Next, Coordinator

\* While the database settles what it is asked to settle, the outcome is stored before
\* the client is told of it and before the flag is set that stops other settlements.
THEOREM StoredBeforeTold == "settle" \notin Mishaps => (Spec => []DurableBeforeTerminal)
<1>. SUFFICES ASSUME "settle" \notin Mishaps PROVE Spec => []DurableBeforeTerminal
  OBVIOUS
<1>1. Init => StreamInv /\ DurableInv
  BY StreamInvInit
     DEF Init, DurableInv, DurableBeforeTerminal, LastSent
<1>2. StreamInv /\ DurableInv /\ [Next]_vars => (StreamInv /\ DurableInv)'
  BY StreamInvStep, DurableStep DEF StreamInv
<1>3. DurableInv => DurableBeforeTerminal
  BY DEF DurableInv
<1>. QED
  BY <1>1, <1>2, <1>3, PTL DEF Spec

-----------------------------------------------------------------------------
(* The stored snapshot                                                     *)

\* The public state a settlement is about to store is that of its outcome: the
\* settling task's once there is one, and until then the generator's.
PublicInv ==
    /\ settler # "none" => /\ public = "cancelled"
                           /\ At \in {"settling0", "settling", "cancelling", "waiting", "ended"}
    /\ At = "settleCompleted" => public = "completed"
    /\ At \in {"settleFailed", "fallback"} => public = "failed"
    /\ At # "reaping"

SnapInv == SnapshotMatchesRow /\ PublicInv

LEMMA SnapStep ==
    ASSUME StreamOK, RestOK, RowInv, SnapInv, [Next]_vars, "timeout" \notin Mishaps
    PROVE  SnapInv'
<1>. USE DEF SnapInv, SnapshotMatchesRow, PublicInv, At, dbVars, wireVars, Goto
<1>1. CASE Preflight
  BY <1>1 DEF Preflight
<1>2. CASE MarkRunning
  BY <1>2 DEF MarkRunning, RowInv, Live, Before
<1>3. CASE MarkRunningFails
  BY <1>3 DEF MarkRunningFails, Raise
<1>4. CASE FirstPoll \/ Poll
  BY <1>4, YieldGoes DEF FirstPoll, Poll, StartSettler
<1>5. CASE LoadHistory \/ Build \/ Record
  BY <1>5, YieldGoes DEF LoadHistory, Build, Record, Raise
<1>6. CASE Take
  BY <1>6, YieldGoes DEF Take
<1>7. CASE Join
  <2>1. CASE Raise
    BY <1>7, <2>1 DEF Join, Raise
  <2>2. CASE ~Raise
    <3>1. result \in {"completed", "failed"}
      BY <1>7, <2>2, InstanceShape DEF Join, RestOK
    <3>. QED
      BY <1>7, <2>2, <3>1, YieldGoes DEF Join
  <2>. QED
    BY <2>1, <2>2
<1>8. CASE Reap \/ RunTimeout
  BY <1>8 DEF Reap, RunTimeout
<1>9. CASE Resume
  BY <1>9, YieldGoes DEF Resume, StreamOK, Targets
<1>10. CASE Settle
  BY <1>10 DEF Settle, Commit, OutcomeAt
<1>11. CASE Report
  BY <1>11, YieldGoes DEF Report
<1>12. CASE CancelSettled \/ Drop \/ ClientLeaves \/ Worker
  BY <1>12 DEF CancelSettled, Drop, ClientLeaves, Worker
<1>13. ASSUME Interrupted, pc # "yield" PROVE SnapshotMatchesRow'
  BY <1>13 DEF Interrupted, Commit, OutcomeAt, Live
<1>14. CASE Cancelled
  <2>1. SnapshotMatchesRow'
    BY <1>13, <1>14 DEF Cancelled, Guarded
  <2>. QED
    BY <1>14, <2>1 DEF Cancelled, StartSettler
<1>15. CASE Escapes
  <2>1. SnapshotMatchesRow'
    BY <1>13, <1>15 DEF Escapes, Unguarded
  <2>. QED
    BY <1>15, <2>1 DEF Escapes
<1>16. CASE SettleBound
  BY <1>16 DEF SettleBound, Commit
<1>17. CASE SettlerStep
  BY <1>17 DEF SettlerStep, Commit
<1>18. CASE UNCHANGED vars
  BY <1>18 DEF vars
<1>. QED
  BY <1>1, <1>2, <1>3, <1>4, <1>5, <1>6, <1>7, <1>8, <1>9, <1>10, <1>11, <1>12, <1>14,
     <1>15, <1>16, <1>17, <1>18 DEF Next, Coordinator

\* Unless the run timeout fires, the snapshot of a settled run shows the outcome the
\* run was settled with, whoever settled it and whichever writes failed.
THEOREM SnapshotsMatch == "timeout" \notin Mishaps => (Spec => []SnapshotMatchesRow)
<1>. SUFFICES ASSUME "timeout" \notin Mishaps PROVE Spec => []SnapshotMatchesRow
  OBVIOUS
<1>1. Init => StreamInv /\ SnapInv
  BY StreamInvInit
     DEF Init, SnapInv, SnapshotMatchesRow, PublicInv, At, Live
<1>2. StreamInv /\ SnapInv /\ [Next]_vars => (StreamInv /\ SnapInv)'
  BY StreamInvStep, SnapStep DEF StreamInv
<1>3. SnapInv => SnapshotMatchesRow
  BY DEF SnapInv
<1>. QED
  BY <1>1, <1>2, <1>3, PTL DEF Spec

-----------------------------------------------------------------------------
(* The event bus                                                           *)

\* The sentinel is the last event, and the last the worker publishes.
SentinelLast ==
    \A i \in 1..Len(queue) : queue[i] = "DONE" => i = Len(queue) /\ worker = "done"

Drained == queue = <<>> /\ worker = "done"

DrainInv ==
    /\ DrainedBeforeFinish
    /\ SentinelLast
    /\ At \in {"entry", "marking", "polling", "history", "build"} => worker = "none"
    /\ At \in {"join", "settleCompleted"} => Drained
    /\ pc = "report" /\ after = "settleCompleted" => Drained

\* A worker that has not ended has not published the sentinel.
LEMMA PublishStep ==
    ASSUME RestOK, SentinelLast, Worker
    PROVE  SentinelLast' /\ worker \notin {"none", "done"} /\ worker' # "none"
<1>1. worker \in {"ready", "checked", "tool"} /\ worker' # "none"
  BY DEF Worker, ToolCheck, ToolStart, ToolEnd, EngineEnds, Finish
<1>2. \A i \in 1..Len(queue) : queue[i] # "DONE"
  BY <1>1 DEF SentinelLast
<1>3. \/ worker' # "done" /\ queue' \in {queue, queue \o <<"tool">>, queue \o <<>>,
                                         queue \o <<"tool", "source">>}
      \/ worker' = "done" /\ queue' \in {queue \o <<"DONE">>, queue \o <<"final", "DONE">>}
  BY <1>1 DEF Worker, ToolCheck, ToolStart, ToolEnd, EngineEnds, Finish, Publish
<1>4. queue \in Seq({"tool", "source", "final", "DONE"})
  BY DEF RestOK
<1>5. SentinelLast'
  <2>1. CASE queue' = queue \/ queue' = queue \o <<>>
    BY <1>2, <1>4, <2>1 DEF SentinelLast
  <2>2. CASE queue' = queue \o <<"tool">>
    BY <1>2, <1>4, <2>2 DEF SentinelLast
  <2>3. CASE queue' = queue \o <<"tool", "source">>
    BY <1>2, <1>4, <2>3 DEF SentinelLast
  <2>4. CASE queue' = queue \o <<"DONE">> /\ worker' = "done"
    BY <1>2, <1>4, <2>4 DEF SentinelLast
  <2>5. CASE queue' = queue \o <<"final", "DONE">> /\ worker' = "done"
    BY <1>2, <1>4, <2>5 DEF SentinelLast
  <2>. QED
    BY <1>3, <2>1, <2>2, <2>3, <2>4, <2>5
<1>. QED
  BY <1>1, <1>5

LEMMA DrainStep ==
    ASSUME StreamOK, RestOK, RowInv, LastInv, DrainInv, [Next]_vars
    PROVE  DrainInv'
<1>. USE DEF DrainInv, DrainedBeforeFinish, Drained, At, wireVars, workerVars, Goto
<1>a. ASSUME UNCHANGED wire PROVE LastSent' = LastSent
  BY <1>a DEF LastSent
<1>b. ASSUME UNCHANGED workerVars PROVE SentinelLast'
  BY <1>b DEF SentinelLast
<1>c. ASSUME NEW e \in {"started", "body", "error"}, NEW rest, NEW l, Sends(e, rest, l)
      PROVE  LastSent' # "finished" /\ pc' = "yield" /\ after' = l
  BY <1>c, Sent DEF Sends, StreamOK, Kinds
<1>1. CASE Preflight \/ MarkRunning \/ MarkRunningFails
  BY <1>1, <1>a, <1>b DEF Preflight, MarkRunning, MarkRunningFails, Raise
<1>2. CASE FirstPoll
  <2>1. CASE gone
    BY <1>2, <2>1, <1>a, <1>b DEF FirstPoll
  <2>2. CASE ~gone
    <3>1. Sends("started", <<"body", "body">>, "history")
      BY <1>2, <2>2, YieldSends DEF FirstPoll
    <3>. QED
      BY <1>2, <3>1, <1>b, <1>c DEF FirstPoll
  <2>. QED
    BY <2>1, <2>2
<1>3. CASE LoadHistory \/ Record
  <2>1. CASE Raise
    BY <1>3, <2>1, <1>a, <1>b DEF LoadHistory, Record, Raise
  <2>2. CASE pc = "history" /\ Yield(<<"body">>, "build")
    BY <1>3, <2>2, YieldSends, <1>b, <1>c DEF LoadHistory, Record
  <2>3. CASE Yield(<<"body">>, "poll")
    BY <1>3, <2>3, YieldSends, <1>b, <1>c DEF LoadHistory, Record
  <2>. QED
    BY <1>3, <2>1, <2>2, <2>3 DEF LoadHistory, Record
<1>4. CASE Build
  <2>1. worker = "none" /\ LastSent' # "finished" /\ UNCHANGED queue
    BY <1>4, <1>a DEF Build, Raise
  <2>2. SentinelLast'
    BY <2>1 DEF SentinelLast
  <2>. QED
    BY <1>4, <2>1, <2>2 DEF Build, Raise
<1>5. CASE Poll
  BY <1>5, <1>a, <1>b DEF Poll
<1>6. CASE Take
  <2>1. /\ queue \in Seq({"tool", "source", "final", "DONE"}) /\ queue # <<>>
        /\ queue' = Tail(queue) /\ worker' = worker /\ LastSent # "finished"
    BY <1>6 DEF Take, RestOK
  <2>2. /\ Len(queue') = Len(queue) - 1 /\ Len(queue) \in Nat \ {0}
        /\ \A i \in 1..Len(queue') : queue'[i] = queue[i + 1]
    BY <2>1
  <2>3. SentinelLast'
    <3>. SUFFICES ASSUME NEW i \in 1..Len(queue'), queue'[i] = "DONE"
                  PROVE  i = Len(queue') /\ worker' = "done"
      BY DEF SentinelLast
    <3>1. queue[i + 1] = "DONE" /\ i + 1 \in 1..Len(queue)
      BY <2>2
    <3>2. i + 1 = Len(queue) /\ worker = "done"
      BY <3>1 DEF SentinelLast
    <3>3. i = Len(queue')
      BY <2>2, <3>2
    <3>. QED
      BY <2>1, <3>2, <3>3
  <2>4. CASE Head(queue) = "DONE"
    <3>1. 1 \in 1..Len(queue) /\ queue[1] = "DONE"
      BY <2>1, <2>2, <2>4
    <3>2. Len(queue) = 1 /\ worker = "done"
      BY <3>1 DEF SentinelLast
    <3>3. queue' = <<>> /\ worker = "done"
      BY <2>1, <3>2
    <3>4. Goto("join")
      BY <1>6, <2>4 DEF Take
    <3>. QED
      BY <2>1, <2>3, <3>3, <3>4, <1>a
  <2>5. CASE Head(queue) = "source"
    <3>1. Goto("record")
      BY <1>6, <2>5 DEF Take
    <3>. QED
      BY <2>1, <2>3, <3>1, <1>a
  <2>6. CASE Head(queue) \notin {"DONE", "source"}
    <3>1. Yield(<<"body">>, "poll")
      BY <1>6, <2>6 DEF Take
    <3>. QED
      BY <2>1, <2>3, <3>1, YieldSends, <1>c
  <2>. QED
    BY <2>4, <2>5, <2>6
<1>7. CASE Join \/ Reap
  <2>1. CASE Raise
    BY <1>7, <2>1, <1>a, <1>b DEF Join, Reap, Raise
  <2>2. CASE ~Raise
    <3>1. PICK l : Yield(<<"body", "body">>, l) /\ (l = "settleFailed" \/ pc = "join")
                   /\ l \in {"settleCompleted", "settleFailed"}
      BY <1>7, <2>2 DEF Join, Reap
    <3>. QED
      BY <1>7, <3>1, YieldSends, <1>b, <1>c DEF Join, Reap
  <2>. QED
    BY <2>1, <2>2
<1>8. CASE Resume
  <2>1. CASE todo = <<>>
    BY <1>8, <2>1, <1>a, <1>b DEF Resume, StreamOK, Targets
  <2>2. CASE todo # <<>>
    <3>1. \E e \in {"body", "error"} : \E rest : Sends(e, rest, after)
      BY <1>8, <2>2, YieldSends DEF Resume, LastInv, Errors
    <3>. QED
      BY <1>8, <3>1, <1>b, <1>c DEF Resume
  <2>. QED
    BY <2>1, <2>2
<1>9. CASE Settle
  BY <1>9, <1>a, <1>b DEF Settle
<1>10. CASE Report
  <2>1. CASE after = "settleCompleted"
    BY <1>10, <2>1, <1>b, YieldGoes DEF Report
  <2>2. CASE after \in {"settleFailed", "fallback"}
    <3>1. \E e \in {"body", "error"} : \E rest : Sends(e, rest, "ended")
      BY <1>10, <2>2, YieldSends DEF Report
    <3>. QED
      BY <1>10, <3>1, <1>b, <1>c DEF Report
  <2>. QED
    BY <1>10, <2>1, <2>2 DEF Report, StreamOK
<1>11. CASE CancelSettled \/ RunTimeout \/ Drop
  BY <1>11, <1>a, <1>b DEF CancelSettled, RunTimeout, Drop
<1>12. CASE ClientLeaves \/ SettlerStep
  BY <1>12, <1>a, <1>b DEF ClientLeaves, SettlerStep
<1>13. CASE Cancelled \/ Escapes \/ SettleBound
  BY <1>13, <1>a, <1>b DEF Cancelled, Escapes, SettleBound
<1>14. CASE Worker
  BY <1>14, <1>a, PublishStep DEF Worker
<1>15. CASE UNCHANGED vars
  BY <1>15, <1>a, <1>b DEF vars
<1>. QED
  BY <1>1, <1>2, <1>3, <1>4, <1>5, <1>6, <1>7, <1>8, <1>9, <1>10, <1>11, <1>12, <1>13,
     <1>14, <1>15 DEF Next, Coordinator

LEMMA DrainInit == ASSUME Init PROVE StreamInv /\ DrainInv
<1>1. SentinelLast /\ LastSent = "none"
  BY DEF Init, SentinelLast, LastSent
<1>. QED
  BY <1>1, StreamInvInit DEF Init, DrainInv, DrainedBeforeFinish, Drained, At

\* RUN_FINISHED follows everything the worker published, whatever fails and however many
\* tools are called.
THEOREM FinishIsLast == Spec => []DrainedBeforeFinish
<1>1. Init => StreamInv /\ DrainInv
  BY DrainInit
<1>2. StreamInv /\ DrainInv /\ [Next]_vars => (StreamInv /\ DrainInv)'
  BY StreamInvStep, DrainStep DEF StreamInv
<1>3. DrainInv => DrainedBeforeFinish
  BY DEF DrainInv
<1>. QED
  BY <1>1, <1>2, <1>3, PTL DEF Spec

-----------------------------------------------------------------------------
(* The worker after the stream                                             *)

\* Away from the loop that drains the bus, the worker has not begun, has ended, or has
\* been told to stop.
ToolInv == At \notin {"poll", "take", "record"} => token \/ worker \in {"none", "done"}

LEMMA ToolStep ==
    ASSUME StreamInv, DrainInv, ToolInv, [Next]_vars, Mishaps \cap {"record", "drop"} = {}
    PROVE  ToolInv'
<1>. USE DEF ToolInv, DrainInv, Drained, At, wireVars, workerVars, Goto
<1>1. CASE Preflight \/ MarkRunning \/ MarkRunningFails
  BY <1>1 DEF Preflight, MarkRunning, MarkRunningFails, Raise
<1>2. CASE FirstPoll \/ LoadHistory \/ Build
  BY <1>2, YieldGoes DEF FirstPoll, LoadHistory, Build, Raise
<1>3. CASE Poll
  BY <1>3 DEF Poll
<1>4. CASE Take
  <2>1. DrainInv'
    BY DrainStep DEF StreamInv
  <2>2. CASE Goto("join")
    BY <2>1, <2>2
  <2>3. CASE Goto("record") \/ Yield(<<"body">>, "poll")
    BY <2>3, YieldGoes
  <2>. QED
    BY <1>4, <2>2, <2>3 DEF Take
<1>5. CASE Record
  BY <1>5, YieldGoes DEF Record
<1>6. CASE Join \/ Reap \/ Resume \/ Report
  BY <1>6, YieldGoes DEF Join, Reap, Resume, Report, Raise, StreamInv, StreamOK, Targets
<1>7. CASE Settle \/ CancelSettled \/ RunTimeout \/ ClientLeaves \/ SettlerStep
  BY <1>7 DEF Settle, CancelSettled, RunTimeout, ClientLeaves, SettlerStep
<1>8. CASE Cancelled
  BY <1>8 DEF Cancelled
<1>9. CASE Escapes \/ SettleBound
  BY <1>9 DEF Escapes, SettleBound, Unguarded
<1>10. CASE Worker
  BY <1>10 DEF Worker, ToolCheck, ToolStart, ToolEnd, EngineEnds
<1>11. CASE UNCHANGED vars
  BY <1>11 DEF vars
<1>. QED
  BY <1>1, <1>2, <1>3, <1>4, <1>5, <1>6, <1>7, <1>8, <1>9, <1>10, <1>11
     DEF Next, Coordinator, Drop

\* No tool is called once the stream has ended, however it ended, unless recording a
\* source fails or the consumer drops the generator: on these two ways out the code
\* does not set the token.
THEOREM NoToolsAfterwards ==
    Mishaps \cap {"record", "drop"} = {} => (Spec => NoToolAfterEnd)
<1>. SUFFICES ASSUME Mishaps \cap {"record", "drop"} = {} PROVE Spec => NoToolAfterEnd
  OBVIOUS
<1>. DEFINE Inv == StreamInv /\ DrainInv /\ ToolInv
<1>1. Init => Inv
  <2>1. Init => StreamInv /\ DrainInv
    BY DrainInit
  <2>2. Init => ToolInv
    BY DEF Init, ToolInv
  <2>. QED
    BY <2>1, <2>2
<1>2. Inv /\ [Next]_vars => Inv'
  BY StreamInvStep, DrainStep, ToolStep DEF StreamInv
<1>3. Inv /\ [Next]_vars => [calls' # calls => pc # "ended"]_vars
  <2>. SUFFICES ASSUME ToolInv, Next, calls' # calls PROVE pc # "ended"
    OBVIOUS
  <2>1. ToolCheck /\ ~token
    BY DEF Next, Coordinator, workerVars, Preflight, MarkRunning, MarkRunningFails, FirstPoll,
           LoadHistory, Build, Poll, Take, Record, Join, Reap, Resume, Settle, Report,
           CancelSettled, RunTimeout, Drop, ClientLeaves, Cancelled, Escapes, SettleBound,
           SettlerStep, Worker, ToolCheck, ToolStart, ToolEnd, EngineEnds
  <2>. QED
    BY <2>1 DEF ToolCheck, ToolInv, At
<1>. QED
  BY <1>1, <1>2, <1>3, PTL DEF Spec, NoToolAfterEnd

=============================================================================
