------------------------------ MODULE LiveRun ------------------------------
(***************************************************************************)
(* One live agent run: LiveDSPyCoordinator.stream, an async generator on   *)
(* the event loop, with the engine's worker thread, the event bus between  *)
(* them, the client that may go away, the run timeout and the task that    *)
(* settles a cancelled run.                                                *)
(*                                                                         *)
(* pc names the await, or the yield, at which the generator is suspended;  *)
(* one action is what it does from there to the next one.  Cancellation is *)
(* level-triggered: once the client is gone, any await may raise.  A yield *)
(* is different: the consumer, not the generator, is cancelled there, and  *)
(* the generator is dropped.                                               *)
(*                                                                         *)
(* The engine is the routed one, whose worker outlives its cancellation    *)
(* (the engine task ends when the worker does).                            *)
(***************************************************************************)
EXTENDS Naturals, Sequences

CONSTANTS
    MaxCalls,   \* bound: tool calls of the run
    Results,    \* what the engine may end with: completed, failed, raised
    Mishaps     \* what else may happen in this instance

ASSUME InstanceShape ==
    /\ MaxCalls \in Nat
    /\ Results \subseteq {"completed", "failed", "raised"}
    /\ Mishaps \subseteq {"preflight", "mark", "history", "build", "record",
                          "settle", "slow", "timeout", "drop"}

VARIABLES
    pc, todo, after,   \* the generator; the events it yields next, and then
    wire,              \* the events handed to the client
    row, snap,         \* the run row and the status in its stored snapshot
    public,            \* reducer.state["run"]["status"]
    queue,             \* the event bus
    worker, calls,     \* the engine's thread and the tool calls it made
    result,            \* what the engine task returned
    token,             \* the cancel token is set
    gone,              \* the client has disconnected
    timer,             \* asyncio.timeout(run_timeout_s)
    settler,           \* the task running settle_cancelled
    settled, emitted   \* terminal_settled, terminal_emitted

vars == <<pc, todo, after, wire, row, snap, public, queue, worker, calls,
          result, token, gone, timer, settler, settled, emitted>>

wireVars   == <<todo, after, wire>>
dbVars     == <<row, snap>>
workerVars == <<queue, worker, calls, result>>
flags      == <<settled, emitted>>

Live(status) == status \in {"queued", "running"}
Outcomes     == {"completed", "failed", "cancelled"}

\* Awaits inside the try block, whose CancelledError its handler catches.
Guarded == {"marking", "polling", "history", "poll", "take", "record",
            "settling0", "settling", "settleCompleted", "settleFailed"}
\* Awaits whose CancelledError leaves the generator.
Unguarded == {"entry", "fallback", "cancelling", "waiting"}

TypeOK ==
    /\ pc \in Guarded \cup Unguarded \cup {"yield", "build", "join", "reaping",
                                 "report", "ended"}
    /\ todo \in Seq({"body", "error"}) /\ wire \in Seq({"started", "body", "finished", "error"})
    /\ after \in {"none", "history", "build", "poll", "settleCompleted",
                  "settleFailed", "fallback", "ended"}
    /\ row \in {"queued", "running"} \cup Outcomes
    /\ snap \in {"queued", "running"} \cup Outcomes
    /\ public \in {"running"} \cup Outcomes
    /\ queue \in Seq({"tool", "source", "final", "DONE"})
    /\ worker \in {"none", "ready", "checked", "tool", "done"} /\ calls \in 0..MaxCalls
    /\ result \in Results \cup {"none", "raised"}
    /\ token \in BOOLEAN /\ gone \in BOOLEAN
    /\ settled \in BOOLEAN /\ emitted \in BOOLEAN
    /\ timer \in {"off", "armed"}
    /\ settler \in {"none", "try", "retry", "done", "killed"}

-----------------------------------------------------------------------------
(* Helpers                                                                 *)

Goto(l) == pc' = l /\ UNCHANGED wireVars

\* Yield the events of s one by one, then go on at l.
Yield(s, l) ==
    /\ pc' = "yield" /\ after' = l
    /\ wire' = Append(wire, Head(s)) /\ todo' = Tail(s)

\* Mutant of Commit: a settlement does not look at the row it settles.
CommitAlways(outcome) == row' = outcome /\ snap' = public

\* A settlement writes the row and its snapshot only while the run is live;
\* the reducer's state is read as it is when the write happens.
Commit(outcome) ==
    IF Live(row) THEN row' = outcome /\ snap' = public
                 ELSE UNCHANGED dbVars

\* Mutant of StartSettler: the public state is not brought up to date.
StartSettlerOnly == settler' = "try" /\ UNCHANGED public

\* asyncio.create_task(settle_cancelled()).
StartSettler ==
    settler' = "try" /\ public' = "cancelled"

\* Mutant of Raise: the error is reported and not settled.
RaiseReportsFirst ==
    /\ timer' = "off" /\ public' = "failed"
    /\ pc' = "report" /\ after' = "fallback" /\ UNCHANGED <<todo, wire>>

\* Mutant of Raise: the exception ends the stream.
RaiseSilently == timer' = "off" /\ Goto("ended") /\ public' = "failed"

\* except Exception: the fallback settles first and then reports.
Raise ==
    /\ timer' = "off"
    /\ IF emitted \/ settled
       THEN Goto("ended") /\ UNCHANGED public
       ELSE Goto("fallback") /\ public' = "failed"

-----------------------------------------------------------------------------
(* Before the engine starts                                                *)

\* get_run, get_latest_state: before the try block.
Preflight ==
    /\ pc = "entry"
    /\ \/ Goto("marking")
       \/ "preflight" \in Mishaps /\ Goto("ended")
    /\ UNCHANGED <<dbVars, public, workerVars, token, gone, timer, settler, flags>>

MarkRunning ==
    /\ pc = "marking"
    /\ row' = IF row = "queued" THEN "running" ELSE row
    /\ snap' = public
    /\ Goto("polling")
    /\ UNCHANGED <<public, workerVars, token, gone, timer, settler, flags>>

MarkRunningFails ==
    /\ pc = "marking" /\ "mark" \in Mishaps
    /\ Raise
    /\ UNCHANGED <<dbVars, workerVars, token, gone, settler, flags>>

FirstPoll ==
    /\ pc = "polling"
    /\ IF gone
       THEN Goto("settling0") /\ StartSettler
       ELSE /\ Yield(<<"started", "body", "body">>, "history")
            /\ UNCHANGED <<settler, public>>
    /\ UNCHANGED <<dbVars, workerVars, token, gone, timer, flags>>

LoadHistory ==
    /\ pc = "history"
    /\ \/ Yield(<<"body">>, "build") /\ UNCHANGED <<public, timer>>
       \/ "history" \in Mishaps /\ Raise
    /\ UNCHANGED <<dbVars, workerVars, token, gone, settler, flags>>

\* Build the engine, create its task and enter the timeout.
Build ==
    /\ pc = "build"
    /\ \/ /\ worker' = "ready" /\ timer' = "armed"
          /\ Goto("poll") /\ UNCHANGED public
       \/ "build" \in Mishaps /\ Raise /\ UNCHANGED worker
    /\ UNCHANGED <<dbVars, queue, calls, result, token, gone, settler, flags>>

-----------------------------------------------------------------------------
(* Draining the bus                                                        *)

Poll ==
    /\ pc = "poll"
    /\ IF gone
       THEN token' = TRUE /\ Goto("settling") /\ StartSettler
       ELSE Goto("take") /\ UNCHANGED <<token, settler, public>>
    /\ UNCHANGED <<dbVars, workerVars, gone, timer, flags>>

\* Sources are recorded in the database before they are sent.
Take ==
    /\ pc = "take" /\ queue # <<>>
    /\ queue' = Tail(queue)
    /\ CASE Head(queue) = "DONE"   -> Goto("join")
         [] Head(queue) = "source" -> Goto("record")
         [] OTHER                  -> Yield(<<"body">>, "poll")
    /\ UNCHANGED <<dbVars, public, worker, calls, result, token, gone, timer,
                   settler, flags>>

Record ==
    /\ pc = "record"
    /\ \/ Yield(<<"body">>, "poll") /\ UNCHANGED <<public, timer>>
       \/ "record" \in Mishaps /\ Raise
    /\ UNCHANGED <<dbVars, workerVars, token, gone, settler, flags>>

\* Mutant of Join: an exception of the engine passes for a result.
JoinAnyResult ==
    /\ pc = "join" /\ worker = "done"
    /\ timer' = "off" /\ public' = result
    /\ Yield(<<"body", "body">>,
             IF result = "completed" THEN "settleCompleted" ELSE "settleFailed")
    /\ UNCHANGED <<dbVars, workerVars, token, gone, settler, flags>>

\* result = await engine_task, which is done, then complete_public_state.
Join ==
    /\ pc = "join" /\ worker = "done"
    /\ \/ result = "raised" /\ Raise
       \/ /\ result # "raised"
          /\ timer' = "off" /\ public' = result
          /\ Yield(<<"body", "body">>,
                   IF result = "completed" THEN "settleCompleted" ELSE "settleFailed")
    /\ UNCHANGED <<dbVars, workerVars, token, gone, settler, flags>>

\* The timeout may fire at any await of the loop, also while the loop settles
\* a disconnect; the settling task is shielded from it.
RunTimeout ==
    /\ "timeout" \in Mishaps
    /\ timer = "armed" /\ pc \in {"poll", "take", "record", "settling"}
    /\ timer' = "off" /\ token' = TRUE
    /\ Goto("reaping")
    /\ UNCHANGED <<dbVars, public, workerVars, gone, settler, flags>>

\* Mutant of Reap: the bus must be drained as well.
ReapDrained ==
    /\ pc = "reaping"
    /\ worker = "done" /\ queue = <<>>
    /\ public' = "failed"
    /\ Yield(<<"body", "body">>, "settleFailed")
    /\ UNCHANGED <<dbVars, workerVars, token, gone, timer, settler, flags>>

\* Wait for the engine task; a cancellation meanwhile only ends the wait.
Reap ==
    /\ pc = "reaping"
    /\ worker = "done" \/ gone
    /\ public' = "failed"
    /\ Yield(<<"body", "body">>, "settleFailed")
    /\ UNCHANGED <<dbVars, workerVars, token, gone, timer, settler, flags>>

-----------------------------------------------------------------------------
(* Yields and terminal settlement                                          *)

\* The consumer asks for the next event.
Resume ==
    /\ pc = "yield"
    /\ IF todo = <<>> THEN Goto(after) ELSE Yield(todo, after)
    /\ UNCHANGED <<dbVars, public, workerVars, token, gone, timer, settler, flags>>

\* A consumer cancelled between two events never asks again.
Drop ==
    /\ "drop" \in Mishaps /\ pc = "yield"
    /\ gone \/ (timer = "armed" /\ "timeout" \in Mishaps)
    /\ Goto("ended") /\ timer' = "off"
    /\ UNCHANGED <<dbVars, public, workerVars, token, gone, settler, flags>>

OutcomeAt(at) == IF at = "settleCompleted" THEN "completed" ELSE "failed"

\* _settle_with_retry.  A failed attempt may have committed; two may fail and
\* leave the run live, which is logged and nothing else.
Settle ==
    /\ pc \in {"settleCompleted", "settleFailed", "fallback"}
    /\ \/ Commit(OutcomeAt(pc))
       \/ "settle" \in Mishaps /\ UNCHANGED dbVars
    /\ pc' = "report" /\ after' = pc
    /\ UNCHANGED <<todo, wire, public, workerVars, token, gone, timer, settler, flags>>

\* The terminal event follows without another await.
Report ==
    /\ pc = "report"
    /\ settled' = TRUE /\ emitted' = TRUE
    /\ Yield(CASE after = "settleCompleted" -> <<"finished">>
               [] after = "settleFailed"    -> <<"error">>
               [] after = "fallback"        -> <<"body", "body", "error">>,
             "ended")
    /\ UNCHANGED <<dbVars, public, workerVars, token, gone, timer, settler>>

-----------------------------------------------------------------------------
(* Cancellation                                                            *)

ClientLeaves ==
    /\ ~gone /\ pc # "ended"
    /\ gone' = TRUE
    /\ UNCHANGED <<pc, wireVars, dbVars, public, workerVars, token, timer, settler, flags>>

\* What an interrupted write may have stored nevertheless.
Interrupted ==
    \/ UNCHANGED dbVars
    \/ pc = "marking" /\ row' = "running" /\ snap' = public
    \/ pc \in {"settleCompleted", "settleFailed", "fallback"} /\ Commit(OutcomeAt(pc))

\* Mutant of Cancelled: the worker is not told.
CancelledQuietly ==
    /\ gone /\ pc \in Guarded
    /\ Interrupted
    /\ timer' = "off"
    /\ IF settler = "none"
       THEN Goto("cancelling") /\ StartSettler
       ELSE Goto("waiting") /\ UNCHANGED <<settler, public>>
    /\ UNCHANGED <<workerVars, token, gone, flags>>

\* except CancelledError.  Only the first call of settle_cancelled settles;
\* a later one waits for it and finds the run settled.
Cancelled ==
    /\ gone /\ pc \in Guarded
    /\ Interrupted
    /\ token' = TRUE /\ timer' = "off"
    /\ IF settler = "none"
       THEN Goto("cancelling") /\ StartSettler
       ELSE Goto("waiting") /\ UNCHANGED <<settler, public>>
    /\ UNCHANGED <<workerVars, gone, flags>>

\* Before the try block, in its handlers: nothing catches the cancellation.
Escapes ==
    /\ gone /\ pc \in Unguarded
    /\ Interrupted
    /\ Goto("ended")
    /\ UNCHANGED <<public, workerVars, token, gone, timer, settler, flags>>

\* One attempt of the settling task; it stops after the second.
SettlerStep ==
    /\ settler \in {"try", "retry"}
    /\ \/ Commit("cancelled") /\ settler' = "done"
       \/ /\ "settle" \in Mishaps
          /\ settler' = IF settler = "try" THEN "retry" ELSE "done"
          /\ UNCHANGED dbVars
    /\ settled' = (settler' = "done" \/ settled)
    /\ UNCHANGED <<pc, wireVars, public, workerVars, token, gone, timer, emitted>>

\* settle_cancelled_bounded returns, and with it the generator.
CancelSettled ==
    /\ pc \in {"settling0", "settling", "cancelling", "waiting"} /\ settler = "done"
    /\ Goto("ended") /\ timer' = "off"
    /\ UNCHANGED <<dbVars, public, workerVars, token, gone, settler, flags>>

\* After two seconds the waiter kills the settling task it created itself.
SettleBound ==
    /\ "slow" \in Mishaps
    /\ pc \in {"settling0", "settling", "cancelling", "waiting"}
    /\ settler \in {"try", "retry"}
    /\ IF pc = "waiting"
       THEN UNCHANGED <<settler, dbVars>>
       ELSE /\ settler' = "killed"
            /\ UNCHANGED dbVars \/ Commit("cancelled")
    /\ Goto("ended") /\ timer' = "off"
    /\ UNCHANGED <<public, workerVars, token, gone, flags>>

-----------------------------------------------------------------------------
(* The worker thread                                                       *)

Publish(s) == queue' = queue \o s

\* Mutant of Finish: the sentinel overtakes the final event.
FinishOvertaken(res) ==
    /\ worker' = "done" /\ result' = res
    /\ Publish(IF res = "completed" THEN <<"DONE", "final">> ELSE <<"DONE">>)

Finish(res) ==
    /\ worker' = "done" /\ result' = res
    /\ Publish(IF res = "completed" THEN <<"final", "DONE">> ELSE <<"DONE">>)

\* on_tool_start checks the token; the tool is announced and runs later.
ToolCheck ==
    /\ worker = "ready" /\ calls < MaxCalls
    /\ IF token
       THEN Finish("raised") /\ UNCHANGED calls
       ELSE /\ worker' = "checked" /\ calls' = calls + 1
            /\ UNCHANGED <<queue, result>>

ToolStart == worker = "checked" /\ worker' = "tool" /\ Publish(<<"tool">>)
             /\ UNCHANGED <<calls, result>>

\* on_tool_end reports the outcome and the sources, unless the run is cancelled.
ToolEnd ==
    /\ worker = "tool" /\ worker' = "ready"
    /\ Publish(IF token THEN <<>> ELSE <<"tool", "source">>)
    /\ UNCHANGED <<calls, result>>

EngineEnds == worker = "ready" /\ (\E res \in Results : Finish(res)) /\ UNCHANGED calls

Worker ==
    /\ ToolCheck \/ ToolStart \/ ToolEnd \/ EngineEnds
    /\ UNCHANGED <<pc, wireVars, dbVars, public, token, gone, timer, settler, flags>>

-----------------------------------------------------------------------------

Init ==
    /\ pc = "entry" /\ todo = <<>> /\ after = "none" /\ wire = <<>>
    /\ row = "queued" /\ snap = "queued" /\ public = "running"
    /\ queue = <<>> /\ worker = "none" /\ calls = 0 /\ result = "none"
    /\ token = FALSE /\ gone = FALSE /\ timer = "off"
    /\ settler = "none" /\ settled = FALSE /\ emitted = FALSE

\* What the generator does on its own, without mishap or cancellation.
Coordinator ==
    \/ Preflight \/ MarkRunning \/ FirstPoll \/ LoadHistory \/ Build
    \/ Poll \/ Take \/ Record \/ Join \/ Reap \/ Resume \/ Settle \/ Report
    \/ CancelSettled

Next ==
    \/ Coordinator \/ MarkRunningFails \/ RunTimeout \/ Drop
    \/ ClientLeaves \/ Cancelled \/ Escapes \/ SettleBound
    \/ SettlerStep \/ Worker

Spec == Init /\ [][Next]_vars

\* The event loop keeps scheduling ready tasks and timers, and a consumer that
\* is not dropped keeps asking for events.
LoopFairness ==
    /\ WF_vars(Coordinator) /\ WF_vars(SettlerStep) /\ WF_vars(RunTimeout)

\* Every provider and tool call returns.
WorkerFairness == WF_vars(Worker)

FairSpec == Spec /\ LoopFairness /\ WorkerFairness

-----------------------------------------------------------------------------
(* Properties                                                              *)

LastSent == IF wire = <<>> THEN "none" ELSE wire[Len(wire)]

\* What the client sees is a run of the contract: opened once, closed at most
\* once, never contradicting the stored outcome, which is written once.
Promise == INSTANCE RunContract
KeepsContract == Promise!Contract

\* RUN_FINISHED comes after everything the worker published: the sentinel
\* close_from_loop schedules never overtakes an event.
DrainedBeforeFinish ==
    LastSent = "finished" => queue = <<>> /\ worker = "done"

\* With a database that answers, the outcome is stored before the client is
\* told, and before the flag is set that keeps others from settling the run.
DurableBeforeTerminal == settled \/ LastSent \in {"finished", "error"} => ~Live(row)

\* A settled run's snapshot shows the outcome the run was settled with.
SnapshotMatchesRow == ~Live(row) => snap = row

\* No tool starts once the stream of its run has ended.
NoToolAfterEnd == [][calls' # calls => pc # "ended"]_vars

\* The generator comes to its end, whatever happens to client and database.
Ends == <>(pc = "ended")

\* A client that stays receives a terminal event.
Answered == <>(gone \/ LastSent \in {"finished", "error"})
=============================================================================
