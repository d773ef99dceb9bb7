------------------------------ MODULE Admission ------------------------------
(***************************************************************************)
(* How POST /agent admits engine-mode runs: the preflight reads, the       *)
(* semaphore that caps concurrent runs, the reservation that makes a run   *)
(* id unique, and the response generator whose finally block returns the   *)
(* permit.                                                                 *)
(***************************************************************************)
EXTENDS Naturals, FiniteSets

CONSTANTS
    Requests,
    RunIds,
    RunOf,      \* the run id each request carries; retries share one
    Capacity,   \* settings.max_concurrent_runs
    Mishaps     \* db: the database may fail; unstarted: see NeverStarted;
                \* disconnect: clients may leave a stream

ASSUME AdmissionShape ==
    /\ IsFiniteSet(Requests) /\ RunOf \in [Requests -> RunIds]
    /\ Capacity \in Nat \ {0}
    /\ Mishaps \subseteq {"db", "unstarted", "disconnect"}

VARIABLES
    pc,        \* where each request is
    permits,   \* the semaphore's counter
    rows,      \* run ids with a row
    engine     \* the worker thread of each request's engine

vars == <<pc, permits, rows, engine>>

TypeOK ==
    /\ pc \in [Requests -> {"preflight", "acquire", "reserve", "start",
                            "stream", "streamed", "unstarted", "404", "409",
                            "422", "429", "503"}]
    /\ permits \in Nat
    /\ rows \subseteq RunIds
    /\ engine \in [Requests -> {"none", "running", "ended"}]

Init ==
    /\ pc = [q \in Requests |-> "preflight"]
    /\ permits = Capacity /\ rows = {}
    /\ engine = [q \in Requests |-> "none"]

Goto(q, l) == pc' = [pc EXCEPT ![q] = l]

\* Before a permit is held: the provider headers are parsed (a request with bad
\* ones ends with 422), then thread and run are looked up.
Preflight(q) ==
    /\ pc[q] = "preflight"
    /\ \/ Goto(q, "422")
       \/ Goto(q, "404")
       \/ "db" \in Mishaps /\ Goto(q, "503")
       \/ Goto(q, IF RunOf[q] \in rows THEN "409" ELSE "acquire")
    /\ UNCHANGED <<permits, rows, engine>>

\* Mutant of Acquire: a permit is taken that is not there.
AcquireUnguarded(q) ==
    /\ pc[q] = "acquire"
    /\ permits' = permits - 1
    /\ Goto(q, "reserve")
    /\ UNCHANGED <<rows, engine>>

Acquire(q) ==
    /\ pc[q] = "acquire" /\ permits > 0
    /\ permits' = permits - 1
    /\ Goto(q, "reserve")
    /\ UNCHANGED <<rows, engine>>

\* No permit within a tenth of a second.
Saturated(q) ==
    /\ pc[q] = "acquire" /\ permits = 0
    /\ Goto(q, "429")
    /\ UNCHANGED <<permits, rows, engine>>

\* Mutant of Reserve: the run id is not unique.
ReserveTwice(q) ==
    /\ pc[q] = "reserve"
    /\ rows' = rows \cup {RunOf[q]}
    /\ Goto(q, "start")
    /\ UNCHANGED <<permits, engine>>

\* reserve_run; the run id is a primary key.
Reserve(q) ==
    /\ pc[q] = "reserve" /\ RunOf[q] \notin rows
    /\ rows' = rows \cup {RunOf[q]}
    /\ Goto(q, "start")
    /\ UNCHANGED <<permits, engine>>

\* A RunReservationError (the row exists, or another of its checks fails).
ReserveConflicts(q) ==
    /\ pc[q] = "reserve"
    /\ permits' = permits + 1
    /\ Goto(q, "409")
    /\ UNCHANGED <<rows, engine>>

\* Mutant of ReserveFails: the permit is not returned.
ReserveFailsHolding(q) ==
    /\ "db" \in Mishaps /\ pc[q] = "reserve"
    /\ rows' \in {rows, rows \cup {RunOf[q]}}
    /\ Goto(q, "503")
    /\ UNCHANGED <<permits, engine>>

\* Mutant of ReserveFails: the permit is returned twice.
ReserveFailsTwice(q) ==
    /\ "db" \in Mishaps /\ pc[q] = "reserve"
    /\ permits' = permits + 2
    /\ rows' \in {rows, rows \cup {RunOf[q]}}
    /\ Goto(q, "503")
    /\ UNCHANGED engine

\* Any other error; the row may have been committed nevertheless.
ReserveFails(q) ==
    /\ "db" \in Mishaps /\ pc[q] = "reserve"
    /\ permits' = permits + 1
    /\ rows' \in {rows, rows \cup {RunOf[q]}}
    /\ Goto(q, "503")
    /\ UNCHANGED engine

\* The server asks gated() for its first event.
StartStream(q) ==
    /\ pc[q] = "start"
    /\ Goto(q, "stream")
    /\ UNCHANGED <<permits, rows, engine>>

\* The client is gone while the response headers are sent: the response task is
\* cancelled before it has asked for an event, and a generator that was never
\* started runs no finally block.
NeverStarted(q) ==
    /\ "unstarted" \in Mishaps /\ pc[q] = "start"
    /\ Goto(q, "unstarted")
    /\ UNCHANGED <<permits, rows, engine>>

EngineStarts(q) ==
    /\ pc[q] = "stream" /\ engine[q] = "none"
    /\ engine' = [engine EXCEPT ![q] = "running"]
    /\ UNCHANGED <<pc, permits, rows>>

EngineEnds(q) ==
    /\ engine[q] = "running"
    /\ engine' = [engine EXCEPT ![q] = "ended"]
    /\ UNCHANGED <<pc, permits, rows>>

\* Mutant of StreamEnds: it waits for an engine that may never start.
StreamAwaitsEngine(q) ==
    /\ pc[q] = "stream" /\ engine[q] = "ended"
    /\ permits' = permits + 1
    /\ Goto(q, "streamed")
    /\ UNCHANGED <<rows, engine>>

\* The stream is exhausted, cancelled or dropped.  Without a disconnect it ends
\* after its engine; a disconnect does not wait for the worker.
StreamEnds(q) ==
    /\ pc[q] = "stream"
    /\ engine[q] # "running" \/ "disconnect" \in Mishaps
    /\ permits' = permits + 1
    /\ Goto(q, "streamed")
    /\ UNCHANGED <<rows, engine>>

Handle(q) ==
    \/ Preflight(q) \/ Acquire(q) \/ Saturated(q)
    \/ Reserve(q) \/ ReserveConflicts(q) \/ ReserveFails(q)
    \/ StartStream(q) \/ NeverStarted(q) \/ StreamEnds(q)

Next == \E q \in Requests : Handle(q) \/ EngineStarts(q) \/ EngineEnds(q)

Spec == Init /\ [][Next]_vars

\* Handlers are scheduled and engines end.
FairSpec == /\ Spec
            /\ \A q \in Requests : /\ WF_vars(Handle(q))
                                   /\ WF_vars(EngineEnds(q))

-----------------------------------------------------------------------------
(* Properties                                                              *)

Holding   == {"reserve", "start", "stream", "unstarted"}
Reserved  == {"start", "stream", "streamed", "unstarted"}
Answered  == {"streamed", "unstarted", "404", "409", "422", "429", "503"}

Holders   == {q \in Requests : pc[q] \in Holding}

\* Every permit is free or held by one request: none of the error paths of the
\* handler strands or duplicates one, but a response that is never started.
PermitsAccounted == permits + Cardinality(Holders) = Capacity

\* Of all requests that carry one run id, at most one ever gets a stream.
OneStreamPerRun ==
    \A p, q \in Requests :
        /\ RunOf[p] = RunOf[q]
        /\ pc[p] \in Reserved /\ pc[q] \in Reserved
        => p = q

\* No more engines run for clients that are still there than the cap allows,
\* whatever the order in which clients leave, engines end and retries arrive.
Working == {q \in Requests : engine[q] = "running" /\ pc[q] = "stream"}
EnginesCapped == Cardinality(Working) <= Capacity

\* What makes OneStreamPerRun inductive: a request past its reservation has
\* written its row.
ReservedHaveRows == \A q \in Requests : pc[q] \in Reserved => RunOf[q] \in rows

\* Every request is answered: saturation refuses, it does not queue.
EveryRequestAnswered == \A q \in Requests : <>(pc[q] \in Answered)
=============================================================================
