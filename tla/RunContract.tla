---------------------------- MODULE RunContract ----------------------------
(***************************************************************************)
(* What a client of POST /agent may rely on: the event stream opens with   *)
(* RUN_STARTED or is a RUN_ERROR alone, it carries at most one terminal    *)
(* event and nothing after it, and the terminal event never contradicts    *)
(* the stored outcome of the run, which is written once.                   *)
(***************************************************************************)
EXTENDS Sequences

VARIABLES
    wire,   \* the events sent so far: started, body, finished, error
    row     \* the stored status of the run

Terminal == {"finished", "error"}
Outcomes == {"completed", "failed", "cancelled"}

Open   == wire # <<>> /\ wire[Len(wire)] \notin Terminal
Send(e) == wire' = Append(wire, e) /\ UNCHANGED row

ContractInit == wire = <<>> /\ row \in {"queued", "running"}

Start  == wire = <<>> /\ Send("started")
Body   == Open /\ Send("body")
Finish == Open /\ row \notin {"failed", "cancelled"} /\ Send("finished")
Fail   == (Open \/ wire = <<>>) /\ row # "completed" /\ Send("error")

\* A run starts and is settled; a settlement of the other kind cannot follow
\* the terminal event the client has seen.
Run == row = "queued" /\ row' = "running" /\ UNCHANGED wire
Settle(o) ==
    /\ row \notin Outcomes
    /\ row' = o
    /\ wire # <<>> /\ wire[Len(wire)] = "finished" => o = "completed"
    /\ wire # <<>> /\ wire[Len(wire)] = "error" => o # "completed"
    /\ UNCHANGED wire

ContractNext == Start \/ Body \/ Finish \/ Fail \/ Run \/ \E o \in Outcomes : Settle(o)

Contract == ContractInit /\ [][ContractNext]_<<wire, row>>
=============================================================================
