----------------------------- MODULE FixtureRun -----------------------------
(***************************************************************************)
(* The fixture mode of POST /agent: RunCoordinator.stream replays a script *)
(* of timed events to the client, without database, engine or timeout.     *)
(***************************************************************************)
EXTENDS Naturals, Sequences

CONSTANT Scripts   \* the fixtures: sequences of started, body and terminal events

Terminal == {"finished", "error"}

ASSUME ScriptsOpen ==
    \A s \in Scripts : /\ s \in Seq({"started", "body"} \cup Terminal)
                       /\ s # <<>> /\ Head(s) = "started"
                       /\ \A k \in 2..Len(s) : s[k] # "started"

VARIABLES
    pc,             \* poll and wait are awaits, yield and last are yields
    script,         \* the events still to come
    wire,           \* the events handed to the client
    terminal_sent,
    gone            \* the client has disconnected

vars == <<pc, script, wire, terminal_sent, gone>>

TypeOK ==
    /\ pc \in {"poll", "wait", "yield", "last", "ended"}
    /\ script \in Seq({"started", "body"} \cup Terminal)
    /\ wire \in Seq({"started", "body"} \cup Terminal)
    /\ {terminal_sent, gone} \subseteq BOOLEAN

Init ==
    /\ pc = "poll" /\ script \in Scripts /\ wire = <<>>
    /\ terminal_sent = FALSE /\ gone = FALSE

Emit(e, at) == wire' = Append(wire, e) /\ pc' = at

\* Mutant of Poll: the script is replayed to its end.
PollPastTerminal ==
    /\ pc = "poll" /\ script # <<>>
    /\ pc' = IF gone THEN "ended" ELSE "wait"
    /\ UNCHANGED <<script, wire, terminal_sent, gone>>

\* The head of the loop: a script that goes on after a terminal event is cut.
Poll ==
    /\ pc = "poll" /\ script # <<>>
    /\ pc' = IF terminal_sent \/ gone THEN "ended" ELSE "wait"
    /\ UNCHANGED <<script, wire, terminal_sent, gone>>

\* _wait_until is over: bind the ids and send the event.
SendNext ==
    /\ pc = "wait"
    /\ Emit(Head(script), "yield")
    /\ terminal_sent' = (terminal_sent \/ Head(script) \in Terminal)
    /\ script' = Tail(script)
    /\ UNCHANGED gone

\* Mutant of SendFinal: the stream ends with its script.
SendNoFinal ==
    /\ pc = "poll" /\ script = <<>> /\ pc' = "ended"
    /\ UNCHANGED <<script, wire, terminal_sent, gone>>

\* The script has ended; a script without a terminal event gets one.
SendFinal ==
    /\ pc = "poll" /\ script = <<>>
    /\ IF terminal_sent THEN pc' = "ended" /\ UNCHANGED wire
                        ELSE Emit("finished", "last")
    /\ UNCHANGED <<script, terminal_sent, gone>>

\* The generator is asked for its next event.
Resume ==
    /\ pc \in {"yield", "last"}
    /\ pc' = IF pc = "yield" THEN "poll" ELSE "ended"
    /\ UNCHANGED <<script, wire, terminal_sent, gone>>

\* except Exception: polling the client or binding and encoding an event failed.
Fails ==
    /\ pc \in {"poll", "wait"} /\ script # <<>>
    /\ IF terminal_sent
       THEN pc' = "ended" /\ UNCHANGED <<wire, terminal_sent>>
       ELSE Emit("error", "last") /\ terminal_sent' = TRUE
    /\ UNCHANGED <<script, gone>>

ClientLeaves == ~gone /\ gone' = TRUE /\ UNCHANGED <<pc, script, wire, terminal_sent>>

\* Cancelled at an await, or dropped at a yield.
Cancelled ==
    /\ gone /\ pc # "ended" /\ pc' = "ended"
    /\ UNCHANGED <<script, wire, terminal_sent, gone>>

Step == Poll \/ SendNext \/ SendFinal \/ Resume

Next == Step \/ Fails \/ ClientLeaves \/ Cancelled

Spec     == Init /\ [][Next]_vars
FairSpec == Spec /\ WF_vars(Step)

\* A fixture stream is a run of the contract that live runs keep as well;
\* nothing is stored, so the stored outcome stays open.
Promise == INSTANCE RunContract WITH row <- "running"
KeepsContract == Promise!Contract

\* A client that stays receives a terminal event, whatever the script holds.
Answered == <>(gone \/ (wire # <<>> /\ wire[Len(wire)] \in Terminal))
=============================================================================
