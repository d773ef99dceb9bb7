-------------------------- MODULE FixtureRunProofs --------------------------
(***************************************************************************)
(* Proofs for FixtureRun, for scripts of any length: every fixture stream  *)
(* is a run of the contract of a live one.                                 *)
(***************************************************************************)
EXTENDS FixtureRun, TLAPS

Replaying == pc \in {"poll", "wait", "yield"}

\* While the script is replayed it opens the stream and nothing else does, and
\* terminal_sent remembers what the client was sent last.
ReplayInv ==
    Replaying =>
        /\ \A k \in 1..Len(script) : script[k] = "started" <=> k = 1 /\ wire = <<>>
        /\ wire = <<>> => pc # "yield" /\ script # <<>>
        /\ terminal_sent <=> wire # <<>> /\ wire[Len(wire)] \in Terminal
        /\ pc = "wait" => script # <<>> /\ ~terminal_sent

FixtureInv == TypeOK /\ ReplayInv

LEMMA InitHolds == Init => FixtureInv
<1> SUFFICES ASSUME Init PROVE FixtureInv OBVIOUS
<1>1. TypeOK
  <2>1. script \in Seq({"started", "body"} \cup Terminal) BY ScriptsOpen DEF Init
  <2>2. {terminal_sent, gone} \subseteq BOOLEAN BY DEF Init
  <2>3. wire \in Seq({"started", "body"} \cup Terminal) BY DEF Init
  <2> QED BY <2>1, <2>2, <2>3 DEF Init, TypeOK
<1>2. ReplayInv
  <2>1. script \in Scripts /\ wire = <<>> /\ pc = "poll" /\ terminal_sent = FALSE
    BY DEF Init
  <2>2. /\ script \in Seq({"started", "body"} \cup Terminal) /\ script # <<>>
        /\ Head(script) = "started" /\ \A k \in 2..Len(script) : script[k] # "started"
    BY <2>1, ScriptsOpen
  <2>3. \A k \in 1..Len(script) : script[k] = "started" <=> k = 1
    BY <2>2
  <2> QED BY <2>1, <2>2, <2>3 DEF ReplayInv
<1> QED BY <1>1, <1>2 DEF FixtureInv

\* What an event sent on an open stream does to it.
LEMMA Sent ==
    ASSUME TypeOK, NEW e \in {"started", "body"} \cup Terminal, NEW at, Emit(e, at)
    PROVE  /\ wire' \in Seq({"started", "body"} \cup Terminal)
           /\ wire' # <<>> /\ wire'[Len(wire')] = e /\ pc' = at
  BY DEF TypeOK, Emit

\* Every step keeps the invariant and is one of the contract.
LEMMA StepKeeps ==
    ASSUME FixtureInv, [Next]_vars
    PROVE  FixtureInv' /\ (Promise!ContractNext \/ UNCHANGED wire)
<1> DEFINE Events == {"started", "body"} \cup Terminal
<1>t. /\ TypeOK /\ script \in Seq(Events) /\ wire \in Seq(Events)
      /\ terminal_sent \in BOOLEAN /\ gone \in BOOLEAN
  BY DEF FixtureInv, TypeOK
<1>1. CASE UNCHANGED vars
  BY <1>1 DEF vars, FixtureInv, TypeOK, ReplayInv, Replaying
<1>2. CASE Poll
  BY <1>2 DEF Poll, FixtureInv, TypeOK, ReplayInv, Replaying
<1>3. CASE SendNext
  <2> DEFINE e == Head(script)
  <2>1. /\ pc = "wait" /\ script # <<>> /\ terminal_sent = FALSE
        /\ wire = <<>> \/ wire[Len(wire)] \notin Terminal
        /\ \A k \in 1..Len(script) : script[k] = "started" <=> k = 1 /\ wire = <<>>
    BY <1>3, <1>t DEF SendNext, FixtureInv, ReplayInv, Replaying
  <2>2. e \in Events /\ e = script[1] BY <1>t, <2>1
  <2>3. e = "started" <=> wire = <<>> BY <1>t, <2>1, <2>2
  <2>4. /\ wire' \in Seq(Events) /\ wire' # <<>> /\ wire'[Len(wire')] = e
        /\ pc' = "yield" /\ wire' = Append(wire, e)
    BY <1>3, <1>t, <2>2, Sent DEF SendNext, Emit
  <2>5. /\ script' \in Seq(Events)
        /\ \A k \in 1..Len(script') : script'[k] = script[k + 1] /\ k + 1 \in 2..Len(script)
    BY <1>3, <1>t, <2>1 DEF SendNext
  <2>6. terminal_sent' = (e \in Terminal) /\ gone' = gone BY <1>3, <2>1 DEF SendNext
  <2>7. TypeOK' BY <1>t, <2>4, <2>5, <2>6 DEF TypeOK
  <2>8. ReplayInv'
    <3>1. \A k \in 1..Len(script') : script'[k] # "started" BY <2>1, <2>5
    <3> QED BY <2>4, <2>6, <3>1 DEF ReplayInv
  <2>9. Promise!ContractNext
    <3>1. CASE e = "started"
      BY <2>3, <2>4, <3>1 DEF Promise!ContractNext, Promise!Start, Promise!Send
    <3>2. CASE e # "started"
      <4>1. Promise!Open BY <2>1, <2>3, <3>2 DEF Promise!Open, Promise!Terminal, Terminal
      <4>2. e \in {"body", "finished", "error"} BY <2>2, <3>2 DEF Terminal
      <4> QED BY <2>4, <4>1, <4>2 DEF Promise!ContractNext, Promise!Body, Promise!Finish,
                                      Promise!Fail, Promise!Send
    <3> QED BY <3>1, <3>2
  <2> QED BY <2>7, <2>8, <2>9 DEF FixtureInv
<1>4. CASE SendFinal
  <2>1. wire # <<>> /\ (terminal_sent <=> wire[Len(wire)] \in Terminal)
    BY <1>4 DEF SendFinal, FixtureInv, ReplayInv, Replaying
  <2>2. CASE terminal_sent
    BY <1>4, <2>2 DEF SendFinal, FixtureInv, TypeOK, ReplayInv, Replaying
  <2>3. CASE ~terminal_sent
    <3>1. Emit("finished", "last") /\ UNCHANGED <<script, terminal_sent, gone>>
      BY <1>4, <2>3 DEF SendFinal
    <3>2. FixtureInv'
      BY <1>t, <3>1, Sent DEF FixtureInv, TypeOK, ReplayInv, Replaying, Terminal
    <3>3. Promise!Open BY <2>1, <2>3 DEF Promise!Open, Promise!Terminal, Terminal
    <3>4. Promise!ContractNext
      BY <3>1, <3>3 DEF Emit, Promise!ContractNext, Promise!Finish, Promise!Send
    <3> QED BY <3>2, <3>4
  <2> QED BY <2>2, <2>3
<1>5. CASE Resume
  BY <1>5 DEF Resume, FixtureInv, TypeOK, ReplayInv, Replaying
<1>6. CASE Fails
  <2>1. /\ Replaying
        /\ terminal_sent <=> wire # <<>> /\ wire[Len(wire)] \in Terminal
    BY <1>6 DEF Fails, FixtureInv, ReplayInv, Replaying
  <2>2. CASE terminal_sent
    BY <1>6, <2>2 DEF Fails, FixtureInv, TypeOK, ReplayInv, Replaying
  <2>3. CASE ~terminal_sent
    <3>1. Emit("error", "last") /\ terminal_sent' = TRUE /\ UNCHANGED <<script, gone>>
      BY <1>6, <2>3 DEF Fails
    <3>2. FixtureInv'
      BY <1>t, <3>1, Sent DEF FixtureInv, TypeOK, ReplayInv, Replaying, Terminal
    <3>3. wire = <<>> \/ Promise!Open
      BY <2>1, <2>3 DEF Promise!Open, Promise!Terminal, Terminal
    <3>4. Promise!ContractNext
      BY <3>1, <3>3 DEF Emit, Promise!ContractNext, Promise!Fail, Promise!Send
    <3> QED BY <3>2, <3>4
  <2> QED BY <2>2, <2>3
<1>7. CASE ClientLeaves
  BY <1>7 DEF ClientLeaves, FixtureInv, TypeOK, ReplayInv, Replaying
<1>8. CASE Cancelled
  BY <1>8 DEF Cancelled, FixtureInv, TypeOK, ReplayInv, Replaying
<1> QED BY <1>1, <1>2, <1>3, <1>4, <1>5, <1>6, <1>7, <1>8 DEF Next, Step

\* Whatever script a fixture holds, and wherever replaying it fails or its
\* client leaves, the stream keeps the contract of a live run: it is opened
\* once, is closed by one terminal event, and nothing follows that.
THEOREM FixtureKeepsContract == Spec => KeepsContract
<1>1. Init => Promise!ContractInit BY DEF Init, Promise!ContractInit
<1>2. FixtureInv /\ [Next]_vars
        => FixtureInv' /\ [Promise!ContractNext]_<<wire, "running">>
  BY StepKeeps
<1> QED BY <1>1, <1>2, InitHolds, PTL DEF Spec, KeepsContract, Promise!Contract
=============================================================================
