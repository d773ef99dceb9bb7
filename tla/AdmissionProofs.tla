--------------------------- MODULE AdmissionProofs ---------------------------
(***************************************************************************)
(* TLAPS proofs about Admission, for any finite set of requests, any       *)
(* capacity and any sharing of run ids, with every mishap of the model.    *)
(***************************************************************************)
EXTENDS Admission, FiniteSetTheorems, TLAPS

\* The handler of one request leaves the other requests where they are.
LEMMA Moved ==
    ASSUME TypeOK, NEW q \in Requests, NEW l, Goto(q, l)
    PROVE  pc'[q] = l /\ \A p \in Requests \ {q} : pc'[p] = pc[p]
  BY DEF TypeOK, Goto

LEMMA TypeInit == Init => TypeOK
  BY AdmissionShape DEF Init, TypeOK

LEMMA TypeStep == ASSUME TypeOK, [Next]_vars PROVE TypeOK'
<1>1. ASSUME NEW q \in Requests, Handle(q) PROVE TypeOK'
  <2>1. RunOf[q] \in RunIds
    BY AdmissionShape
  <2>2. engine' = engine
    BY <1>1 DEF Handle, Preflight, Acquire, Saturated, Reserve, ReserveConflicts,
                ReserveFails, StartStream, NeverStarted, StreamEnds
  <2>3. pc' \in [Requests -> {"preflight", "acquire", "reserve", "start", "stream",
                              "streamed", "unstarted", "404", "409", "422", "429",
                              "503"}]
    BY <1>1 DEF TypeOK, Goto, Handle, Preflight, Acquire, Saturated, Reserve,
                ReserveConflicts, ReserveFails, StartStream, NeverStarted, StreamEnds
  <2>4. permits' \in Nat
    BY <1>1 DEF TypeOK, Handle, Preflight, Acquire, Saturated, Reserve,
                ReserveConflicts, ReserveFails, StartStream, NeverStarted, StreamEnds
  <2>5. rows' \subseteq RunIds
    BY <1>1, <2>1 DEF TypeOK, Handle, Preflight, Acquire, Saturated, Reserve,
                ReserveConflicts, ReserveFails, StartStream, NeverStarted, StreamEnds
  <2>. QED
    BY <2>2, <2>3, <2>4, <2>5 DEF TypeOK
<1>2. ASSUME NEW q \in Requests, EngineStarts(q) \/ EngineEnds(q) PROVE TypeOK'
  BY <1>2 DEF TypeOK, EngineStarts, EngineEnds
<1>3. CASE UNCHANGED vars
  BY <1>3 DEF vars, TypeOK
<1>. QED
  BY <1>1, <1>2, <1>3 DEF Next

\* Types, for any number of requests.
THEOREM TypeCorrect == Spec => []TypeOK
  BY TypeInit, TypeStep, PTL DEF Spec

-----------------------------------------------------------------------------
(* One stream per run id                                                   *)

UniqueInv == TypeOK /\ OneStreamPerRun /\ ReservedHaveRows

LEMMA UniqueStep == ASSUME UniqueInv, [Next]_vars PROVE UniqueInv'
<1>1. TypeOK'
  BY TypeStep DEF UniqueInv
<1>. SUFFICES OneStreamPerRun' /\ ReservedHaveRows'
  BY <1>1 DEF UniqueInv
<1>2. ASSUME NEW q \in Requests, Reserve(q)
      PROVE  OneStreamPerRun' /\ ReservedHaveRows'
  <2>1. pc'[q] = "start" /\ \A p \in Requests \ {q} : pc'[p] = pc[p]
    BY <1>2, Moved DEF UniqueInv, Reserve
  <2>2. \A p \in Requests : pc[p] \in Reserved => RunOf[p] # RunOf[q]
    BY <1>2 DEF UniqueInv, ReservedHaveRows, Reserve
  <2>. QED
    BY <1>2, <2>1, <2>2 DEF UniqueInv, OneStreamPerRun, ReservedHaveRows, Reserve
<1>3. ASSUME NEW q \in Requests,
             \/ StartStream(q) \/ NeverStarted(q) \/ StreamEnds(q)
             \/ Preflight(q) \/ Acquire(q) \/ Saturated(q)
             \/ ReserveConflicts(q) \/ ReserveFails(q)
      PROVE  OneStreamPerRun' /\ ReservedHaveRows'
  <2>1. rows \subseteq rows'
    BY <1>3 DEF StartStream, NeverStarted, StreamEnds, Preflight, Acquire, Saturated,
                ReserveConflicts, ReserveFails
  <2>2. \A p \in Requests : pc'[p] \in Reserved => pc[p] \in Reserved
    BY <1>3 DEF UniqueInv, TypeOK, Goto, Reserved, StartStream, NeverStarted,
                StreamEnds, Preflight, Acquire, Saturated, ReserveConflicts, ReserveFails
  <2>. QED
    BY <2>1, <2>2 DEF UniqueInv, OneStreamPerRun, ReservedHaveRows
<1>4. ASSUME NEW q \in Requests, EngineStarts(q) \/ EngineEnds(q)
      PROVE  OneStreamPerRun' /\ ReservedHaveRows'
  BY <1>4 DEF UniqueInv, OneStreamPerRun, ReservedHaveRows, EngineStarts, EngineEnds
<1>5. CASE UNCHANGED vars
  BY <1>5 DEF UniqueInv, OneStreamPerRun, ReservedHaveRows, vars
<1>. QED
  BY <1>2, <1>3, <1>4, <1>5 DEF Next, Handle

\* However many requests carry one run id, and whatever the preflight of each
\* saw, the reservation lets at most one of them stream.
THEOREM StreamsAreUnique == Spec => []OneStreamPerRun
<1>1. Init => UniqueInv
  BY TypeInit DEF Init, UniqueInv, OneStreamPerRun, ReservedHaveRows, Reserved
<1>2. UniqueInv /\ [Next]_vars => UniqueInv'
  BY UniqueStep
<1>3. UniqueInv => OneStreamPerRun
  BY DEF UniqueInv
<1>. QED
  BY <1>1, <1>2, <1>3, PTL DEF Spec

-----------------------------------------------------------------------------
(* Permits                                                                 *)

LEMMA HoldersFinite == IsFiniteSet(Holders) /\ Cardinality(Holders) \in Nat
<1>1. Holders \in SUBSET Requests
  BY DEF Holders
<1>. QED
  BY <1>1, AdmissionShape, FS_Subset, FS_CardinalityType

LEMMA PermitsStep ==
    ASSUME TypeOK, PermitsAccounted, [Next]_vars
    PROVE  PermitsAccounted'
<1>. USE DEF PermitsAccounted
<1>0. permits \in Nat /\ Capacity \in Nat
  BY AdmissionShape DEF TypeOK
<1>1. ASSUME NEW q \in Requests, Acquire(q) PROVE PermitsAccounted'
  <2>1. pc'[q] = "reserve" /\ \A p \in Requests \ {q} : pc'[p] = pc[p]
    BY <1>1, Moved DEF Acquire
  <2>2. Holders' = Holders \cup {q} /\ q \notin Holders
    BY <1>1, <2>1 DEF Holders, Holding, Acquire
  <2>3. Cardinality(Holders') = Cardinality(Holders) + 1
    BY <2>2, HoldersFinite, FS_AddElement
  <2>. QED
    BY <1>0, <1>1, <2>3, HoldersFinite DEF Acquire
<1>2. ASSUME NEW q \in Requests,
             ReserveConflicts(q) \/ ReserveFails(q) \/ StreamEnds(q)
      PROVE  PermitsAccounted'
  <2>1. /\ pc[q] \in {"reserve", "stream"}
        /\ pc'[q] \in {"409", "503", "streamed"}
        /\ \A p \in Requests \ {q} : pc'[p] = pc[p]
        /\ permits' = permits + 1
    BY <1>2, Moved DEF ReserveConflicts, ReserveFails, StreamEnds
  <2>2. Holders' = Holders \ {q} /\ q \in Holders
    BY <2>1 DEF Holders, Holding
  <2>3. Cardinality(Holders') = Cardinality(Holders) - 1
    BY <2>2, HoldersFinite, FS_RemoveElement
  <2>. QED
    BY <1>0, <2>1, <2>3, HoldersFinite
<1>3. ASSUME NEW q \in Requests,
             Preflight(q) \/ Saturated(q) \/ Reserve(q) \/ StartStream(q)
             \/ NeverStarted(q)
      PROVE  PermitsAccounted'
  <2>1. /\ \A p \in Requests \ {q} : pc'[p] = pc[p]
        /\ pc[q] \in Holding <=> pc'[q] \in Holding
        /\ permits' = permits
    BY <1>3, Moved DEF Preflight, Saturated, Reserve, StartStream, NeverStarted, Holding
  <2>2. Holders' = Holders
    BY <2>1 DEF Holders
  <2>. QED
    BY <2>1, <2>2
<1>5. ASSUME NEW q \in Requests, EngineStarts(q) \/ EngineEnds(q)
      PROVE  PermitsAccounted'
  BY <1>5 DEF EngineStarts, EngineEnds, Holders
<1>6. CASE UNCHANGED vars
  BY <1>6 DEF vars, Holders
<1>. QED
  BY <1>1, <1>2, <1>3, <1>5, <1>6 DEF Next, Handle

\* No path through the handler strands or duplicates a permit, but the response
\* that is never started.
THEOREM PermitsReturn == Spec => []PermitsAccounted
<1>1. Init => PermitsAccounted
  <2>. SUFFICES ASSUME Init PROVE PermitsAccounted
    OBVIOUS
  <2>1. Holders = {}
    BY DEF Init, Holders, Holding
  <2>. QED
    BY <2>1, FS_EmptySet, AdmissionShape DEF Init, PermitsAccounted
<1>2. TypeOK /\ PermitsAccounted /\ [Next]_vars => PermitsAccounted'
  BY PermitsStep
<1>. QED
  BY <1>1, <1>2, TypeCorrect, PTL DEF Spec

\* The cap bounds the engines of connected clients: each of them holds a permit.
THEOREM EnginesAreCapped == Spec => []EnginesCapped
<1>1. TypeOK /\ PermitsAccounted => EnginesCapped
  <2>. SUFFICES ASSUME TypeOK, PermitsAccounted PROVE EnginesCapped
    OBVIOUS
  <2>1. Working \subseteq Holders
    BY DEF Working, Holders, Holding
  <2>2. Cardinality(Working) <= Cardinality(Holders) /\ Cardinality(Working) \in Nat
    BY <2>1, HoldersFinite, FS_Subset, FS_CardinalityType
  <2>. QED
    BY <2>2, HoldersFinite, AdmissionShape DEF TypeOK, PermitsAccounted, EnginesCapped
<1>. QED
  BY <1>1, TypeCorrect, PermitsReturn, PTL
=============================================================================
