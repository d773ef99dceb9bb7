------------------------- MODULE HistoryHeadProofs -------------------------
(***************************************************************************)
(* That the writes of the history adapter reach the server in order, and   *)
(* that a run request waits for them, for any tree of messages, any number *)
(* of turns, retries and branch switches, and with every mishap.           *)
(***************************************************************************)
EXTENDS HistoryHead, SequenceTheorems, TLAPS

-----------------------------------------------------------------------------
(* The inductive invariant                                                 *)

\* Nothing happens before the bootstrap is restored.
BeforeLoad ==
    ~restored => /\ local = {} /\ head = None /\ request.phase = "none" /\ writes = <<>>
                 /\ outcome = [m \in MsgIds |-> IF m \in Restorable THEN "stored" ELSE "none"]

\* The conversation: what was written is visible, what the user typed was
\* written at once, and an answer hangs below what the user typed.
LocalInv ==
    /\ restored => /\ \A m \in MsgIds : outcome[m] # "none" => m \in local
                   /\ head \in local \cup {None, Optimistic}
    /\ \A u \in Users \cap local : outcome[u] # "none"
    /\ \A a \in Answers \cap local : outcome[a] = "none" => ParentOf[a] \in Users \cap local
    /\ running <=> request.phase # "none"
    /\ running => request.input \in Users \cap local

\* The promise chain holds each queued message once, a parent before its
\* children, and its last write is the barrier.
QueueInv ==
    /\ \A i \in DOMAIN writes : outcome[writes[i]] = "queued"
    /\ \A m \in MsgIds : outcome[m] = "queued" => \E i \in DOMAIN writes : writes[i] = m
    /\ \A i, j \in DOMAIN writes : writes[i] = writes[j] => i = j
    /\ \A i \in DOMAIN writes : ParentOf[writes[i]] \in MsgIds => outcome[ParentOf[writes[i]]] # "none"
    /\ \A i, j \in DOMAIN writes : writes[j] = ParentOf[writes[i]] => j < i
    /\ writes # <<>> => barrier = writes[Len(writes)]

StoredInv == \A m \in MsgIds : outcome[m] = "stored" => m \in stored

\* A request at the barrier waits for the last write there is.
RequestInv ==
    request.phase = "barrier" =>
        /\ Appended
        /\ writes # <<>> => request.on = writes[Len(writes)]

\* Retries that run have a head to publish.
ChainInv == chain.phase # "idle" => sync.pending \in MsgRef

Core == BeforeLoad /\ LocalInv /\ QueueInv /\ StoredInv /\ RequestInv /\ OrderedWrites
Inv  == TypeOK /\ ChainInv /\ Core

-----------------------------------------------------------------------------
(* The promise chain                                                       *)

\* The first write leaves the chain, and the others move up.
LEMMA FirstLeaves ==
    ASSUME NEW S, NEW s \in Seq(S), s # <<>>
    PROVE  /\ RemoveAt(s, 1) \in Seq(S)
           /\ Len(RemoveAt(s, 1)) = Len(s) - 1
           /\ \A i \in 1..(Len(s) - 1) : RemoveAt(s, 1)[i] = s[i + 1]
<1>1. SubSeq(s, 1, 1 - 1) = <<>>
  BY SubSeqEmpty
<1>2. SubSeq(s, 1 + 1, Len(s)) = Tail(s)
  BY TailIsSubSeq
<1>3. Tail(s) \in Seq(S) /\ Len(Tail(s)) = Len(s) - 1
      /\ \A i \in 1..Len(Tail(s)) : Tail(s)[i] = s[i + 1]
  BY HeadTailProperties
<1>4. <<>> \o Tail(s) = Tail(s)
  BY <1>3, ConcatEmptySeq
<1> QED
  BY <1>1, <1>2, <1>3, <1>4 DEF RemoveAt

-----------------------------------------------------------------------------
(* Types                                                                   *)

\* The effect of HistoryHeadSync keeps its refs and its retries well typed.
LEMMA EffectTypes ==
    ASSUME TypeOK, ChainInv, barrier' \in MsgRef,
           NEW h \in MsgRef \cup {Optimistic}, NEW run, SyncEffect(h, run)
    PROVE  /\ sync' \in [loaded : BOOLEAN, last : MsgRef,
                          pending : MsgRef \cup {Unset}, desired : MsgRef \cup {Optimistic}]
           /\ chain' \in [phase : {"idle", "barrier", "wire", "delay"}, on : MsgRef,
                           attempt : 0..MaxRetries]
           /\ strays' \subseteq MsgRef
           /\ ChainInv'
<1> DEFINE pending == IF Superseded(h) THEN Unset ELSE sync.pending
           starts  == Publishable(h, run) /\ sync.last # h /\ pending # h
<1>1. MaxRetries \in Nat
  BY HistoryShape
<1>2. NoChain \in [phase : {"idle", "barrier", "wire", "delay"}, on : MsgRef,
                    attempt : 0..MaxRetries]
  BY <1>1 DEF NoChain, MsgRef
<1>3. starts => h \in MsgRef
  BY DEF Publishable
<1>4. sync' = [loaded |-> sync.loaded \/ Publishable(h, run), last |-> sync.last,
               pending |-> IF starts THEN h ELSE pending, desired |-> h]
      /\ chain' = (IF starts THEN [phase |-> "barrier", on |-> barrier', attempt |-> 0]
                   ELSE IF Superseded(h) THEN NoChain ELSE chain)
      /\ strays' = (IF Superseded(h) /\ chain.phase = "wire"
                    THEN strays \cup {sync.pending} ELSE strays)
  BY DEF SyncEffect
<1>5. sync' \in [loaded : BOOLEAN, last : MsgRef,
                 pending : MsgRef \cup {Unset}, desired : MsgRef \cup {Optimistic}]
  BY <1>3, <1>4 DEF TypeOK, Publishable
<1>6. chain' \in [phase : {"idle", "barrier", "wire", "delay"}, on : MsgRef,
                  attempt : 0..MaxRetries]
  BY <1>1, <1>2, <1>4 DEF TypeOK
<1>7. strays' \subseteq MsgRef
  BY <1>4 DEF TypeOK, ChainInv
<1>8. ChainInv'
  BY <1>3, <1>4 DEF ChainInv, NoChain
<1> QED
  BY <1>5, <1>6, <1>7, <1>8

\* A failed attempt leaves the retries well typed.
LEMMA FailedAttemptTypes ==
    ASSUME TypeOK, ChainInv, chain.phase # "idle", ChainFails
    PROVE  /\ sync' \in [loaded : BOOLEAN, last : MsgRef,
                          pending : MsgRef \cup {Unset}, desired : MsgRef \cup {Optimistic}]
           /\ chain' \in [phase : {"idle", "barrier", "wire", "delay"}, on : MsgRef,
                           attempt : 0..MaxRetries]
           /\ ChainInv'
<1>1. MaxRetries \in Nat
  BY HistoryShape
<1>2. CASE chain.attempt < MaxRetries
  <2>1. chain' = [chain EXCEPT !.phase = "delay", !.attempt = chain.attempt + 1]
        /\ sync' = sync
    BY <1>2 DEF ChainFails
  <2>2. chain.attempt + 1 \in 0..MaxRetries
    BY <1>1, <1>2 DEF TypeOK
  <2> QED
    BY <2>1, <2>2 DEF TypeOK, ChainInv
<1>3. CASE ~(chain.attempt < MaxRetries)
  BY <1>1, <1>3 DEF ChainFails, TypeOK, ChainInv, NoChain, MsgRef
<1> QED
  BY <1>2, <1>3

\* Every step keeps the types.
LEMMA TypesKept ==
    ASSUME TypeOK, ChainInv, Core, [Next]_vars
    PROVE  TypeOK' /\ ChainInv'
<1> USE HistoryShape
<1>0. None \in MsgRef /\ MsgIds \subseteq MsgRef /\ Restorable \subseteq MsgIds
      /\ InitialHead \in MsgRef /\ Users \subseteq MsgIds /\ Answers \subseteq MsgIds
  BY DEF MsgRef, MsgIds
<1>1. ASSUME Load PROVE TypeOK' /\ ChainInv'
  <2>1. SyncEffect(head', running) /\ head' \in MsgRef /\ barrier' \in MsgRef
    BY <1>0, <1>1 DEF Load, TypeOK, writeVars
  <2> QED
    BY <1>0, <1>1, <2>1, EffectTypes DEF Load, TypeOK, writeVars, serverVars
<1>2. ASSUME NEW u \in Users, Send(u) PROVE TypeOK' /\ ChainInv'
  <2>1. SyncEffect(head', running') /\ head' \in MsgRef /\ barrier' \in MsgRef
        /\ writes' \in Seq(MsgIds)
    BY <1>0, <1>2, AppendProperties DEF Send, Enqueue, TypeOK
  <2>2. request' \in [phase : {"none", "barrier", "capabilities", "reserved", "completed"},
                      on : MsgRef, input : MsgRef, answer : MsgRef]
    BY <1>0, <1>2 DEF Send, NoRequest
  <2> QED
    BY <1>0, <1>2, <2>1, <2>2, EffectTypes DEF Send, Enqueue, TypeOK, serverVars
<1>3. ASSUME NEW u \in Users, Regenerate(u) PROVE TypeOK' /\ ChainInv'
  <2>1. SyncEffect(head', running') /\ head' \in MsgRef /\ barrier' \in MsgRef
    BY <1>0, <1>3 DEF Regenerate, writeVars, TypeOK
  <2>2. request' \in [phase : {"none", "barrier", "capabilities", "reserved", "completed"},
                      on : MsgRef, input : MsgRef, answer : MsgRef]
    BY <1>0, <1>3 DEF Regenerate, NoRequest, TypeOK
  <2>3. moves' \in 0..MaxMoves
    BY <1>3 DEF Regenerate, TypeOK
  <2> QED
    BY <1>0, <1>3, <2>1, <2>2, <2>3, EffectTypes DEF Regenerate, TypeOK, writeVars, serverVars
<1>4. ASSUME NEW h \in MsgIds, Switch(h) PROVE TypeOK' /\ ChainInv'
  <2>1. SyncEffect(head', running) /\ head' \in MsgRef /\ barrier' \in MsgRef
    BY <1>0, <1>4 DEF Switch, writeVars, TypeOK
  <2>2. moves' \in 0..MaxMoves
    BY <1>4 DEF Switch, TypeOK
  <2> QED
    BY <1>0, <1>4, <2>1, <2>2, EffectTypes DEF Switch, TypeOK, writeVars, serverVars
<1>5. ASSUME Placeholder PROVE TypeOK' /\ ChainInv'
  <2>1. SyncEffect(head', running) /\ head' = Optimistic /\ barrier' \in MsgRef
    BY <1>5 DEF Placeholder, writeVars, TypeOK
  <2> QED
    BY <1>5, <2>1, EffectTypes DEF Placeholder, TypeOK, writeVars, serverVars
<1>6. ASSUME NEW a \in Answers, Stream(a) PROVE TypeOK' /\ ChainInv'
  <2>1. SyncEffect(head', running) /\ head' \in MsgRef \cup {Optimistic} /\ barrier' \in MsgRef
    BY <1>0, <1>6 DEF Stream, writeVars, TypeOK
  <2>2. request' \in [phase : {"none", "barrier", "capabilities", "reserved", "completed"},
                      on : MsgRef, input : MsgRef, answer : MsgRef]
    BY <1>0, <1>6 DEF Stream, TypeOK
  <2> QED
    BY <1>0, <1>6, <2>1, <2>2, EffectTypes DEF Stream, TypeOK, writeVars, serverVars
<1>7. ASSUME NEW a \in Answers, AppendAnswer(a) PROVE TypeOK' /\ ChainInv'
  <2>1. writes' \in Seq(MsgIds) /\ barrier' \in MsgRef
    BY <1>0, <1>7, AppendProperties DEF AppendAnswer, Enqueue, TypeOK
  <2> QED
    BY <1>0, <1>7, <2>1
       DEF AppendAnswer, Enqueue, TypeOK, ChainInv, runtimeVars, syncVars, serverVars
<1>8. ASSUME NEW i \in Due, Write(i) PROVE TypeOK' /\ ChainInv'
  <2>1. i = 1 /\ writes # <<>> /\ writes[1] \in MsgIds
    BY DEF Due, TypeOK
  <2>2. writes' = RemoveAt(writes, 1) /\ writes' \in Seq(MsgIds)
    BY <1>8, <2>1, FirstLeaves DEF Write, WriteSettles, TypeOK
  <2>3. barrier' \in MsgRef /\ outcome' \in [MsgIds -> {"none", "queued", "stored"} \cup Failed]
    BY <1>0, <1>8, <2>1 DEF Write, WriteSettles, TypeOK, Failed
  <2>4. stored' \subseteq MsgIds /\ serverHead' \in MsgRef
    BY <1>0, <1>8, <2>1 DEF Write, StoreMessage, serverVars, TypeOK
  <2>5. UNCHANGED <<restored, local, head, running, moves, request, sync, chain, strays>>
    BY <1>8 DEF Write, runtimeVars, syncVars
  <2> QED
    BY <2>2, <2>3, <2>4, <2>5 DEF TypeOK, ChainInv
<1>9. ASSUME RequestPasses PROVE TypeOK' /\ ChainInv'
  BY <1>9 DEF RequestPasses, TypeOK, ChainInv, runtimeVars, writeVars, syncVars, serverVars
<1>10. ASSUME RunEnds, barrier' \in MsgRef, UNCHANGED <<writes, outcome>>,
              stored' \subseteq MsgIds, serverHead' \in MsgRef
       PROVE  TypeOK' /\ ChainInv'
  <2>1. SyncEffect(head', FALSE) /\ head' \in MsgRef \cup {Optimistic}
    BY <1>10 DEF RunEnds, TypeOK
  <2>2. request' \in [phase : {"none", "barrier", "capabilities", "reserved", "completed"},
                      on : MsgRef, input : MsgRef, answer : MsgRef]
    BY <1>0, <1>10 DEF RunEnds, NoRequest
  <2> QED
    BY <1>10, <2>1, <2>2, EffectTypes DEF RunEnds, TypeOK
<1>11. ASSUME RequestBlocked PROVE TypeOK' /\ ChainInv'
  BY <1>0, <1>10, <1>11 DEF RequestBlocked, TypeOK, serverVars
<1>12. ASSUME Post PROVE TypeOK' /\ ChainInv'
  <2>1. request.input \in MsgIds
    BY <1>0, <1>12 DEF Post, Core, LocalInv
  <2>2. CASE ParentOf[request.input] \in stored \cup {None}
    BY <1>0, <1>12, <2>1, <2>2 DEF Post, TypeOK, ChainInv, runtimeVars, writeVars, syncVars
  <2>3. CASE ~(ParentOf[request.input] \in stored \cup {None})
    BY <1>10, <1>12, <2>3 DEF Post, TypeOK, writeVars, serverVars
  <2> QED
    BY <2>2, <2>3
<1>13. ASSUME Complete PROVE TypeOK' /\ ChainInv'
  BY <1>0, <1>13 DEF Complete, TypeOK, ChainInv, runtimeVars, writeVars, syncVars, MsgRef
<1>14. ASSUME RunSettles PROVE TypeOK' /\ ChainInv'
  BY <1>10, <1>14 DEF RunSettles, TypeOK, writeVars, serverVars
<1>15. ASSUME HeadWaits PROVE TypeOK' /\ ChainInv'
  <2>1. CASE chain' = [chain EXCEPT !.phase = "wire"] /\ UNCHANGED sync
    BY <1>15, <2>1 DEF HeadWaits, TypeOK, ChainInv, runtimeVars, writeVars, serverVars
  <2>2. CASE ChainFails
    BY <1>15, <2>2, FailedAttemptTypes
       DEF HeadWaits, TypeOK, runtimeVars, writeVars, serverVars
  <2> QED
    BY <1>15, <2>1, <2>2 DEF HeadWaits
<1>16. ASSUME RetryTimer PROVE TypeOK' /\ ChainInv'
  BY <1>16 DEF RetryTimer, TypeOK, ChainInv, runtimeVars, writeVars, serverVars
<1>17. ASSUME HeadAnswered PROVE TypeOK' /\ ChainInv'
  <2>1. sync.pending \in MsgRef
    BY <1>17 DEF HeadAnswered, ChainInv
  <2>2. serverHead' \in MsgRef
    BY <1>17, <2>1 DEF HeadAnswered, TypeOK
  <2>3. CASE ChainFails
    BY <1>17, <2>2, <2>3, FailedAttemptTypes
       DEF HeadAnswered, TypeOK, runtimeVars, writeVars
  <2>4. CASE chain' = NoChain /\ sync' = [sync EXCEPT !.last = sync.pending, !.pending = Unset]
    <3>1. chain' \in [phase : {"idle", "barrier", "wire", "delay"}, on : MsgRef,
                      attempt : 0..MaxRetries]
      BY <1>0, <2>4 DEF NoChain
    <3>2. sync' \in [loaded : BOOLEAN, last : MsgRef,
                     pending : MsgRef \cup {Unset}, desired : MsgRef \cup {Optimistic}]
      BY <2>1, <2>4 DEF TypeOK
    <3>3. ChainInv'
      BY <2>4 DEF ChainInv, NoChain
    <3> QED
      BY <1>17, <2>2, <3>1, <3>2, <3>3 DEF HeadAnswered, TypeOK, runtimeVars, writeVars
  <2> QED
    BY <1>17, <2>3, <2>4 DEF HeadAnswered
<1>18. ASSUME NEW h \in MsgRef, StrayArrives(h) PROVE TypeOK' /\ ChainInv'
  BY <1>18 DEF StrayArrives, TypeOK, ChainInv, runtimeVars, writeVars
<1>19. ASSUME UNCHANGED vars PROVE TypeOK' /\ ChainInv'
  BY <1>19 DEF vars, runtimeVars, writeVars, syncVars, serverVars, TypeOK, ChainInv
<1> QED
  BY <1>1, <1>2, <1>3, <1>4, <1>5, <1>6, <1>7, <1>8, <1>9, <1>11, <1>12, <1>13, <1>14,
     <1>15, <1>16, <1>17, <1>18, <1>19 DEF Next, User, System

-----------------------------------------------------------------------------
(* The order of the writes                                                 *)

\* A write that is new, below a message that was written, joins the chain.
LEMMA EnqueueKeeps ==
    ASSUME TypeOK, QueueInv, StoredInv, OrderedWrites, NEW m \in MsgIds, Enqueue(m),
           outcome[m] = "none", ParentOf[m] \in MsgIds => outcome[ParentOf[m]] # "none",
           stored' = stored
    PROVE  QueueInv' /\ StoredInv' /\ OrderedWrites' /\ writes' # <<>>
<1> DEFINE n == Len(writes)
<1>1. /\ writes' # <<>> /\ Len(writes') = n + 1 /\ DOMAIN writes' = 1..(n + 1)
      /\ \A i \in 1..n : writes'[i] = writes[i]
      /\ writes'[n + 1] = m
      /\ n \in Nat /\ DOMAIN writes = 1..n
      /\ \A i \in 1..n : writes[i] \in MsgIds
  BY AppendProperties DEF Enqueue, TypeOK
<1>2. /\ outcome' = [outcome EXCEPT ![m] = "queued"] /\ barrier' = m
      /\ \A x \in MsgIds : outcome'[x] = IF x = m THEN "queued" ELSE outcome[x]
  BY DEF Enqueue, TypeOK
<1>3. \A i \in 1..n : writes[i] # m /\ ParentOf[writes[i]] # m
  BY <1>1 DEF QueueInv
<1>4. \A i \in DOMAIN writes' : i \in 1..n \/ i = n + 1
  BY <1>1
<1>5. QueueInv'
  <2>1. \A i \in DOMAIN writes' : outcome'[writes'[i]] = "queued"
    BY <1>1, <1>2, <1>4 DEF QueueInv
  <2>2. \A x \in MsgIds : outcome'[x] = "queued" => \E i \in DOMAIN writes' : writes'[i] = x
    <3> SUFFICES ASSUME NEW x \in MsgIds, outcome'[x] = "queued"
                 PROVE  \E i \in 1..(n + 1) : writes'[i] = x
      BY <1>1
    <3>1. CASE x = m
      BY <1>1, <3>1
    <3>2. CASE x # m
      <4>1. PICK i \in 1..n : writes[i] = x
        BY <1>1, <1>2, <3>2 DEF QueueInv
      <4> QED
        BY <1>1, <4>1
    <3> QED
      BY <3>1, <3>2
  <2>3. \A i, j \in DOMAIN writes' : writes'[i] = writes'[j] => i = j
    BY <1>1, <1>3, <1>4 DEF QueueInv
  <2>4. \A i \in DOMAIN writes' :
          ParentOf[writes'[i]] \in MsgIds => outcome'[ParentOf[writes'[i]]] # "none"
    BY <1>1, <1>2, <1>4 DEF QueueInv
  <2>5. \A i, j \in DOMAIN writes' : writes'[j] = ParentOf[writes'[i]] => j < i
    BY <1>1, <1>3, <1>4 DEF QueueInv
  <2>6. writes' # <<>> => barrier' = writes'[Len(writes')]
    BY <1>1, <1>2
  <2> QED
    BY <2>1, <2>2, <2>3, <2>4, <2>5, <2>6 DEF QueueInv
<1>6. StoredInv'
  BY <1>2 DEF StoredInv
<1>7. OrderedWrites'
  BY <1>2 DEF OrderedWrites, Failed
<1> QED
  BY <1>1, <1>5, <1>6, <1>7

\* The first write leaves the chain with an outcome.  It is refused only below
\* a message that failed: its parent was written before it, and is not queued.
LEMMA WriteKeeps ==
    ASSUME TypeOK, QueueInv, StoredInv, OrderedWrites, NEW i \in Due, Write(i)
    PROVE  /\ QueueInv' /\ StoredInv' /\ OrderedWrites'
           /\ \A x \in MsgIds : outcome'[x] = "none" <=> outcome[x] = "none"
           /\ writes' # <<>> => writes'[Len(writes')] = writes[Len(writes)]
<1> DEFINE m == writes[1]
           n == Len(writes) - 1
<1>1. i = 1 /\ writes # <<>> /\ m \in MsgIds /\ n \in Nat /\ DOMAIN writes = 1..(n + 1)
      /\ \A j \in 1..(n + 1) : writes[j] \in MsgIds
  BY DEF Due, TypeOK
<1>2. writes' = RemoveAt(writes, 1)
  BY <1>1 DEF Write, WriteSettles
<1>3. Len(writes') = n /\ DOMAIN writes' = 1..n
      /\ \A j \in 1..n : writes'[j] = writes[j + 1]
  <2>1. writes \in Seq(MsgIds)
    BY DEF TypeOK
  <2>2. /\ RemoveAt(writes, 1) \in Seq(MsgIds) /\ Len(RemoveAt(writes, 1)) = n
        /\ \A j \in 1..n : RemoveAt(writes, 1)[j] = writes[j + 1]
    BY <1>1, <2>1, FirstLeaves
  <2> QED
    BY <1>2, <2>2
<1>4. PICK result \in {"stored", "lost", "rejected"} :
        /\ outcome' = [outcome EXCEPT ![m] = result]
        /\ barrier' = IF barrier = m /\ result = "stored" THEN None ELSE barrier
        /\ result = "stored" => m \in stored'
        /\ result = "rejected" => ~Accepts(m)
        /\ stored \subseteq stored'
  BY <1>1 DEF Write, WriteSettles, StoreMessage, serverVars
<1>5. \A x \in MsgIds : outcome'[x] = IF x = m THEN result ELSE outcome[x]
  BY <1>4 DEF TypeOK
<1>6. outcome[m] = "queued"
  BY <1>1 DEF QueueInv
<1>7. \A j \in 1..n : j + 1 \in 1..(n + 1) /\ writes'[j] = writes[j + 1] /\ writes'[j] # m
                     /\ writes'[j] \in MsgIds
  BY <1>1, <1>3 DEF QueueInv
<1>8. QueueInv'
  <2>1. \A j \in DOMAIN writes' : outcome'[writes'[j]] = "queued"
    BY <1>1, <1>3, <1>5, <1>7 DEF QueueInv
  <2>2. \A x \in MsgIds : outcome'[x] = "queued" => \E j \in DOMAIN writes' : writes'[j] = x
    <3> SUFFICES ASSUME NEW x \in MsgIds, outcome'[x] = "queued"
                 PROVE  \E j \in 1..n : writes'[j] = x
      BY <1>3
    <3>1. x # m /\ outcome[x] = "queued"
      BY <1>4, <1>5
    <3>2. PICK k \in 1..(n + 1) : writes[k] = x
      BY <1>1, <3>1 DEF QueueInv
    <3>3. k - 1 \in 1..n /\ (k - 1) + 1 = k
      BY <1>1, <3>1, <3>2
    <3> QED
      BY <1>3, <3>2, <3>3
  <2>3. \A j, k \in DOMAIN writes' : writes'[j] = writes'[k] => j = k
    <3> SUFFICES ASSUME NEW j \in 1..n, NEW k \in 1..n, writes'[j] = writes'[k]
                 PROVE  j = k
      BY <1>3
    <3>1. j + 1 = k + 1
      BY <1>1, <1>7 DEF QueueInv
    <3> QED
      BY <3>1
  <2>4. \A j \in DOMAIN writes' :
          ParentOf[writes'[j]] \in MsgIds => outcome'[ParentOf[writes'[j]]] # "none"
    <3> SUFFICES ASSUME NEW j \in 1..n, ParentOf[writes[j + 1]] \in MsgIds
                 PROVE  outcome'[ParentOf[writes[j + 1]]] # "none"
      BY <1>3
    <3>1. outcome[ParentOf[writes[j + 1]]] # "none"
      BY <1>1, <1>7 DEF QueueInv
    <3> QED
      BY <1>4, <1>5, <3>1
  <2>5. \A j, k \in DOMAIN writes' : writes'[k] = ParentOf[writes'[j]] => k < j
    <3> SUFFICES ASSUME NEW j \in 1..n, NEW k \in 1..n, writes'[k] = ParentOf[writes'[j]]
                 PROVE  k < j
      BY <1>3
    <3>1. k + 1 < j + 1
      BY <1>1, <1>7 DEF QueueInv
    <3> QED
      BY <3>1
  <2>6. writes' # <<>> => barrier' = writes'[Len(writes')]
    <3> SUFFICES ASSUME writes' # <<>> PROVE barrier' = writes'[n]
      BY <1>3
    <3>1. n \in 1..n
      BY <1>1, <1>2, <1>3, FirstLeaves DEF TypeOK
    <3>2. barrier = writes[n + 1] /\ writes'[n] = writes[n + 1]
      BY <1>1, <1>7, <3>1 DEF QueueInv
    <3> QED
      BY <1>4, <1>7, <3>1, <3>2
  <2> QED
    BY <2>1, <2>2, <2>3, <2>4, <2>5, <2>6 DEF QueueInv
<1>9. StoredInv'
  BY <1>4, <1>5 DEF StoredInv
<1>10. OrderedWrites'
  <2> SUFFICES ASSUME NEW x \in MsgIds, outcome'[x] = "rejected"
               PROVE  ParentOf[x] \in MsgIds /\ outcome'[ParentOf[x]] \in Failed
    BY DEF OrderedWrites, Failed
  <2>1. CASE x # m
    BY <1>5, <1>6, <2>1 DEF OrderedWrites, Failed
  <2>2. CASE x = m
    <3>1. ~Accepts(m)
      BY <1>4, <1>5, <2>2
    <3>2. ParentOf[m] \in MsgIds /\ ParentOf[m] \notin stored
      BY <1>1, <3>1, HistoryShape DEF Accepts
    <3>3. outcome[ParentOf[m]] # "none" /\ outcome[ParentOf[m]] # "stored"
      BY <1>1, <3>2 DEF QueueInv, StoredInv
    <3>4. outcome[ParentOf[m]] # "queued"
      <4> SUFFICES ASSUME outcome[ParentOf[m]] = "queued" PROVE FALSE
        OBVIOUS
      <4>1. PICK j \in 1..(n + 1) : writes[j] = ParentOf[m]
        BY <1>1, <3>2 DEF QueueInv
      <4>2. j < 1
        BY <1>1, <4>1 DEF QueueInv
      <4> QED
        BY <1>1, <4>1, <4>2
    <3>5. outcome[ParentOf[m]] \in Failed
      BY <3>2, <3>3, <3>4 DEF TypeOK
    <3> QED
      BY <1>5, <1>6, <2>2, <3>2, <3>5 DEF Failed
  <2> QED
    BY <2>1, <2>2
<1>11. writes' # <<>> => writes'[Len(writes')] = writes[Len(writes)]
  <2> SUFFICES ASSUME writes' # <<>> PROVE writes'[n] = writes[n + 1]
    BY <1>1, <1>3
  <2>1. n \in 1..n
    BY <1>1, <1>2, <1>3, FirstLeaves DEF TypeOK
  <2> QED
    BY <1>3, <2>1
<1> QED
  BY <1>4, <1>5, <1>6, <1>8, <1>9, <1>10, <1>11

-----------------------------------------------------------------------------
(* The conversation                                                        *)

\* The end of a run keeps what was written, and shows a message again.
LEMMA RunEndKeeps ==
    ASSUME TypeOK, Core, running, RunEnds, stored' = stored, UNCHANGED <<writes, outcome>>,
           writes # <<>> => barrier' = writes[Len(writes)]
    PROVE  Core'
<1>1. restored /\ request.input \in Users \cap local
  BY DEF Core, BeforeLoad, LocalInv
<1>2. /\ running' = FALSE /\ request'.phase = "none" /\ UNCHANGED <<restored, local>>
      /\ head' = IF head = Optimistic THEN request.input ELSE head
  BY DEF RunEnds, NoRequest
<1>3. BeforeLoad' /\ LocalInv'
  BY <1>1, <1>2 DEF Core, BeforeLoad, LocalInv
<1>4. QueueInv'
  BY DEF Core, QueueInv
<1>5. StoredInv' /\ RequestInv' /\ OrderedWrites'
  BY <1>2 DEF Core, StoredInv, RequestInv, OrderedWrites
<1> QED
  BY <1>3, <1>4, <1>5 DEF Core

\* Every step keeps the order of the writes and what it rests on.
LEMMA CoreKept ==
    ASSUME TypeOK, Core, [Next]_vars
    PROVE  Core'
<1> USE DEF Core
<1>0. /\ Users \cap Answers = {} /\ Users \subseteq MsgIds /\ Answers \subseteq MsgIds
      /\ None \notin MsgIds /\ Optimistic \notin MsgIds
      /\ Restorable \subseteq MsgIds /\ InitialHead \in Restorable \cup {None}
      /\ ParentOf \in [MsgIds -> MsgIds \cup {None}]
  BY HistoryShape DEF MsgIds
<1>1. ASSUME Load PROVE Core'
  <2>1. /\ ~restored /\ restored' /\ local' = Restorable /\ head' = InitialHead
        /\ UNCHANGED <<running, writes, outcome, barrier, request, stored>>
    BY <1>1 DEF Load, writeVars, serverVars
  <2>2. LocalInv'
    BY <1>0, <2>1 DEF BeforeLoad, LocalInv
  <2> QED
    BY <2>1, <2>2 DEF BeforeLoad, QueueInv, StoredInv, RequestInv, OrderedWrites
<1>2. ASSUME NEW u \in Users, Send(u) PROVE Core'
  <2>1. /\ restored /\ ~running /\ Appended /\ u \notin local /\ ParentOf[u] = head
        /\ local' = local \cup {u} /\ head' = u /\ running' /\ Enqueue(u)
        /\ request'.phase = "barrier" /\ request'.on = u /\ request'.input = u
        /\ restored' = restored /\ stored' = stored
    BY <1>2 DEF Send, NoRequest, serverVars
  <2>2. outcome[u] = "none" /\ u \in MsgIds
    BY <1>0, <2>1 DEF LocalInv
  <2>3. ParentOf[u] \in MsgIds => outcome[ParentOf[u]] # "none"
    <3> SUFFICES ASSUME ParentOf[u] \in MsgIds PROVE outcome[ParentOf[u]] # "none"
      OBVIOUS
    <3>1. ParentOf[u] \in local
      BY <1>0, <2>1 DEF LocalInv
    <3> QED
      BY <2>1, <3>1 DEF LocalInv, Appended, MsgIds
  <2>4. QueueInv' /\ StoredInv' /\ OrderedWrites'
    BY <2>1, <2>2, <2>3, EnqueueKeeps
  <2>5. \A x \in MsgIds : outcome'[x] = IF x = u THEN "queued" ELSE outcome[x]
    BY <2>1 DEF Enqueue, TypeOK
  <2>6. LocalInv'
    BY <1>0, <2>1, <2>5 DEF LocalInv
  <2>7. RequestInv'
    <3>1. Appended'
      BY <1>0, <2>1, <2>5 DEF Appended
    <3>2. barrier' = u
      BY <2>1 DEF Enqueue
    <3> QED
      BY <2>1, <2>4, <3>1, <3>2 DEF RequestInv, QueueInv
  <2> QED
    BY <2>1, <2>4, <2>6, <2>7 DEF BeforeLoad
<1>3. ASSUME NEW u \in Users, Regenerate(u) PROVE Core'
  <2>1. /\ restored /\ Appended /\ u \in Users \cap local
        /\ head' = u /\ running' /\ request'.phase = "barrier"
        /\ request'.on = barrier /\ request'.input = u
        /\ UNCHANGED <<restored, local, writes, outcome, barrier, stored>>
    BY <1>3 DEF Regenerate, NoRequest, writeVars, serverVars
  <2>2. LocalInv'
    BY <2>1 DEF LocalInv
  <2>3. RequestInv'
    BY <2>1 DEF RequestInv, QueueInv, Appended
  <2> QED
    BY <2>1, <2>2, <2>3 DEF BeforeLoad, QueueInv, StoredInv, OrderedWrites
<1>4. ASSUME UNCHANGED <<restored, local, running, writes, outcome, barrier, request, stored>>,
             restored => head' \in local \cup {None, Optimistic}, ~restored => head' = head
      PROVE  Core'
  <2>1. BeforeLoad'
    BY <1>4 DEF BeforeLoad
  <2>2. LocalInv'
    BY <1>4 DEF LocalInv
  <2>3. QueueInv'
    BY <1>4 DEF QueueInv
  <2>4. StoredInv' /\ OrderedWrites' /\ RequestInv'
    BY <1>4 DEF StoredInv, OrderedWrites, RequestInv, Appended
  <2> QED
    BY <2>1, <2>2, <2>3, <2>4
<1>5. ASSUME NEW h \in MsgIds, Switch(h) PROVE Core'
  BY <1>4, <1>5 DEF Switch, writeVars, serverVars
<1>6. ASSUME Placeholder PROVE Core'
  <2>1. restored
    BY <1>6 DEF Placeholder, BeforeLoad
  <2> QED
    BY <1>4, <1>6, <2>1 DEF Placeholder, writeVars, serverVars
<1>7. ASSUME NEW a \in Answers, Stream(a) PROVE Core'
  <2>1. /\ request.phase = "reserved" /\ a \notin local /\ ParentOf[a] = request.input
        /\ local' = local \cup {a} /\ head' = IF head \in {Optimistic, request.input} THEN a ELSE head
        /\ request'.phase = "reserved" /\ request'.input = request.input
        /\ UNCHANGED <<restored, running, writes, outcome, barrier, stored>>
    BY <1>7 DEF Stream, TypeOK, writeVars, serverVars
  <2>2. restored /\ request.input \in Users \cap local
    BY <2>1 DEF BeforeLoad, LocalInv
  <2>3. LocalInv'
    BY <1>0, <2>1, <2>2 DEF LocalInv
  <2> QED
    BY <2>1, <2>2, <2>3 DEF BeforeLoad, QueueInv, StoredInv, OrderedWrites, RequestInv
<1>8. ASSUME NEW a \in Answers, AppendAnswer(a) PROVE Core'
  <2>1. /\ a \in local /\ outcome[a] = "none" /\ Enqueue(a)
        /\ UNCHANGED <<restored, local, head, running, request, stored>>
    BY <1>8 DEF AppendAnswer, runtimeVars, serverVars
  <2>2. restored /\ a \in MsgIds
    BY <1>0, <2>1 DEF BeforeLoad
  <2>3. ParentOf[a] \in MsgIds => outcome[ParentOf[a]] # "none"
    BY <2>1 DEF LocalInv
  <2>4. QueueInv' /\ StoredInv' /\ OrderedWrites'
    BY <2>1, <2>2, <2>3, EnqueueKeeps
  <2>5. \A x \in MsgIds : outcome'[x] = IF x = a THEN "queued" ELSE outcome[x]
    BY <2>1 DEF Enqueue, TypeOK
  <2>6. LocalInv'
    BY <1>0, <2>1, <2>2, <2>5 DEF LocalInv
  <2>7. request.phase # "barrier"
    BY <2>1 DEF RequestInv, Appended
  <2> QED
    BY <2>1, <2>2, <2>4, <2>6, <2>7 DEF BeforeLoad, RequestInv
<1>9. ASSUME NEW i \in Due, Write(i) PROVE Core'
  <2>1. UNCHANGED <<restored, local, head, running, request>>
    BY <1>9 DEF Write, runtimeVars
  <2>2. restored
    BY DEF BeforeLoad, Due
  <2>3. /\ QueueInv' /\ StoredInv' /\ OrderedWrites'
        /\ \A x \in MsgIds : outcome'[x] = "none" <=> outcome[x] = "none"
        /\ writes' # <<>> => writes'[Len(writes')] = writes[Len(writes)]
    BY <1>9, WriteKeeps
  <2>4. LocalInv'
    BY <1>0, <2>1, <2>3 DEF LocalInv
  <2>5. RequestInv'
    <3> SUFFICES ASSUME request.phase = "barrier" PROVE RequestInv'
      BY <2>1 DEF RequestInv
    <3>1. Appended'
      BY <1>0, <2>1, <2>3 DEF RequestInv, Appended
    <3>2. writes # <<>>
      BY DEF Due
    <3> QED
      BY <2>1, <2>3, <3>1, <3>2 DEF RequestInv
  <2> QED
    BY <2>1, <2>2, <2>3, <2>4, <2>5 DEF BeforeLoad
<1>10. ASSUME request.phase # "none", request'.phase \notin {"none", "barrier"},
              request'.input = request.input, stored \subseteq stored',
              UNCHANGED <<restored, local, head, running, writes, outcome, barrier>>
       PROVE  Core'
  <2>1. restored
    BY <1>10 DEF BeforeLoad
  <2>2. BeforeLoad' /\ LocalInv'
    BY <1>10, <2>1 DEF BeforeLoad, LocalInv
  <2>3. QueueInv'
    BY <1>10 DEF QueueInv
  <2>4. StoredInv' /\ OrderedWrites' /\ RequestInv'
    BY <1>10 DEF StoredInv, OrderedWrites, RequestInv
  <2> QED
    BY <2>2, <2>3, <2>4
<1>11. ASSUME RequestPasses PROVE Core'
  BY <1>10, <1>11 DEF RequestPasses, TypeOK, runtimeVars, writeVars, serverVars
<1>12. ASSUME RequestBlocked PROVE Core'
  <2>1. request.phase = "barrier" /\ Broken(request.on) /\ RunEnds /\ running
        /\ UNCHANGED <<writes, outcome, stored>>
    BY <1>12 DEF RequestBlocked, LocalInv, serverVars
  <2>2. writes = <<>>
    <3> SUFFICES ASSUME writes # <<>> PROVE FALSE
      OBVIOUS
    <3>1. Len(writes) \in DOMAIN writes /\ request.on = writes[Len(writes)]
      BY <2>1 DEF RequestInv, TypeOK
    <3> QED
      BY <2>1, <3>1 DEF QueueInv, Broken, Failed
  <2> QED
    BY <2>1, <2>2, RunEndKeeps
<1>13. ASSUME Post PROVE Core'
  <2>1. request.phase = "capabilities" /\ running
    BY <1>13 DEF Post, LocalInv
  <2>2. CASE ParentOf[request.input] \in stored \cup {None}
    BY <1>10, <1>13, <2>1, <2>2 DEF Post, TypeOK, runtimeVars, writeVars
  <2>3. CASE ~(ParentOf[request.input] \in stored \cup {None})
    BY <1>13, <2>1, <2>3, RunEndKeeps DEF Post, writeVars, serverVars, QueueInv
  <2> QED
    BY <2>2, <2>3
<1>14. ASSUME Complete PROVE Core'
  BY <1>10, <1>14 DEF Complete, TypeOK, runtimeVars, writeVars
<1>15. ASSUME RunSettles PROVE Core'
  <2>1. running
    BY <1>15 DEF RunSettles, LocalInv
  <2> QED
    BY <1>15, <2>1, RunEndKeeps DEF RunSettles, writeVars, serverVars, QueueInv
<1>16. ASSUME HeadWaits \/ RetryTimer \/ HeadAnswered \/ (\E h \in MsgRef : StrayArrives(h))
              \/ UNCHANGED vars
       PROVE  Core'
  <2>1. UNCHANGED <<restored, local, head, running, writes, outcome, barrier, request, stored>>
    BY <1>16 DEF HeadWaits, RetryTimer, HeadAnswered, StrayArrives, vars, runtimeVars,
                 writeVars, serverVars
  <2> QED
    BY <1>4, <2>1 DEF LocalInv
<1> QED
  BY <1>1, <1>2, <1>3, <1>5, <1>6, <1>7, <1>8, <1>9, <1>11, <1>12, <1>13, <1>14, <1>15,
     <1>16 DEF Next, User, System

-----------------------------------------------------------------------------
(* Theorems                                                                *)

LEMMA InitInv == Init => Inv
<1> SUFFICES ASSUME Init PROVE Inv
  OBVIOUS
<1>1. TypeOK
  <2>1. /\ None \in MsgRef /\ MsgIds \subseteq MsgRef /\ Restorable \subseteq MsgIds
        /\ InitialHead \in MsgRef /\ MaxRetries \in Nat /\ MaxMoves \in Nat
    BY HistoryShape DEF MsgRef
  <2>2. /\ NoRequest \in [phase : {"none", "barrier", "capabilities", "reserved", "completed"},
                          on : MsgRef, input : MsgRef, answer : MsgRef]
        /\ NoChain \in [phase : {"idle", "barrier", "wire", "delay"}, on : MsgRef,
                        attempt : 0..MaxRetries]
    BY <2>1 DEF NoRequest, NoChain
  <2>3. sync \in [loaded : BOOLEAN, last : MsgRef,
                  pending : MsgRef \cup {Unset}, desired : MsgRef \cup {Optimistic}]
    BY <2>1 DEF Init
  <2>4. outcome \in [MsgIds -> {"none", "queued", "stored"} \cup Failed]
        /\ writes \in Seq(MsgIds) /\ moves \in 0..MaxMoves
    BY <2>1 DEF Init
  <2> QED
    BY <2>1, <2>2, <2>3, <2>4 DEF Init, TypeOK
<1>2. ChainInv
  BY DEF Init, ChainInv, NoChain
<1>3. BeforeLoad /\ LocalInv
  BY DEF Init, BeforeLoad, LocalInv, NoRequest
<1>4. QueueInv
  BY DEF Init, QueueInv
<1>5. StoredInv /\ RequestInv /\ OrderedWrites
  BY DEF Init, StoredInv, RequestInv, OrderedWrites, NoRequest
<1> QED
  BY <1>1, <1>2, <1>3, <1>4, <1>5 DEF Inv, Core

LEMMA InvHolds == Spec => []Inv
<1>1. Inv /\ [Next]_vars => Inv'
  BY TypesKept, CoreKept DEF Inv
<1> QED
  BY InitInv, <1>1, PTL DEF Spec

\* The variables of the history adapter, of the run request and of the retries
\* of HistoryHeadSync keep their types.
THEOREM TypeCorrect == Spec => []TypeOK
<1>1. Inv => TypeOK
  BY DEF Inv
<1> QED
  BY InvHolds, <1>1, PTL

\* The adapter's writes reach the server in the order they were made: one is
\* refused only below one that failed, whatever is lost or retried.
THEOREM WritesInOrder == Spec => []OrderedWrites
<1>1. Inv => OrderedWrites
  BY DEF Inv, Core
<1> QED
  BY InvHolds, <1>1, PTL

\* createAgentFetch lets a run request pass only when every write made before
\* it has settled, and the one it waited for was stored.
THEOREM RequestsWait == Spec => PostAfterWrites
<1>1. Inv /\ [Next]_vars =>
        [request.phase = "barrier" /\ request'.phase = "capabilities"
           => /\ request.on # None => outcome[request.on] = "stored"
              /\ \A m \in MsgIds : outcome[m] # "queued"]_vars
  <2> SUFFICES ASSUME Inv, [Next]_vars, request.phase = "barrier",
                      request'.phase = "capabilities"
               PROVE  /\ request.on # None => outcome[request.on] = "stored"
                      /\ \A m \in MsgIds : outcome[m] # "queued"
    OBVIOUS
  <2>1. RequestPasses
    <3>1. ASSUME RunEnds PROVE FALSE
      <4>1. request' = NoRequest
        BY <3>1 DEF RunEnds
      <4> QED
        BY <4>1 DEF NoRequest
    <3>2. request' # request
      OBVIOUS
    <3>3. ~(\E u \in Users : Send(u) \/ Regenerate(u))
      BY DEF Send, Regenerate, NoRequest
    <3>4. ~(RequestBlocked \/ Post \/ Complete \/ RunSettles)
      BY <3>1 DEF RequestBlocked, Post, Complete, RunSettles
    <3>5. ~(\E a \in Answers : Stream(a) \/ AppendAnswer(a))
      BY <3>2 DEF Stream, AppendAnswer, Inv, TypeOK
    <3>6. ~(Load \/ Placeholder \/ (\E h \in MsgIds : Switch(h)) \/ (\E i \in Due : Write(i)))
      BY <3>2 DEF Load, Placeholder, Switch, Write
    <3>7. ~(HeadWaits \/ RetryTimer \/ HeadAnswered \/ (\E h \in MsgRef : StrayArrives(h)))
      BY <3>2 DEF HeadWaits, RetryTimer, HeadAnswered, StrayArrives
    <3>8. ~UNCHANGED vars
      BY <3>2 DEF vars
    <3> QED
      BY <3>3, <3>4, <3>5, <3>6, <3>7, <3>8 DEF Next, User, System
  <2>2. request.on # None => outcome[request.on] = "stored"
    BY <2>1 DEF RequestPasses, Passed, Inv, TypeOK, MsgRef
  <2>3. writes = <<>>
    <3> SUFFICES ASSUME writes # <<>> PROVE FALSE
      OBVIOUS
    <3>1. Len(writes) \in DOMAIN writes /\ writes[Len(writes)] \in MsgIds
      BY DEF Inv, TypeOK
    <3>2. request.on = writes[Len(writes)] /\ outcome[writes[Len(writes)]] = "queued"
      BY <3>1 DEF Inv, Core, RequestInv, QueueInv
    <3> QED
      BY <2>1, <3>1, <3>2 DEF RequestPasses, Passed
  <2> QED
    BY <2>2, <2>3 DEF Inv, Core, QueueInv
<1> QED
  BY InvHolds, <1>1, PTL DEF Spec, PostAfterWrites

-----------------------------------------------------------------------------
(* The published head                                                      *)

\* While a run has no answer, every answer there is has been appended.  One that
\* was not has no later turn, and what is shown is neither its parent nor a
\* placeholder.
AnswerInv ==
    /\ running /\ request.answer = None => Appended
    /\ \A a \in Answers \cap local : outcome[a] = "none" => head \notin {ParentOf[a], Optimistic}
    /\ head = Optimistic => running

\* What the browser believes it has published is a message it shows.
LastInv ==
    /\ ~restored => /\ sync.last = InitialHead /\ serverHead = InitialHead
                    /\ chain.phase = "idle" /\ strays = {}
    /\ restored => sync.last \in local \cup {None}

\* Retries are for the head that is shown and that was not published.  Once the
\* write is under way no queued message hangs below that head, and none that was
\* abandoned may overtake it.
RetryInv ==
    /\ sync.desired = head
    /\ chain.phase # "idle" =>
          /\ sync.pending = head /\ head # sync.last
          /\ running => head = request.input /\ request.answer = None
    /\ chain.phase = "barrier" =>
          \A i \in DOMAIN writes : ParentOf[writes[i]] = head
              => \E j \in DOMAIN writes : i <= j /\ writes[j] = chain.on
    /\ chain.phase = "wire" =>
          strays = {} /\ \A i \in DOMAIN writes : ParentOf[writes[i]] # head

\* The head that is shown once a placeholder has gone.
Shown == IF head = Optimistic THEN request.input ELSE head

\* A published head that is shown is the server's, and nothing is on its way
\* that would move it.
PublishedInv ==
    sync.last = Shown =>
        /\ serverHead = sync.last /\ strays = {}
        /\ \A i \in DOMAIN writes : ParentOf[writes[i]] # sync.last
        /\ running => request.input = sync.last /\ request.answer = None

HeadInv == AnswerInv /\ LastInv /\ RetryInv /\ PublishedInv

\* What the shape of the constants says of the ids.
LEMMA Ids ==
    /\ Users \cap Answers = {} /\ Users \subseteq MsgIds /\ Answers \subseteq MsgIds
    /\ None \notin MsgIds /\ Optimistic \notin MsgRef /\ MsgIds \subseteq MsgRef
    /\ Restorable \subseteq MsgIds /\ InitialHead \in Restorable \cup {None}
    /\ ParentOf \in [MsgIds -> MsgRef]
  BY HistoryShape DEF MsgIds, MsgRef

\* What the effect of HistoryHeadSync leaves alone.
LEMMA EffectDoes ==
    ASSUME TypeOK, RetryInv, NEW h, NEW run, SyncEffect(h, run)
    PROVE  /\ sync'.last = sync.last /\ sync'.desired = h
           /\ chain.phase = "idle" \/ h = head => strays' = strays
  BY DEF SyncEffect, Superseded, RetryInv

LEMMA PendingIsShown ==
    ASSUME TypeOK, ChainInv, RetryInv, sync.last = Shown
    PROVE  chain.phase = "idle"
  BY Ids DEF ChainInv, RetryInv, Shown

\* The retries the effect starts wait for the last write there is; those it
\* leaves alone are for the head that is still shown.
LEMMA EffectRetries ==
    ASSUME TypeOK, QueueInv', RetryInv, SyncEffect(head', running'),
           head' = head => /\ writes' = writes
                           /\ chain.phase # "idle" /\ running'
                                => head = request'.input /\ request'.answer = None
    PROVE  RetryInv'
<1> DEFINE h == head'
           starts == /\ Publishable(h, running') /\ sync.last # h
                     /\ (IF Superseded(h) THEN Unset ELSE sync.pending) # h
<1>1. sync'.last = sync.last /\ sync'.desired = h
  BY EffectDoes
<1>2. CASE starts
  <2>1. /\ chain' = [phase |-> "barrier", on |-> barrier', attempt |-> 0]
        /\ sync'.pending = h /\ ~running' /\ h # sync'.last
    BY <1>2 DEF SyncEffect, Publishable
  <2>2. \A i \in DOMAIN writes' : \E j \in DOMAIN writes' : i <= j /\ writes'[j] = barrier'
    <3> SUFFICES ASSUME NEW i \in DOMAIN writes'
                 PROVE  \E j \in DOMAIN writes' : i <= j /\ writes'[j] = barrier'
      OBVIOUS
    <3>1. writes' # <<>>
      OBVIOUS
    <3> QED
      BY <3>1 DEF QueueInv
  <2> QED
    BY <1>1, <2>1, <2>2 DEF RetryInv
<1>3. CASE ~starts /\ Superseded(h)
  <2>1. chain' = NoChain
    BY <1>3 DEF SyncEffect
  <2> QED
    BY <1>1, <2>1 DEF RetryInv, NoChain
<1>4. CASE ~starts /\ ~Superseded(h)
  <2>1. h = head /\ chain' = chain /\ strays' = strays /\ sync'.pending = sync.pending
    BY <1>4 DEF SyncEffect, Superseded, RetryInv
  <2> QED
    BY <1>1, <2>1 DEF RetryInv
<1> QED
  BY <1>2, <1>3, <1>4

\* A change of what is shown publishes nothing: where a published head stays
\* shown or is shown again, it was shown before.
LEMMA EffectPublishes ==
    ASSUME TypeOK, ChainInv, RetryInv, PublishedInv, SyncEffect(head', running'),
           sync.last = Shown' =>
               /\ sync.last = Shown /\ UNCHANGED <<serverHead, writes>>
               /\ running' => running /\ request' = request
    PROVE  PublishedInv'
<1> SUFFICES ASSUME sync'.last = Shown'
             PROVE  /\ serverHead' = sync'.last /\ strays' = {}
                    /\ \A i \in DOMAIN writes' : ParentOf[writes'[i]] # sync'.last
                    /\ running' => request'.input = sync'.last /\ request'.answer = None
  BY DEF PublishedInv
<1>1. sync'.last = sync.last /\ sync.last = Shown
  BY EffectDoes
<1>2. strays' = strays
  BY <1>1, EffectDoes, PendingIsShown
<1> QED
  BY <1>1, <1>2 DEF PublishedInv

\* The end of a run shows what was shown, or the run's input.
LEMMA EndOfRun ==
    ASSUME TypeOK, ChainInv, Core, HeadInv, Core', running, RunEnds,
           UNCHANGED <<writes, outcome, serverHead>>
    PROVE  HeadInv'
<1>0. /\ restored /\ request.input \in Users \cap local /\ request.input # Optimistic
      /\ running' = FALSE /\ UNCHANGED <<restored, local>>
      /\ head' = Shown /\ head' # Optimistic
      /\ SyncEffect(head', running')
  BY Ids DEF RunEnds, Shown, Core, BeforeLoad, LocalInv, MsgRef
<1>1. AnswerInv'
  <2> SUFFICES ASSUME NEW a \in Answers \cap local, outcome[a] = "none"
               PROVE  head' # ParentOf[a]
    BY <1>0 DEF AnswerInv
  <2> QED
    BY <1>0 DEF HeadInv, AnswerInv, Shown
<1>2. LastInv'
  BY <1>0, EffectDoes DEF HeadInv, LastInv
<1>3. RetryInv'
  BY <1>0, EffectRetries DEF HeadInv, Core
<1>4. PublishedInv'
  BY <1>0, EffectPublishes DEF HeadInv, Shown
<1> QED
  BY <1>1, <1>2, <1>3, <1>4 DEF HeadInv

\* A queued message stays where it is relative to the others, or leaves.
LEMMA WriteLeavesQueue ==
    ASSUME TypeOK, QueueInv, NEW i \in Due, Write(i)
    PROVE  /\ i = 1 /\ writes # <<>> /\ Len(writes') = Len(writes) - 1
           /\ DOMAIN writes' = 1..(Len(writes) - 1)
           /\ \A k \in DOMAIN writes' : writes'[k] = writes[k + 1]
           /\ \A k \in DOMAIN writes \ {1} : k - 1 \in DOMAIN writes' /\ writes'[k - 1] = writes[k]
<1>1. writes' = RemoveAt(writes, 1) /\ writes \in Seq(MsgIds) /\ writes # <<>> /\ i = 1
  BY DEF Write, WriteSettles, Due, TypeOK
<1>2. /\ writes' \in Seq(MsgIds) /\ Len(writes') = Len(writes) - 1
      /\ \A k \in 1..(Len(writes) - 1) : writes'[k] = writes[k + 1]
  BY <1>1, FirstLeaves
<1> QED
  BY <1>1, <1>2

\* Writing a message does not move a head that is published and shown.
LEMMA WriteKeepsHead ==
    ASSUME TypeOK, ChainInv, Core, HeadInv, NEW i \in Due, Write(i)
    PROVE  HeadInv'
<1>0. UNCHANGED <<restored, local, head, running, moves, request, sync, chain, strays>>
  BY DEF Write, runtimeVars, syncVars
<1>1. \A x \in MsgIds : outcome'[x] = "none" <=> outcome[x] = "none"
  BY WriteKeeps DEF Core
<1>2. /\ i = 1 /\ writes # <<>> /\ 1 \in DOMAIN writes
      /\ \A k \in DOMAIN writes' : k + 1 \in DOMAIN writes /\ writes'[k] = writes[k + 1]
      /\ \A k \in DOMAIN writes \ {1} : k - 1 \in DOMAIN writes' /\ writes'[k - 1] = writes[k]
  BY WriteLeavesQueue DEF Core
<1>3. restored
  BY <1>2 DEF Core, BeforeLoad
<1>4. AnswerInv'
  BY <1>0, <1>1, Ids DEF HeadInv, AnswerInv, Appended
<1>5. LastInv'
  BY <1>0, <1>3 DEF HeadInv, LastInv
<1>6. RetryInv'
  <2>1. ASSUME chain.phase = "barrier", NEW k \in DOMAIN writes', ParentOf[writes'[k]] = head
        PROVE  \E j \in DOMAIN writes' : k <= j /\ writes'[j] = chain.on
    <3>1. PICK j \in DOMAIN writes : k + 1 <= j /\ writes[j] = chain.on
      BY <1>2, <2>1 DEF HeadInv, RetryInv
    <3>2. j \in Nat \ {0, 1} /\ k \in Nat
      BY <3>1 DEF TypeOK
    <3> QED
      BY <1>2, <3>1, <3>2
  <2> QED
    BY <1>0, <1>2, <2>1 DEF HeadInv, RetryInv
<1>7. PublishedInv'
  <2>1. serverHead' = serverHead \/ serverHead = ParentOf[writes[1]]
    BY <1>2 DEF Write, StoreMessage, serverVars
  <2> QED
    BY <1>0, <1>2, <2>1 DEF HeadInv, PublishedInv, Shown
<1> QED
  BY <1>4, <1>5, <1>6, <1>7 DEF HeadInv

\* A message that joins the chain and does not hang below what is shown.
LEMMA EnqueueAside ==
    ASSUME TypeOK, NEW m \in MsgIds, Enqueue(m), RetryInv, PublishedInv,
           ParentOf[m] # head, ParentOf[m] # Shown,
           UNCHANGED <<head, running, request, sync, chain, strays, serverHead>>
    PROVE  RetryInv' /\ PublishedInv'
<1> DEFINE n == Len(writes)
<1>1. /\ writes' = Append(writes, m) /\ n \in Nat /\ DOMAIN writes = 1..n
      /\ DOMAIN writes' = 1..(n + 1) /\ writes'[n + 1] = m
      /\ \A k \in 1..n : writes'[k] = writes[k]
  BY DEF Enqueue, TypeOK
<1>2. RetryInv'
  <2>1. ASSUME chain.phase = "barrier", NEW k \in DOMAIN writes', ParentOf[writes'[k]] = head
        PROVE  \E j \in DOMAIN writes' : k <= j /\ writes'[j] = chain.on
    <3>1. k \in DOMAIN writes /\ ParentOf[writes[k]] = head
      BY <1>1, <2>1
    <3>2. PICK j \in DOMAIN writes : k <= j /\ writes[j] = chain.on
      BY <2>1, <3>1 DEF RetryInv
    <3> QED
      BY <1>1, <3>2
  <2> QED
    BY <1>1, <2>1 DEF RetryInv
<1>3. PublishedInv'
  BY <1>1 DEF PublishedInv, Shown
<1> QED
  BY <1>2, <1>3

\* The steps of the runtime.
LEMMA UserKeepsHead ==
    ASSUME "return" \notin Mishaps, TypeOK, ChainInv, Core, Core', HeadInv, User
    PROVE  HeadInv'
<1> USE DEF HeadInv
<1>1. ASSUME NEW u \in Users, Send(u) PROVE HeadInv'
  <2>1. /\ restored /\ Appended /\ u \notin local /\ u \in MsgIds /\ u # Optimistic
        /\ local' = local \cup {u} /\ head' = u /\ running' = TRUE /\ restored' = restored
        /\ Enqueue(u) /\ SyncEffect(head', running') /\ u \notin Answers
        /\ request'.input = u /\ UNCHANGED serverHead
    BY <1>1, Ids DEF Send, NoRequest, serverVars, MsgRef
  <2>2. \A x \in MsgIds : outcome'[x] = IF x = u THEN "queued" ELSE outcome[x]
    BY <2>1 DEF Enqueue, TypeOK
  <2>3. head # u
    BY <2>1, Ids DEF Core, LocalInv
  <2>4. AnswerInv'
    BY <2>1, <2>2, Ids DEF AnswerInv, Appended
  <2>5. LastInv'
    BY <2>1, EffectDoes DEF LastInv
  <2>6. RetryInv'
    BY <2>1, <2>3, EffectRetries DEF Core
  <2>7. sync.last # Shown'
    BY <2>1, Ids DEF LastInv, Shown
  <2> QED
    BY <2>1, <2>4, <2>5, <2>6, <2>7, EffectPublishes
<1>2. ASSUME NEW u \in Users, Regenerate(u) PROVE HeadInv'
  <2>1. /\ restored /\ Appended /\ u \in local /\ u # sync.last /\ u # Optimistic
        /\ head' = u /\ running' = TRUE /\ request'.input = u /\ request'.answer = None
        /\ SyncEffect(head', running')
        /\ UNCHANGED <<restored, local, writes, outcome, serverHead>>
    BY <1>2, Ids DEF Regenerate, NoRequest, writeVars, serverVars, MsgRef
  <2>2. AnswerInv'
    BY <2>1, Ids DEF AnswerInv, Appended
  <2>3. LastInv'
    BY <2>1, EffectDoes DEF LastInv
  <2>4. RetryInv'
    BY <2>1, EffectRetries DEF Core
  <2>5. sync.last # Shown'
    BY <2>1 DEF Shown
  <2> QED
    BY <2>1, <2>2, <2>3, <2>4, <2>5, EffectPublishes
<1>3. ASSUME NEW h \in MsgIds, Switch(h) PROVE HeadInv'
  <2>1. /\ restored /\ h \in local /\ h # head /\ Leaf(h) /\ h # sync.last /\ h # Optimistic
        /\ head' = h /\ SyncEffect(head', running')
        /\ UNCHANGED <<restored, local, running, writes, outcome, request, serverHead>>
    BY <1>3, Ids DEF Switch, writeVars, serverVars, MsgRef
  <2>2. AnswerInv'
    BY <2>1 DEF AnswerInv, Appended, Leaf
  <2>3. LastInv'
    BY <2>1, EffectDoes DEF LastInv
  <2>4. RetryInv'
    BY <2>1, EffectRetries DEF Core
  <2>5. sync.last # Shown'
    BY <2>1 DEF Shown
  <2> QED
    BY <2>1, <2>2, <2>3, <2>4, <2>5, EffectPublishes
<1> QED
  BY <1>1, <1>2, <1>3 DEF User

\* The steps of the run request and of the history adapter.
LEMMA SystemKeepsHead ==
    ASSUME "late" \notin Mishaps, TypeOK, ChainInv, Core, Core', HeadInv, System
    PROVE  HeadInv'
<1> USE DEF HeadInv
<1>1. ASSUME Load PROVE HeadInv'
  <2>1. /\ ~restored /\ restored' = TRUE /\ local' = Restorable /\ head' = InitialHead
        /\ SyncEffect(head', running') /\ ~running
        /\ UNCHANGED <<running, writes, outcome, request, serverHead>>
        /\ chain.phase = "idle" /\ strays = {} /\ sync.last = InitialHead
        /\ serverHead = InitialHead /\ writes = <<>> /\ head' # Optimistic
    BY <1>1, Ids DEF Load, writeVars, serverVars, Core, BeforeLoad, LocalInv, LastInv, MsgRef
  <2>2. AnswerInv'
    BY <1>1, <2>1, Ids DEF AnswerInv, Core, BeforeLoad
  <2>3. LastInv'
    BY <2>1, EffectDoes, Ids DEF LastInv
  <2>4. RetryInv'
    BY <2>1, EffectRetries DEF Core
  <2>5. PublishedInv'
    BY <2>1, EffectDoes DEF PublishedInv
  <2> QED
    BY <2>2, <2>3, <2>4, <2>5
<1>2. ASSUME Placeholder PROVE HeadInv'
  <2>1. /\ request.phase # "none" /\ request.answer = None /\ head = request.input
        /\ head' = Optimistic /\ SyncEffect(head', running')
        /\ UNCHANGED <<restored, local, running, writes, outcome, request, serverHead>>
    BY <1>2 DEF Placeholder, writeVars, serverVars
  <2>2. restored /\ running /\ head # Optimistic
    BY <2>1, Ids DEF Core, BeforeLoad, LocalInv, MsgRef
  <2>3. AnswerInv'
    BY <2>1, <2>2 DEF AnswerInv, Appended
  <2>4. LastInv'
    BY <2>1, <2>2, EffectDoes DEF LastInv
  <2>5. RetryInv'
    BY <2>1, <2>2, EffectRetries DEF Core
  <2>6. Shown' = Shown
    BY <2>1, <2>2 DEF Shown
  <2> QED
    BY <2>1, <2>3, <2>4, <2>5, <2>6, EffectPublishes
<1>3. ASSUME NEW a \in Answers, Stream(a) PROVE HeadInv'
  <2>1. /\ request.phase = "reserved" /\ request.answer = None
        /\ a \notin local /\ ParentOf[a] = request.input /\ local' = local \cup {a}
        /\ head' = IF head \in {Optimistic, request.input} THEN a ELSE head
        /\ SyncEffect(head', running') /\ a \in MsgIds /\ a # Optimistic
        /\ request'.input = request.input /\ request'.answer = a /\ a # None
        /\ UNCHANGED <<restored, running, writes, outcome, serverHead>>
    BY <1>3, Ids DEF Stream, TypeOK, writeVars, serverVars, MsgRef
  <2>2. restored /\ running /\ request.input \in local /\ request.input # Optimistic
    BY <2>1, Ids DEF Core, BeforeLoad, LocalInv, MsgRef
  <2>3. Appended
    BY <2>1, <2>2 DEF AnswerInv
  <2>4. head' # Optimistic /\ head' # request.input
    BY <2>1, <2>2
  <2>5. AnswerInv'
    BY <2>1, <2>3, <2>4 DEF AnswerInv, Appended
  <2>6. LastInv'
    BY <2>1, <2>2, EffectDoes DEF LastInv
  <2>7. RetryInv'
    <3>1. head' = head => chain.phase = "idle"
      BY <2>1, <2>2, <2>4 DEF RetryInv
    <3> QED
      BY <2>1, <3>1, EffectRetries DEF Core
  <2>8. sync.last # Shown'
    <3>1. CASE head' = a
      BY <2>1, <2>2, <2>4, <3>1, Ids DEF LastInv, Shown
    <3>2. CASE head' = head
      BY <2>1, <2>2, <2>4, <3>2 DEF PublishedInv, Shown
    <3> QED
      BY <2>1, <3>1, <3>2
  <2> QED
    BY <2>1, <2>5, <2>6, <2>7, <2>8, EffectPublishes
<1>4. ASSUME NEW a \in Answers, AppendAnswer(a) PROVE HeadInv'
  <2>1. /\ a \in local /\ outcome[a] = "none" /\ Enqueue(a) /\ a \in MsgIds
        /\ UNCHANGED <<restored, local, head, running, request, sync, chain, strays, serverHead>>
    BY <1>4, Ids DEF AppendAnswer, runtimeVars, syncVars, serverVars
  <2>2. ParentOf[a] # head /\ head # Optimistic
    BY <2>1 DEF AnswerInv
  <2>3. \A x \in MsgIds : outcome'[x] = IF x = a THEN "queued" ELSE outcome[x]
    BY <2>1 DEF Enqueue, TypeOK
  <2>4. AnswerInv'
    BY <2>1, <2>3, Ids DEF AnswerInv, Appended
  <2>5. LastInv'
    BY <2>1 DEF LastInv
  <2>6. RetryInv' /\ PublishedInv'
    BY <2>1, <2>2, EnqueueAside DEF Shown
  <2> QED
    BY <2>4, <2>5, <2>6
<1>5. ASSUME NEW i \in Due, Write(i) PROVE HeadInv'
  BY <1>5, WriteKeepsHead
<1>6. ASSUME request.phase # "none", request'.input = request.input,
             request'.answer = request.answer, serverHead' \in {serverHead, request.input} \/ request.answer # None,
             UNCHANGED <<runtimeVars, writeVars, syncVars>>
      PROVE  HeadInv'
  <2>1. restored /\ running
    BY <1>6 DEF Core, BeforeLoad, LocalInv
  <2>2. AnswerInv' /\ LastInv' /\ RetryInv'
    BY <1>6, <2>1 DEF AnswerInv, LastInv, RetryInv, Appended, runtimeVars, writeVars, syncVars
  <2>3. PublishedInv'
    BY <1>6, <2>1 DEF PublishedInv, Shown, runtimeVars, writeVars, syncVars
  <2> QED
    BY <2>2, <2>3
<1>7. ASSUME RequestPasses PROVE HeadInv'
  BY <1>6, <1>7 DEF RequestPasses, TypeOK, serverVars
<1>8. ASSUME RequestBlocked PROVE HeadInv'
  BY <1>8, EndOfRun DEF RequestBlocked, Core, LocalInv, serverVars
<1>9. ASSUME Post PROVE HeadInv'
  <2>1. CASE ParentOf[request.input] \in stored \cup {None}
    BY <1>6, <1>9, <2>1 DEF Post, TypeOK
  <2>2. CASE ~(ParentOf[request.input] \in stored \cup {None})
    BY <1>9, <2>2, EndOfRun DEF Post, Core, LocalInv, writeVars, serverVars
  <2> QED
    BY <2>1, <2>2
<1>10. ASSUME Complete PROVE HeadInv'
  BY <1>6, <1>10 DEF Complete, TypeOK
<1>11. ASSUME RunSettles PROVE HeadInv'
  BY <1>11, EndOfRun DEF RunSettles, Core, LocalInv, writeVars, serverVars
<1>12. ASSUME chain.phase # "idle", UNCHANGED <<runtimeVars, writeVars, request, strays>>,
              serverHead' \in {serverHead, sync.pending},
              sync'.last = sync.last, sync'.desired = sync.desired,
              \/ chain'.phase = "idle"
              \/ /\ sync'.pending = sync.pending
                 /\ \/ chain'.phase = "delay"
                    \/ chain'.phase = "barrier" /\ chain'.on = barrier
                    \/ chain'.phase = "wire" /\ strays = {} /\ \A i \in DOMAIN writes : ParentOf[writes[i]] # head
       PROVE  HeadInv'
  <2>1. AnswerInv'
    BY <1>12 DEF AnswerInv, Appended, runtimeVars, writeVars
  <2>2. LastInv'
    BY <1>12 DEF LastInv, runtimeVars
  <2>3. RetryInv'
    <3>1. \A i \in DOMAIN writes : \E j \in DOMAIN writes : i <= j /\ writes[j] = barrier
      <4> SUFFICES ASSUME NEW i \in DOMAIN writes
                   PROVE  \E j \in DOMAIN writes : i <= j /\ writes[j] = barrier
        OBVIOUS
      <4>1. writes # <<>> /\ Len(writes) \in DOMAIN writes /\ i <= Len(writes)
        BY DEF TypeOK
      <4> QED
        BY <4>1 DEF Core, QueueInv
    <3> QED
      BY <1>12, <3>1 DEF RetryInv, runtimeVars, writeVars
  <2>4. sync.last # Shown
    BY <1>12, PendingIsShown
  <2>5. PublishedInv'
    BY <1>12, <2>4 DEF PublishedInv, Shown, runtimeVars
  <2> QED
    BY <2>1, <2>2, <2>3, <2>5
<1>13. ASSUME chain.phase # "idle", ChainFails
       PROVE  /\ sync'.last = sync.last /\ sync'.desired = sync.desired
              /\ chain'.phase = "idle" \/ (sync'.pending = sync.pending /\ chain'.phase = "delay")
  <2>1. CASE chain.attempt < MaxRetries
    BY <1>13, <2>1 DEF ChainFails, TypeOK
  <2>2. CASE ~(chain.attempt < MaxRetries)
    <3>1. chain' = NoChain /\ sync' = [sync EXCEPT !.pending = Unset]
      BY <1>13, <2>2 DEF ChainFails
    <3> QED
      BY <3>1 DEF NoChain, TypeOK
  <2> QED
    BY <2>1, <2>2
<1>14. ASSUME HeadWaits PROVE HeadInv'
  <2>1. CASE Broken(chain.on) /\ ChainFails
    <3>1. chain.phase # "idle" /\ UNCHANGED <<runtimeVars, writeVars, request, strays, serverHead>>
      BY <1>14 DEF HeadWaits, serverVars
    <3> QED
      BY <1>12, <1>13, <2>1, <3>1
  <2>2. CASE Passed(chain.on) /\ chain' = [chain EXCEPT !.phase = "wire"] /\ UNCHANGED sync
    <3>1. /\ chain.phase = "barrier" /\ strays = {} /\ chain'.phase = "wire"
          /\ UNCHANGED <<runtimeVars, writeVars, request, strays, serverHead>>
      BY <1>14, <2>2 DEF HeadWaits, serverVars, TypeOK
    <3>2. ASSUME NEW i \in DOMAIN writes, ParentOf[writes[i]] = head PROVE FALSE
      <4>1. PICK j \in DOMAIN writes : writes[j] = chain.on
        BY <3>1, <3>2 DEF RetryInv
      <4>2. outcome[chain.on] = "queued" /\ chain.on \in MsgIds
        BY <4>1 DEF Core, QueueInv, TypeOK
      <4> QED
        BY <2>2, <4>2 DEF Passed
    <3> QED
      BY <1>12, <2>2, <3>1, <3>2
  <2> QED
    BY <1>14, <2>1, <2>2 DEF HeadWaits
<1>15. ASSUME RetryTimer PROVE HeadInv'
  BY <1>12, <1>15 DEF RetryTimer, TypeOK, serverVars
<1>16. ASSUME HeadAnswered PROVE HeadInv'
  <2>1. chain.phase = "wire" /\ UNCHANGED <<runtimeVars, writeVars, request, strays>>
    BY <1>16 DEF HeadAnswered
  <2>2. CASE ChainFails /\ serverHead' \in {serverHead, sync.pending}
    BY <1>12, <1>13, <2>1, <2>2
  <2>3. CASE /\ serverHead' = sync.pending /\ chain' = NoChain
             /\ sync' = [sync EXCEPT !.last = sync.pending, !.pending = Unset]
    <3>1. /\ sync.pending = head /\ head \in MsgRef /\ head # Optimistic /\ strays = {}
          /\ \A i \in DOMAIN writes : ParentOf[writes[i]] # head
          /\ running => head = request.input /\ request.answer = None
      BY <2>1, Ids DEF RetryInv, ChainInv
    <3>2. /\ sync'.last = head /\ sync'.desired = sync.desired /\ chain'.phase = "idle"
          /\ UNCHANGED <<restored, local, head, running, writes, outcome, request, strays>>
      BY <2>1, <2>3, <3>1 DEF TypeOK, NoChain, runtimeVars, writeVars
    <3>3. restored
      BY <2>1 DEF LastInv
    <3>4. LastInv'
      BY <3>1, <3>2, <3>3 DEF LastInv, Core, LocalInv
    <3>5. AnswerInv' /\ RetryInv'
      BY <3>2 DEF AnswerInv, RetryInv, Appended
    <3>6. PublishedInv'
      BY <2>3, <3>1, <3>2 DEF PublishedInv
    <3> QED
      BY <3>4, <3>5, <3>6
  <2> QED
    BY <1>16, <2>2, <2>3 DEF HeadAnswered
<1>17. ASSUME NEW h \in MsgRef, StrayArrives(h) PROVE HeadInv'
  <2>1. /\ h \in strays /\ strays' \subseteq strays
        /\ UNCHANGED <<runtimeVars, writeVars, request, sync, chain>>
    BY <1>17 DEF StrayArrives
  <2>2. AnswerInv' /\ LastInv' /\ RetryInv'
    BY <2>1 DEF AnswerInv, LastInv, RetryInv, Appended, runtimeVars, writeVars
  <2>3. PublishedInv'
    BY <2>1 DEF PublishedInv, Shown, runtimeVars
  <2> QED
    BY <2>2, <2>3
<1> QED
  BY <1>1, <1>2, <1>3, <1>4, <1>5, <1>7, <1>8, <1>9, <1>10, <1>11, <1>14, <1>15, <1>16, <1>17
     DEF System

LEMMA HeadInit == Init => HeadInv
<1> SUFFICES ASSUME Init PROVE HeadInv
  OBVIOUS
<1>1. AnswerInv /\ LastInv
  <2>1. AnswerInv
    BY Ids DEF Init, AnswerInv, MsgRef, Appended
  <2> QED
    BY <2>1 DEF Init, LastInv, NoChain
<1>2. RetryInv /\ PublishedInv
  BY Ids DEF Init, RetryInv, PublishedInv, NoChain, MsgRef
<1> QED
  BY <1>1, <1>2 DEF HeadInv

\* The head that the browser shows and believes it has published is the one the
\* server would restore, although messages, runs and retries move it as well:
\* unless an abandoned head write is overtaken by a later one, or the user
\* returns to the published branch before the next is published.
THEOREM HeadIsRestored ==
    ASSUME Mishaps \cap {"late", "return"} = {} PROVE Spec => []PublishedHeadIsRestored
<1>1. Inv /\ HeadInv /\ [Next]_vars => HeadInv'
  <2> SUFFICES ASSUME Inv, HeadInv, [Next]_vars PROVE HeadInv'
    OBVIOUS
  <2>1. Inv'
    BY TypesKept, CoreKept DEF Inv
  <2>2. CASE UNCHANGED vars
    BY <2>2 DEF vars, runtimeVars, writeVars, syncVars, serverVars, HeadInv, AnswerInv,
                LastInv, RetryInv, PublishedInv, Shown, Appended
  <2> QED
    BY <2>1, <2>2, UserKeepsHead, SystemKeepsHead DEF Next, Inv
<1>2. Inv /\ HeadInv => PublishedHeadIsRestored
  BY Ids DEF Inv, TypeOK, HeadInv, PublishedInv, Shown, PublishedHeadIsRestored
<1> QED
  BY InvHolds, HeadInit, <1>1, <1>2, PTL DEF Spec
=============================================================================
