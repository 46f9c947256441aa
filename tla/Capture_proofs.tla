--------------------------- MODULE Capture_proofs ---------------------------
(***************************************************************************)
(* Proofs about Capture, for any sets of packets and clones, any pipeline  *)
(* and any bandwidth buffer size, with flags that may change at any time,  *)
(* and about Chains, the iptables rules installed around a capture.        *)
(***************************************************************************)
EXTENDS Capture, Chains, Series_proofs, SequenceTheorems, FiniteSetTheorems

USE CaptureAssumption

\* The pipeline is a finite list of the modules modelled here.
LEMMA PipelineIs ==
  /\ Len(Pipeline) \in Nat
  /\ DOMAIN Pipeline = 1..Len(Pipeline)
  /\ \A i \in DOMAIN Pipeline : Pipeline[i] \in Module
  /\ Stages \subseteq Module
  <1>1. Pipeline \in Seq(Module)
    OBVIOUS
  <1>2. Len(Pipeline) \in Nat /\ DOMAIN Pipeline = 1..Len(Pipeline)
    BY <1>1
  <1>3. \A i \in DOMAIN Pipeline : Pipeline[i] \in Module
    BY <1>1
  <1> QED
    BY <1>2, <1>3 DEF Stages

\* The buffers are those of the two holding modules.
LEMMA BufferedIs == Buffered = buffer["lag"] \cup buffer["bandwidth"]
  BY DEF Buffered, Holding

\* The same of the state after a step.
LEMMA BufferedIsPrime == Buffered' = buffer'["lag"] \cup buffer'["bandwidth"]
  BY DEF Buffered, Holding

\* Settle changes unanswered ids of S only: one that is pending gets the verdict
\* v, one whose queue is gone is answered too late.
LEMMA SettleIs ==
  ASSUME NEW f, NEW S, NEW iss, NEW v, NEW p \in Packet
  PROVE  /\ p \notin S \/ p \in iss => Settle(f, S, iss, v)[p] = f[p]
         /\ p \in S \ iss /\ nfqQueue =>
              /\ f[p] = "queued" => Settle(f, S, iss, v)[p] = v
              /\ f[p] = "flushed" => Settle(f, S, iss, v)[p] = "late"
         /\ Settle(f, S, iss, v)[p] \in {f[p], v, "late", "twice"}
  BY DEF Settle, Unsettled, Told

\* A step that leaves the kernel's queue alone, or does what NfQueue allows.
KernelStep == Kernel!Next \/ UNCHANGED fate

\* Settling nodes that are held is an answer NfQueue allows: NodeInv says that
\* none of them was answered before.
LEMMA HeldAnswer ==
  ASSUME NodeInv, NEW S \in SUBSET Held, NEW v \in {"accepted", "dropped"},
         fate' = Settle(fate, S, issued, v)
  PROVE  KernelStep
  <1> DEFINE ids == Unsettled(S, issued)
  <1>1. ids \in SUBSET Packet /\ ids \subseteq Held \cap Packet
    BY DEF Unsettled
  <1>2. \A p \in ids : fate[p] \in {"queued", "flushed"}
    BY <1>1 DEF NodeInv
  <1>3. ids \subseteq Kernel!Pending \cup Kernel!Gone
    BY <1>1, <1>2 DEF Kernel!Pending, Kernel!Gone
  <1>4. fate' = [p \in Packet |-> IF p \in ids \cap Kernel!Pending THEN v
                                  ELSE IF p \in ids THEN "late"
                                  ELSE fate[p]]
    <2>1. \A p \in Packet : (IF p \in ids THEN Told(fate[p], v) ELSE fate[p]) =
                               (IF p \in ids \cap Kernel!Pending THEN v
                                ELSE IF p \in ids THEN "late"
                                ELSE fate[p])
      BY <1>2 DEF Told, Kernel!Pending
    <2> HIDE DEF ids
    <2> QED
      BY <2>1 DEF Settle, ids
  <1>5. Kernel!Answer(ids, v)
    BY <1>3, <1>4 DEF Kernel!Answer
  <1> QED
    BY <1>1, <1>5 DEF KernelStep, Kernel!Next, Kernel!Verdict

\* What NfQueue allows never changes an answer.
LEMMA KernelKeeps ==
  ASSUME TypeOK, KernelStep
  PROVE  \A p \in Packet : fate[p] \in Answered => fate'[p] = fate[p]
  BY DEF TypeOK, KernelStep, Kernel!Next, Kernel!Enqueue, Kernel!Answer, Kernel!Destroy,
     Kernel!Pending, Kernel!Gone, Answered

\* The program starts with an empty list, empty buffers and no thread running
\* (the statics of packet.cpp and divert_linux.cpp), and IInv holds there.
THEOREM InitIInv == Init => IInv
  <1> SUFFICES ASSUME Init PROVE IInv
    OBVIOUS
  <1> USE BufferedIs, PipelineIs DEF Init
  <1>1. TypeOK
    <2>1. 1 \in 1..Len(Pipeline) + 1
      OBVIOUS
    <2>2. enabled \subseteq Module
      OBVIOUS
    <2> QED
      BY <2>1, <2>2 DEF TypeOK, Fate
  <1>2. ThreadInv
    BY DEF ThreadInv
  <1>3. ListQuiescent /\ NothingAfterFlush /\ Accounted
    BY DEF ListQuiescent, NothingAfterFlush, Accounted
  <1>4. NodeInv
    BY DEF NodeInv, OneHome, Held, Holding
  <1> QED
    BY <1>1, <1>2, <1>3, <1>4 DEF IInv

\* What a module leaves behind is a packet list and buffers of the right type.
LEMMA ModuleType ==
  ASSUME TypeOK, NEW m \in Module, Process(m) \/ CloseDown(m)
  PROVE  /\ fate' \in [Packet -> Fate]
         /\ issued' \subseteq Packet
         /\ list' \subseteq Node
         /\ buffer' \in [Holding -> SUBSET Node]
  <1> USE DEF TypeOK, Module, Holding, Fate, Answered
  <1>1. CASE m = "lag" /\ LagProcess
    BY <1>1 DEF LagProcess, MoveThrough
  <1>2. CASE m = "drop" /\ DropProcess
    BY <1>2 DEF DropProcess, FreeNodes, Settle, Unsettled, Told
  <1>3. CASE m = "duplicate" /\ DupProcess
    BY <1>3 DEF DupProcess, Node
  <1>4. CASE m = "bandwidth" /\ BandwidthProcess
    BY <1>4 DEF BandwidthProcess, FreeNodes, Settle, Unsettled, Told
  <1>5. CASE CloseDown(m)
    BY <1>5 DEF CloseDown, MoveThrough
  <1> QED
    BY <1>1, <1>2, <1>3, <1>4, <1>5 DEF Process

\* Type correctness of one step.
LEMMA TypeStep ==
  ASSUME TypeOK, ThreadInv, NodeInv, Next
  PROVE  TypeOK'
  <1> USE PipelineIs DEF TypeOK, Fate, Answered
  <1>1. CASE RunStage
    <2> DEFINE m == Pipeline[stage]
    <2>1. m \in Module /\ stage' \in 1..Len(Pipeline) + 1
      BY <1>1 DEF RunStage, AtModule
    <2>2. UNCHANGED <<ctl, stopLooping, rpc, cpc, mutex, msg, queueVars, enabled, rested>>
      BY <1>1 DEF RunStage
    <2>3. lastEnabled' \subseteq Module /\ linked' \subseteq Holding
      BY <1>1, <2>1 DEF RunStage, StartIfNew, StartUp
    <2>4. CASE Process(m) \/ CloseDown(m)
      BY <2>1, <2>2, <2>3, <2>4, ModuleType DEF queueVars
    <2>5. CASE UNCHANGED nodeVars
      BY <2>1, <2>2, <2>3, <2>5 DEF queueVars, nodeVars
    <2> QED
      BY <1>1, <2>4, <2>5 DEF RunStage
  <1>2. CASE CloseStage
    <2> DEFINE m == Pipeline[stage]
    <2>1. m \in Module /\ stage' \in 1..Len(Pipeline) + 1
      BY <1>2 DEF CloseStage, AtModule
    <2>2. UNCHANGED <<ctl, stopLooping, rpc, cpc, mutex, msg, queueVars, moduleVars>>
      BY <1>2 DEF CloseStage
    <2>3. CASE CloseDown(m)
      BY <2>1, <2>2, <2>3, ModuleType DEF queueVars, moduleVars
    <2>4. CASE UNCHANGED nodeVars
      BY <2>1, <2>2, <2>4 DEF queueVars, nodeVars, moduleVars
    <2> QED
      BY <1>2, <2>3, <2>4 DEF CloseStage
  <1>3. CASE CloseUnlinked
    BY <1>3 DEF CloseUnlinked, CloseQueue, threadVars, moduleVars
  <1>4. CASE SendOne
    BY <1>4 DEF SendOne, SendNode, Settle, Unsettled, Told, threadVars, queueVars, moduleVars
  <1>5. CASE Release
    BY <1>5 DEF Release, queueVars, nodeVars, moduleVars
  <1>6. CASE Read
    <2>1. CASE ReadStop \/ ReadFail \/ ReadDiscard
      BY <2>1 DEF ReadStop, ReadFail, ReadDiscard, queueVars, nodeVars, moduleVars
    <2>2. CASE \E p \in Packet : ReadReceive(p)
      BY <2>2 DEF ReadReceive, nodeVars, moduleVars
    <2>3. CASE ReadPass
      BY <2>3 DEF ReadPass, queueVars, moduleVars
    <2>4. CASE ReadCapture
      <3>1. msg \in received /\ msg \in Packet
        BY <2>4 DEF ReadCapture, MayHandle, ThreadInv, NodeInv
      <3> QED
        BY <2>4, <3>1 DEF ReadCapture, moduleVars, Node
    <2> QED
      BY <1>6, <2>1, <2>2, <2>3, <2>4 DEF Read
  <1>7. CASE Clock
    BY <1>7 DEF Clock, ClockAcquire, ClockSkip, ClockCheck, ClockFinal,
         queueVars, nodeVars, moduleVars
  <1>8. CASE Control
    <2>1. CASE Start
      <3>1. stage' \in 1..Len(Pipeline) + 1
        BY <2>1 DEF Start
      <3> QED
        BY <2>1, <3>1 DEF Start, nodeVars
    <2>2. CASE StopRequest
      BY <2>2 DEF StopRequest, threadVars, queueVars, nodeVars, moduleVars
    <2>3. CASE StopJoin
      BY <2>3 DEF StopJoin, CloseQueue, threadVars, moduleVars
    <2>4. CASE \E m \in Stages : Toggle(m)
      <3>1. enabled' \subseteq Module
        BY <2>4 DEF Toggle
      <3> QED
        BY <2>4, <3>1 DEF Toggle, threadVars, queueVars, nodeVars
    <2> QED
      BY <1>8, <2>1, <2>2, <2>3, <2>4 DEF Control
  <1>9. CASE \E p \in Packet : Arrive(p)
    BY <1>9 DEF Arrive, threadVars, queueVars, moduleVars
  <1> QED
    BY <1>1, <1>2, <1>3, <1>4, <1>5, <1>6, <1>7, <1>8, <1>9 DEF Next, Pipe

\* The threads exclude each other, and stop only when told to.
LEMMA ThreadStep ==
  ASSUME TypeOK, ThreadInv, NodeInv, ListQuiescent, NothingAfterFlush, Next
  PROVE  ThreadInv' /\ ListQuiescent' /\ NothingAfterFlush'
  <1> USE DEF TypeOK, ThreadInv, ListQuiescent, NothingAfterFlush
  <1>1. CASE RunStage
    BY <1>1 DEF RunStage, Consuming, queueVars
  <1>2. CASE CloseStage
    BY <1>2 DEF CloseStage, Closing, queueVars
  <1>3. CASE CloseUnlinked
    BY <1>3 DEF CloseUnlinked, CloseQueue, Closing, threadVars
  <1>4. CASE SendOne
    BY <1>4 DEF SendOne, SendNode, Consuming, Closing, threadVars, queueVars
  <1>5. CASE Release
    BY <1>5 DEF Release, Drained, Consuming, Closing, queueVars, nodeVars
  <1>6. CASE Read
    BY <1>6 DEF Read, ReadStop, ReadReceive, ReadFail, ReadDiscard, ReadPass, ReadCapture,
         MayHandle, queueVars, nodeVars
  <1>7. CASE Clock
    BY <1>7 DEF Clock, ClockAcquire, ClockSkip, ClockCheck, ClockFinal, queueVars, nodeVars
  <1>8. CASE Control
    BY <1>8 DEF Control, Start, StopRequest, StopJoin, Toggle, CloseQueue,
         threadVars, queueVars, nodeVars
  <1>9. CASE \E p \in Packet : Arrive(p)
    BY <1>9 DEF Arrive, threadVars, queueVars
  <1> QED
    BY <1>1, <1>2, <1>3, <1>4, <1>5, <1>6, <1>7, <1>8, <1>9 DEF Next, Pipe

\* Settling held nodes that then leave the list and the buffers: the ids among
\* them are answered, and everything else is as it was.
LEMMA SettleHeld ==
  ASSUME TypeOK, NodeInv, Accounted, nfqQueue,
         NEW gone \in SUBSET Held, NEW v \in {"accepted", "dropped"},
         fate' = Settle(fate, gone, issued, v),
         issued' = issued \cup Unsettled(gone, issued),
         OneHome', Held' = Held \ gone, UNCHANGED <<received, captured, msg, ctl>>
  PROVE  NodeInv' /\ Accounted' /\ KernelStep
  <1>1. KernelStep
    BY HeldAnswer
  <1>2. \A p \in Packet : p \notin gone => fate'[p] = fate[p]
    BY SettleIs
  <1>3. \A p \in gone \cap Packet : fate'[p] \in Answered
    <2> SUFFICES ASSUME NEW p \in gone \cap Packet PROVE fate'[p] \in Answered
      OBVIOUS
    <2>1. fate[p] \in {"queued", "flushed"} /\ p \notin issued
      BY DEF NodeInv, OneHome
    <2> QED
      BY <2>1, SettleIs DEF Answered
  <1>4. issued' = issued \cup (gone \cap Packet)
    BY DEF Unsettled, NodeInv, OneHome
  <1>5. NodeInv'
    <2>1. Held' \cap Packet \subseteq captured' /\ issued' \subseteq captured'
      BY <1>4 DEF NodeInv
    <2>2. \A p \in Held' \cap Packet : fate'[p] \in {"queued", "flushed"}
      BY <1>2 DEF NodeInv
    <2>3. \A p \in received' : fate'[p] # "unseen"
      BY <1>2, <1>3 DEF NodeInv, TypeOK, Answered
    <2>4. msg' # NoPacket => msg' \notin gone
      BY DEF NodeInv, OneHome, TypeOK
    <2> QED
      BY <1>2, <2>1, <2>2, <2>3, <2>4 DEF NodeInv, TypeOK
  <1>6. Accounted'
    BY <1>2, <1>3 DEF Accounted, TypeOK
  <1> QED
    BY <1>1, <1>5, <1>6

\* A module moves nodes between the list and its buffer, adds clones that were
\* free and frees nodes of the list; ids that were answered stay as they are.
LEMMA ModuleNodes ==
  ASSUME TypeOK, NodeInv, Accounted, nfqQueue,
         NEW m \in Module, Process(m) \/ CloseDown(m),
         UNCHANGED <<received, captured, msg, ctl>>
  PROVE  NodeInv' /\ Accounted' /\ KernelStep
  <1> USE BufferedIs, BufferedIsPrime DEF TypeOK, OneHome, Held, Module, Holding
  <1>6. ASSUME Held' \cap Packet = Held \cap Packet, OneHome', UNCHANGED <<fate, issued>>
        PROVE  NodeInv' /\ Accounted' /\ KernelStep
    BY <1>6 DEF NodeInv, Accounted, KernelStep
  <1>1. CASE m = "lag" /\ LagProcess
    <2>1. PICK in \in SUBSET list : \E out \in SUBSET (buffer["lag"] \cup in) :
             MoveThrough("lag", in, out) /\ UNCHANGED <<fate, issued>>
      BY <1>1 DEF LagProcess
    <2>2. PICK out \in SUBSET (buffer["lag"] \cup in) :
             MoveThrough("lag", in, out) /\ UNCHANGED <<fate, issued>>
      BY <2>1
    <2>3. Held' = Held
      BY <2>2 DEF MoveThrough
    <2>4. OneHome'
      BY <2>2, <2>3 DEF MoveThrough, NodeInv
    <2> QED
      BY <2>2, <2>3, <2>4, <1>6
  <1>2. CASE m = "drop" /\ DropProcess
    <2>1. PICK gone \in SUBSET list : list' = list \ gone /\ FreeNodes(gone) /\ UNCHANGED buffer
      BY <1>2 DEF DropProcess
    <2>2. Held' = Held \ gone
      BY <2>1 DEF NodeInv
    <2>3. OneHome'
      BY <2>1, <2>2 DEF FreeNodes, Unsettled, NodeInv
    <2> QED
      BY <2>1, <2>2, <2>3, SettleHeld DEF FreeNodes
  <1>3. CASE m = "duplicate" /\ DupProcess
    <2>1. PICK new \in SUBSET (Clone \ Held) :
             list' = list \cup new /\ UNCHANGED <<fate, issued, buffer>>
      BY <1>3 DEF DupProcess
    <2>2. Held' = Held \cup new /\ new \cap Packet = {}
      BY <2>1
    <2>3. OneHome'
      BY <2>1, <2>2 DEF NodeInv
    <2> QED
      BY <2>1, <2>2, <2>3, <1>6
  <1>4. CASE m = "bandwidth" /\ BandwidthProcess
    <2>1. PICK in \in SUBSET list : \E gone \in SUBSET (list \ in) :
             /\ \E out \in SUBSET (buffer["bandwidth"] \cup in) :
                  /\ list' = (list \ (in \cup gone)) \cup out
                  /\ buffer' = [buffer EXCEPT !["bandwidth"] = (buffer["bandwidth"] \cup in) \ out]
             /\ FreeNodes(gone)
      BY <1>4 DEF BandwidthProcess
    <2>2. PICK gone \in SUBSET (list \ in) :
             /\ \E out \in SUBSET (buffer["bandwidth"] \cup in) :
                  /\ list' = (list \ (in \cup gone)) \cup out
                  /\ buffer' = [buffer EXCEPT !["bandwidth"] = (buffer["bandwidth"] \cup in) \ out]
             /\ FreeNodes(gone)
      BY <2>1
    <2>3. PICK out \in SUBSET (buffer["bandwidth"] \cup in) :
             /\ list' = (list \ (in \cup gone)) \cup out
             /\ buffer' = [buffer EXCEPT !["bandwidth"] = (buffer["bandwidth"] \cup in) \ out]
      BY <2>2
    <2>4. Held' = Held \ gone
      BY <2>3 DEF NodeInv
    <2>5. OneHome'
      <3>1. list' \cap Buffered' = {} /\ buffer'["lag"] \cap buffer'["bandwidth"] = {}
        BY <2>3 DEF NodeInv
      <3>2. issued' \cap Held' = {} /\ msg' \notin captured'
        BY <2>2, <2>4 DEF FreeNodes, Unsettled, NodeInv
      <3> QED
        BY <3>1, <3>2
    <2> QED
      BY <2>2, <2>4, <2>5, SettleHeld DEF FreeNodes
  <1>5. CASE CloseDown(m)
    <2>1. CASE m \in {"lag", "bandwidth"}
      <3>1. Held' = Held
        BY <1>5, <2>1 DEF CloseDown, MoveThrough
      <3>2. OneHome'
        BY <1>5, <2>1, <3>1 DEF CloseDown, MoveThrough, NodeInv
      <3> QED
        BY <1>5, <3>1, <3>2, <1>6 DEF CloseDown
    <2>2. CASE m \notin {"lag", "bandwidth"}
      BY <1>5, <2>2, <1>6 DEF CloseDown, NodeInv
    <2> QED
      BY <2>1, <2>2
  <1> QED
    BY <1>1, <1>2, <1>3, <1>4, <1>5 DEF Process

\* Nothing is held twice or lost in one step, and no answered id changes.
LEMMA NodeStep ==
  ASSUME IInv, Next
  PROVE  NodeInv' /\ Accounted' /\ KernelStep
  <1> DEFINE Goal == NodeInv' /\ Accounted' /\ KernelStep
  <1> USE BufferedIs, BufferedIsPrime DEF IInv
  <1>1. ASSUME UNCHANGED <<nodeVars, received, captured, msg, ctl>> PROVE Goal
    BY <1>1 DEF nodeVars, NodeInv, OneHome, Accounted, Held, KernelStep
  <1>15. UNCHANGED fate => KernelStep
    BY DEF KernelStep
  <1>2. CASE RunStage
    <2> DEFINE m == Pipeline[stage]
    <2>1. m \in Module /\ UNCHANGED <<received, captured, msg, ctl>>
      BY <1>2, PipelineIs DEF RunStage, AtModule, queueVars
    <2>2. nfqQueue
      BY <1>2 DEF RunStage, Consuming, TypeOK, ThreadInv, Next
    <2>3. CASE Process(m) \/ CloseDown(m)
      BY <2>1, <2>2, <2>3, ModuleNodes
    <2>4. CASE UNCHANGED nodeVars
      BY <2>1, <2>4, <1>1
    <2> QED
      BY <1>2, <2>3, <2>4 DEF RunStage
  <1>3. CASE CloseStage
    <2> DEFINE m == Pipeline[stage]
    <2>1. m \in Module /\ UNCHANGED <<received, captured, msg, ctl>>
      BY <1>3, PipelineIs DEF CloseStage, AtModule, queueVars
    <2>2. nfqQueue
      BY <1>3 DEF CloseStage, Closing, TypeOK, ThreadInv, Next
    <2>3. CASE CloseDown(m)
      BY <2>1, <2>2, <2>3, ModuleNodes
    <2>4. CASE UNCHANGED nodeVars
      BY <2>1, <2>4, <1>1
    <2> QED
      BY <1>3, <2>3, <2>4 DEF CloseStage
  <1>4. CASE SendOne
    <2>1. PICK n \in list : SendNode(n)
      BY <1>4 DEF SendOne
    <2>2. UNCHANGED <<buffer, received, captured, msg, ctl>> /\ nfqQueue
      BY <1>4 DEF SendOne, threadVars, queueVars, Consuming, Closing, TypeOK, ThreadInv, Next
    <2>3. Held' = Held \ {n} /\ n \notin issued
      BY <2>1, <2>2 DEF SendNode, Held, NodeInv, OneHome
    <2>4. issued' = issued \cup Unsettled({n}, issued)
          /\ fate' = Settle(fate, {n}, issued, "accepted")
      <3> DEFINE iss == issued \cup Unsettled({n}, issued)
                 f == Settle(fate, {n}, issued, "accepted")
      <3>1. issued' = iss \cup Unsettled({n}, iss) /\ fate' = Settle(f, {n}, iss, "dropped")
        BY <2>1 DEF SendNode
      <3>2. Unsettled({n}, iss) = {}
        BY DEF Unsettled
      <3>3. Settle(f, {n}, iss, "dropped") = f
        <4>1. Settle(f, {n}, iss, "dropped") = [p \in Packet |-> f[p]]
          BY <3>2 DEF Settle
        <4>2. f = [p \in Packet |-> f[p]]
          BY DEF Settle
        <4> QED
          BY <4>1, <4>2
      <3> QED
        BY <3>1, <3>2, <3>3
    <2>5. list' = list \ {n} /\ Buffered' = Buffered
      BY <2>1, <2>2 DEF SendNode
    <2>6. OneHome'
      BY <2>2, <2>3, <2>4, <2>5 DEF NodeInv, OneHome, Held, Unsettled
    <2> QED
      BY <2>2, <2>3, <2>4, <2>6, SettleHeld DEF Held
  <1>5. CASE CloseUnlinked \/ StopJoin
    <2>1. UNCHANGED <<received, captured, issued, list, buffer, msg>>
      BY <1>5 DEF CloseUnlinked, StopJoin, threadVars
    <2>2. \A p \in Packet : fate'[p] = IF fate[p] = "queued" THEN "flushed" ELSE fate[p]
      BY <1>5 DEF CloseUnlinked, StopJoin, CloseQueue
    <2>3. msg = NoPacket \/ ctl' = "crashed"
      BY <1>5 DEF CloseUnlinked, StopJoin, ThreadInv
    <2>4. Kernel!Destroy
      BY <1>5 DEF CloseUnlinked, StopJoin, CloseQueue, Kernel!Destroy, Kernel!Pending
    <2>5. NodeInv' /\ Accounted'
      BY <2>1, <2>2, <2>3 DEF NodeInv, OneHome, Accounted, Held, TypeOK, Answered
    <2> QED
      BY <2>4, <2>5 DEF KernelStep, Kernel!Next
  <1>6. CASE ReadStop \/ ReadFail \/ Release \/ Clock
    BY <1>1, <1>6 DEF ReadStop, ReadFail, Release, Clock, ClockAcquire, ClockSkip,
       ClockCheck, ClockFinal, queueVars
  <1>13. CASE StopRequest
    BY <1>13, <1>15 DEF StopRequest, threadVars, queueVars, nodeVars, NodeInv, OneHome,
       Accounted, Held, Next
  <1>14. CASE \E m \in Stages : Toggle(m)
    <2>1. UNCHANGED <<nodeVars, received, captured, msg, ctl>>
      BY <1>14 DEF Toggle, threadVars, queueVars
    <2> QED
      BY <1>1, <2>1
  <1>7. CASE \E p \in Packet : ReadReceive(p)
    BY <1>7, <1>15 DEF ReadReceive, Backlog, nodeVars, NodeInv, OneHome, Accounted, Held, TypeOK,
       ThreadInv
  <1>8. CASE ReadDiscard
    BY <1>8, <1>15 DEF ReadDiscard, queueVars, nodeVars, NodeInv, OneHome, Accounted, Held, TypeOK
  <1>9. CASE ReadPass
    <2>1. msg \in Packet /\ fate[msg] = "queued" /\ msg \notin captured
      BY <1>9 DEF ReadPass, MayHandle, ThreadInv, NodeInv, OneHome, TypeOK, Next
    <2>2. Kernel!Answer({msg}, "accepted")
      BY <1>9, <2>1 DEF ReadPass, TypeOK, Kernel!Answer, Kernel!Pending
    <2>3. NodeInv' /\ Accounted'
      BY <1>9, <2>1 DEF ReadPass, queueVars, NodeInv, OneHome, Accounted, Held, TypeOK
    <2> QED
      BY <2>1, <2>2, <2>3 DEF KernelStep, Kernel!Next, Kernel!Verdict
  <1>10. CASE ReadCapture
    BY <1>10, <1>15 DEF ReadCapture, MayHandle, NodeInv, OneHome, Accounted, Held, TypeOK,
       ThreadInv, Next
  <1>11. CASE Start
    BY <1>11, <1>15 DEF Start, nodeVars, NodeInv, OneHome, Accounted, Held, TypeOK
  <1>12. CASE \E p \in Packet : Arrive(p)
    <2>1. NodeInv' /\ Accounted'
      BY <1>12 DEF Arrive, threadVars, queueVars, NodeInv, OneHome, Accounted, Held, TypeOK,
         ThreadInv, Answered
    <2>2. \E p \in Packet : Kernel!Enqueue(p)
      BY <1>12 DEF Arrive, Kernel!Enqueue
    <2> QED
      BY <2>1, <2>2 DEF KernelStep, Kernel!Next
  <1> QED
    BY <1>2, <1>3, <1>4, <1>5, <1>6, <1>7, <1>8, <1>9, <1>10, <1>11, <1>12,
       <1>13, <1>14
       DEF Next, Pipe, Read, Control

\* IInv is inductive: whatever the two loops, the start, the stop and the flags
\* do, in any order, packets, buffers, threads and the mutex stay consistent.
THEOREM Inductive == Spec => []IInv
  <1>1. IInv /\ [Next]_vars => IInv'
    <2> SUFFICES ASSUME IInv, [Next]_vars PROVE IInv'
      OBVIOUS
    <2>1. CASE Next
      BY <2>1, TypeStep, ThreadStep, NodeStep DEF IInv
    <2>2. CASE UNCHANGED vars
      BY <2>2 DEF vars, threadVars, queueVars, nodeVars, moduleVars, IInv, TypeOK, ThreadInv,
         ListQuiescent, NothingAfterFlush, NodeInv, OneHome, Accounted, Held, Buffered
    <2> QED
      BY <2>1, <2>2
  <1> QED
    BY <1>1, InitIInv, PTL DEF Spec

\* The variables keep their types, in particular no thread handles a read buffer
\* that recv() did not fill.
THEOREM TypeCorrect == Spec => []TypeOK
  BY Inductive, PTL DEF IInv

\* Each critical section of the two loops leaves the list empty.
THEOREM QuiescentOutsideMutex == Spec => []ListQuiescent
  BY Inductive, PTL DEF IInv

\* A node is in one place and is not used once its verdict is out.
THEOREM NodesHaveOneHome == Spec => []OneHome
  <1>1. IInv => OneHome
    BY DEF IInv, NodeInv
  <1> QED
    BY <1>1, Inductive, PTL

\* No captured packet is forgotten.
THEOREM CapturedAccounted == Spec => []Accounted
  BY Inductive, PTL DEF IInv

\* No packet enters the list after the final flush.
THEOREM FlushIsFinal == Spec => []NothingAfterFlush
  BY Inductive, PTL DEF IInv

\* The kernel never gets a second verdict for an id: not from the read loop, not
\* from a module, not from the final flush, in any order of the threads.
THEOREM AtMostOneVerdict == Spec => VerdictOnce
  <1>1. IInv /\ [Next]_vars =>
          [\A p \in Packet : fate[p] \in Answered => fate'[p] = fate[p]]_vars
    BY NodeStep, KernelKeeps DEF IInv
  <1> QED
    BY <1>1, Inductive, PTL DEF Spec, VerdictOnce

\* The two loops, the modules and the control implement NfQueue: whatever they do
\* to the kernel's queue is an answer to ids that had none, or its destruction.
THEOREM Implements == Spec => KernelSpec
  <1>1. Init => Kernel!Init
    BY DEF Init, Kernel!Init
  <1>2. IInv /\ [Next]_vars => [Kernel!Next]_fate
    <2>1. ASSUME IInv, Next PROVE [Kernel!Next]_fate
      BY <2>1, NodeStep DEF KernelStep
    <2> QED
      BY <2>1 DEF vars, nodeVars
  <1> QED
    BY <1>1, <1>2, Inductive, PTL DEF Spec, KernelSpec, Kernel!Spec

------------------------------------------------------------------------------
(* What the modules hold.                                                   *)

\* A module's turn changes its own buffer only; closing it empties that buffer.
LEMMA BufferTurn ==
  ASSUME TypeOK, NEW m \in Module
  PROVE  /\ Process(m) => \A x \in Holding \ {m} : buffer'[x] = buffer[x]
         /\ CloseDown(m) => \A x \in Holding : buffer'[x] = IF x = m THEN {} ELSE buffer[x]
  <1> USE DEF TypeOK, Module, Holding
  <1>1. ASSUME Process(m), NEW x \in Holding \ {m} PROVE buffer'[x] = buffer[x]
    <2>1. CASE LagProcess /\ m = "lag"
      BY <1>1, <2>1 DEF LagProcess, MoveThrough
    <2>2. CASE DropProcess \/ DupProcess
      BY <2>2 DEF DropProcess, DupProcess
    <2>3. CASE BandwidthProcess /\ m = "bandwidth"
      BY <1>1, <2>3 DEF BandwidthProcess
    <2> QED
      BY <1>1, <2>1, <2>2, <2>3 DEF Process
  <1>2. ASSUME CloseDown(m), NEW x \in Holding
        PROVE  buffer'[x] = IF x = m THEN {} ELSE buffer[x]
    BY <1>2 DEF CloseDown, MoveThrough
  <1> QED
    BY <1>1, <1>2

\* After divertStop nothing is pending, so a start has no packet to forget.
IdleFlushed == ctl = "idle" => \A p \in Packet : fate[p] # "queued"

\* An id that was seen does not become pending again.
LEMMA NeverAgain ==
  ASSUME TypeOK, KernelStep, NEW p \in Packet, fate[p] # "unseen", fate'[p] = "queued"
  PROVE  fate[p] = "queued"
  BY DEF TypeOK, KernelStep, Kernel!Next, Kernel!Enqueue, Kernel!Answer, Kernel!Destroy,
     Kernel!Verdict, Kernel!Pending, Kernel!Gone

\* One step keeps NoOrphan: a module that gets packets is marked, its mark goes
\* with its packets, and divertStart clears the marks when nothing is pending.
LEMMA OrphanStep ==
  ASSUME IInv, NoOrphan, IdleFlushed, Next
  PROVE  NoOrphan' /\ IdleFlushed'
  <1> USE DEF IInv
  <1>1. KernelStep
    BY NodeStep
  <1>2. ASSUME NEW m \in Holding, NEW n \in buffer[m] \cap Packet, fate'[n] = "queued"
        PROVE  fate[n] = "queued" /\ m \in lastEnabled
    <2>1. n \in Held /\ fate[n] \in {"queued", "flushed"}
      BY <1>2 DEF Held, Buffered, NodeInv
    <2> QED
      BY <1>1, <1>2, <2>1, NeverAgain DEF NoOrphan
  <1>3. ASSUME UNCHANGED <<buffer, lastEnabled>> PROVE NoOrphan'
    BY <1>2, <1>3 DEF NoOrphan
  <1>8. ASSUME NEW s \in Module, Process(s), StartIfNew(s) PROVE NoOrphan'
    <2> SUFFICES ASSUME NEW m \in Holding, NEW n \in buffer'[m] \cap Packet, fate'[n] = "queued"
                 PROVE  m \in lastEnabled'
      BY DEF NoOrphan
    <2>1. lastEnabled' = lastEnabled \cup {s}
      BY <1>8 DEF StartIfNew
    <2>2. CASE m # s
      <3>1. n \in buffer[m]
        BY <1>8, <2>2, BufferTurn
      <3> QED
        BY <1>2, <2>1, <3>1
    <2> QED
      BY <2>1, <2>2
  <1>9. ASSUME NEW s \in Module, CloseDown(s), lastEnabled \ {s} \subseteq lastEnabled'
        PROVE  NoOrphan'
    <2> SUFFICES ASSUME NEW m \in Holding, NEW n \in buffer'[m] \cap Packet, fate'[n] = "queued"
                 PROVE  m \in lastEnabled'
      BY DEF NoOrphan
    <2>1. m # s /\ n \in buffer[m]
      BY <1>9, BufferTurn
    <2> QED
      BY <1>2, <1>9, <2>1
  <1>4. CASE RunStage
    <2> DEFINE s == Pipeline[stage]
    <2>1. s \in Module
      BY <1>4, PipelineIs DEF RunStage, AtModule
    <2>2. IdleFlushed'
      BY <1>4 DEF RunStage, Consuming, IdleFlushed, TypeOK, ThreadInv
    <2>3. CASE Process(s) /\ StartIfNew(s)
      BY <1>8, <2>1, <2>2, <2>3
    <2>4. CASE CloseDown(s) /\ lastEnabled' = lastEnabled \ {s}
      BY <1>9, <2>1, <2>2, <2>4
    <2>5. CASE UNCHANGED <<nodeVars, lastEnabled, linked>>
      BY <1>3, <2>2, <2>5 DEF nodeVars
    <2> QED
      BY <1>4, <2>3, <2>4, <2>5 DEF RunStage
  <1>5. CASE CloseStage
    <2> DEFINE s == Pipeline[stage]
    <2>1. s \in Module
      BY <1>5, PipelineIs DEF CloseStage, AtModule
    <2>2. IdleFlushed' /\ UNCHANGED lastEnabled
      BY <1>5 DEF CloseStage, Closing, IdleFlushed, TypeOK, ThreadInv, moduleVars
    <2>3. CASE CloseDown(s)
      BY <1>9, <2>1, <2>2, <2>3
    <2>4. CASE UNCHANGED nodeVars
      BY <1>3, <2>2, <2>4 DEF nodeVars
    <2> QED
      BY <1>5, <2>3, <2>4 DEF CloseStage
  <1>6. CASE CloseUnlinked \/ SendOne \/ Release \/ Read \/ Clock \/ StopRequest \/ StopJoin
             \/ (\E m \in Stages : Toggle(m)) \/ (\E p \in Packet : Arrive(p))
    <2>1. UNCHANGED <<buffer, lastEnabled>>
      BY <1>6 DEF CloseUnlinked, SendOne, Release, Read, ReadStop, ReadReceive, ReadFail,
         ReadDiscard, ReadPass, ReadCapture, Clock, ClockAcquire, ClockSkip, ClockCheck,
         ClockFinal, StopRequest, StopJoin, Toggle, Arrive, nodeVars, moduleVars
    <2>2. IdleFlushed'
      BY <1>6 DEF CloseUnlinked, SendOne, Consuming, Closing, Release, Read, ReadStop,
         ReadReceive, ReadFail, ReadDiscard, ReadPass, ReadCapture, MayHandle, Clock,
         ClockAcquire, ClockSkip, ClockCheck, ClockFinal, StopRequest, StopJoin, CloseQueue,
         Toggle, Arrive, nodeVars, IdleFlushed, TypeOK, ThreadInv
    <2> QED
      BY <1>3, <2>1, <2>2
  <1>7. CASE Start
    BY <1>7 DEF Start, nodeVars, NoOrphan, IdleFlushed, TypeOK, Holding, NodeInv
  <1> QED
    BY <1>4, <1>5, <1>6, <1>7 DEF Next, Pipe, Control

\* A pending packet is always with a module that will process it or be closed.
THEOREM PendingAreMarked == Spec => []NoOrphan
  <1>1. Init => NoOrphan /\ IdleFlushed
    BY DEF Init, NoOrphan, IdleFlushed, Holding
  <1>2. IInv /\ NoOrphan /\ IdleFlushed /\ [Next]_vars => NoOrphan' /\ IdleFlushed'
    <2>1. ASSUME IInv, NoOrphan, IdleFlushed, UNCHANGED vars PROVE NoOrphan' /\ IdleFlushed'
      BY <2>1 DEF vars, nodeVars, moduleVars, NoOrphan, IdleFlushed
    <2> QED
      BY <2>1, OrphanStep
  <1> QED
    BY <1>1, <1>2, Inductive, PTL DEF Spec

\* Sessions in which no flag changed: the modules that hold packets are enabled,
\* the closing loop has emptied those it has passed, and no captured id was left
\* to the kernel.
RestInv ==
  rested /\ ctl # "crashed" =>
    /\ ctl # "idle" => lastEnabled \subseteq enabled
    /\ \A m \in Holding : buffer[m] # {} => m \in lastEnabled \cap Stages
    /\ cpc = "close" => \A i \in 1..stage - 1 : Pipeline[i] \in Holding => buffer[Pipeline[i]] = {}
    /\ cpc = "exit" => Buffered = {}
    /\ \A p \in captured : fate[p] \notin {"flushed", "late"}

\* A module's turn never leaves a captured id to the kernel.
LEMMA TurnAnswers ==
  ASSUME IInv, KernelStep, NEW m \in Module, Process(m) \/ CloseDown(m) \/ UNCHANGED fate,
         \A p \in captured : fate[p] \notin {"flushed", "late"}
  PROVE  \A p \in captured : fate'[p] \notin {"flushed", "late"}
  <1> SUFFICES ASSUME NEW p \in captured, fate'[p] \in {"flushed", "late"} PROVE FALSE
    OBVIOUS
  <1>1. p \in Packet /\ fate[p] \notin {"flushed", "late"}
    BY DEF IInv, TypeOK
  <1>2. fate'[p] # "late"
    BY <1>1 DEF IInv, TypeOK, KernelStep, Kernel!Next, Kernel!Enqueue, Kernel!Answer,
       Kernel!Destroy, Kernel!Verdict, Kernel!Pending, Kernel!Gone
  <1>3. fate'[p] # "flushed"
    BY <1>1 DEF Process, LagProcess, DropProcess, DupProcess, BandwidthProcess, CloseDown,
       FreeNodes, Settle, Unsettled, Told
  <1> QED
    BY <1>2, <1>3

\* One step keeps RestInv.
LEMMA RestStep ==
  ASSUME IInv, RestInv, Next
  PROVE  RestInv'
  <1> SUFFICES ASSUME rested', ctl' # "crashed" PROVE RestInv'
    BY DEF RestInv
  <1> USE BufferedIs, BufferedIsPrime DEF IInv
  <1>1. rested /\ ctl # "crashed" /\ KernelStep
    BY NodeStep DEF Next, Pipe, Read, Clock, Control, RunStage, CloseStage, CloseUnlinked, SendOne,
       Release, ReadStop, ReadReceive, ReadFail, ReadDiscard, ReadPass, ReadCapture, ClockAcquire,
       ClockSkip, ClockCheck, ClockFinal, Start, StopRequest, StopJoin, Toggle, Arrive, moduleVars
  <1>2. CASE RunStage
    <2> DEFINE s == Pipeline[stage]
    <2>1. s \in Module \cap Stages
      BY <1>2, PipelineIs DEF RunStage, AtModule, Stages
    <2>2. cpc' \notin {"close", "exit"} /\ ctl' # "idle" /\ ctl # "idle"
      BY <1>2 DEF RunStage, Consuming, TypeOK, ThreadInv, NothingAfterFlush
    <2>3. UNCHANGED <<enabled, captured>>
      BY <1>2 DEF RunStage, queueVars
    <2>4. lastEnabled \ enabled = {}
      BY <1>1, <2>2 DEF RestInv
    <2>5. (Process(s) /\ StartIfNew(s) /\ s \in enabled) \/ UNCHANGED <<nodeVars, lastEnabled>>
      BY <1>2, <2>4 DEF RunStage
    <2>6. lastEnabled' \subseteq enabled'
      BY <2>3, <2>4, <2>5 DEF StartIfNew
    <2>7. \A m \in Holding : buffer'[m] # {} => m \in lastEnabled' \cap Stages
      <3>1. CASE UNCHANGED <<nodeVars, lastEnabled>>
        BY <1>1, <3>1 DEF RestInv, nodeVars
      <3>2. CASE Process(s) /\ StartIfNew(s)
        <4> SUFFICES ASSUME NEW m \in Holding, buffer'[m] # {}
                     PROVE  m \in lastEnabled' \cap Stages
          OBVIOUS
        <4>1. lastEnabled' = lastEnabled \cup {s}
          BY <3>2 DEF StartIfNew
        <4>2. m # s => buffer'[m] = buffer[m]
          BY <2>1, <3>2, BufferTurn
        <4> HIDE DEF s
        <4> QED
          BY <1>1, <2>1, <4>1, <4>2 DEF RestInv
      <3> QED
        BY <2>5, <3>1, <3>2
    <2>8. \A p \in captured' : fate'[p] \notin {"flushed", "late"}
      BY <1>1, <2>1, <2>3, <2>5, TurnAnswers DEF RestInv, nodeVars
    <2> QED
      BY <2>2, <2>6, <2>7, <2>8 DEF RestInv
  <1>3. CASE CloseStage
    <2> DEFINE s == Pipeline[stage]
    <2>1. s \in Module /\ stage \in 1..Len(Pipeline) /\ stage' = stage + 1
      BY <1>3, PipelineIs DEF CloseStage, AtModule
    <2>2. cpc' = "close" /\ cpc = "close" /\ ctl # "idle"
      BY <1>3 DEF CloseStage, Closing, TypeOK, ThreadInv
    <2>3. UNCHANGED <<captured, ctl, enabled, lastEnabled>>
      BY <1>3 DEF CloseStage, queueVars, moduleVars
    <2>4. \A m \in Holding : buffer'[m] = buffer[m] \/ buffer'[m] = {}
      BY <1>3, <2>1, BufferTurn DEF CloseStage, nodeVars
    <2>5. s \in Holding => buffer'[s] = {}
      <3>1. CASE CloseDown(s)
        BY <2>1, <3>1, BufferTurn
      <3>2. CASE ~Closes(s) /\ UNCHANGED nodeVars
        BY <1>1, <2>2, <3>2 DEF RestInv, Closes, nodeVars
      <3> QED
        BY <1>3, <3>1, <3>2 DEF CloseStage
    <2>6. \A i \in 1..stage' - 1 : Pipeline[i] \in Holding => buffer'[Pipeline[i]] = {}
      <3> SUFFICES ASSUME NEW i \in 1..stage, Pipeline[i] \in Holding
                   PROVE  buffer'[Pipeline[i]] = {}
        BY <2>1
      <3>1. CASE i = stage
        BY <2>5, <3>1
      <3>2. CASE i # stage
        <4>1. i \in 1..stage - 1
          BY <2>1, <3>2
        <4> HIDE DEF s
        <4> QED
          BY <1>1, <2>2, <2>4, <4>1 DEF RestInv
      <3> QED
        BY <3>1, <3>2
    <2>7. \A p \in captured' : fate'[p] \notin {"flushed", "late"}
      BY <1>1, <1>3, <2>1, <2>3, TurnAnswers DEF RestInv, CloseStage, nodeVars
    <2> QED
      BY <1>1, <2>2, <2>3, <2>4, <2>6, <2>7 DEF RestInv
  <1>4. CASE SendOne
    <2>1. UNCHANGED <<ctl, cpc, stage, captured, buffer, enabled, lastEnabled>>
      BY <1>4 DEF SendOne, threadVars, queueVars, moduleVars
    <2>2. \A p \in captured : fate'[p] \notin {"flushed", "late"}
      <3> SUFFICES ASSUME NEW p \in captured, fate'[p] \in {"flushed", "late"} PROVE FALSE
        OBVIOUS
      <3>1. p \in Packet /\ fate[p] \notin {"flushed", "late"}
        BY <1>1 DEF TypeOK, RestInv
      <3>2. fate'[p] # "late"
        BY <1>1, <3>1 DEF TypeOK, KernelStep, Kernel!Next, Kernel!Enqueue, Kernel!Answer,
           Kernel!Destroy, Kernel!Verdict, Kernel!Pending, Kernel!Gone
      <3>3. fate'[p] # "flushed"
        BY <1>4, <3>1, SettleIs DEF SendOne, SendNode
      <3> QED
        BY <3>2, <3>3
    <2> QED
      BY <1>1, <2>1, <2>2 DEF RestInv, Buffered
  <1>5. CASE Release
    <2>1. UNCHANGED <<ctl, captured, fate, buffer, enabled, lastEnabled>>
      BY <1>5 DEF Release, queueVars, nodeVars, moduleVars
    <2>2. (cpc' = "exit" /\ cpc # "exit") => (cpc = "close" /\ stage \notin DOMAIN Pipeline)
      BY <1>5 DEF Release, Drained, AtModule, Consuming, Closing, TypeOK, ThreadInv
    <2>3. cpc = "close" /\ stage \notin DOMAIN Pipeline => Buffered = {}
      <3> SUFFICES ASSUME cpc = "close", stage \notin DOMAIN Pipeline,
                          NEW m \in Holding, buffer[m] # {}
                   PROVE  FALSE
        BY DEF Buffered
      <3>1. PICK i \in DOMAIN Pipeline : Pipeline[i] = m
        BY <1>1 DEF RestInv, Stages
      <3>2. i \in 1..stage - 1
        BY PipelineIs DEF TypeOK
      <3> QED
        BY <1>1, <3>1, <3>2 DEF RestInv
    <2>4. cpc' # "close"
      BY <1>5 DEF Release, Consuming, Closing, TypeOK, ThreadInv
    <2> QED
      BY <1>1, <2>1, <2>2, <2>3, <2>4 DEF RestInv
  <1>6. CASE StopJoin
    <2>1. UNCHANGED <<captured, buffer, cpc>> /\ cpc = "exit" /\ ctl' = "idle"
      BY <1>6 DEF StopJoin, threadVars
    <2>2. Held = {}
      BY <1>1, <2>1 DEF RestInv, NothingAfterFlush, Held
    <2>3. \A p \in captured : fate'[p] \notin {"flushed", "late"}
      BY <1>1, <1>6, <2>2 DEF RestInv, StopJoin, CloseQueue, Accounted, Answered, TypeOK
    <2>4. Buffered' = {}
      BY <1>1, <2>1 DEF RestInv
    <2> QED
      BY <2>1, <2>3, <2>4 DEF RestInv, Holding
  <1>7. CASE Start
    BY <1>1, <1>7 DEF Start, nodeVars, RestInv, TypeOK, ThreadInv, Holding
  <1>8. CASE Read
    <2>1. UNCHANGED <<ctl, cpc, buffer, enabled, lastEnabled>>
      BY <1>8 DEF Read, ReadStop, ReadReceive, ReadFail, ReadDiscard, ReadPass, ReadCapture,
         nodeVars, moduleVars
    <2>2. stage' = stage \/ cpc # "close"
      BY <1>8 DEF Read, ReadStop, ReadReceive, ReadFail, ReadDiscard, ReadPass, ReadCapture,
         MayHandle, TypeOK, ThreadInv
    <2>3. \A p \in captured' : fate'[p] \notin {"flushed", "late"}
      <3>1. msg # NoPacket => fate[msg] = "queued"
        BY <1>1 DEF NodeInv
      <3> QED
        BY <1>1, <1>8, <3>1 DEF Read, ReadStop, ReadReceive, ReadFail, ReadDiscard, ReadPass,
           ReadCapture, MayHandle, ThreadInv, TypeOK, queueVars, nodeVars, RestInv
    <2> QED
      BY <1>1, <2>1, <2>2, <2>3 DEF RestInv
  <1>9. CASE Clock
    BY <1>1, <1>9 DEF Clock, ClockAcquire, ClockSkip, ClockCheck, ClockFinal, RestInv,
       queueVars, nodeVars, moduleVars, TypeOK
  <1>10. CASE StopRequest \/ \E m \in Stages : Toggle(m)
    BY <1>1, <1>10 DEF StopRequest, Toggle, RestInv, threadVars, queueVars, nodeVars, moduleVars
  <1>11. CASE \E p \in Packet : Arrive(p)
    BY <1>1, <1>11 DEF Arrive, RestInv, threadVars, queueVars, moduleVars, TypeOK
  <1> QED
    BY <1>1, <1>2, <1>3, <1>4, <1>5, <1>6, <1>7, <1>8, <1>9, <1>10, <1>11
       DEF Next, Pipe, Control, CloseUnlinked

\* When divertStop returns, no packet is left behind and every captured one was
\* answered while its queue was open, if no flag changed while it ran.
THEOREM StopIsClean == Spec => []CleanStop
  <1>1. Init => RestInv
    BY DEF Init, RestInv, Buffered, Holding
  <1>2. IInv /\ RestInv /\ [Next]_vars => RestInv'
    <2>1. ASSUME IInv, RestInv, UNCHANGED vars PROVE RestInv'
      BY <2>1 DEF vars, threadVars, queueVars, nodeVars, moduleVars, RestInv, Buffered
    <2> QED
      BY <2>1, RestStep
  <1>3. IInv /\ RestInv => CleanStop
    BY DEF IInv, TypeOK, ThreadInv, NothingAfterFlush, Accounted, Answered, RestInv, CleanStop, Held
  <1> QED
    BY <1>1, <1>2, <1>3, Inductive, PTL DEF Spec

\* Only a module that drops packets turns one into a drop, and only while it is
\* enabled and has its turn.
THEOREM DropsAreOfModules == Spec => OnlyModulesDrop
  <1> DEFINE Turn == Consuming /\ AtModule /\ Pipeline[stage] \in enabled \cap {"drop", "bandwidth"}
  <1>1. ASSUME IInv, Next, NEW p \in Packet, fate[p] # "dropped", fate'[p] = "dropped"
        PROVE  Turn
    <2>1. CASE RunStage
      <3> DEFINE s == Pipeline[stage]
      <3>1. s \in enabled /\ Process(s) /\ fate' # fate
        BY <1>1, <2>1 DEF RunStage, CloseDown, nodeVars
      <3>2. s \in {"drop", "bandwidth"}
        BY <3>1 DEF Process, LagProcess, DupProcess
      <3> QED
        BY <2>1, <3>1, <3>2 DEF RunStage
    <2>2. CASE SendOne
      <3>1. PICK n \in list : SendNode(n)
        BY <2>2 DEF SendOne
      <3> DEFINE iss == issued \cup Unsettled({n}, issued)
                 f == Settle(fate, {n}, issued, "accepted")
      <3>2. fate'[p] = f[p]
        <4>1. fate' = Settle(f, {n}, iss, "dropped") /\ Unsettled({n}, iss) = {}
          BY <3>1 DEF SendNode, Unsettled
        <4> HIDE DEF f, iss
        <4> QED
          BY <4>1 DEF Settle
      <3>3. f[p] \in {fate[p], "accepted", "late", "twice"}
        BY SettleIs
      <3> QED
        BY <1>1, <3>2, <3>3
    <2>3. CASE ~RunStage /\ ~SendOne
      BY <1>1, <2>3 DEF Next, Pipe, Read, Clock, Control, CloseStage, CloseDown, CloseUnlinked,
         CloseQueue, Release, ReadStop, ReadReceive, ReadFail, ReadDiscard, ReadPass, ReadCapture,
         ClockAcquire, ClockSkip, ClockCheck, ClockFinal, Start, StopRequest, StopJoin, Toggle,
         Arrive, nodeVars, IInv, TypeOK
    <2> QED
      BY <2>1, <2>2, <2>3
  <1>2. IInv /\ [Next]_vars =>
          [\A p \in Packet : fate[p] # "dropped" /\ fate'[p] = "dropped" => Turn]_vars
    BY <1>1
  <1> QED
    BY <1>2, Inductive, PTL DEF Spec, OnlyModulesDrop

------------------------------------------------------------------------------
(* The rules of --auto-iptables (Chains), for any way to compile filters    *)
(* and to derive rules, any packets and any number of kills and failures.   *)

HIDE CaptureAssumption

Spelled == {Bypass} \cup {QueueSpec(r) : r \in Rule}
AnyCommand == [at : ChainName, spec : Spelled]
Tables == [ChainName -> Seq(Spelled)]

\* The bypass is installed after the rules that queue, ...
BypassLast(s) ==
  \A i, j \in 1..Len(s) : i < j /\ s[i].spec = Bypass => s[j].spec = Bypass

\* ... and into each table a rule goes into.
Shielding(s) ==
  \A i \in 1..Len(s) : \E j \in 1..Len(s) : s[j] = Command(s[i].at[1], "OUTPUT", Bypass)

ChainsTypes ==
  /\ words \in Seq(Words) /\ Len(words) <= MaxWords
  /\ pc \in {"down", "refused", "install", "up", "remove", "rollback", "unwind"}
  /\ \A d, e \in prog : d = e
  /\ queue \in BOOLEAN /\ loops \in BOOLEAN /\ operator \in BOOLEAN
  /\ todo \in Seq(AnyCommand) /\ installed \in Seq(AnyCommand)
  /\ chain \in Tables /\ before \in Tables
  /\ failures \in 0..MaxFailures /\ deaths \in 0..MaxDeaths

\* Commands are left to run only while rules are installed, rules to remove only
\* while the queue is bound.
Placed ==
  /\ pc # "install" => todo = <<>>
  /\ pc \in {"down", "refused", "unwind"} => installed = <<>>
  /\ ~Idle => queue

Installing == pc \in {"install", "up"}

Planned == Installing => BypassLast(installed \o todo) /\ Shielding(installed \o todo)

\* In a chain with a bypass of this run a bypass decides first.
Shielded ==
  Installing =>
    \A i \in 1..Len(installed) :
      installed[i].spec = Bypass =>
        chain[installed[i].at] # <<>> /\ chain[installed[i].at][1] = Bypass

\* Step i of the way back takes the i-th installed rule out of the chains, and a
\* bypass from the front of its chain.
WayBack(r, s) ==
  /\ r \in [0..Len(s) -> Tables]
  /\ \A i \in 1..Len(s) :
       /\ r[i - 1] = [r[i] EXCEPT ![s[i].at] = Deleted(r[i][s[i].at], s[i].spec)]
       /\ s[i].spec = Bypass => r[i][s[i].at] # <<>> /\ r[i][s[i].at][1] = Bypass

\* Taking out what is installed, the last rule first, leads back to the chains
\* there would be without this run.
Undoes ==
  stuck = {} =>
    \E r : WayBack(r, installed) /\ r[Len(installed)] = chain /\ r[0] = before

ChainsInv ==
  ChainsTypes /\ Placed /\ RoomForEveryRule /\ Planned /\ Shielded /\ Undoes

------------------------------------------------------------------------------
(* The commands. *)

\* What the declarations say of the parameters.
LEMMA ChainsConstants ==
  /\ MaxWords \in Nat /\ MaxFailures \in Nat /\ MaxDeaths \in Nat /\ MaxRules \in Nat
  /\ MaxInstalled \in Nat /\ MaxInstalled >= 2 * MaxRules + 2
  BY ChainsAssumption, RulesAssumption

\* What an expression is compiled to gives a list of rules that is not too long.
LEMMA DerivedIs ==
  ASSUME NEW ws \in Seq(Words), Len(ws) <= MaxWords
  PROVE  /\ \A d, e \in Compiled(ws) : d = e
         /\ \A e \in Compiled(ws) : Derived(e) \in Seq(Rule) /\ Len(Derived(e)) <= MaxRules
  <1>1. Len(ws) \in 0..MaxWords /\ ws \in [1..Len(ws) -> Words]
    BY LenProperties, ChainsConstants
  <1> QED
    BY <1>1, ChainsAssumption

\* The commands of a rule list, ...
LEMMA CommandIs ==
  ASSUME NEW f \in {"v4", "v6"}, NEW n \in {"OUTPUT", "INPUT"}, NEW x \in Spelled
  PROVE  /\ Command(f, n, x) \in AnyCommand
         /\ Command(f, n, x).at = <<f, n>> /\ Command(f, n, x).at[1] = f
         /\ Command(f, n, x).spec = x
  BY DEF Command, AnyCommand, ChainName

LEMMA SpecIs ==
  ASSUME NEW r \in Rule
  PROVE  QueueSpec(r) \in Spelled /\ QueueSpec(r) # Bypass
  <1>1. QueueSpec(r) \in Spelled
    BY DEF Spelled
  <1>2. QueueSpec(r).target = "queue" /\ Bypass.target = "accept"
    BY DEF QueueSpec, Bypass
  <1> QED
    BY <1>1, <1>2

\* ... those that queue, ...
LEMMA QueueCommandsAre ==
  ASSUME NEW rules \in Seq(Rule)
  PROVE  /\ QueueCommands(rules) \in Seq(AnyCommand)
         /\ Len(QueueCommands(rules)) <= 2 * Len(rules)
         /\ \A i \in 1..Len(QueueCommands(rules)) :
              /\ QueueCommands(rules)[i].spec # Bypass
              /\ \E k \in 1..Len(rules) : QueueCommands(rules)[i].at[1] = rules[k].family
  <1> DEFINE n == Len(rules)
             T == (1..n) \X {"OUTPUT", "INPUT"}
             pairs == [k \in 1..2 * n |-> <<(k + 1) \div 2, IF k % 2 = 1 THEN "OUTPUT" ELSE "INPUT">>]
             X == {t \in (DOMAIN rules) \X {"OUTPUT", "INPUT"} : t[2] \in rules[t[1]].chains}
             ts == Targets(rules)
             q == QueueCommands(rules)
             l == Len(ts)
  <1>1. n \in Nat /\ DOMAIN rules = 1..n /\ \A k \in 1..n : rules[k] \in Rule
    BY LenProperties
  <1>2. pairs \in Seq(T) /\ Len(pairs) = 2 * n
    <2>1. \A k \in 1..2 * n : (k + 1) \div 2 \in 1..n
      BY <1>1
    <2>2. pairs \in [1..2 * n -> T]
      BY <1>1, <2>1
    <2>3. 2 * n \in Nat
      BY <1>1
    <2> HIDE DEF pairs, T
    <2>4. pairs \in Seq(T)
      BY <2>2, <2>3, IsASeq
    <2> QED
      BY <2>2, <2>3, <2>4
  <1>3. ts = Only(pairs, X)
    BY DEF Targets
  <1> HIDE DEF pairs, X, T, ts, n
  <1>4. ts \in Seq(T) /\ l <= 2 * n
    BY <1>2, <1>3, OnlyEmbeds, OnlyShorter
  <1>5. l \in Nat /\ DOMAIN ts = 1..l /\ \A i \in 1..l : ts[i] \in T
    BY <1>4, LenProperties
  <1>6. q = [i \in 1..l |-> LET r == rules[ts[i][1]] IN Command(r.family, ts[i][2], QueueSpec(r))]
    BY <1>5 DEF QueueCommands, ts
  <1> HIDE DEF q, l
  <1>7. ASSUME NEW i \in 1..l
        PROVE  /\ q[i] \in AnyCommand /\ q[i].spec # Bypass
               /\ \E k \in 1..n : q[i].at[1] = rules[k].family
    <2>1. PICK k \in 1..n : ts[i][1] = k /\ ts[i][2] \in {"OUTPUT", "INPUT"}
      BY <1>5 DEF T
    <2>2. q[i] = Command(rules[k].family, ts[i][2], QueueSpec(rules[k]))
      BY <1>6, <2>1
    <2>3. rules[k] \in Rule /\ rules[k].family \in {"v4", "v6"}
      BY <1>1 DEF Rule
    <2>4. QueueSpec(rules[k]) \in Spelled /\ QueueSpec(rules[k]) # Bypass
      BY <2>3, SpecIs
    <2> QED
      BY <2>1, <2>2, <2>3, <2>4, CommandIs
  <1>8. q \in Seq(AnyCommand) /\ Len(q) = l
    <2>1. q \in [1..l -> AnyCommand]
      BY <1>6, <1>7
    <2>2. q \in Seq(AnyCommand)
      BY <1>5, <2>1, IsASeq DEF l
    <2> QED
      BY <1>5, <2>1, <2>2, LenProperties DEF l
  <1> QED
    BY <1>4, <1>7, <1>8 DEF q, n

\* ... and those that let pass what is marked.
LEMMA BypassCommandsAre ==
  ASSUME NEW rules \in Seq(Rule)
  PROVE  /\ BypassCommands(rules) \in Seq(AnyCommand)
         /\ Len(BypassCommands(rules)) <= 2
         /\ \A i \in 1..Len(BypassCommands(rules)) :
              \E f \in {"v4", "v6"} : BypassCommands(rules)[i] = Command(f, "OUTPUT", Bypass)
         /\ \A k \in 1..Len(rules) : \E i \in 1..Len(BypassCommands(rules)) :
              BypassCommands(rules)[i] = Command(rules[k].family, "OUTPUT", Bypass)
  <1> DEFINE F == {r.family : r \in ToSet(rules)}
             two == <<"v4", "v6">>
             S == {"v4", "v6"}
             fs == Only(two, F)
             b == BypassCommands(rules)
             l == Len(fs)
  <1>1. DOMAIN rules = 1..Len(rules) /\ \A k \in 1..Len(rules) : rules[k] \in Rule
    BY LenProperties
  <1>2. \A k \in 1..Len(rules) : rules[k].family \in F /\ rules[k].family \in S
    <2> TAKE k \in 1..Len(rules)
    <2>1. rules[k] \in ToSet(rules)
      BY <1>1 DEF ToSet
    <2>2. rules[k].family \in S
      BY <1>1 DEF Rule
    <2> QED
      BY <2>1, <2>2
  <1>3. two \in Seq(S) /\ Len(two) = 2 /\ two[1] = "v4" /\ two[2] = "v6" /\ Bypass \in Spelled
    BY DEF Spelled
  <1> HIDE DEF F, two
  <1>4. fs \in Seq(S) /\ l <= 2
    BY <1>3, OnlyEmbeds, OnlyShorter
  <1>5. \A k \in 1..2 : two[k] \in F => \E i \in 1..l : fs[i] = two[k]
    BY <1>3, OnlyEmbeds
  <1> HIDE DEF fs
  <1>6. l \in Nat /\ DOMAIN fs = 1..l /\ \A i \in 1..l : fs[i] \in S
    BY <1>4, LenProperties
  <1>7. b = [i \in 1..l |-> Command(fs[i], "OUTPUT", Bypass)]
    BY <1>6 DEF BypassCommands, fs, F, two
  <1> HIDE DEF b, l
  <1>8. b \in Seq(AnyCommand) /\ Len(b) = l
    <2>1. \A i \in 1..l : b[i] \in AnyCommand
      BY <1>3, <1>6, <1>7, CommandIs
    <2>2. b \in [1..l -> AnyCommand]
      BY <1>7, <2>1
    <2>3. b \in Seq(AnyCommand)
      BY <1>6, <2>2, IsASeq
    <2> QED
      BY <1>6, <2>2, <2>3, LenProperties
  <1>9. ASSUME NEW k \in 1..Len(rules)
        PROVE  \E i \in 1..l : b[i] = Command(rules[k].family, "OUTPUT", Bypass)
    <2>1. \E j \in 1..2 : two[j] = rules[k].family
      BY <1>2, <1>3
    <2>2. PICK i \in 1..l : fs[i] = rules[k].family
      BY <1>2, <1>5, <2>1
    <2> QED
      BY <1>7, <2>2
  <1>10. \A i \in 1..l : \E f \in S : b[i] = Command(f, "OUTPUT", Bypass)
    BY <1>6, <1>7
  <1> QED
    BY <1>4, <1>8, <1>9, <1>10 DEF b

\* A list of rules makes a list of commands that installed[] has room for, the
\* bypass of each table last.
LEMMA CommandsAre ==
  ASSUME NEW rules \in Seq(Rule), Len(rules) <= MaxRules
  PROVE  /\ Commands(rules) \in Seq(AnyCommand) /\ Len(Commands(rules)) <= MaxInstalled
         /\ BypassLast(Commands(rules)) /\ Shielding(Commands(rules))
  <1> DEFINE q == QueueCommands(rules)
             b == BypassCommands(rules)
             c == Commands(rules)
             m == Len(q)
             n == Len(b)
  <1>1. /\ q \in Seq(AnyCommand) /\ m <= 2 * Len(rules)
        /\ \A i \in 1..m : /\ q[i].spec # Bypass
                           /\ \E k \in 1..Len(rules) : q[i].at[1] = rules[k].family
    BY QueueCommandsAre
  <1>2. /\ b \in Seq(AnyCommand) /\ n <= 2
        /\ \A i \in 1..n : \E f \in {"v4", "v6"} : b[i] = Command(f, "OUTPUT", Bypass)
        /\ \A k \in 1..Len(rules) : \E i \in 1..n : b[i] = Command(rules[k].family, "OUTPUT", Bypass)
    BY BypassCommandsAre
  <1>3. c = q \o b
    BY DEF Commands
  <1> HIDE DEF q, b, c
  <1>4. m \in Nat /\ n \in Nat /\ Len(rules) \in Nat
    BY <1>1, <1>2, LenProperties
  <1>5. /\ c \in Seq(AnyCommand) /\ Len(c) = m + n
        /\ \A i \in 1..m+n : c[i] = IF i <= m THEN q[i] ELSE b[i - m]
    BY <1>1, <1>2, <1>3, ConcatProperties
  <1> HIDE DEF m, n
  <1>6. \A i \in 1..m : i \in 1..m+n /\ c[i] = q[i]
    BY <1>4, <1>5
  <1>7. ASSUME NEW i \in 1..m+n, i > m
        PROVE  i - m \in 1..n /\ c[i] = b[i - m]
    BY <1>4, <1>5, <1>7
  <1>8. ASSUME NEW i \in 1..n PROVE m + i \in 1..m+n /\ c[m + i] = b[i]
    <2>1. m + i \in 1..m+n /\ ~(m + i <= m) /\ (m + i) - m = i
      BY <1>4
    <2> QED
      BY <1>5, <2>1
  <1>9. Bypass \in Spelled
    BY DEF Spelled
  <1>10. ASSUME NEW i \in 1..m+n, i > m
         PROVE  \E f \in {"v4", "v6"} : c[i] = Command(f, "OUTPUT", Bypass)
    BY <1>2, <1>7, <1>10
  <1>11. BypassLast(c)
    <2> SUFFICES ASSUME NEW i \in 1..m+n, NEW j \in 1..m+n, i < j, c[i].spec = Bypass
                 PROVE  c[j].spec = Bypass
      BY <1>5 DEF BypassLast
    <2>1. ~(i <= m)
      <3>1. i <= m => i \in 1..m
        BY <1>4
      <3> QED
        BY <1>1, <1>6, <3>1
    <2>2. j > m
      BY <1>4, <2>1
    <2> QED
      BY <1>9, <1>10, <2>2, CommandIs
  <1>12. Shielding(c)
    <2> SUFFICES ASSUME NEW i \in 1..m+n
                 PROVE  \E j \in 1..m+n : c[j] = Command(c[i].at[1], "OUTPUT", Bypass)
      BY <1>5 DEF Shielding
    <2>1. CASE i > m
      <3>1. PICK f \in {"v4", "v6"} : c[i] = Command(f, "OUTPUT", Bypass)
        BY <1>10, <2>1
      <3>2. c[i].at[1] = f
        BY <1>9, <3>1, CommandIs
      <3> QED
        BY <3>1, <3>2
    <2>2. CASE ~(i > m)
      <3>1. i \in 1..m
        BY <1>4, <2>2
      <3>2. PICK k \in 1..Len(rules) : q[i].at[1] = rules[k].family
        BY <1>1, <3>1
      <3>3. PICK j \in 1..n : b[j] = Command(rules[k].family, "OUTPUT", Bypass)
        BY <1>2
      <3>4. c[i].at[1] = rules[k].family
        BY <1>6, <3>1, <3>2
      <3>5. m + j \in 1..m+n /\ c[m + j] = b[j]
        BY <1>8
      <3> QED
        BY <3>3, <3>4, <3>5
    <2> QED
      BY <2>1, <2>2
  <1>13. Len(c) <= MaxInstalled
    BY <1>1, <1>2, <1>4, <1>5, ChainsConstants DEF m, n
  <1> QED
    BY <1>5, <1>11, <1>12, <1>13 DEF c

------------------------------------------------------------------------------
(* Taking rules out again. *)

\* A rule put in front of a chain.
LEMMA InFrontIs ==
  ASSUME NEW q \in Seq(Spelled), NEW y \in Spelled
  PROVE  /\ <<y>> \o q \in Seq(Spelled) /\ Len(<<y>> \o q) = Len(q) + 1
         /\ (<<y>> \o q)[1] = y /\ <<y>> \o q # <<>>
         /\ \A i \in 1..Len(q) : (<<y>> \o q)[i + 1] = q[i]
  <1> DEFINE p == <<y>>
             r == p \o q
             n == Len(q)
  <1>1. p \in Seq(Spelled) /\ Len(p) = 1 /\ p[1] = y /\ n \in Nat
    BY LenProperties
  <1> HIDE DEF p
  <1>2. /\ r \in Seq(Spelled) /\ Len(r) = 1 + n
        /\ \A i \in 1..1+n : r[i] = IF i <= 1 THEN p[i] ELSE q[i - 1]
    <2>1. /\ r \in Seq(Spelled) /\ Len(r) = Len(p) + n
          /\ \A i \in 1..Len(p)+n : r[i] = IF i <= Len(p) THEN p[i] ELSE q[i - Len(p)]
      BY <1>1, ConcatProperties
    <2> QED
      BY <1>1, <2>1
  <1> HIDE DEF n, r
  <1>3. r[1] = y /\ Len(r) = n + 1 /\ r # <<>>
    <2>1. 1 \in 1..1+n /\ 1 <= 1
      BY <1>1
    <2>2. Len(r) # 0
      BY <1>1, <1>2
    <2> QED
      BY <1>1, <1>2, <2>1, <2>2
  <1>4. ASSUME NEW i \in 1..n PROVE r[i + 1] = q[i]
    <2>1. i + 1 \in 1..1+n /\ ~(i + 1 <= 1) /\ (i + 1) - 1 = i
      BY <1>1
    <2> QED
      BY <1>2, <2>1
  <1> QED
    BY <1>2, <1>3, <1>4 DEF r, p, n

\* -D takes out the first rule that is spelled so, and what is behind it moves up.
LEMMA DeletedFirst ==
  ASSUME NEW q \in Seq(Spelled), NEW k \in 1..Len(q), \A j \in 1..k-1 : q[j] # q[k]
  PROVE  /\ Deleted(q, q[k]) \in Seq(Spelled) /\ Len(Deleted(q, q[k])) = Len(q) - 1
         /\ \A i \in 1..Len(q)-1 : Deleted(q, q[k])[i] = IF i < k THEN q[i] ELSE q[i + 1]
  <1> DEFINE P(i) == q[i] = q[k] /\ \A j \in 1..i-1 : q[j] # q[k]
             c == CHOOSE i \in DOMAIN q : P(i)
  <1>1. DOMAIN q = 1..Len(q) /\ Len(q) \in Nat /\ k \in Nat
    BY LenProperties
  <1>2. c = k
    <2>1. k \in DOMAIN q /\ P(k)
      BY <1>1
    <2>2. c \in DOMAIN q /\ P(c)
      BY <2>1
    <2> HIDE DEF c
    <2>3. ~(c < k) /\ ~(k < c)
      BY <1>1, <2>2
    <2> QED
      BY <1>1, <2>2, <2>3
  <1>3. q[k] \in ToSet(q)
    BY <1>1 DEF ToSet
  <1>4. Deleted(q, q[k]) = RemoveAt(q, c)
    BY <1>3 DEF Deleted
  <1> HIDE DEF c
  <1>5. Deleted(q, q[k]) = SubSeq(q, 1, k - 1) \o SubSeq(q, k + 1, Len(q))
    BY <1>2, <1>4 DEF RemoveAt
  <1> QED
    BY <1>5, OneLeftOut

LEMMA DeletedNone ==
  ASSUME NEW q \in Seq(Spelled), NEW x, \A i \in 1..Len(q) : q[i] # x
  PROVE  Deleted(q, x) = q
  BY LenProperties DEF Deleted, ToSet

\* There is a first one, if there is one.
LEMMA FirstOne ==
  ASSUME NEW q \in Seq(Spelled), NEW x, ~\A i \in 1..Len(q) : q[i] # x
  PROVE  \E k \in 1..Len(q) : q[k] = x /\ \A j \in 1..k-1 : q[j] # x
  <1> DEFINE F == {i \in 1..Len(q) : q[i] = x}
  <1>1. Len(q) \in Nat
    BY LenProperties
  <1>2. F \subseteq Nat /\ F # {}
    OBVIOUS
  <1> HIDE DEF F
  <1>3. PICK k \in F : \A j \in F : k <= j
    BY <1>2, LeastNumber
  <1>4. k \in 1..Len(q) /\ q[k] = x
    BY <1>3 DEF F
  <1>5. ASSUME NEW j \in 1..k-1, q[j] = x PROVE FALSE
    <2>1. j \in F
      BY <1>1, <1>4, <1>5 DEF F
    <2> QED
      BY <1>1, <1>3, <1>4, <2>1
  <1> QED
    BY <1>4, <1>5

LEMMA DeletedTyped ==
  ASSUME NEW q \in Seq(Spelled), NEW x
  PROVE  Deleted(q, x) \in Seq(Spelled)
  <1>1. CASE \A i \in 1..Len(q) : q[i] # x
    BY <1>1, DeletedNone
  <1>2. CASE ~\A i \in 1..Len(q) : q[i] # x
    <2>1. PICK k \in 1..Len(q) : q[k] = x /\ \A j \in 1..k-1 : q[j] # x
      BY <1>2, FirstOne
    <2> QED
      BY <2>1, DeletedFirst
  <1> QED
    BY <1>1, <1>2

\* A rule in front is the one that is taken out, ...
LEMMA DeletedOwn ==
  ASSUME NEW q \in Seq(Spelled), NEW x \in Spelled
  PROVE  Deleted(<<x>> \o q, x) = q
  <1> DEFINE r == <<x>> \o q
             d == Deleted(r, r[1])
  <1>1. /\ r \in Seq(Spelled) /\ Len(r) = Len(q) + 1 /\ r[1] = x
        /\ \A i \in 1..Len(q) : r[i + 1] = q[i]
    BY InFrontIs
  <1>2. Len(q) \in Nat
    BY LenProperties
  <1> HIDE DEF r
  <1>3. 1 \in 1..Len(r) /\ \A j \in 1..1-1 : r[j] # r[1]
    BY <1>1, <1>2
  <1>4. /\ d \in Seq(Spelled) /\ Len(d) = Len(r) - 1
        /\ \A i \in 1..Len(r)-1 : d[i] = IF i < 1 THEN r[i] ELSE r[i + 1]
    BY <1>1, <1>3, DeletedFirst
  <1> HIDE DEF d
  <1>5. Len(d) = Len(q) /\ \A i \in 1..Len(q) : d[i] = q[i]
    BY <1>1, <1>2, <1>4
  <1>6. d = q
    BY <1>4, <1>5, SeqEqual
  <1> QED
    BY <1>1, <1>6 DEF r, d

\* ... another one in front stays there, ...
LEMMA DeletedBehind ==
  ASSUME NEW q \in Seq(Spelled), NEW x \in Spelled, NEW y \in Spelled, x # y
  PROVE  Deleted(<<y>> \o q, x) = <<y>> \o Deleted(q, x)
  <1> DEFINE r == <<y>> \o q
             e == Deleted(q, x)
             f == <<y>> \o e
             d == Deleted(r, x)
             n == Len(q)
  <1>1. /\ r \in Seq(Spelled) /\ Len(r) = n + 1 /\ r[1] = y
        /\ \A i \in 1..n : r[i + 1] = q[i]
    BY InFrontIs
  <1>2. n \in Nat /\ \A i \in 1..n+1 : i = 1 \/ (i - 1 \in 1..n /\ (i - 1) + 1 = i)
    BY LenProperties
  <1>3. e \in Seq(Spelled)
    BY DeletedTyped
  <1> HIDE DEF e
  <1>4. /\ f \in Seq(Spelled) /\ Len(f) = Len(e) + 1 /\ f[1] = y
        /\ \A i \in 1..Len(e) : f[i + 1] = e[i]
    BY <1>3, InFrontIs
  <1> HIDE DEF r, f, d, n
  <1>5. \A i \in 1..n+1 : i # 1 => r[i] = q[i - 1]
    BY <1>1, <1>2
  <1>6. CASE \A i \in 1..n : q[i] # x
    <2>1. e = q
      BY <1>6, DeletedNone DEF e, n
    <2>2. \A i \in 1..Len(r) : r[i] # x
      BY <1>1, <1>2, <1>5, <1>6
    <2>3. d = r
      BY <1>1, <2>2, DeletedNone DEF d
    <2>4. f = r
      BY <2>1 DEF f, r
    <2> QED
      BY <2>3, <2>4 DEF d, f, r, e
  <1>7. CASE ~\A i \in 1..n : q[i] # x
    <2>1. PICK k \in 1..n : q[k] = x /\ \A j \in 1..k-1 : q[j] # x
      BY <1>7, FirstOne DEF n
    <2>2. Len(e) = n - 1 /\ \A i \in 1..n-1 : e[i] = IF i < k THEN q[i] ELSE q[i + 1]
      BY <2>1, DeletedFirst DEF e, n
    <2> DEFINE m == k + 1
    <2>3. m \in 1..Len(r) /\ r[m] = x
      BY <1>1, <1>2, <2>1
    <2>4. \A j \in 1..m-1 : r[j] # r[m]
      <3> TAKE j \in 1..m-1
      <3>1. CASE j = 1
        BY <1>1, <2>3, <3>1
      <3>2. CASE j # 1
        <4>1. j \in 1..n+1 /\ j - 1 \in 1..k-1
          BY <1>2, <3>2
        <4> QED
          BY <1>5, <2>1, <2>3, <3>2, <4>1
      <3> QED
        BY <3>1, <3>2
    <2> HIDE DEF m
    <2>5. d = Deleted(r, r[m])
      BY <2>3 DEF d
    <2>6. /\ d \in Seq(Spelled) /\ Len(d) = Len(r) - 1
          /\ \A i \in 1..Len(r)-1 : d[i] = IF i < m THEN r[i] ELSE r[i + 1]
      BY <1>1, <2>3, <2>4, <2>5, DeletedFirst
    <2>7. Len(d) = n /\ Len(f) = n
      BY <1>1, <1>2, <1>4, <2>2, <2>6
    <2>8. Len(r) - 1 = n
      BY <1>1, <1>2
    <2>9. ASSUME NEW i \in 1..n PROVE d[i] = f[i]
      <3>1. d[i] = IF i < m THEN r[i] ELSE r[i + 1]
        BY <2>6, <2>8
      <3>2. CASE i = 1
        BY <1>1, <1>4, <2>1, <3>1, <3>2 DEF m
      <3>3. CASE i # 1 /\ i < m
        <4>1. i \in 1..n+1 /\ i - 1 \in 1..n-1 /\ i - 1 < k /\ (i - 1) + 1 = i
          BY <1>2, <3>3 DEF m
        <4>2. d[i] = q[i - 1]
          BY <1>5, <3>1, <3>3, <4>1
        <4>3. e[i - 1] = q[i - 1]
          BY <2>2, <4>1
        <4>4. f[(i - 1) + 1] = e[i - 1]
          BY <1>4, <2>2, <4>1
        <4> QED
          BY <4>1, <4>2, <4>3, <4>4
      <3>4. CASE i # 1 /\ ~(i < m)
        <4>1. /\ i + 1 \in 1..n+1 /\ i + 1 # 1 /\ (i + 1) - 1 = i
              /\ i - 1 \in 1..n-1 /\ ~(i - 1 < k) /\ (i - 1) + 1 = i
          BY <1>2, <2>1, <3>4 DEF m
        <4>2. d[i] = q[i]
          BY <1>5, <3>1, <3>4, <4>1
        <4>3. e[i - 1] = q[i]
          BY <2>2, <4>1
        <4>4. f[(i - 1) + 1] = e[i - 1]
          BY <1>4, <2>2, <4>1
        <4> QED
          BY <4>1, <4>2, <4>3, <4>4
      <3> QED
        BY <3>2, <3>3, <3>4
    <2>10. d = f
      BY <1>4, <2>6, <2>7, <2>9, SeqEqual
    <2> QED
      BY <2>10 DEF d, f, r, e
  <1> QED
    BY <1>6, <1>7

\* ... and what was taken from the front can be put back there.
LEMMA DeletedFront ==
  ASSUME NEW q \in Seq(Spelled), q # <<>>
  PROVE  <<q[1]>> \o Deleted(q, q[1]) = q
  <1> DEFINE d == Deleted(q, q[1])
             r == <<q[1]>> \o d
             n == Len(q)
  <1>1. n \in Nat /\ n # 0 /\ 1 \in 1..n /\ q[1] \in Spelled
    BY EmptySeq, LenProperties
  <1>2. \A j \in 1..1-1 : q[j] # q[1]
    OBVIOUS
  <1>3. d \in Seq(Spelled) /\ Len(d) = n - 1 /\ \A i \in 1..n-1 : d[i] = IF i < 1 THEN q[i] ELSE q[i + 1]
    BY <1>1, <1>2, DeletedFirst
  <1> HIDE DEF d
  <1>4. /\ r \in Seq(Spelled) /\ Len(r) = Len(d) + 1 /\ r[1] = q[1]
        /\ \A i \in 1..Len(d) : r[i + 1] = d[i]
    BY <1>1, <1>3, InFrontIs
  <1> HIDE DEF r, n
  <1>5. ASSUME NEW i \in 1..n PROVE r[i] = q[i]
    <2>1. CASE i = 1
      BY <1>4, <2>1
    <2>2. CASE i # 1
      <3>1. i - 1 \in 1..n-1 /\ ~(i - 1 < 1) /\ (i - 1) + 1 = i
        BY <1>1, <2>2
      <3> QED
        BY <1>3, <1>4, <3>1
    <2> QED
      BY <2>1, <2>2
  <1>6. Len(r) = n
    BY <1>1, <1>3, <1>4
  <1>7. r = q
    BY <1>4, <1>5, <1>6, SeqEqual DEF n
  <1> QED
    BY <1>7 DEF r, d

------------------------------------------------------------------------------
(* The invariant holds at first and every step keeps it. *)

\* A rule put in front of a chain of the table.
LEMMA TableWith ==
  ASSUME NEW t \in Tables, NEW c \in ChainName, NEW x \in Spelled
  PROVE  /\ [t EXCEPT ![c] = <<x>> \o t[c]] \in Tables
         /\ [t EXCEPT ![c] = Deleted(t[c], x)] \in Tables
  <1>1. t[c] \in Seq(Spelled)
    BY DEF Tables
  <1>2. <<x>> \o t[c] \in Seq(Spelled) /\ Deleted(t[c], x) \in Seq(Spelled)
    BY <1>1, InFrontIs, DeletedTyped
  <1> QED
    BY <1>2 DEF Tables

\* What a list of commands consists of.
LEMMA PartsAre ==
  ASSUME NEW s \in Seq(AnyCommand)
  PROVE  \A i \in 1..Len(s) : s[i].at \in ChainName /\ s[i].spec \in Spelled
  <1>1. \A i \in 1..Len(s) : s[i] \in AnyCommand
    BY LenProperties
  <1> QED
    BY <1>1 DEF AnyCommand

LEMMA ChainsStarts == ChainsInit => ChainsInv
  <1> SUFFICES ASSUME ChainsInit PROVE ChainsInv
    OBVIOUS
  <1> DEFINE none == [c \in ChainName |-> <<>>]
             one == [c \in ChainName |-> IF c = <<"v4", "OUTPUT">> THEN <<Bypass>> ELSE <<>>]
  <1>1. /\ words = <<>> /\ pc = "down" /\ prog = {} /\ queue = FALSE /\ loops = FALSE
        /\ todo = <<>> /\ installed = <<>> /\ stuck = {} /\ operator = FALSE
        /\ failures = 0 /\ deaths = 0 /\ before = chain
        /\ (chain = none \/ chain = one)
    BY DEF ChainsInit
  <1>2. chain \in Tables
    <2>1. Bypass \in Spelled /\ <<>> \in Seq(Spelled)
      BY EmptySeq DEF Spelled
    <2>2. <<Bypass>> \in Seq(Spelled)
      BY <2>1
    <2> QED
      BY <1>1, <2>1, <2>2 DEF Tables
  <1>3. Len(installed) = 0 /\ Len(todo) = 0 /\ Len(words) = 0
    BY <1>1, EmptySeq
  <1>4. ChainsTypes
    <2>1. words \in Seq(Words) /\ todo \in Seq(AnyCommand) /\ installed \in Seq(AnyCommand)
      BY <1>1, EmptySeq
    <2>2. Len(words) <= MaxWords /\ failures \in 0..MaxFailures /\ deaths \in 0..MaxDeaths
      BY <1>1, <1>3, ChainsConstants
    <2>3. queue \in BOOLEAN /\ loops \in BOOLEAN /\ operator \in BOOLEAN
      BY <1>1
    <2>4. \A d, e \in prog : d = e
      BY <1>1
    <2> QED
      BY <1>1, <1>2, <2>1, <2>2, <2>3, <2>4 DEF ChainsTypes
  <1>5. Placed /\ Planned /\ Shielded
    BY <1>1 DEF Placed, Idle, Planned, Shielded, Installing
  <1>6. RoomForEveryRule
    BY <1>3, ChainsConstants DEF RoomForEveryRule
  <1>7. Undoes
    <2> DEFINE r == [i \in 0..0 |-> chain]
    <2>1. WayBack(r, installed) /\ r[Len(installed)] = chain /\ r[0] = before
      BY <1>1, <1>2, <1>3 DEF WayBack
    <2> QED
      BY <2>1 DEF Undoes
  <1> QED
    BY <1>4, <1>5, <1>6, <1>7 DEF ChainsInv

\* The rest of the commands after the first.
LEMMA HeadMoves ==
  ASSUME NEW S, NEW i \in Seq(S), NEW t \in Seq(S), t # <<>>
  PROVE  /\ Head(t) \in S /\ Tail(t) \in Seq(S) /\ Len(Tail(t)) + 1 = Len(t)
         /\ Append(i, Head(t)) \o Tail(t) = i \o t
  <1> DEFINE h == <<Head(t)>>
             r == Tail(t)
  <1>1. Head(t) \in S /\ r \in Seq(S) /\ Len(r) = Len(t) - 1 /\ Len(t) \in Nat
    BY HeadTailProperties, LenProperties
  <1>2. h \in Seq(S)
    BY <1>1
  <1>3. Append(i, Head(t)) = i \o h
    BY <1>1, AppendIsConcat
  <1>4. h \o r = t
    BY HeadTailProperties, HeadTailAppend, ConcatProperties, SeqEqual
  <1>5. (i \o h) \o r = i \o (h \o r)
    BY <1>1, <1>2, ConcatAssociative
  <1> QED
    BY <1>1, <1>3, <1>4, <1>5

\* All but the last command.
LEMMA FrontIs ==
  ASSUME NEW S, NEW s \in Seq(S), s # <<>>
  PROVE  /\ Front(s) \in Seq(S) /\ Len(Front(s)) + 1 = Len(s) /\ Last(s) \in S
         /\ Len(s) \in Nat \ {0} /\ Last(s) = s[Len(s)]
         /\ \A i \in 1..Len(s)-1 : Front(s)[i] = s[i]
  <1> DEFINE n == Len(s)
  <1>1. n \in Nat /\ n # 0 /\ n \in 1..n /\ \A i \in 1..n : s[i] \in S
    BY EmptySeq, LenProperties
  <1>2. 1 \in Int /\ n - 1 \in Int /\ \A i \in 1..n-1 : s[i] \in S
    BY <1>1
  <1>3. /\ SubSeq(s, 1, n - 1) \in Seq(S)
        /\ Len(SubSeq(s, 1, n - 1)) = IF 1 <= n - 1 THEN (n - 1) - 1 + 1 ELSE 0
        /\ \A i \in 1..(n-1)-1+1 : SubSeq(s, 1, n - 1)[i] = s[1 + i - 1]
    BY <1>2, SubSeqProperties
  <1> DEFINE f == SubSeq(s, 1, n - 1)
  <1>4. Front(s) = f /\ Last(s) = s[n]
    BY DEF Front, Last
  <1> HIDE DEF n, f
  <1>5. f \in Seq(S) /\ Len(f) + 1 = n /\ \A i \in 1..n-1 : f[i] = s[i]
    BY <1>1, <1>3 DEF f
  <1> QED
    BY <1>1, <1>4, <1>5 DEF n

\* Every action gives the variables the values they are declared with, and leaves
\* rules and commands only where they belong.
LEMMA ChainsTypesKept ==
  ASSUME ChainsTypes, Placed, RoomForEveryRule, [ChainsNext]_chainsVars
  PROVE  ChainsTypes' /\ Placed' /\ RoomForEveryRule'
  <1> DEFINE Kept == ChainsTypes /\ Placed /\ RoomForEveryRule
  <1>0. /\ Len(installed) \in Nat /\ Len(todo) \in Nat /\ Len(words) \in Nat
        /\ MaxWords \in Nat /\ MaxFailures \in Nat /\ MaxDeaths \in Nat /\ MaxInstalled \in Nat
        /\ Len(<<>>) = 0 /\ <<>> \in Seq(AnyCommand)
    BY ChainsConstants, LenProperties, EmptySeq DEF ChainsTypes
  <1> USE DEF ChainsTypes, Placed, Idle, RoomForEveryRule
  <1>1. ASSUME NEW w \in Words, Type(w) PROVE Kept'
    <2>1. words' \in Seq(Words) /\ Len(words') <= MaxWords
      BY <1>0, <1>1, AppendProperties DEF Type
    <2> QED
      BY <1>1, <2>1 DEF Type
  <1>2. CASE StartRefused
    BY <1>2 DEF StartRefused
  <1>3. CASE StartCapture
    <2>1. PICK tree \in Compiled(words) : todo' = Commands(Derived(tree))
      BY <1>3 DEF StartCapture
    <2>2. todo' \in Seq(AnyCommand) /\ Len(todo') <= MaxInstalled
      BY <2>1, DerivedIs, CommandsAre
    <2>3. \A d, e \in prog' : d = e
      BY <1>3, DerivedIs DEF StartCapture
    <2>4. Len(installed') + Len(todo') <= MaxInstalled
      <3>1. installed' = <<>> /\ Len(todo') \in Nat
        BY <1>3, <2>2, LenProperties DEF StartCapture
      <3> QED
        BY <1>0, <2>2, <3>1
    <2>5. installed' \in Seq(AnyCommand) /\ before' \in Tables
      BY <1>0, <1>3 DEF StartCapture
    <2> QED
      BY <1>3, <2>2, <2>3, <2>4, <2>5 DEF StartCapture
  <1>4. CASE InstallOk
    <2> DEFINE h == Head(todo)
    <2>1. todo # <<>> /\ h \in AnyCommand /\ todo' \in Seq(AnyCommand) /\ Len(todo') + 1 = Len(todo)
      BY <1>4, HeadMoves DEF InstallOk
    <2>2. installed' \in Seq(AnyCommand) /\ Len(installed') = Len(installed) + 1
      BY <1>4, <2>1, AppendProperties DEF InstallOk
    <2>3. Len(installed') + Len(todo') <= MaxInstalled
      BY <1>0, <2>1, <2>2, LenProperties
    <2>4. chain' \in Tables
      <3>1. h.at \in ChainName /\ h.spec \in Spelled
        BY <2>1 DEF AnyCommand
      <3>2. chain' = [chain EXCEPT ![h.at] = <<h.spec>> \o chain[h.at]]
        BY <1>4 DEF InstallOk
      <3> QED
        BY <3>1, <3>2, TableWith
    <2> QED
      BY <1>4, <2>1, <2>2, <2>3, <2>4 DEF InstallOk
  <1>5. CASE InstallFails
    <2>1. failures' \in 0..MaxFailures
      BY <1>0, <1>5 DEF InstallFails
    <2>2. Len(installed') + Len(todo') <= MaxInstalled
      BY <1>0, <1>5 DEF InstallFails
    <2> QED
      BY <1>0, <1>5, <2>1, <2>2 DEF InstallFails
  <1>6. CASE InstallDone \/ StopCapture \/ UnwindThreads \/ CloseCapture
    <2>1. CASE InstallDone
      BY <2>1 DEF InstallDone
    <2>2. CASE StopCapture
      BY <2>2 DEF StopCapture
    <2>3. CASE UnwindThreads
      BY <2>3 DEF UnwindThreads
    <2>4. CASE CloseCapture
      BY <2>4 DEF CloseCapture
    <2> QED
      BY <1>6, <2>1, <2>2, <2>3, <2>4
  <1>7. CASE RemoveOk \/ RemoveFails
    <2>1. installed # <<>> /\ installed' = Front(installed) /\ pc \in {"remove", "rollback"}
      BY <1>7 DEF RemoveOk, RemoveFails, Removing
    <2>2. /\ installed' \in Seq(AnyCommand) /\ Len(installed') + 1 = Len(installed)
          /\ Last(installed) \in AnyCommand
      BY <2>1, FrontIs
    <2>3. Len(installed') + Len(todo) <= MaxInstalled
      BY <1>0, <2>2, LenProperties
    <2>4. CASE RemoveOk
      <3> DEFINE h == Last(installed)
      <3>1. h.at \in ChainName /\ h.spec \in Spelled
        BY <2>2 DEF AnyCommand
      <3>2. chain' = [chain EXCEPT ![h.at] = Deleted(chain[h.at], h.spec)]
        BY <2>4 DEF RemoveOk
      <3>3. chain' \in Tables
        BY <3>1, <3>2, TableWith
      <3> QED
        BY <2>1, <2>2, <2>3, <2>4, <3>3 DEF RemoveOk
    <2>5. CASE RemoveFails
      <3>1. failures' \in 0..MaxFailures
        BY <1>0, <2>5 DEF RemoveFails
      <3> QED
        BY <2>1, <2>2, <2>3, <2>5, <3>1 DEF RemoveFails
    <2> QED
      BY <1>7, <2>4, <2>5
  <1>8. CASE OperatorBypass
    <2>1. <<"v4", "OUTPUT">> \in ChainName /\ Bypass \in Spelled
      BY DEF ChainName, Spelled
    <2>2. /\ chain' = [chain EXCEPT ![<<"v4", "OUTPUT">>] = <<Bypass>> \o chain[<<"v4", "OUTPUT">>]]
          /\ before' = [before EXCEPT ![<<"v4", "OUTPUT">>] = <<Bypass>> \o before[<<"v4", "OUTPUT">>]]
      BY <1>8 DEF OperatorBypass
    <2>3. chain' \in Tables /\ before' \in Tables
      BY <2>1, <2>2, TableWith
    <2> QED
      BY <1>8, <2>3 DEF OperatorBypass
  <1>9. CASE Die
    <2>1. deaths' \in 0..MaxDeaths
      BY <1>0, <1>9 DEF Die
    <2>2. Len(installed') + Len(todo') <= MaxInstalled
      BY <1>0, <1>9 DEF Die
    <2> QED
      BY <1>0, <1>9, <2>1, <2>2 DEF Die
  <1>10. CASE UNCHANGED chainsVars
    BY <1>10 DEF chainsVars
  <1> QED
    BY <1>1, <1>2, <1>3, <1>4, <1>5, <1>6, <1>7, <1>8, <1>9, <1>10 DEF ChainsNext

\* Every action that ends in installing leaves the bypass where it shields.
LEMMA ShieldsKept ==
  ASSUME ChainsTypes, Placed, Planned, Shielded, [ChainsNext]_chainsVars
  PROVE  Planned' /\ Shielded'
  <1> DEFINE Kept == Planned /\ Shielded
  <1> USE DEF Planned, Shielded, Installing
  <1>1. CASE StartCapture
    <2>1. PICK tree \in Compiled(words) : todo' = Commands(Derived(tree))
      BY <1>1 DEF StartCapture
    <2>2. todo' \in Seq(AnyCommand) /\ BypassLast(todo') /\ Shielding(todo')
      BY <2>1, DerivedIs, CommandsAre DEF ChainsTypes
    <2>3. installed' = <<>> /\ Len(installed') = 0
      BY <1>1 DEF StartCapture
    <2>4. installed' \o todo' = todo'
      BY <2>2, <2>3, ConcatEmptySeq
    <2> QED
      BY <2>2, <2>3, <2>4
  <1>2. CASE InstallOk
    <2> DEFINE h == Head(todo)
               n == Len(installed)
               s == installed \o todo
    <2>1. /\ todo # <<>> /\ pc = "install"
          /\ installed' = Append(installed, h) /\ todo' = Tail(todo)
          /\ chain' = [chain EXCEPT ![h.at] = <<h.spec>> \o chain[h.at]]
          /\ pc' = pc
      BY <1>2 DEF InstallOk
    <2>2. /\ h \in AnyCommand /\ installed \in Seq(AnyCommand) /\ todo \in Seq(AnyCommand)
          /\ installed' \o todo' = s
      <3>1. installed \in Seq(AnyCommand) /\ todo \in Seq(AnyCommand)
        BY DEF ChainsTypes
      <3>2. h \in AnyCommand /\ Append(installed, h) \o Tail(todo) = s
        BY <2>1, <3>1, HeadMoves
      <3> QED
        BY <2>1, <3>1, <3>2
    <2>3. Planned'
      BY <2>1, <2>2
    <2>4. /\ n \in Nat /\ Len(todo) \in Nat /\ Len(todo) # 0 /\ Len(s) = n + Len(todo)
          /\ \A i \in 1..n+Len(todo) : s[i] = IF i <= n THEN installed[i] ELSE todo[i - n]
      BY <2>1, <2>2, EmptySeq, LenProperties, ConcatProperties
    <2>5. todo[1] = h
      BY <2>1, <2>2
    <2> HIDE DEF h, s, n
    <2>6. /\ n + 1 \in 1..Len(s) /\ s[n + 1] = h
          /\ \A i \in 1..n : i \in 1..Len(s) /\ i < n + 1 /\ s[i] = installed[i]
      BY <2>4, <2>5
    <2>7. \A i \in 1..n : installed[i].spec = Bypass => h.spec = Bypass
      <3>1. BypassLast(s)
        BY <2>1 DEF s
      <3> QED
        BY <2>6, <3>1 DEF BypassLast
    <2>8. /\ Len(installed') = n + 1 /\ installed'[n + 1] = h
          /\ \A i \in 1..n : installed'[i] = installed[i]
      BY <2>1, <2>2, AppendProperties DEF n
    <2>9. /\ h.at \in ChainName /\ h.spec \in Spelled /\ chain \in Tables
      BY <2>2 DEF AnyCommand, ChainsTypes
    <2>10. \A c \in ChainName : chain'[c] = IF c = h.at THEN <<h.spec>> \o chain[c] ELSE chain[c]
      BY <2>1, <2>9 DEF Tables
    <2>11. chain'[h.at] # <<>> /\ chain'[h.at][1] = h.spec
      <3>1. chain[h.at] \in Seq(Spelled)
        BY <2>9 DEF Tables
      <3>2. chain'[h.at] = <<h.spec>> \o chain[h.at]
        BY <2>9, <2>10
      <3> QED
        BY <2>9, <3>1, <3>2, InFrontIs
    <2>12. ASSUME NEW i \in 1..n, installed[i].spec = Bypass
           PROVE  chain'[installed[i].at] # <<>> /\ chain'[installed[i].at][1] = Bypass
      <3>1. chain[installed[i].at] # <<>> /\ chain[installed[i].at][1] = Bypass
        BY <2>1, <2>12 DEF n
      <3>2. installed[i].at \in ChainName
        BY <2>2, PartsAre DEF n
      <3>3. h.spec = Bypass
        BY <2>7, <2>12
      <3> QED
        BY <2>10, <2>11, <3>1, <3>2, <3>3
    <2>13. Shielded'
      <3> SUFFICES ASSUME NEW i \in 1..n+1, installed'[i].spec = Bypass
                   PROVE  chain'[installed'[i].at] # <<>> /\ chain'[installed'[i].at][1] = Bypass
        BY <2>8
      <3>1. i \in 1..n \/ i = n + 1
        BY <2>4
      <3>2. CASE i \in 1..n
        BY <2>8, <2>12, <3>2
      <3>3. CASE i = n + 1
        BY <2>8, <2>11, <3>3
      <3> QED
        BY <3>1, <3>2, <3>3
    <2> QED
      BY <2>3, <2>13
  <1>3. CASE InstallDone
    BY <1>3 DEF InstallDone
  <1>4. CASE OperatorBypass
    <2> DEFINE c == <<"v4", "OUTPUT">>
    <2>1. /\ chain' = [chain EXCEPT ![c] = <<Bypass>> \o chain[c]]
          /\ UNCHANGED <<pc, installed, todo>>
      BY <1>4 DEF OperatorBypass
    <2>2. c \in ChainName /\ Bypass \in Spelled /\ chain \in Tables
      BY DEF ChainName, Spelled, ChainsTypes
    <2> HIDE DEF c
    <2>3. chain[c] \in Seq(Spelled)
      BY <2>2 DEF Tables
    <2>4. chain'[c] = <<Bypass>> \o chain[c] /\ \A d \in ChainName : d # c => chain'[d] = chain[d]
      BY <2>1, <2>2 DEF Tables
    <2>5. chain'[c] # <<>> /\ chain'[c][1] = Bypass
      BY <2>2, <2>3, <2>4, InFrontIs
    <2>6. \A i \in 1..Len(installed) : installed[i].at \in ChainName
      BY PartsAre DEF ChainsTypes
    <2>7. Shielded'
      <3> SUFFICES ASSUME Installing, NEW i \in 1..Len(installed), installed[i].spec = Bypass
                   PROVE  chain'[installed[i].at] # <<>> /\ chain'[installed[i].at][1] = Bypass
        BY <2>1
      <3>1. chain[installed[i].at] # <<>> /\ chain[installed[i].at][1] = Bypass
        OBVIOUS
      <3> QED
        BY <2>4, <2>5, <2>6, <3>1
    <2>8. Planned'
      BY <2>1
    <2> QED
      BY <2>7, <2>8
  <1>5. CASE UNCHANGED chainsVars
    BY <1>5 DEF chainsVars
  <1>6. ASSUME NEW w \in Words, Type(w) PROVE Kept'
    BY <1>6 DEF Type
  <1>7. CASE StartRefused \/ InstallFails \/ StopCapture \/ UnwindThreads \/ CloseCapture \/ Die
    BY <1>7 DEF StartRefused, InstallFails, StopCapture, UnwindThreads, CloseCapture, Die
  <1>8. CASE RemoveOk \/ RemoveFails
    BY <1>8 DEF RemoveOk, RemoveFails, Removing
  <1> QED
    BY <1>1, <1>2, <1>3, <1>4, <1>5, <1>6, <1>7, <1>8 DEF ChainsNext

\* A command that succeeds is one step more to go back, ...
LEMMA InstallWayBack ==
  ASSUME ChainsTypes, Undoes, InstallOk
  PROVE  Undoes'
  <1> DEFINE h == Head(todo)
             n == Len(installed)
  <1>1. /\ todo # <<>> /\ installed' = Append(installed, h) /\ stuck' = stuck /\ before' = before
        /\ chain' = [chain EXCEPT ![h.at] = <<h.spec>> \o chain[h.at]]
    BY DEF InstallOk
  <1>2. h \in AnyCommand /\ installed \in Seq(AnyCommand) /\ chain \in Tables
    BY <1>1, HeadMoves DEF ChainsTypes
  <1> HIDE DEF h
  <1>3. h.at \in ChainName /\ h.spec \in Spelled /\ n \in Nat
    BY <1>2, LenProperties DEF AnyCommand
  <1>4. /\ Len(installed') = n + 1 /\ installed'[n + 1] = h
        /\ \A i \in 1..n : installed'[i] = installed[i]
    BY <1>1, <1>2, AppendProperties
  <1> HIDE DEF n
  <1>5. chain' \in Tables
    BY <1>1, <1>2, <1>3, TableWith
  <1>6. chain'[h.at] = <<h.spec>> \o chain[h.at] /\ chain[h.at] \in Seq(Spelled)
    BY <1>1, <1>2, <1>3 DEF Tables
  <1>7. chain = [chain' EXCEPT ![h.at] = Deleted(chain'[h.at], h.spec)]
    <2>1. Deleted(chain'[h.at], h.spec) = chain[h.at]
      BY <1>3, <1>6, DeletedOwn
    <2>2. chain = [[chain EXCEPT ![h.at] = <<h.spec>> \o chain[h.at]] EXCEPT ![h.at] = chain[h.at]]
      BY <1>2, <1>3 DEF Tables
    <2> QED
      BY <1>1, <2>1, <2>2
  <1>8. h.spec = Bypass => chain'[h.at] # <<>> /\ chain'[h.at][1] = Bypass
    BY <1>3, <1>6, InFrontIs
  <1> SUFFICES ASSUME stuck = {}
               PROVE  \E r : WayBack(r, installed') /\ r[n + 1] = chain' /\ r[0] = before
    BY <1>1, <1>4 DEF Undoes
  <1>9. PICK r : WayBack(r, installed) /\ r[n] = chain /\ r[0] = before
    BY DEF Undoes, n
  <1>10. /\ r \in [0..n -> Tables]
         /\ \A i \in 1..n :
              /\ r[i - 1] = [r[i] EXCEPT ![installed[i].at] = Deleted(r[i][installed[i].at], installed[i].spec)]
              /\ installed[i].spec = Bypass =>
                   r[i][installed[i].at] # <<>> /\ r[i][installed[i].at][1] = Bypass
    BY <1>9 DEF WayBack, n
  <1> DEFINE u == [i \in 0..n+1 |-> IF i = n + 1 THEN chain' ELSE r[i]]
  <1>11. u[n + 1] = chain' /\ \A i \in 0..n : u[i] = r[i]
    BY <1>3
  <1>12. u \in [0..n+1 -> Tables]
    <2>1. \A i \in 0..n+1 : i # n + 1 => i \in 0..n
      BY <1>3
    <2> QED
      BY <1>5, <1>10, <2>1
  <1> HIDE DEF u
  <1>13. ASSUME NEW i \in 1..n+1
         PROVE  /\ u[i - 1] = [u[i] EXCEPT ![installed'[i].at] = Deleted(u[i][installed'[i].at], installed'[i].spec)]
                /\ installed'[i].spec = Bypass =>
                     u[i][installed'[i].at] # <<>> /\ u[i][installed'[i].at][1] = Bypass
    <2>1. CASE i = n + 1
      <3>1. u[i] = chain' /\ u[i - 1] = chain /\ installed'[i] = h
        <4>1. i - 1 = n /\ n \in 0..n
          BY <1>3, <2>1
        <4> QED
          BY <1>4, <1>9, <1>11, <2>1, <4>1
      <3> QED
        BY <1>7, <1>8, <3>1
    <2>2. CASE i # n + 1
      <3>1. i \in 1..n /\ i \in 0..n /\ i - 1 \in 0..n
        BY <1>3, <2>2
      <3>2. u[i] = r[i] /\ u[i - 1] = r[i - 1] /\ installed'[i] = installed[i]
        BY <1>4, <1>11, <3>1
      <3> QED
        BY <1>10, <3>1, <3>2
    <2> QED
      BY <2>1, <2>2
  <1>14. WayBack(u, installed')
    BY <1>4, <1>12, <1>13 DEF WayBack
  <1>15. u[0] = before
    BY <1>3, <1>9, <1>11
  <1> QED
    BY <1>11, <1>14, <1>15

\* ... a removal that succeeds is the last step back, ...
LEMMA RemoveWayBack ==
  ASSUME ChainsTypes, Undoes, RemoveOk
  PROVE  Undoes'
  <1> DEFINE h == Last(installed)
             n == Len(installed)
  <1>1. /\ installed # <<>> /\ installed' = Front(installed) /\ stuck' = stuck /\ before' = before
        /\ chain' = [chain EXCEPT ![h.at] = Deleted(chain[h.at], h.spec)]
    BY DEF RemoveOk, Removing
  <1>2. installed \in Seq(AnyCommand)
    BY DEF ChainsTypes
  <1>3. /\ n \in Nat \ {0} /\ h = installed[n] /\ installed' \in Seq(AnyCommand) /\ Len(installed') + 1 = n
        /\ \A i \in 1..n-1 : installed'[i] = installed[i]
    BY <1>1, <1>2, FrontIs
  <1>4. Len(installed') = n - 1
    <2>1. Len(installed') \in Nat
      BY <1>3, LenProperties
    <2> QED
      BY <1>3, <2>1
  <1> HIDE DEF h
  <1> SUFFICES ASSUME stuck = {}
               PROVE  \E r : WayBack(r, installed') /\ r[n - 1] = chain' /\ r[0] = before
    BY <1>1, <1>4 DEF Undoes
  <1>5. PICK r : WayBack(r, installed) /\ r[n] = chain /\ r[0] = before
    BY DEF Undoes
  <1>6. /\ r \in [0..n -> Tables]
        /\ \A i \in 1..n :
             /\ r[i - 1] = [r[i] EXCEPT ![installed[i].at] = Deleted(r[i][installed[i].at], installed[i].spec)]
             /\ installed[i].spec = Bypass =>
                  r[i][installed[i].at] # <<>> /\ r[i][installed[i].at][1] = Bypass
    BY <1>5 DEF WayBack
  <1> HIDE DEF n
  <1> DEFINE u == [i \in 0..n-1 |-> r[i]]
  <1>7. \A i \in 0..n-1 : i \in 0..n /\ u[i] = r[i]
    BY <1>3
  <1>8. u \in [0..n-1 -> Tables]
    BY <1>6, <1>7
  <1>9. n - 1 \in 0..n-1 /\ 0 \in 0..n-1 /\ n \in 1..n
    BY <1>3
  <1> HIDE DEF u
  <1>10. u[n - 1] = chain'
    <2>1. r[n - 1] = [r[n] EXCEPT ![installed[n].at] = Deleted(r[n][installed[n].at], installed[n].spec)]
      BY <1>6, <1>9
    <2>2. r[n - 1] = chain'
      BY <1>1, <1>3, <1>5, <2>1
    <2> QED
      BY <1>7, <1>9, <2>2
  <1>11. ASSUME NEW i \in 1..n-1
         PROVE  /\ u[i - 1] = [u[i] EXCEPT ![installed'[i].at] = Deleted(u[i][installed'[i].at], installed'[i].spec)]
                /\ installed'[i].spec = Bypass =>
                     u[i][installed'[i].at] # <<>> /\ u[i][installed'[i].at][1] = Bypass
    <2>1. i \in 1..n /\ i \in 0..n-1 /\ i - 1 \in 0..n-1
      BY <1>3
    <2>2. u[i] = r[i] /\ u[i - 1] = r[i - 1] /\ installed'[i] = installed[i]
      BY <1>3, <1>7, <2>1
    <2> QED
      BY <1>6, <2>1, <2>2
  <1>12. WayBack(u, installed')
    BY <1>4, <1>8, <1>11 DEF WayBack
  <1>13. u[0] = before
    BY <1>5, <1>7, <1>9
  <1> QED
    BY <1>10, <1>12, <1>13

\* ... and a bypass the operator puts in front stays there all the way back.
LEMMA OperatorWayBack ==
  ASSUME ChainsTypes, Undoes, OperatorBypass
  PROVE  Undoes'
  <1> DEFINE c == <<"v4", "OUTPUT">>
             n == Len(installed)
             P(t) == [t EXCEPT ![c] = <<Bypass>> \o t[c]]
  <1>1. chain' = P(chain) /\ before' = P(before) /\ UNCHANGED <<installed, stuck>>
    BY DEF OperatorBypass
  <1>2. c \in ChainName /\ Bypass \in Spelled /\ installed \in Seq(AnyCommand) /\ n \in Nat
    BY LenProperties DEF ChainName, Spelled, ChainsTypes
  <1> HIDE DEF c, n
  <1>3. \A i \in 1..n : installed[i].at \in ChainName /\ installed[i].spec \in Spelled
    BY <1>2, PartsAre DEF n
  <1> SUFFICES ASSUME stuck = {}
               PROVE  \E r : WayBack(r, installed) /\ r[n] = P(chain) /\ r[0] = P(before)
    BY <1>1 DEF Undoes, n
  <1>4. PICK r : WayBack(r, installed) /\ r[n] = chain /\ r[0] = before
    BY DEF Undoes, n
  <1>5. /\ r \in [0..n -> Tables]
        /\ \A i \in 1..n :
             /\ r[i - 1] = [r[i] EXCEPT ![installed[i].at] = Deleted(r[i][installed[i].at], installed[i].spec)]
             /\ installed[i].spec = Bypass =>
                  r[i][installed[i].at] # <<>> /\ r[i][installed[i].at][1] = Bypass
    BY <1>4 DEF WayBack, n
  <1> DEFINE u == [i \in 0..n |-> P(r[i])]
  <1>6. \A i \in 0..n : u[i] = P(r[i]) /\ u[i] \in Tables
    <2> TAKE i \in 0..n
    <2>1. r[i] \in Tables
      BY <1>5
    <2> QED
      BY <1>2, <2>1, TableWith
  <1>7. u \in [0..n -> Tables]
    BY <1>6
  <1> HIDE DEF u
  <1>8. ASSUME NEW i \in 1..n
        PROVE  LET a == installed[i].at
                   x == installed[i].spec
               IN /\ u[i - 1] = [u[i] EXCEPT ![a] = Deleted(u[i][a], x)]
                  /\ x = Bypass => u[i][a] # <<>> /\ u[i][a][1] = Bypass
    <2> DEFINE a == installed[i].at
               x == installed[i].spec
               t == r[i]
               v == r[i - 1]
    <2>1. i \in 0..n /\ i - 1 \in 0..n
      BY <1>2
    <2>2. a \in ChainName /\ x \in Spelled /\ t \in Tables /\ v \in Tables
      BY <1>3, <1>5, <2>1
    <2>3. /\ v = [t EXCEPT ![a] = Deleted(t[a], x)]
          /\ x = Bypass => t[a] # <<>> /\ t[a][1] = Bypass
      BY <1>5
    <2>4. u[i] = P(t) /\ u[i - 1] = P(v) /\ u[i] \in Tables /\ u[i - 1] \in Tables
      BY <1>6, <2>1
    <2> HIDE DEF a, x, t, v
    <2>5. /\ u[i][c] = <<Bypass>> \o t[c] /\ \A d \in ChainName : d # c => u[i][d] = t[d]
          /\ u[i - 1][c] = <<Bypass>> \o v[c] /\ \A d \in ChainName : d # c => u[i - 1][d] = v[d]
          /\ t[c] \in Seq(Spelled) /\ v[c] \in Seq(Spelled)
      BY <1>2, <2>2, <2>4 DEF Tables
    <2>6. v[a] = Deleted(t[a], x) /\ \A d \in ChainName : d # a => v[d] = t[d]
      BY <2>2, <2>3 DEF Tables
    <2>7. u[i - 1][a] = Deleted(u[i][a], x)
      <3>1. CASE a # c
        BY <2>2, <2>5, <2>6, <3>1
      <3>2. CASE a = c /\ x # Bypass
        <4>1. Deleted(<<Bypass>> \o t[c], x) = <<Bypass>> \o Deleted(t[c], x)
          BY <1>2, <2>2, <2>5, <3>2, DeletedBehind
        <4> QED
          BY <2>5, <2>6, <3>2, <4>1
      <3>3. CASE a = c /\ x = Bypass
        <4>1. Deleted(<<Bypass>> \o t[c], Bypass) = t[c]
          BY <1>2, <2>5, DeletedOwn
        <4>2. <<t[c][1]>> \o Deleted(t[c], t[c][1]) = t[c]
          BY <2>3, <2>5, <3>3, DeletedFront
        <4>3. <<Bypass>> \o v[c] = t[c]
          BY <2>3, <2>6, <3>3, <4>2
        <4> QED
          BY <2>5, <3>3, <4>1, <4>3
      <3> QED
        BY <3>1, <3>2, <3>3
    <2>8. \A d \in ChainName : d # a => u[i - 1][d] = u[i][d]
      <3> TAKE d \in ChainName
      <3>1. d # a => v[d] = t[d]
        BY <2>6
      <3>2. CASE d = c
        BY <2>5, <3>1, <3>2
      <3>3. CASE d # c
        BY <2>5, <3>1, <3>3
      <3> QED
        BY <3>2, <3>3
    <2>9. u[i - 1] = [u[i] EXCEPT ![a] = Deleted(u[i][a], x)]
      BY <2>2, <2>4, <2>7, <2>8 DEF Tables
    <2>10. x = Bypass => u[i][a] # <<>> /\ u[i][a][1] = Bypass
      <3>1. CASE a = c
        BY <1>2, <2>5, <3>1, InFrontIs
      <3>2. CASE a # c
        BY <2>2, <2>3, <2>5, <3>2
      <3> QED
        BY <3>1, <3>2
    <2> QED
      BY <2>9, <2>10 DEF a, x
  <1>9. WayBack(u, installed)
    BY <1>7, <1>8 DEF WayBack, n
  <1>10. u[n] = P(chain) /\ u[0] = P(before)
    <2>1. 0 \in 0..n /\ n \in 0..n
      BY <1>2
    <2>2. u[0] = P(r[0]) /\ u[n] = P(r[n])
      BY <1>6, <2>1
    <2> QED
      BY <1>4, <2>2
  <1> QED
    BY <1>9, <1>10

\* Every action keeps the way back, or knows that it is lost.
LEMMA UndoesKept ==
  ASSUME ChainsTypes, Placed, Undoes, [ChainsNext]_chainsVars
  PROVE  Undoes'
  <1>1. CASE UNCHANGED <<installed, chain, before, stuck>>
    BY <1>1 DEF Undoes
  <1>2. CASE StartCapture \/ Die
    <2>1. installed' = <<>> /\ Len(installed') = 0 /\ chain' = chain /\ before' = chain
      BY <1>2 DEF StartCapture, Die
    <2> DEFINE r == [i \in 0..0 |-> chain]
    <2>2. chain \in Tables
      BY DEF ChainsTypes
    <2>3. WayBack(r, installed') /\ r[Len(installed')] = chain' /\ r[0] = before'
      BY <2>1, <2>2 DEF WayBack
    <2> QED
      BY <2>3 DEF Undoes
  <1>3. CASE InstallOk
    BY <1>3, InstallWayBack
  <1>4. CASE RemoveOk
    BY <1>4, RemoveWayBack
  <1>5. CASE OperatorBypass
    BY <1>5, OperatorWayBack
  <1>6. CASE RemoveFails
    <2>1. stuck' # {}
      BY <1>6 DEF RemoveFails
    <2> QED
      BY <2>1 DEF Undoes
  <1>7. CASE \/ \E w \in Words : Type(w)
             \/ StartRefused \/ InstallFails \/ InstallDone \/ StopCapture
             \/ UnwindThreads \/ CloseCapture \/ UNCHANGED chainsVars
    BY <1>1, <1>7 DEF Type, StartRefused, InstallFails, InstallDone, StopCapture,
                      UnwindThreads, CloseCapture, chainsVars
  <1> QED
    BY <1>2, <1>3, <1>4, <1>5, <1>6, <1>7 DEF ChainsNext

\* However starts, stops, failing commands, kills and the operator take turns,
\* the table of installed rules knows the way back to the chains of before.
THEOREM ChainsInductive == ChainsSpec => []ChainsInv
  <1>1. ChainsInit => ChainsInv
    BY ChainsStarts
  <1>2. ChainsInv /\ [ChainsNext]_chainsVars => ChainsInv'
    BY ChainsTypesKept, ShieldsKept, UndoesKept DEF ChainsInv
  <1> QED
    BY <1>1, <1>2, PTL DEF ChainsSpec

\* While the bypass of a table is installed, it decides first about what is marked.
LEMMA ShieldedFromFeedback == ChainsInv => NoFeedback
  <1> SUFFICES ASSUME ChainsInv, pc = "up", NEW p \in Packets, p.out,
                      NEW c \in ToSet(installed), c.at[1] = (IF p.v6 THEN "v6" ELSE "v4")
               PROVE  Verdict(p, TRUE) # "queue"
    BY DEF NoFeedback
  <1> DEFINE f == IF p.v6 THEN "v6" ELSE "v4"
             b == Command(f, "OUTPUT", Bypass)
             q == chain[<<f, "OUTPUT">>]
             hits == {i \in DOMAIN q : RuleHits(q[i], p, TRUE)}
             first == CHOOSE i \in hits : \A j \in hits : i <= j
  <1>1. /\ installed \in Seq(AnyCommand) /\ todo = <<>> /\ chain \in Tables
        /\ Planned /\ Shielded
    BY DEF ChainsInv, ChainsTypes, Placed
  <1>2. PICK i \in 1..Len(installed) : installed[i] = c
    BY <1>1, LenProperties DEF ToSet
  <1>3. Shielding(installed)
    <2>1. installed \o todo = installed
      BY <1>1, ConcatEmptySeq
    <2> QED
      BY <1>1, <2>1 DEF Planned, Installing
  <1>4. PICK j \in 1..Len(installed) : installed[j] = b
    BY <1>2, <1>3 DEF Shielding
  <1>5. f \in {"v4", "v6"} /\ Bypass \in Spelled /\ <<f, "OUTPUT">> \in ChainName
    BY DEF Spelled, ChainName
  <1>6. installed[j].at = <<f, "OUTPUT">> /\ installed[j].spec = Bypass
    BY <1>4, <1>5, CommandIs
  <1>7. q # <<>> /\ q[1] = Bypass
    BY <1>1, <1>6 DEF Shielded, Installing
  <1>8. q \in Seq(Spelled)
    BY <1>1, <1>5 DEF Tables
  <1>9. DOMAIN q = 1..Len(q) /\ Len(q) \in Nat /\ Len(q) # 0
    BY <1>7, <1>8, EmptySeq, LenProperties
  <1>10. Verdict(p, TRUE) = IF hits = {} THEN "pass" ELSE q[first].target
    BY DEF Verdict
  <1>11. 1 \in DOMAIN q /\ \A i2 \in DOMAIN q : i2 \in Nat /\ 1 <= i2
    BY <1>9
  <1> HIDE DEF q
  <1>12. 1 \in hits
    BY <1>7, <1>11 DEF RuleHits
  <1>13. \A k \in hits : k \in Nat /\ 1 <= k
    BY <1>11
  <1> HIDE DEF hits
  <1>14. first \in hits /\ \A k \in hits : first <= k
    BY <1>12, <1>13
  <1> HIDE DEF first
  <1>15. first = 1
    BY <1>12, <1>13, <1>14
  <1>16. Verdict(p, TRUE) = Bypass.target
    BY <1>7, <1>10, <1>12, <1>15
  <1> QED
    BY <1>16 DEF Bypass

\* The table of installed rules is sound: it has room for every list of rules, no
\* rule leads to a queue that is gone, and no injected packet is queued again.
THEOREM ChainsAreConsistent == ChainsSpec => []ChainsConsistent
  <1>1. ChainsInv => ChainsTypeOK
    <2> SUFFICES ASSUME ChainsInv PROVE ChainsTypeOK
      OBVIOUS
    <2>1. ChainsTypes /\ Len(installed) + Len(todo) <= MaxInstalled
      BY DEF ChainsInv, RoomForEveryRule
    <2>2. Len(installed) <= MaxInstalled
      <3>1. Len(installed) \in Nat /\ Len(todo) \in Nat /\ MaxInstalled \in Nat
        BY <2>1, LenProperties, ChainsConstants DEF ChainsTypes
      <3> QED
        BY <2>1, <3>1
    <2>3. DOMAIN chain = ChainName /\ DOMAIN before = ChainName
      BY <2>1 DEF ChainsTypes, Tables
    <2> QED
      BY <2>1, <2>2, <2>3 DEF ChainsTypes, ChainsTypeOK
  <1>2. ChainsInv => RulesNeedQueue
    BY DEF ChainsInv, ChainsTypes, Placed, Idle, RulesNeedQueue
  <1>3. ChainsInv => ChainsConsistent
    BY <1>1, <1>2, ShieldedFromFeedback DEF ChainsInv, ChainsConsistent
  <1> QED
    BY <1>3, ChainsInductive, PTL

\* A capture that ended or could not start leaves the chains as they would be
\* without it, unless a removal failed: no rule of somebody else's is taken out,
\* whatever a killed run left in the chains and the operator put there meanwhile.
THEOREM ChainsAreRestored == ChainsSpec => []ChainRestored
  <1>1. ChainsInv => ChainRestored
    <2> SUFFICES ASSUME ChainsInv, Idle, stuck = {} PROVE chain = before
      BY DEF ChainRestored
    <2>1. installed = <<>> /\ Len(installed) = 0
      BY EmptySeq DEF ChainsInv, Placed, Idle
    <2> QED
      BY <2>1 DEF ChainsInv, Undoes
  <1> QED
    BY <1>1, ChainsInductive, PTL
=============================================================================
