------------------------------- MODULE Capture -------------------------------
(***************************************************************************)
(* The Linux capture backend (divert_linux.cpp): the read loop and the     *)
(* clock loop share one packet list and the module pipeline under one      *)
(* mutex; divertStart and divertStop open and close a session; the control *)
(* API and the scenario player flip the modules' enabled flags without     *)
(* taking that mutex.                                                      *)
(*                                                                         *)
(* Abstractions.  The list and the module buffers are sets: no property    *)
(* here depends on the order of packets.  Which packets match the filter,  *)
(* a module's direction switches or its random choice is nondeterministic, *)
(* and so is the time at which a delay expires.  The pipeline is any       *)
(* selection, in order, of the modules below, one of each way in which a   *)
(* module can treat packets.                                               *)
(***************************************************************************)
EXTENDS Naturals, Sequences, FiniteSets

CONSTANTS
  Packet,      \* NFQUEUE packet ids
  Clone,       \* memory for synthetic packets; malloc fails when all is used
  NoPacket,    \* content of the read buffer between two recv() calls
  Pipeline,    \* modules[], in the order of main.cpp
  KeepAtMost   \* bandwidth's KEEP_AT_MOST

Module == {"lag", "drop", "duplicate", "bandwidth"}
Holding == {"lag", "bandwidth"}      \* modules with a packet buffer
Node == Packet \cup Clone

ASSUME CaptureAssumption ==
  /\ Packet \cap Clone = {}
  /\ NoPacket \notin Packet
  /\ Pipeline \in Seq(Module)
  /\ \A i, j \in DOMAIN Pipeline : Pipeline[i] = Pipeline[j] => i = j
  /\ KeepAtMost \in Nat \ {0}

VARIABLES
  ctl,          \* where divertStart/divertStop stand
  stopLooping,  \* the flag both loops poll
  rpc,          \* where the read loop is
  cpc,          \* where the clock loop is
  mutex,        \* the thread that holds the capture mutex, or "free"
  stage,        \* index of the next module the mutex holder visits
  nfqQueue,     \* is the queue bound?
  msg,          \* the packet recv() returned and nfqCallback has not seen
  fate,         \* the kernel's view of each id, see NfQueue
  received,     \* ids read off the netlink socket
  captured,     \* ids for which nfqCallback created a node
  issued,       \* nodes whose verdictIssued is set
  list,         \* nodes between head and tail
  buffer,       \* nodes in each holding module's buffer
  enabled,      \* modules whose *enabledFlag is set
  lastEnabled,  \* modules whose lastEnabled is set
  linked,       \* holding modules whose bufHead and bufTail are linked
  rested        \* history: flags have only changed while no session existed

threadVars == <<rpc, cpc, mutex, stage, msg>>
queueVars == <<nfqQueue, received, captured>>
nodeVars == <<fate, issued, list, buffer>>
moduleVars == <<enabled, lastEnabled, linked, rested>>
vars == <<ctl, stopLooping, threadVars, queueVars, nodeVars, moduleVars>>

\* What became of an id: answered while pending, answered after its queue was
\* gone (the kernel knows no such id any more), or answered a second time.
Answered == {"accepted", "dropped", "late"}
Fate == {"unseen", "queued", "flushed", "twice"} \cup Answered

Stages == {Pipeline[i] : i \in DOMAIN Pipeline}
Buffered == UNION {buffer[m] : m \in Holding}
Held == list \cup Buffered
Backlog == {p \in Packet : fate[p] = "queued"} \ received

TypeOK ==
  /\ ctl \in {"idle", "running", "stopping", "crashed"}
  /\ stopLooping \in BOOLEAN
  /\ rpc \in {"exit", "poll", "lock", "run"}
  /\ cpc \in {"exit", "wait", "run", "check", "final", "close"}
  /\ mutex \in {"free", "read", "clock"}
  /\ stage \in 1..Len(Pipeline) + 1
  /\ nfqQueue \in BOOLEAN
  /\ msg \in Packet \cup {NoPacket}
  /\ fate \in [Packet -> Fate]
  /\ received \subseteq Packet
  /\ captured \subseteq received
  /\ issued \subseteq Packet
  /\ list \subseteq Node
  /\ buffer \in [Holding -> SUBSET Node]
  /\ enabled \subseteq Module
  /\ lastEnabled \subseteq Module
  /\ linked \subseteq Holding
  /\ rested \in BOOLEAN

Init ==
  /\ ctl = "idle" /\ stopLooping = FALSE
  /\ rpc = "exit" /\ cpc = "exit" /\ mutex = "free" /\ stage = 1
  /\ nfqQueue = FALSE /\ msg = NoPacket
  /\ fate = [p \in Packet |-> "unseen"]
  /\ received = {} /\ captured = {} /\ issued = {}
  /\ list = {} /\ buffer = [m \in Holding |-> {}]
  /\ enabled \in SUBSET Stages
  /\ lastEnabled = {} /\ linked = {} /\ rested = TRUE

------------------------------------------------------------------------------
(* Verdicts.                                                               *)

\* Seeded fault: the verdictIssued test is missing.
UnsettledTwice(S, iss) == IF nfqQueue THEN S \cap Packet ELSE {}

\* The ids settleVerdict would answer among the nodes S: not synthetic, not
\* answered yet, queue open.
Unsettled(S, iss) == IF nfqQueue THEN (S \cap Packet) \ iss ELSE {}

\* nfq_set_verdict for an id whose fate is was.
Told(was, v) ==
  CASE was = "queued" -> v
    [] was = "flushed" -> "late"
    [] OTHER -> "twice"

\* settleVerdict(node, v) for every node of S, given the ids already issued.
Settle(f, S, iss, v) ==
  [p \in Packet |-> IF p \in Unsettled(S, iss) THEN Told(f[p], v) ELSE f[p]]

\* freeNode() on every node of S: packetBackendOnFree answers NF_DROP.
FreeNodes(S) ==
  /\ fate' = Settle(fate, S, issued, "dropped")
  /\ issued' = issued \cup Unsettled(S, issued)

\* Seeded fault: the node is freed and nothing was sent before.
SendNodeFreed(n) == list' = list \ {n} /\ FreeNodes({n})

\* One turn of sendAllListPackets: a captured packet is accepted, a synthetic
\* one goes to the raw socket, and the node is freed either way.
SendNode(n) ==
  /\ list' = list \ {n}
  /\ LET iss == issued \cup Unsettled({n}, issued)
     IN /\ fate' = Settle(Settle(fate, {n}, issued, "accepted"), {n}, iss, "dropped")
        /\ issued' = iss \cup Unsettled({n}, iss)

------------------------------------------------------------------------------
(* Modules.                                                                *)

\* Nodes move into the buffer of m and out of it, back to the list.
MoveThrough(m, in, out) ==
  /\ list' = (list \ in) \cup out
  /\ buffer' = [buffer EXCEPT ![m] = (@ \cup in) \ out]

LagProcess ==
  \E in \in SUBSET list : \E out \in SUBSET (buffer["lag"] \cup in) :
    /\ MoveThrough("lag", in, out)
    /\ UNCHANGED <<fate, issued>>

DropProcess ==
  \E gone \in SUBSET list :
    /\ list' = list \ gone
    /\ FreeNodes(gone)
    /\ UNCHANGED buffer

\* cloneNode returns NULL once no memory is left.
DupProcess ==
  \E new \in SUBSET (Clone \ Held) :
    /\ new # {} => list # {}
    /\ list' = list \cup new
    /\ UNCHANGED <<fate, issued, buffer>>

\* Arrivals beyond KEEP_AT_MOST are freed, before anything is drained.
BandwidthProcess ==
  \E in \in SUBSET list : \E gone \in SUBSET (list \ in) :
    LET queued == buffer["bandwidth"] \cup in
    IN /\ Cardinality(queued) <= KeepAtMost
       /\ gone # {} => Cardinality(queued) = KeepAtMost
       /\ \E out \in SUBSET queued :
            /\ list' = (list \ (in \cup gone)) \cup out
            /\ buffer' = [buffer EXCEPT !["bandwidth"] = queued \ out]
       /\ FreeNodes(gone)

Process(m) ==
  \/ m = "lag" /\ LagProcess
  \/ m = "drop" /\ DropProcess
  \/ m = "duplicate" /\ DupProcess
  \/ m = "bandwidth" /\ BandwidthProcess

\* lagStartUp, bandwidthStartUp: the first call links the empty buffer.
StartUp(m) == linked' = linked \cup ({m} \cap Holding)

\* lagCloseDown, bandwidthCloseDown: everything goes back to the list.
CloseDown(m) ==
  /\ IF m \in Holding THEN MoveThrough(m, {}, buffer[m]) ELSE UNCHANGED <<list, buffer>>
  /\ UNCHANGED <<fate, issued>>

\* nfq_destroy_queue, or the end of the process.
CloseQueue ==
  /\ nfqQueue' = FALSE
  /\ fate' = [p \in Packet |-> IF fate[p] = "queued" THEN "flushed" ELSE fate[p]]

------------------------------------------------------------------------------
(* divertConsumeStep and the tail of the clock loop, under the mutex.       *)

Consuming == (mutex = "read" /\ rpc = "run") \/ (mutex = "clock" /\ cpc = "run")
Closing == mutex = "clock" /\ cpc = "close"
AtModule == stage \in DOMAIN Pipeline

\* sendAllListPackets has nothing left to send.
Drained == ~AtModule /\ list = {}

\* Seeded fault: lastEnabled stays as it is.
StartIfNewNoMark(m) ==
  /\ IF m \in lastEnabled THEN UNCHANGED linked ELSE StartUp(m)
  /\ UNCHANGED lastEnabled

\* An enabled module is started on its first turn.
StartIfNew(m) ==
  /\ IF m \in lastEnabled THEN UNCHANGED linked ELSE StartUp(m)
  /\ lastEnabled' = lastEnabled \cup {m}

\* Seeded fault: the loop stops one module short.
ClosesShort(m) == m \in enabled /\ stage < Len(Pipeline)

\* The closing loop looks at *enabledFlag only.
Closes(m) == m \in enabled

\* One turn of the module loop of divertConsumeStep.
RunStage ==
  /\ Consuming /\ AtModule
  /\ LET m == Pipeline[stage]
     IN \/ /\ m \in enabled
           /\ StartIfNew(m)
           /\ Process(m)
        \/ /\ m \in lastEnabled \ enabled
           /\ CloseDown(m)
           /\ lastEnabled' = lastEnabled \ {m}
           /\ UNCHANGED linked
        \/ /\ m \notin enabled \cup lastEnabled
           /\ UNCHANGED <<nodeVars, lastEnabled, linked>>
  /\ stage' = stage + 1
  /\ UNCHANGED <<ctl, stopLooping, rpc, cpc, mutex, msg, queueVars, enabled, rested>>

\* One turn of the loop that closes the modules when the clock loop stops.
CloseStage ==
  /\ Closing /\ AtModule
  /\ LET m == Pipeline[stage]
     IN \/ /\ Closes(m)
           /\ m \in Holding => m \in linked
           /\ CloseDown(m)
        \/ ~Closes(m) /\ UNCHANGED nodeVars
  /\ stage' = stage + 1
  /\ UNCHANGED <<ctl, stopLooping, rpc, cpc, mutex, msg, queueVars, moduleVars>>

\* closeDown of a module whose buffer was never linked: isBufEmpty() compares
\* NULL with bufTail and popNode() dereferences NULL.
CloseUnlinked ==
  /\ Closing /\ AtModule
  /\ Closes(Pipeline[stage]) /\ Pipeline[stage] \in Holding \ linked
  /\ ctl' = "crashed"
  /\ CloseQueue
  /\ UNCHANGED <<stopLooping, threadVars, received, captured, issued, list, buffer, moduleVars>>

\* sendAllListPackets pops one node at a time.
SendOne ==
  /\ Consuming \/ Closing
  /\ ~AtModule
  /\ \E n \in list : SendNode(n)
  /\ UNCHANGED <<ctl, stopLooping, threadVars, queueVars, buffer, moduleVars>>

Release ==
  /\ Consuming \/ Closing
  /\ Drained
  /\ mutex' = "free" /\ stage' = 1
  /\ IF mutex = "read"
     THEN rpc' = "poll" /\ UNCHANGED cpc
     ELSE cpc' = (IF Closing THEN "exit" ELSE "check") /\ UNCHANGED rpc
  /\ UNCHANGED <<ctl, stopLooping, msg, queueVars, nodeVars, moduleVars>>

------------------------------------------------------------------------------
(* The read loop.                                                           *)

\* The kernel queues a packet while the queue is bound.
Arrive(p) ==
  /\ nfqQueue /\ fate[p] = "unseen"
  /\ fate' = [fate EXCEPT ![p] = "queued"]
  /\ UNCHANGED <<ctl, stopLooping, threadVars, queueVars, issued, list, buffer, moduleVars>>

ReadStop ==
  /\ rpc = "poll" /\ stopLooping
  /\ rpc' = "exit"
  /\ UNCHANGED <<ctl, stopLooping, cpc, mutex, stage, msg, queueVars, nodeVars, moduleVars>>

ReadReceive(p) ==
  /\ rpc = "poll" /\ ~stopLooping
  /\ p \in Backlog
  /\ msg' = p /\ received' = received \cup {p}
  /\ rpc' = "lock"
  /\ UNCHANGED <<ctl, stopLooping, cpc, mutex, stage, nfqQueue, captured, nodeVars, moduleVars>>

\* recv() fails with something else than EINTR, EAGAIN or ENOBUFS.
ReadFail ==
  /\ rpc = "poll" /\ ~stopLooping
  /\ rpc' = "exit"
  /\ UNCHANGED <<ctl, stopLooping, cpc, mutex, stage, msg, queueVars, nodeVars, moduleVars>>

\* Seeded fault: stopLooping is not read again under the mutex.
MayHandleLate == rpc = "lock" /\ mutex = "free"

\* The read loop has the mutex and goes on.
MayHandle == rpc = "lock" /\ mutex = "free" /\ ~stopLooping

\* The mutex is acquired, stopLooping is set: the loop ends, the message with it.
ReadDiscard ==
  /\ rpc = "lock" /\ mutex = "free" /\ stopLooping
  /\ rpc' = "exit" /\ msg' = NoPacket
  /\ UNCHANGED <<ctl, stopLooping, cpc, mutex, stage, queueVars, nodeVars, moduleVars>>

\* Seeded fault: the early return after the verdict is missing.
ReadPassNoReturn ==
  /\ MayHandle
  /\ fate' = [fate EXCEPT ![msg] = "accepted"]
  /\ mutex' = "read" /\ rpc' = "run" /\ stage' = 1 /\ msg' = NoPacket
  /\ captured' = captured \cup {msg}
  /\ list' = list \cup {msg}
  /\ UNCHANGED <<ctl, stopLooping, cpc, nfqQueue, received, issued, buffer, moduleVars>>

\* nfqCallback accepts an empty packet, one the filter does not match, or one
\* no node could be allocated for.
ReadPass ==
  /\ MayHandle
  /\ fate' = [fate EXCEPT ![msg] = "accepted"]
  /\ rpc' = "poll" /\ msg' = NoPacket
  /\ UNCHANGED <<ctl, stopLooping, cpc, mutex, stage, queueVars, issued, list, buffer, moduleVars>>

\* nfqCallback appends a node; the consume step follows.
ReadCapture ==
  /\ MayHandle
  /\ mutex' = "read" /\ rpc' = "run" /\ stage' = 1 /\ msg' = NoPacket
  /\ captured' = captured \cup {msg}
  /\ list' = list \cup {msg}
  /\ UNCHANGED <<ctl, stopLooping, cpc, nfqQueue, received, fate, issued, buffer, moduleVars>>

------------------------------------------------------------------------------
(* The clock loop.                                                          *)

ClockAcquire ==
  /\ cpc = "wait" /\ mutex = "free"
  /\ mutex' = "clock" /\ cpc' = "run" /\ stage' = 1
  /\ UNCHANGED <<ctl, stopLooping, rpc, msg, queueVars, nodeVars, moduleVars>>

\* WAIT_TIMEOUT after CLOCK_WAITMS: this run is skipped.
ClockSkip ==
  /\ cpc = "wait" /\ mutex # "free"
  /\ cpc' = "check"
  /\ UNCHANGED <<ctl, stopLooping, rpc, mutex, stage, msg, queueVars, nodeVars, moduleVars>>

ClockCheck ==
  /\ cpc = "check"
  /\ cpc' = IF stopLooping THEN "final" ELSE "wait"
  /\ UNCHANGED <<ctl, stopLooping, rpc, mutex, stage, msg, queueVars, nodeVars, moduleVars>>

ClockFinal ==
  /\ cpc = "final" /\ mutex = "free"
  /\ mutex' = "clock" /\ cpc' = "close" /\ stage' = 1
  /\ UNCHANGED <<ctl, stopLooping, rpc, msg, queueVars, nodeVars, moduleVars>>

------------------------------------------------------------------------------
(* Control.                                                                 *)

\* divertStart, the path that succeeds.
Start ==
  /\ ctl = "idle"
  /\ ctl' = "running" /\ nfqQueue' = TRUE
  /\ lastEnabled' = {} /\ stopLooping' = FALSE
  /\ rpc' = "poll" /\ cpc' = "wait" /\ mutex' = "free" /\ stage' = 1
  /\ UNCHANGED <<msg, received, captured, nodeVars, enabled, linked, rested>>

StopRequest ==
  /\ ctl = "running"
  /\ ctl' = "stopping" /\ stopLooping' = TRUE
  /\ UNCHANGED <<threadVars, queueVars, nodeVars, moduleVars>>

\* Both threads were joined within the 5 s; the queue goes away.
StopJoin ==
  /\ ctl = "stopping" /\ rpc = "exit" /\ cpc = "exit"
  /\ ctl' = "idle"
  /\ CloseQueue
  /\ UNCHANGED <<stopLooping, threadVars, received, captured, issued, list, buffer, moduleVars>>

\* A flag is written by an API worker, the pipe server or a scenario step.
Toggle(m) ==
  /\ rested' = (rested /\ ctl = "idle")
  /\ enabled' = IF m \in enabled THEN enabled \ {m} ELSE enabled \cup {m}
  /\ UNCHANGED <<ctl, stopLooping, threadVars, queueVars, nodeVars, lastEnabled, linked>>

Pipe == RunStage \/ CloseStage \/ CloseUnlinked \/ SendOne \/ Release
Read == ReadStop \/ (\E p \in Packet : ReadReceive(p)) \/ ReadFail \/ ReadDiscard
          \/ ReadPass \/ ReadCapture
Clock == ClockAcquire \/ ClockSkip \/ ClockCheck \/ ClockFinal
Control == Start \/ StopRequest \/ StopJoin \/ (\E m \in Stages : Toggle(m))

Next ==
  /\ ctl # "crashed"
  /\ \/ Pipe
     \/ Read
     \/ Clock
     \/ Control
     \/ \E p \in Packet : Arrive(p)

Spec == Init /\ [][Next]_vars

------------------------------------------------------------------------------
(* Properties.                                                              *)

\* Outside the mutex the list is empty: each critical section of the two loops
\* sends everything it put there (divert.cpp asserts it before every recv).
ListQuiescent == mutex = "free" => list = {}

\* A node is in one place: the list or one module's buffer, never in two and
\* never after its verdict was issued (a popNode forgotten, a node used after
\* freeNode).  The id in the read buffer has no node yet.
OneHome ==
  /\ list \cap Buffered = {}
  /\ buffer["lag"] \cap buffer["bandwidth"] = {}
  /\ Held \cap issued = {}
  /\ msg \notin captured

\* No node is lost: a captured id is held somewhere until its verdict is out.
Accounted ==
  \A p \in captured : p \in Held \/ fate[p] \in Answered

\* The kernel gets at most one verdict for an id (settleVerdict: "only the first
\* call reaches the kernel"), whatever calls settleVerdict and freeNode.
VerdictOnce ==
  [][\A p \in Packet : fate[p] \in Answered => fate'[p] = fate[p]]_vars

\* NF_DROP is the work of an enabled module that drops packets; sending, closing
\* and stopping never turn a packet into a drop.
OnlyModulesDrop ==
  [][\A p \in Packet : fate[p] # "dropped" /\ fate'[p] = "dropped" =>
        Consuming /\ AtModule /\ Pipeline[stage] \in enabled \cap {"drop", "bandwidth"}]_vars

\* Once the clock loop has flushed and returned nothing enters the list any more:
\* the read loop looks at stopLooping again under the mutex.
NothingAfterFlush == cpc = "exit" => rpc # "run" /\ list = {}

\* A packet that still waits for its verdict is only ever held by a module whose
\* lastEnabled is set, so that the next consume step processes or closes it.
NoOrphan ==
  \A m \in Holding : \A n \in buffer[m] \cap Packet :
    fate[n] = "queued" => m \in lastEnabled

\* When divertStop has returned no buffer holds a packet and every captured id
\* had its verdict from clumsy while its queue was open - as long as no flag ever
\* changed in a session.  (One that did leaves packets behind: see NoOrphan.)
CleanStop ==
  ctl = "idle" /\ rested =>
    /\ Buffered = {}
    /\ \A p \in captured : fate[p] \in {"accepted", "dropped"}

\* The program answers pending ids only, once, and the kernel discards the rest
\* with the queue: the abstract NfQueue.
Kernel == INSTANCE NfQueue WITH Packet <- Packet, fate <- fate
KernelSpec == Kernel!Spec

------------------------------------------------------------------------------
(* The inductive invariant behind the safety properties (Capture_proofs).   *)

\* Who may be where: the mutex excludes, the read buffer is filled exactly while
\* the read loop waits for the mutex, and the loops end only when told to.
ThreadInv ==
  /\ mutex = "read" <=> rpc = "run"
  /\ mutex = "clock" <=> cpc \in {"run", "close"}
  /\ rpc = "lock" <=> msg # NoPacket
  /\ nfqQueue <=> ctl \in {"running", "stopping"}
  /\ ctl = "idle" => rpc = "exit" /\ cpc = "exit"
  /\ cpc \in {"final", "close", "exit"} => stopLooping \/ ctl = "idle"

\* Where nodes are and what is known of the ids that have one.
NodeInv ==
  /\ OneHome
  /\ Held \cap Packet \subseteq captured
  /\ \A p \in Held \cap Packet : fate[p] \in {"queued", "flushed"}
  /\ \A p \in received : fate[p] # "unseen"
  /\ issued \subseteq captured
  /\ msg # NoPacket => msg \in received
  /\ msg # NoPacket /\ ctl # "crashed" => fate[msg] = "queued"

IInv == TypeOK /\ ThreadInv /\ ListQuiescent /\ NothingAfterFlush /\ NodeInv /\ Accounted

------------------------------------------------------------------------------
(* What the source says and the code does not do: see the README, findings and *)
(* observations.                                                              *)

\* divert_linux.cpp:14, "Every queued packet id MUST receive exactly one
\* verdict": no id that was read off the socket is left to the kernel.
EveryReceivedIdAnswered == \A p \in received : fate[p] # "flushed"

\* The same sentence for the packets that did get a node.
EveryCapturedIdAnswered == \A p \in captured : fate[p] # "flushed"

\* Enabling a module in a running session never takes the process down.
NoCrash == ctl # "crashed"
==============================================================================
