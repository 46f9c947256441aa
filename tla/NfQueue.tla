------------------------------- MODULE NfQueue -------------------------------
(***************************************************************************)
(* What the capture backend promises the kernel (divert_linux.cpp, header  *)
(* comment, point 1): a packet the kernel queues is answered once, with    *)
(* NF_ACCEPT or NF_DROP, and never again.  What is still pending when the  *)
(* queue is destroyed the kernel discards by itself; an answer that comes  *)
(* later reaches nobody.  Threads, packet list, modules and buffers are    *)
(* not visible at this level.                                              *)
(***************************************************************************)
CONSTANT Packet  \* ids the kernel hands out; an id is used once

VARIABLE fate    \* what has happened to each id, as the kernel sees it

Verdict == {"accepted", "dropped"}
Fate == {"unseen", "queued", "flushed", "late"} \cup Verdict

Pending == {p \in Packet : fate[p] = "queued"}
Gone == {p \in Packet : fate[p] = "flushed"}

Init == fate = [p \in Packet |-> "unseen"]

\* An iptables rule sends a packet to the queue.
Enqueue(p) ==
  /\ fate[p] = "unseen"
  /\ fate' = [fate EXCEPT ![p] = "queued"]

\* The program answers the packets S, none of which it answered before: those
\* pending get the verdict, for those gone it comes too late.
Answer(S, v) ==
  /\ S \subseteq Pending \cup Gone
  /\ fate' = [p \in Packet |-> IF p \in S \cap Pending THEN v
                               ELSE IF p \in S THEN "late"
                               ELSE fate[p]]

\* nfq_destroy_queue(): the kernel drops what nobody answered.
Destroy ==
  fate' = [p \in Packet |-> IF p \in Pending THEN "flushed" ELSE fate[p]]

Next ==
  \/ \E p \in Packet : Enqueue(p)
  \/ \E S \in SUBSET Packet, v \in Verdict : Answer(S, v)
  \/ Destroy

Spec == Init /\ [][Next]_fate
==============================================================================
