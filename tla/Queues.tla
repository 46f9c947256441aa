------------------------------- MODULE Queues -------------------------------
(***************************************************************************)
(* The modules that hold packets back (lag, jitter, throttle, ood and      *)
(* bandwidth): how long, and in which order packets leave; and those that  *)
(* lose them in stretches (blackout and burstloss).  They share the packet *)
(* list and read a 32-bit millisecond clock.                               *)
(*                                                                         *)
(* Sequences run from head to tail, as the linked lists do: every module   *)
(* takes from the tail, puts in at the head, and sendAllListPackets sends  *)
(* from the tail, so the oldest packet is the last of its sequence.  Ids   *)
(* are given in the order of arrival.                                      *)
(*                                                                         *)
(* Abstractions.  A consume step takes no time, and flags and parameters   *)
(* change between two steps: each flag is read once in a step.  Chances,   *)
(* jitter's distribution, the bandwidth limit and packet sizes are         *)
(* nondeterministic.  One KEEP_AT_MOST and one FLUSH_WHEN_FULL serve for   *)
(* all modules.  All modules are always in modules[]; a pipeline names     *)
(* those that are ever switched on.                                        *)
(***************************************************************************)
EXTENDS Naturals, Sequences, FiniteSets, SequencesExt, Series

CONSTANTS
  Pipelines,     \* choices of modules in use, each in the order of modules[]
  MaxPackets,    \* bound: packets that ever arrive
  Bypass,        \* ids the modules' direction switches do not match
  KeepAtMost,    \* KEEP_AT_MOST
  FlushWhenFull, \* FLUSH_WHEN_FULL
  LagTimes,      \* values of lag-time
  JitterMin, JitterMax,  \* jitter-min, jitter-max
  Frame,         \* throttle-frame
  OodBuffer, OodDelay,   \* ood-buffer, ood-delay
  Duration, Gap,         \* blackout-duration, blackout-gap
  Modulus,       \* 2^32: the clock's values are 0..Modulus-1
  Origin,        \* what the clock shows when the program starts
  MaxLate        \* bound: ticks between two consume steps

Holding == {"lag", "jitter", "throttle", "ood", "bandwidth"}
Module == Holding \cup {"burstloss", "blackout"}
Id == 1..MaxPackets

\* The modules' order in modules[].
Order == <<"lag", "jitter", "burstloss", "blackout", "throttle", "ood", "bandwidth">>
InOrderOfModules(p) ==
  \A i, j \in DOMAIN p : i < j =>
    \E k, l \in DOMAIN Order : k < l /\ p[i] = Order[k] /\ p[j] = Order[l]

\* Beyond this the model does not count how long something has lasted.
Longest == Max({JitterMax, Frame, OodDelay, Duration, Gap} \cup LagTimes) + MaxLate + 1

ASSUME QueuesAssumption ==
  /\ \A p \in Pipelines : p \in Seq(Module) /\ InOrderOfModules(p)
  /\ MaxPackets \in Nat /\ Bypass \subseteq Id
  /\ KeepAtMost \in Nat \ {0}
  /\ FlushWhenFull \in 1..KeepAtMost
  /\ LagTimes \subseteq Nat
  /\ \E longest \in LagTimes : \A t \in LagTimes : t <= longest  \* LAG_MAX
  /\ JitterMin \in Nat /\ JitterMax \in Nat /\ JitterMin <= JitterMax
  /\ Frame \in Nat /\ OodBuffer \in 1..KeepAtMost /\ OodDelay \in Nat
  /\ Duration \in Nat \ {0} /\ Gap \in Nat \ {0}
  /\ Modulus \in Nat \ {0} /\ Origin \in 0..Modulus-1
  /\ MaxLate \in Nat
  /\ Longest < Modulus

VARIABLES
  clock,     \* timeGetTime()
  late,      \* ticks since the last consume step began
  stage,     \* the next module of the consume step, past the last one: send
  list,      \* ids between head and tail
  buf,       \* each module's buffer
  on,        \* modules whose flag is set
  lastOn,    \* modules whose lastEnabled is set
  lagTime,
  frameFrom, \* throttleStartTick
  forgot,    \* of the model: throttle has taken the tick 0 it stored for none
  pipeline,  \* the modules in use
  dark,      \* blackout's currentPhase is PHASE_BLACKOUT
  phaseFrom, \* blackout's phaseStart
  phaseAge,  \* how long the phase has really lasted, up to Longest
  trigger,   \* blackout's triggerPending
  burst,     \* burstloss is in STATE_BAD
  arrived,   \* packets so far
  sent,      \* ids in the order in which they left
  lost,      \* ids a module freed
  measured   \* latencies recorded in this step: <<recorded, real>>

moduleVars == <<on, lastOn, lagTime>>
frameVars == <<frameFrom, forgot>>
lossVars == <<dark, phaseFrom, phaseAge, trigger, burst>>
vars == <<clock, late, stage, list, buf, moduleVars, frameVars, pipeline, lossVars, arrived, sent,
          lost, measured>>

Stages == ToSet(pipeline)
AfterAll == Len(pipeline) + 1

\* DWORD arithmetic.
Plus(t, d) == (t + d) % Modulus
Since(t, from) == (t + Modulus - from) % Modulus

\* A buffered node: its time stamps, and two values of the model: what the
\* module made it wait for and how long it has really waited, up to Longest.
Entry == [id : Id, stamp : 0..Modulus-1, enqueued : 0..Modulus-1,
          delay : 0..JitterMax, waited : 0..Longest]

TypeOK ==
  /\ clock \in 0..Modulus-1 /\ late \in 0..MaxLate
  /\ stage \in 1..AfterAll
  /\ list \in Seq(Id) /\ sent \in Seq(Id)
  /\ buf \in [Stages -> Seq(Entry)]
  /\ on \subseteq Stages /\ lastOn \subseteq Stages
  /\ lagTime \in LagTimes
  /\ frameFrom \in 0..Modulus-1 /\ forgot \in BOOLEAN
  /\ pipeline \in Pipelines
  /\ dark \in BOOLEAN /\ trigger \in BOOLEAN /\ burst \in BOOLEAN
  /\ phaseFrom \in 0..Modulus-1 /\ phaseAge \in 0..Longest
  /\ arrived \in 0..MaxPackets
  /\ lost \subseteq Id
  /\ measured \subseteq (0..Modulus-1) \X (0..Longest)

Init ==
  /\ pipeline \in Pipelines
  /\ clock = Origin /\ late = 0 /\ stage = AfterAll
  /\ list = <<>> /\ buf = [m \in Stages |-> <<>>]
  /\ on \in SUBSET Stages /\ lastOn = {} /\ lagTime \in LagTimes
  /\ frameFrom = 0 /\ forgot = FALSE /\ arrived = 0
  /\ dark = FALSE /\ phaseFrom = 0 /\ phaseAge = 0 /\ trigger = FALSE /\ burst = FALSE
  /\ sent = <<>> /\ lost = {} /\ measured = {}

------------------------------------------------------------------------------
(* The list operations the modules are made of.                             *)

Ids(b) == [i \in DOMAIN b |-> b[i].id]
IdsOf(b) == {b[i].id : i \in DOMAIN b}

\* The n entries at the tail, and the others.
Rear(s, n) == SubSeq(s, Len(s) - n + 1, Len(s))
Fore(s, n) == SubSeq(s, 1, Len(s) - n)

\* The most entries at the tail that are all in X: "while (!isBufEmpty())".
Run(s, X) ==
  CHOOSE n \in 0..Len(s) :
    /\ \A i \in Len(s)-n+1..Len(s) : s[i] \in X
    /\ n = Len(s) \/ s[Len(s) - n] \notin X

\* checkDirection() holds of these ids, and the buffer takes room of them.
Matching(l) == Only(l, Id \ Bypass)
Taken(l, room) ==
  LET m == Matching(l)
  IN Rear(m, IF Len(m) < room THEN Len(m) ELSE room)

\* Seeded fault: insertAfter without popNode.
WithoutNone(l, ids) == l

Without(l, ids) == Only(l, ToSet(l) \ ids)

Room(m) == IF Len(buf[m]) < KeepAtMost THEN KeepAtMost - Len(buf[m]) ELSE 0

\* Nodes for the ids l, due after the given delays.
Enqueue(l, delays) ==
  [i \in DOMAIN l |-> [id |-> l[i], stamp |-> Plus(clock, delays[i]), enqueued |-> clock,
                       delay |-> delays[i], waited |-> 0]]
NoDelay(l) == [i \in DOMAIN l |-> 0]

\* Seeded fault: the wrong one of the two stamps is subtracted.
LatenciesFromStamp(b) == {<<Since(clock, b[i].stamp), b[i].waited>> : i \in DOMAIN b}

\* latencyRecord(currentTime - enqueueTime) for the nodes b.
Latencies(b) == {<<Since(clock, b[i].enqueued), b[i].waited>> : i \in DOMAIN b}

\* "if buffer is full just flush things out"
Flushed(b) == IF Len(b) >= KeepAtMost THEN FlushWhenFull ELSE 0

\* Buffer b remains in m, the nodes out go to the head of the list l.
Release(m, b, out, l) ==
  /\ buf' = [buf EXCEPT ![m] = b]
  /\ list' = Ids(out) \o l
  /\ measured' = measured \cup IF m \in {"lag", "jitter"} THEN Latencies(out) ELSE {}

------------------------------------------------------------------------------
(* The modules' process functions.                                          *)

LagOverdue(b) == {e \in ToSet(b) : clock > Plus(e.stamp, lagTime)}

LagProcess ==
  LET in == Taken(list, Room("lag"))
      b == Enqueue(in, NoDelay(in)) \o buf["lag"]
      n == Run(b, LagOverdue(b))
      rest == Fore(b, n)
      f == Flushed(rest)
  IN /\ Release("lag", Fore(rest, f), Rear(rest, f) \o Rear(b, n), Without(list, ToSet(in)))
     /\ UNCHANGED <<frameVars, lost>>

\* Seeded fault: the scan stops at the first node that is not due, as lag's does.
JitterDueStops(b) == Rear(b, Run(b, {e \in ToSet(b) : clock >= e.stamp}))

\* A node leaves when its own time has come, whatever is before it.
JitterDue(b) == Only(b, {e \in ToSet(b) : clock >= e.stamp})

JitterProcess ==
  LET in == Taken(list, Room("jitter"))
  IN \E delays \in [DOMAIN in -> JitterMin..JitterMax] :
       LET b == Enqueue(in, delays) \o buf["jitter"]
           due == JitterDue(b)
           rest == Only(b, ToSet(b) \ ToSet(due))
           f == Flushed(rest)
       IN /\ Release("jitter", Fore(rest, f), Rear(rest, f) \o due, Without(list, ToSet(in)))
          /\ UNCHANGED <<frameVars, lost>>

\* Not throttling, and calcChance() says that nothing starts.
ThrottleRests ==
  /\ frameFrom = 0
  /\ UNCHANGED <<list, buf, frameVars, lost, measured>>

\* The buffer is full or the frame is over.
ThrottleOver(b, from) == Len(b) >= KeepAtMost \/ Since(clock, from) > Frame

\* Throttling, or starting with the list not empty: the buffer fills and is
\* emptied, to the tail of the list or into nothing.
ThrottleFills ==
  LET in == Taken(list, Room("throttle"))
      b == Enqueue(in, NoDelay(in)) \o buf["throttle"]
      left == Without(list, ToSet(in))
      from == IF frameFrom = 0 THEN clock ELSE frameFrom
  IN /\ frameFrom # 0 \/ list # <<>>
     /\ \/ /\ ~ThrottleOver(b, from)
           /\ buf' = [buf EXCEPT !["throttle"] = b]
           /\ list' = left /\ frameFrom' = from /\ UNCHANGED lost
           /\ forgot' = (forgot \/ (from = 0 /\ b # <<>>))
        \/ /\ ThrottleOver(b, from)
           /\ buf' = [buf EXCEPT !["throttle"] = <<>>]
           /\ frameFrom' = 0 /\ UNCHANGED forgot
           /\ \/ list' = left \o Ids(b) /\ UNCHANGED lost
              \/ list' = left /\ lost' = lost \cup IdsOf(b)
     /\ UNCHANGED measured

ThrottleProcess == ThrottleRests \/ ThrottleFills

\* Seeded fault: only a full buffer is let out.
OodOldNever(b) == FALSE

\* oldest_age
OodOld(b) == b # <<>> /\ Since(clock, b[Len(b)].stamp) >= OodDelay

\* Packets S are chosen by calcChance(); a full or old buffer is let out
\* shuffled, behind whatever the list still holds.
OodProcess ==
  \E S \in SUBSET ToSet(Matching(list)) :
    LET in == Only(list, S)
        b == Enqueue(in, NoDelay(in)) \o buf["ood"]
        left == Without(list, S)
    IN /\ Len(b) <= OodBuffer \/ in = <<>>
       /\ IF Len(b) >= OodBuffer \/ OodOld(b)
          THEN /\ \E perm \in SetToSeqs(IdsOf(b)) : list' = perm \o left
               /\ buf' = [buf EXCEPT !["ood"] = <<>>]
          ELSE /\ list' = left
               /\ buf' = [buf EXCEPT !["ood"] = b]
       /\ UNCHANGED <<frameVars, lost, measured>>

\* Packets beyond KEEP_AT_MOST are freed; n packets can be paid for.
BandwidthProcess ==
  LET in == Taken(list, Room("bandwidth"))
      over == ToSet(Matching(list)) \ ToSet(in)
      b == Enqueue(in, NoDelay(in)) \o buf["bandwidth"]
  IN /\ \E n \in 0..Len(b) :
          Release("bandwidth", Fore(b, n), Rear(b, n), Without(list, ToSet(Matching(list))))
     /\ lost' = lost \cup over
     /\ UNCHANGED frameVars

\* The packets S are freed on their way.
Free(S) ==
  /\ list' = Without(list, S)
  /\ lost' = lost \cup S
  /\ UNCHANGED <<buf, frameVars, measured>>

\* Each packet meets the chance of its state, and may change the state for the
\* next one; startUp begins with STATE_GOOD.
BurstlossProcess ==
  LET in == ToSet(Matching(list))
  IN /\ IF in = {} THEN burst' = (burst /\ "burstloss" \in lastOn) ELSE burst' \in BOOLEAN
     /\ \E S \in SUBSET in : Free(S)
     /\ UNCHANGED <<dark, phaseFrom, phaseAge, trigger>>

\* Seeded fault: the trigger changes the phase and leaves its start as it was.
PhaseStartStale(fresh, pressed) == IF fresh THEN clock ELSE phaseFrom

PhaseStart(fresh, pressed) == IF fresh \/ pressed THEN clock ELSE phaseFrom

\* startUp forgets a trigger; process() honours it, and then looks at the time.
BlackoutProcess ==
  LET fresh == "blackout" \notin lastOn
      pressed == trigger /\ ~fresh
      inDark == ~fresh /\ (dark # pressed)
      from == PhaseStart(fresh, pressed)
      over == Since(clock, from) >= IF inDark THEN Duration ELSE Gap
  IN /\ dark' = (inDark # over)
     /\ phaseFrom' = IF over THEN clock ELSE from
     /\ phaseAge' = IF over \/ fresh \/ pressed THEN 0 ELSE phaseAge
     /\ trigger' = FALSE
     /\ Free(IF dark' THEN ToSet(Matching(list)) ELSE {})
     /\ UNCHANGED burst

\* Seeded fault: closeDown puts the nodes before those of the list.
CloseAtHead(m) ==
  /\ list' = Ids(buf[m]) \o list
  /\ buf' = [buf EXCEPT ![m] = <<>>]
  /\ frameFrom' = IF m = "throttle" THEN 0 ELSE frameFrom
  /\ dark' = (dark /\ m # "blackout")
  /\ UNCHANGED <<forgot, phaseFrom, phaseAge, trigger, burst, lost, measured>>

\* closeDown: everything goes to the tail of the list.
CloseDown(m) ==
  /\ list' = list \o Ids(buf[m])
  /\ buf' = [buf EXCEPT ![m] = <<>>]
  /\ frameFrom' = IF m = "throttle" THEN 0 ELSE frameFrom
  /\ dark' = (dark /\ m # "blackout")
  /\ UNCHANGED <<forgot, phaseFrom, phaseAge, trigger, burst, lost, measured>>

------------------------------------------------------------------------------
(* The consume step, divertConsumeStep().                                   *)

Idle == stage = AfterAll /\ list = <<>>

\* nfqCallback: createNode, appendNode, divertConsumeStep.
Receive ==
  /\ Idle /\ arrived < MaxPackets
  /\ arrived' = arrived + 1
  /\ list' = <<arrived + 1>>
  /\ stage' = 1 /\ late' = 0 /\ measured' = {}
  /\ UNCHANGED <<clock, buf, moduleVars, frameVars, pipeline, lossVars, sent, lost>>

\* The clock loop's turn.
ClockRun ==
  /\ Idle
  /\ stage' = 1 /\ late' = 0 /\ measured' = {}
  /\ UNCHANGED <<clock, list, buf, moduleVars, frameVars, pipeline, lossVars, arrived, sent, lost>>

\* startUp does nothing to an empty buffer; throttle's resets its start tick,
\* which closeDown has done before.
Visit(m) ==
  /\ stage < AfterAll /\ m = pipeline[stage]
  /\ stage' = stage + 1
  /\ \/ /\ m \in on
        /\ lastOn' = lastOn \cup {m}
        /\ \/ m = "lag" /\ LagProcess
           \/ m = "jitter" /\ JitterProcess
           \/ m = "throttle" /\ ThrottleProcess
           \/ m = "ood" /\ OodProcess
           \/ m = "bandwidth" /\ BandwidthProcess
           \/ m = "burstloss" /\ BurstlossProcess
           \/ m = "blackout" /\ BlackoutProcess
        /\ m \in Holding => UNCHANGED lossVars
     \/ /\ m \in lastOn \ on
        /\ lastOn' = lastOn \ {m}
        /\ CloseDown(m)
     \/ /\ m \notin on \cup lastOn
        /\ UNCHANGED <<lastOn, list, buf, frameVars, lossVars, lost, measured>>
  /\ UNCHANGED <<clock, late, on, lagTime, pipeline, arrived, sent>>

\* sendAllListPackets
Send ==
  /\ stage = AfterAll /\ list # <<>>
  /\ sent' = sent \o Reverse(list)
  /\ list' = <<>>
  /\ UNCHANGED <<clock, late, stage, buf, moduleVars, frameVars, pipeline, lossVars, arrived, lost,
                 measured>>

\* A worker or the scenario player flips a flag or sets lag-time.
Toggle(m) ==
  /\ Idle
  /\ on' = IF m \in on THEN on \ {m} ELSE on \cup {m}
  /\ UNCHANGED <<clock, late, stage, list, buf, lastOn, lagTime, frameVars, pipeline, lossVars,
                 arrived, sent, lost, measured>>

\* blackout-trigger, for an enabled module.
Trigger ==
  /\ Idle /\ "blackout" \in on /\ ~trigger
  /\ trigger' = TRUE
  /\ UNCHANGED <<clock, late, stage, list, buf, moduleVars, frameVars, pipeline, dark, phaseFrom,
                 phaseAge, burst, arrived, sent, lost, measured>>

SetLagTime(t) ==
  /\ Idle /\ "lag" \in Stages /\ t # lagTime
  /\ lagTime' = t
  /\ UNCHANGED <<clock, late, stage, list, buf, on, lastOn, frameVars, pipeline, lossVars, arrived,
                 sent, lost, measured>>

Tick ==
  /\ Idle /\ late < MaxLate /\ late' = late + 1
  /\ clock' = Plus(clock, 1)
  /\ buf' = [m \in Stages |-> [i \in DOMAIN buf[m] |->
               [buf[m][i] EXCEPT !.waited = IF @ < Longest THEN @ + 1 ELSE @]]]
  /\ phaseAge' = IF phaseAge < Longest /\ "blackout" \in lastOn THEN phaseAge + 1 ELSE phaseAge
  /\ UNCHANGED <<stage, list, moduleVars, frameVars, pipeline, dark, phaseFrom, trigger, burst,
                 arrived, sent, lost, measured>>

Next ==
  \/ Receive \/ ClockRun \/ Send \/ Tick \/ Trigger
  \/ \E m \in Stages : Visit(m) \/ Toggle(m)
  \/ \E t \in LagTimes : SetLagTime(t)

Spec == Init /\ [][Next]_vars

\* The clock loop keeps running, a consume step ends (it is a finite sequence of visits
\* and a Send, and one of these is always possible), and time passes: strongly fair,
\* because here it waits for the end of a consume step.
Fairness ==
  /\ WF_vars(ClockRun)
  /\ []<>Idle
  /\ SF_vars(Tick)

FairSpec == Spec /\ Fairness

------------------------------------------------------------------------------
(* Properties.                                                              *)

\* Where a packet can be: on the list, in a module's buffer, sent, or freed.
Places == Stages \cup {"list", "sent", "lost"}
At(x) ==
  CASE x = "list" -> ToSet(list) [] x = "sent" -> ToSet(sent) [] x = "lost" -> lost
    [] OTHER -> IdsOf(buf[x])

\* The packets P arrived after the packets Q, and those of s after those behind them.
Newer(P, Q) == \A p \in P \ Bypass, q \in Q \ Bypass : p > q
Decreasing(s) ==
  \A i, j \in DOMAIN s : i < j /\ {s[i], s[j]} \cap Bypass = {} => s[i] > s[j]

\* Without jitter and ood packets never overtake each other, although every
\* module takes them off the list and puts them back by itself, whatever is
\* switched on and off meanwhile: the modules' comments "FIFO preserved".  What
\* the modules before stage hold comes after what is on the list, and that after
\* what the modules still to be visited hold.
InOrder ==
  Stages \cap {"jitter", "ood"} = {} /\ ~forgot =>
    /\ Decreasing(list) /\ Decreasing(Reverse(sent))
    /\ \A m \in Stages : Decreasing(Ids(buf[m]))
    /\ \A i \in DOMAIN pipeline :
         /\ IF i < stage THEN Newer(At(pipeline[i]), At("list"))
                         ELSE Newer(At("list"), At(pipeline[i]))
         /\ \A j \in i+1..Len(pipeline) : Newer(At(pipeline[i]), At(pipeline[j]))
    /\ \A x \in Stages \cup {"list"} : Newer(At(x), At("sent"))

\* A packet that arrived is in one place only, until it is sent or freed: no
\* module loses a node, or links it twice, between its buffer and the list.
Conserved ==
  /\ IsInjective(list) /\ IsInjective(sent)
  /\ \A m \in Stages : IsInjective(Ids(buf[m]))
  /\ \A x, y \in Places : x # y => At(x) \cap At(y) = {}
  /\ UNION {At(x) : x \in Places} = 1..arrived

\* How long module m may hold the node e back, in ticks.
Patience(m, e) ==
  CASE m = "lag" -> lagTime
    [] m = "jitter" -> IF e.delay = 0 THEN 0 ELSE e.delay - 1
    [] m = "throttle" -> Frame
    [] m = "ood" -> IF OodDelay = 0 THEN 0 ELSE OodDelay - 1
    [] OTHER -> Longest

\* The clock's wrap misleads lag and jitter, which compare times, about a packet that
\* arrives shortly before it, and throttle about one that it takes at tick 0.
Misled(m, e) ==
  \/ m \in {"lag", "jitter"} /\ e.enqueued + Longest >= Modulus
  \/ m = "throttle" /\ e.enqueued = 0

\* Module m is misled about the node e, or has waited with it for Longest, so that e was
\* late at an earlier turn; in lag's buffer such a node keeps those behind it as well.
Excused(m, e) ==
  \E n \in IF m = "lag" THEN ToSet(buf["lag"]) ELSE {e} :
    Misled(m, n) \/ (m \in {"lag", "jitter"} /\ n.waited = Longest)

\* When a module has had its turn it holds nothing that should have left: the
\* loops of lag and throttle stop early and rely on the order of their buffers.
\* The wrap of the clock keeps only those packets back that are Excused.
NotLate ==
  \A m \in Stages : \A e \in ToSet(buf'[m]) :
    e.waited <= Patience(m, e) \/ Excused(m, e) \/ ~Visit(m)

\* Lag and jitter let nothing out before its time, but for a full buffer, a module
\* that is switched off, and a packet that arrived shortly before the wrap.
NotEarly ==
  \A m \in Stages \cap {"lag", "jitter"} \cap on :
    Len(buf[m]) + Len(list) < KeepAtMost =>
      \A e \in ToSet(buf[m]) :
        e.waited > Patience(m, e) \/ Misled(m, e) \/ e.id \in IdsOf(buf'[m]) \/ ~Visit(m)

\* The histogram gets the time a packet really waited, also across a wrap:
\* jitter's stamp is its release time and must not be what is subtracted.
MeasuredTrue == \A x \in measured : x[1] = x[2] \/ x[2] = Longest

\* No buffer reaches KEEP_AT_MOST packets, but for bandwidth's, which may.
Bounded ==
  \A m \in Stages : Len(buf[m]) < KeepAtMost + (IF m = "bandwidth" THEN 1 ELSE 0)

\* An outage lasts for its duration and no longer, and comes after its gap and no
\* later, but for the length of a consume step; only a trigger, a parameter or a
\* switch of the module ends a phase early, and a trigger always ends one.
OutageTimed ==
  [][Visit("blackout") /\ "blackout" \in on =>
       /\ phaseAge' < (IF dark' THEN Duration ELSE Gap)
       /\ "blackout" \in lastOn =>
            (dark' # dark <=> trigger \/ phaseAge >= (IF dark THEN Duration ELSE Gap))]_vars

\* The modules' buffers are emptied in the end, though nothing else arrives; only
\* a bandwidth limit may hold packets for ever, as far as this model goes, and the
\* wrap of the clock the packets about which it misleads a module.
EveryoneLeaves ==
  LET Held == \E m \in Stages : buf[m] # <<>>
      Kept == \E m \in Stages : \E e \in ToSet(buf[m]) : Misled(m, e) /\ e.waited = Longest
  IN "bandwidth" \notin Stages /\ Held ~> ~Held \/ Kept

\* Packets leave when their time has come, no later and no earlier.
OnTime == [][NotLate /\ NotEarly]_vars

\* What holds whenever a thread lets go of the mutex: the values are of their
\* types, no packet is lost from sight or linked twice, no buffer is too long.
Consistent == TypeOK /\ Conserved /\ Bounded
==============================================================================
