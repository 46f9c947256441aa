--------------------------- MODULE Lifecycle_proofs ---------------------------
(***************************************************************************)
(* Proofs about Lifecycle, for any number of starts: the safety properties *)
(* of the run lifecycle, from an inductive invariant that says what a loop *)
(* somebody abandoned still holds: the queue number, the mutex, the handle *)
(* and a flag that tells it to stop.                                       *)
(***************************************************************************)
EXTENDS Lifecycle, TLAPS

USE LifecycleAssumption

\* What a call holds at each of its steps is what it made itself, and a stop waits
\* for loops that were told.
HoldsItsOwn ==
  /\ ctl \notin {"idle", "aborted"} => nfqHandle = session /\ session \in open
  /\ ctl \in {"bound", "ready", "reading", "rules", "running", "stopping", "unwinding"} =>
       nfqQueue = session /\ owner = session
  /\ ctl \in {"ready", "reading", "rules", "running", "stopping", "unwinding"} =>
       mutex = session
  /\ ctl = "stopping" => stopLooping

\* Nobody is in a critical section without a mutex.
HoldersWait == ctl # "aborted" => \A t \in Thread : Critical(t) => waits[t] # 0

\* A loop that is alive has everything its start made, so that no other start has
\* a queue or makes a mutex; and it is told to stop, or belongs to a call that is
\* under way or to the capture that runs.
Equipped(t) ==
  /\ t[1] = owner /\ t[1] = mutex /\ t[1] \in open
  /\ pc[t] \in {"lock", "handle", "consume", "final", "close"} => waits[t] = t[1]
  /\ pc[t] = "handle" => uses[t] = t[1]
  /\ stopLooping \/ (Own(t) /\ ctl # "idle")
  /\ ctl \notin {"bound", "ready"}

AllEquipped ==
  ~torn => ctl # "aborted" /\ \A t \in Thread : Alive(t) => Equipped(t)

IInv == TypeOK /\ HoldsItsOwn /\ HoldersWait /\ Exclusive /\ AllEquipped

\* The number of a start is positive.
LEMMA Threads == \A t \in Thread : t[1] \in Nat \ {0}
  BY DEF Thread, Session

------------------------------------------------------------------------------

\* Every step keeps the types.
LEMMA TypeStep == TypeOK /\ HoldsItsOwn /\ Next => TypeOK'
  <1> SUFFICES ASSUME TypeOK, HoldsItsOwn, Next PROVE TypeOK'
    OBVIOUS
  <1> USE DEF TypeOK, objVars, loopVars, callVars
  <1>1. CASE Open
    <2>1. session' = session + 1 /\ session' \in 0..MaxStarts
      BY <1>1 DEF Open
    <2>2. nfqHandle' \in 0..session' /\ nfqQueue' \in 0..session' /\ mutex' \in 0..session'
          /\ owner' \in 0..session' /\ open' \subseteq 1..session'
      BY <1>1, <2>1 DEF Open
    <2>3. waits' \in [Thread -> 0..session'] /\ uses' \in [Thread -> 0..session']
      BY <1>1, <2>1 DEF Open
    <2> QED
      BY <1>1, <2>1, <2>2, <2>3 DEF Open
  <1>2. CASE Starting \/ StopRequest \/ Stopping
    <2>1. \/ UNCHANGED <<session, loopVars>>
          \/ CreateThread("ready", "read", "poll", "reading")
          \/ CreateThread("reading", "clock", "wait", "rules")
      BY <1>2 DEF Starting, Stopping, BindPfFails, CreateQueue, CreateQueueFails, SetModeFails,
           CreateMutex, InstallRules, Unwind, Fail, StopRequest, StopJoin, GiveUp
    <2>2. session' = session /\ UNCHANGED <<waits, uses, wedged>>
      BY <2>1 DEF CreateThread
    <2>3. pc' \in [Thread -> {"none", "poll", "wait", "lock", "handle", "consume", "check",
                        "final", "close", "exit"}]
      BY <2>1 DEF CreateThread, Goto
    <2>4. nfqHandle' \in 0..session /\ nfqQueue' \in 0..session /\ mutex' \in 0..session
          /\ open' \subseteq 1..session /\ owner' \in 0..session
      <3>0. session \in Nat /\ 0 \in 0..session /\ session \in 0..session
        OBVIOUS
      <3>1. CASE Fail \/ StopJoin
        <4>1. mutex' \in {0, mutex} /\ owner' \in {0, owner} /\ open' \subseteq open
              /\ nfqHandle' = 0 /\ nfqQueue' = 0
          BY <3>1 DEF Fail, StopJoin, TakeDown
        <4> QED
          BY <3>0, <4>1
      <3>2. CASE CreateQueue \/ CreateQueueFails \/ \E ok \in BOOLEAN : CreateMutex(ok)
        <4>1. mutex' \in {0, session, mutex} /\ owner' \in {owner, nfqHandle} /\ open' = open
              /\ nfqHandle' = nfqHandle /\ nfqQueue' \in {0, nfqHandle, nfqQueue}
          BY <3>2 DEF CreateQueue, CreateQueueFails, CreateMutex
        <4> QED
          BY <3>0, <4>1
      <3>3. CASE UNCHANGED objVars
        BY <3>3
      <3> QED
        BY <1>2, <3>1, <3>2, <3>3 DEF Starting, Stopping, BindPfFails, SetModeFails, InstallRules,
             Unwind, StopRequest, GiveUp, CreateThread
    <2>5. /\ ctl' \in {"idle", "opening", "bound", "ready", "reading", "rules", "running",
                       "unwinding", "failing", "stopping", "aborted"}
          /\ stopLooping' \in BOOLEAN /\ torn' \in BOOLEAN
      BY <1>2 DEF Starting, Stopping, BindPfFails, CreateQueue, CreateQueueFails, SetModeFails,
           CreateMutex, InstallRules, Unwind, Fail, StopRequest, StopJoin, GiveUp, CreateThread
    <2> QED
      BY <2>2, <2>3, <2>4, <2>5
  <1>3. ASSUME NEW t \in Thread, Loop(t) \/ Wedge(t) PROVE TypeOK'
    <2>1. UNCHANGED <<session, objVars, torn>> /\ stopLooping' \in BOOLEAN
      BY <1>3 DEF Loop, ReadStop, ReadReceive, ReadFail, ReadLock, ClockWait, ClockCheck,
           ClockFinal, Leave, Wedge
    <2>2. waits' \in [Thread -> 0..session] /\ uses' \in [Thread -> 0..session]
      BY <1>3 DEF Loop, ReadStop, ReadReceive, ReadFail, ReadLock, ClockWait, ClockCheck,
           ClockFinal, Leave, Wedge
    <2>3. pc' \in [Thread -> {"none", "poll", "wait", "lock", "handle", "consume", "check",
                        "final", "close", "exit"}]
      BY <1>3 DEF Loop, ReadStop, ReadReceive, ReadFail, ReadLock, ClockWait, ClockCheck,
           ClockFinal, Leave, Wedge, Goto, Critical
    <2>4. wedged' \subseteq Thread /\ ctl' \in {ctl, "aborted"}
      BY <1>3 DEF Loop, ReadStop, ReadReceive, ReadFail, ReadLock, ClockWait, ClockCheck,
           ClockFinal, Leave, Wedge
    <2> QED
      BY <2>1, <2>2, <2>3, <2>4
  <1>4. CASE OpenFails
    BY <1>4 DEF OpenFails
  <1> QED
    BY <1>1, <1>2, <1>3, <1>4 DEF Next

------------------------------------------------------------------------------

\* The steps of a call that fails on the way or does not touch the objects.
Quiet ==
  \/ BindPfFails \/ SetModeFails \/ CreateQueueFails \/ InstallRules \/ Unwind
  \/ CreateThread("ready", "read", "poll", "reading")
  \/ CreateThread("reading", "clock", "wait", "rules")
  \/ StopRequest \/ GiveUp

\* Every step of a call is one of those or makes or takes down an object.
LEMMA CallSteps ==
  ASSUME Starting \/ StopRequest \/ Stopping
  PROVE  Quiet \/ CreateQueue \/ (\E ok \in BOOLEAN : CreateMutex(ok)) \/ Fail \/ StopJoin
  BY DEF Starting, Stopping, Quiet

\* No loop clears the flag.
LEMMA FlagStays ==
  ASSUME TypeOK, NEW t \in Thread, Loop(t) \/ Wedge(t)
  PROVE  stopLooping => stopLooping'
  <1>1. CASE ClockWait(t)
    BY <1>1 DEF ClockWait, TypeOK
  <1>2. CASE UNCHANGED stopLooping
    BY <1>2
  <1> QED
    BY <1>1, <1>2 DEF Loop, ReadStop, ReadReceive, ReadFail, ReadLock, ClockCheck, ClockFinal,
         Leave, Wedge

\* A call holds what it made.
LEMMA HoldsItsOwnStep == TypeOK /\ HoldsItsOwn /\ Next => HoldsItsOwn'
  <1> SUFFICES ASSUME TypeOK, HoldsItsOwn, Next PROVE HoldsItsOwn'
    OBVIOUS
  <1> USE DEF HoldsItsOwn, objVars
  <1>1. CASE Open \/ OpenFails
    BY <1>1 DEF Open, OpenFails, callVars
  <1>2. CASE Quiet
    BY <1>2 DEF Quiet, BindPfFails, SetModeFails, CreateQueueFails, InstallRules, Unwind,
         CreateThread, StopRequest, GiveUp
  <1>3. CASE CreateQueue
    BY <1>3 DEF CreateQueue
  <1>4. CASE \E ok \in BOOLEAN : CreateMutex(ok)
    BY <1>4 DEF CreateMutex
  <1>5. CASE Fail \/ StopJoin
    BY <1>5 DEF Fail, StopJoin
  <1>6. ASSUME NEW t \in Thread, Loop(t) \/ Wedge(t) PROVE HoldsItsOwn'
    <2>1. UNCHANGED <<session, objVars>> /\ ctl' \in {ctl, "aborted"}
      BY <1>6 DEF Loop, ReadStop, ReadReceive, ReadFail, ReadLock, ClockWait, ClockCheck,
           ClockFinal, Leave, Wedge, callVars
    <2> QED
      BY <1>6, <2>1, FlagStays
  <1> QED
    BY <1>1, <1>2, <1>3, <1>4, <1>5, <1>6, CallSteps DEF Next

\* A loop enters a critical section with a mutex that nobody else has.
LEMMA ExclusiveStep ==
  TypeOK /\ HoldersWait /\ Exclusive /\ Next => HoldersWait' /\ Exclusive'
  <1> SUFFICES ASSUME TypeOK, HoldersWait, Exclusive, Next PROVE HoldersWait' /\ Exclusive'
    OBVIOUS
  <1>0. ctl # "aborted" /\ \A t \in Thread : Critical(t) => waits[t] # 0
    BY DEF Next, HoldersWait
  <1>1. CASE UNCHANGED <<pc, waits>>
    BY <1>0, <1>1 DEF HoldersWait, Exclusive, Critical
  <1>2. ASSUME NEW t \in Thread, UNCHANGED waits, NEW l, pc' = [pc EXCEPT ![t] = l],
               l \notin {"handle", "consume", "close"}
        PROVE  HoldersWait' /\ Exclusive'
    BY <1>0, <1>2 DEF HoldersWait, Exclusive, Critical, TypeOK
  <1>3. ASSUME NEW t \in Thread, NEW m, waits' = [waits EXCEPT ![t] = m],
               pc'[t] \in {"handle", "consume", "close"} => Free(m),
               \A s \in Thread \ {t} : pc'[s] = pc[s]
        PROVE  HoldersWait' /\ Exclusive'
    BY <1>0, <1>3 DEF HoldersWait, Exclusive, Critical, Free, TypeOK
  <1>4. ASSUME NEW t \in Thread, UNCHANGED waits, Free(waits[t]),
               \A s \in Thread \ {t} : pc'[s] = pc[s]
        PROVE  HoldersWait' /\ Exclusive'
    BY <1>0, <1>4 DEF HoldersWait, Exclusive, Critical, Free, TypeOK
  <1>5. CASE Open \/ OpenFails \/ Starting \/ StopRequest \/ Stopping
    <2>1. CASE UNCHANGED pc
      BY <1>1, <1>5, <2>1 DEF Open, OpenFails, Starting, Stopping, BindPfFails, CreateQueue, CreateQueueFails,
           SetModeFails, CreateMutex, InstallRules, Unwind, Fail, StopRequest, StopJoin, GiveUp,
           CreateThread, loopVars
    <2>2. CASE pc' # pc
      <3>1. PICK t \in {<<session, "read">>, <<session, "clock">>}, l \in {"poll", "wait"} :
               pc' = [pc EXCEPT ![t] = l] /\ UNCHANGED waits
        BY <1>5, <2>2 DEF Open, OpenFails, Starting, Stopping, BindPfFails, CreateQueue, CreateQueueFails,
           SetModeFails, CreateMutex, InstallRules, Unwind, Fail, StopRequest, StopJoin, GiveUp,
           CreateThread, loopVars, Goto
      <3>2. CASE t \in Thread
        BY <1>2, <3>1, <3>2
      <3>3. CASE t \notin Thread
        BY <1>1, <3>1, <3>3 DEF TypeOK
      <3> QED
        BY <3>2, <3>3
    <2> QED
      BY <2>1, <2>2
  <1>6. ASSUME NEW t \in Thread, Loop(t) \/ Wedge(t) PROVE HoldersWait' /\ Exclusive'
    <2>1. CASE ReadStop(t) \/ ReadFail(t)
      BY <1>2, <2>1 DEF ReadStop, ReadFail, Goto
    <2>2. CASE ReadReceive(t)
      BY <1>3, <2>2 DEF ReadReceive, Goto, TypeOK
    <2>3. CASE ReadLock(t)
      BY <1>4, <2>3 DEF ReadLock, Goto, TypeOK
    <2>4. CASE ClockWait(t)
      BY <1>3, <2>4 DEF ClockWait, Goto, TypeOK
    <2>5. CASE ClockCheck(t)
      BY <1>3, <2>5 DEF ClockCheck, Goto, TypeOK
    <2>6. CASE ClockFinal(t)
      BY <1>4, <2>6 DEF ClockFinal, Goto, TypeOK
    <2>7. CASE Wedge(t)
      BY <1>1, <2>7 DEF Wedge
    <2>8. CASE Leave(t)
      <3>1. CASE ctl' = "aborted"
        <4>1. waits'[t] = 0 /\ \A s \in Thread \ {t} : waits'[s] = waits[s] /\ pc'[s] = pc[s]
          BY <2>8 DEF Leave, Goto, TypeOK
        <4> QED
          BY <1>0, <3>1, <4>1 DEF HoldersWait, Exclusive, Critical
      <3>2. CASE ctl' # "aborted"
        <4>1. pc'[t] \in {"poll", "check", "exit"} /\ \A s \in Thread \ {t} : pc'[s] = pc[s]
          BY <2>8, <3>2 DEF Leave, Goto, TypeOK, Critical
        <4> QED
          BY <1>3, <2>8, <4>1 DEF Leave
      <3> QED
        BY <3>1, <3>2
    <2> QED
      BY <1>6, <2>1, <2>2, <2>3, <2>4, <2>5, <2>6, <2>7, <2>8 DEF Loop
  <1> QED
    BY <1>5, <1>6 DEF Next

\* A loop that is alive keeps what it needs, unless a start takes it away.
LEMMA EquippedStep ==
  TypeOK /\ HoldsItsOwn /\ AllEquipped /\ Next => AllEquipped'
  <1> SUFFICES ASSUME TypeOK, HoldsItsOwn, AllEquipped, Next, ~torn'
               PROVE  ctl' # "aborted" /\ \A t \in Thread : Alive(t)' => Equipped(t)'
    BY DEF AllEquipped
  <1>1. ~torn
    BY DEF Next, Open, OpenFails, Starting, Stopping, BindPfFails, CreateQueue, CreateQueueFails,
         SetModeFails, CreateMutex, InstallRules, Unwind, Fail, StopRequest, StopJoin, GiveUp,
         CreateThread, Loop, ReadStop, ReadReceive, ReadFail, ReadLock, ClockWait, ClockCheck,
         ClockFinal, Leave, Wedge, TypeOK
  <1>2. ctl # "aborted" /\ \A t \in Thread : Alive(t) => Equipped(t)
    BY <1>1 DEF AllEquipped
  <1>3. \A t \in Thread : Alive(t) => t[1] # 0 /\ owner # 0 /\ t[1] = owner
    BY <1>2, Threads DEF Equipped
  <1>4. ASSUME ctl \in {"stopping"}, Joined PROVE \A t \in Thread : ~Alive(t)
    BY <1>3, <1>4 DEF HoldsItsOwn, Joined, Own
  <1>5. CASE Open \/ OpenFails
    <2>1. /\ ctl = "idle" /\ ctl' \in {"idle", "opening"} /\ open \subseteq open'
          /\ UNCHANGED <<owner, mutex, stopLooping, loopVars>>
      BY <1>5 DEF Open, OpenFails, callVars
    <2> QED
      BY <1>2, <2>1 DEF Alive, Equipped, loopVars
  <1>6. CASE Quiet
    <2>1. CASE UNCHANGED pc
      <3>1. /\ UNCHANGED <<session, owner, mutex, open, waits, uses>> /\ ctl' # "aborted"
            /\ stopLooping => stopLooping'
            /\ ctl' # "idle" \/ stopLooping
            /\ ctl' \in {"bound", "ready"} => ctl' = ctl
        BY <1>6, <2>1 DEF HoldsItsOwn, Quiet, BindPfFails, SetModeFails, CreateQueueFails, InstallRules, Unwind,
           CreateThread, StopRequest, GiveUp, objVars, loopVars
      <3> QED
        BY <1>2, <2>1, <3>1 DEF Alive, Equipped, Own
    <2>2. CASE pc' # pc
      <3>1. PICK t \in {<<session, "read">>, <<session, "clock">>}, l \in {"poll", "wait"} :
              /\ pc' = [pc EXCEPT ![t] = l]
              /\ ctl \in {"ready", "reading"} /\ ctl' \in {"reading", "rules"}
              /\ UNCHANGED <<session, objVars, stopLooping, waits, uses>>
        BY <1>6, <2>2 DEF Quiet, BindPfFails, SetModeFails, CreateQueueFails, InstallRules, Unwind,
           CreateThread, StopRequest, GiveUp, loopVars, Goto
      <3>2. session = owner /\ session = mutex /\ session \in open
        BY <3>1 DEF HoldsItsOwn
      <3>3. \A s \in Thread \ {t} : pc'[s] = pc[s]
        BY <3>1 DEF TypeOK
      <3>4. ASSUME t \in Thread PROVE Equipped(t)'
        BY <3>1, <3>2, <3>4 DEF Equipped, Own, objVars, TypeOK
      <3>5. ASSUME NEW s \in Thread \ {t}, Alive(s)' PROVE Equipped(s)'
        BY <1>2, <3>1, <3>3, <3>5 DEF Equipped, Alive, Own, objVars
      <3> QED
        BY <3>1, <3>4, <3>5
    <2> QED
      BY <2>1, <2>2
  <1>7. CASE CreateQueue
    BY <1>3, <1>7 DEF CreateQueue, Alive, loopVars
  <1>8. CASE \E ok \in BOOLEAN : CreateMutex(ok)
    <2>1. \A t \in Thread : ~Alive(t)
      BY <1>2, <1>8 DEF CreateMutex, Equipped
    <2> QED
      BY <1>8, <2>1 DEF CreateMutex, Alive, loopVars
  <1>9. CASE Fail
    <2>1. Users = {}
      BY <1>9 DEF Fail, TypeOK
    <2>2. \A t \in Thread : Alive(t) => t[1] \notin {nfqHandle, nfqQueue}
      BY <2>1 DEF Users
    <2>3. nfqHandle = session
      BY <1>9 DEF Fail, HoldsItsOwn
    <2> QED
      BY <1>2, <1>9, <2>2, <2>3 DEF Fail, TakeDown, Equipped, Alive, Own, loopVars
  <1>10. CASE StopJoin
    BY <1>4, <1>10 DEF StopJoin, Alive, loopVars
  <1>11. ASSUME NEW t \in Thread, Wedge(t)
         PROVE  ctl' # "aborted" /\ \A s \in Thread : Alive(s)' => Equipped(s)'
    BY <1>2, <1>11 DEF Wedge, Alive, Equipped, Own, objVars, callVars
  <1>12. ASSUME NEW t \in Thread, Loop(t)
         PROVE  ctl' # "aborted" /\ \A s \in Thread : Alive(s)' => Equipped(s)'
    <2>1. Alive(t) /\ Equipped(t)
      BY <1>2, <1>12 DEF Loop, ReadStop, ReadReceive, ReadFail, ReadLock, ClockWait, ClockCheck,
           ClockFinal, Leave, Critical, Alive
    <2>2. UNCHANGED <<session, objVars>>
      BY <1>12 DEF Loop, ReadStop, ReadReceive, ReadFail, ReadLock, ClockWait, ClockCheck,
           ClockFinal, Leave, callVars
    <2>3. UNCHANGED ctl
      <3>1. CASE Leave(t)
        BY <2>1, <3>1 DEF Leave, Critical, Equipped
      <3> QED
        BY <1>12, <3>1 DEF Loop, ReadStop, ReadReceive, ReadFail, ReadLock, ClockWait, ClockCheck,
             ClockFinal, callVars
    <2>4. \A s \in Thread \ {t} : pc'[s] = pc[s] /\ waits'[s] = waits[s] /\ uses'[s] = uses[s]
      BY <1>12 DEF Loop, ReadStop, ReadReceive, ReadFail, ReadLock, ClockWait, ClockCheck,
           ClockFinal, Leave, Goto, TypeOK
    <2>5. ASSUME NEW s \in Thread \ {t}, Alive(s)' PROVE Equipped(s)'
      <3>1. Equipped(s)
        BY <1>2, <2>4, <2>5 DEF Alive
      <3> QED
        BY <1>12, <2>2, <2>3, <2>4, <3>1, FlagStays DEF Equipped, Own, objVars
    <2>6. ASSUME Alive(t)' PROVE Equipped(t)'
      <3>1. /\ t[1] = owner' /\ t[1] = mutex' /\ t[1] \in open'
            /\ stopLooping' \/ (Own(t)' /\ ctl' # "idle")
            /\ ctl' \notin {"bound", "ready"}
        BY <1>12, <2>1, <2>2, <2>3, FlagStays DEF Equipped, Own, objVars
      <3>2. pc'[t] \in {"lock", "handle", "consume", "final", "close"} => waits'[t] = t[1]
        BY <1>12, <2>1, <2>3 DEF Loop, ReadStop, ReadReceive, ReadFail, ReadLock, ClockWait,
             ClockCheck, ClockFinal, Leave, Goto, TypeOK, Equipped, Critical
      <3>3. pc'[t] = "handle" => uses'[t] = t[1]
        <4>1. CASE pc'[t] = "handle"
          <5>1. ReadLock(t) /\ ~stopLooping
            BY <1>2, <1>12, <2>3, <4>1 DEF Loop, ReadStop, ReadReceive, ReadFail, ReadLock, ClockWait,
               ClockCheck, ClockFinal, Leave, Goto, TypeOK, Critical
          <5>2. nfqHandle = t[1]
            BY <1>2, <2>1, <5>1 DEF Equipped, Own, HoldsItsOwn
          <5> QED
            BY <5>1, <5>2 DEF ReadLock, TypeOK
        <4> QED
          BY <4>1
      <3> QED
        BY <3>1, <3>2, <3>3 DEF Equipped
    <2> QED
      BY <1>2, <2>3, <2>5, <2>6
  <1> QED
    BY <1>5, <1>6, <1>7, <1>8, <1>9, <1>10, <1>11, <1>12, CallSteps DEF Next

------------------------------------------------------------------------------

\* The invariant is inductive.
THEOREM LifecycleInvariant == Spec => []IInv
  <1>1. Init => IInv
    <2> SUFFICES ASSUME Init PROVE IInv
      OBVIOUS
    <2>1. TypeOK
      <3>1. 0 \in 0..MaxStarts /\ 0 \in 0..0
        OBVIOUS
      <3>2. waits \in [Thread -> 0..0] /\ uses \in [Thread -> 0..0]
        BY <3>1 DEF Init
      <3>3. pc \in [Thread -> {"none", "poll", "wait", "lock", "handle", "consume", "check",
                               "final", "close", "exit"}]
        BY DEF Init
      <3> QED
        BY <3>1, <3>2, <3>3 DEF Init, TypeOK
    <2>2. HoldsItsOwn /\ HoldersWait /\ Exclusive /\ AllEquipped
      BY DEF Init, HoldsItsOwn, HoldersWait, Exclusive, AllEquipped, Critical, Alive
    <2> QED
      BY <2>1, <2>2 DEF IInv
  <1>2. IInv /\ [Next]_vars => IInv'
    <2> SUFFICES ASSUME IInv, [Next]_vars PROVE IInv'
      OBVIOUS
    <2>1. CASE Next
      BY <2>1, TypeStep, HoldsItsOwnStep, ExclusiveStep, EquippedStep DEF IInv
    <2>2. CASE UNCHANGED vars
      <3> USE <2>2 DEF IInv, vars, callVars, objVars, loopVars
      <3>1. TypeOK'
        BY DEF TypeOK
      <3>2. HoldsItsOwn' /\ HoldersWait'
        BY DEF HoldsItsOwn, HoldersWait, Critical
      <3>3. Exclusive'
        BY DEF Exclusive, Critical
      <3>4. AllEquipped'
        BY DEF AllEquipped, Equipped, Alive, Own
      <3> QED
        BY <3>1, <3>2, <3>3, <3>4
    <2> QED
      BY <2>1, <2>2
  <1> QED
    BY <1>1, <1>2, PTL DEF Spec

\* The types, the capture that runs owning its queue and sharing one mutex with
\* its loops (divertStart), and one loop at a time in each mutex (divertReadLoop
\* and divertClockLoop), however many starts there are.
THEOREM LifecycleConsistent == Spec => []Consistent
  <1>1. IInv => Consistent
    BY DEF IInv, Consistent, HoldsItsOwn, RunsOnItsOwn
  <1> QED
    BY <1>1, LifecycleInvariant, PTL

\* nfq_handle_packet runs on a handle that is open, unless a start has taken down
\* the queue under loops that were alive.
THEOREM HandlesLast == Spec => []HandleInUse
  <1>1. IInv => HandleInUse
    BY DEF IInv, HandleInUse, AllEquipped, Equipped, Alive
  <1> QED
    BY <1>1, LifecycleInvariant, PTL

\* A later start that gets as far as clearing stopLooping finds no loop of an
\* earlier one alive, with the same exception.
THEOREM AbandonedStayDead == Spec => []NoRevival
  <1>1. IInv => NoRevival
    <2> SUFFICES ASSUME IInv, NEW t \in Thread, Alive(t), ~torn,
                        ctl \in {"ready", "reading", "rules", "running"}
                 PROVE  Own(t)
      BY DEF NoRevival
    <2>1. t[1] = owner
      BY DEF IInv, AllEquipped, Equipped
    <2> QED
      BY <2>1 DEF IInv, HoldsItsOwn, Own
  <1> QED
    BY <1>1, LifecycleInvariant, PTL

\* No loop ends the process by releasing a mutex that is not its own, with the
\* same exception.
THEOREM NeverAborts == Spec => []NoAbort
  <1>1. IInv => NoAbort
    BY DEF IInv, NoAbort, AllEquipped
  <1> QED
    BY <1>1, LifecycleInvariant, PTL

==============================================================================
