---------------------------- MODULE Replay_proofs ----------------------------
(***************************************************************************)
(* Proofs about Replay, for any number of callers, replays and records.    *)
(* Each lemma shows that a step keeps one part of the inductive invariant. *)
(***************************************************************************)
EXTENDS Replay, TLAPS

USE ReplayAssumption

\* A handle that has an owner has a reference for it.
LEMMA OwnersHaveReferences ==
  ASSUME IInv, NEW h \in Run
  PROVE  /\ CallerOwns(h) => refs[h] \in 1..2
         /\ ThreadOwns(h) => refs[h] \in 1..2
  BY DEF IInv, HandleRefs

\* Type correctness of one step.
LEMMA TypeStep == IInv /\ [Next]_vars => TypeOK'
  <1> SUFFICES ASSUME IInv, [Next]_vars PROVE TypeOK'
    OBVIOUS
  <1> USE DEF IInv, TypeOK, Working, Goto, Thread, callerVars, threadVars, counters
  <1>1. ASSUME NEW c \in Caller, StartRefused(c) \/ StartCreate(c) \/ StartNoThread(c)
        PROVE  TypeOK'
    <2>1. CASE StartRefused(c) \/ StartNoThread(c)
      BY <2>1 DEF StartRefused, StartNoThread
    <2>2. CASE StartCreate(c)
      BY <2>2 DEF StartCreate
    <2> QED
      BY <1>1, <2>1, <2>2
  <1>2. ASSUME NEW c \in Caller, StartArm(c) PROVE TypeOK'
    <2>1. refs' \in [Run -> 0..2]
      <3>1. CASE slot = Null
        BY <1>2, <3>1 DEF StartArm, CloseOldHandle
      <3>2. CASE slot # Null
        <4>1. slot \in Run /\ refs[slot] \in 1..2
          BY <3>2, OwnersHaveReferences DEF CallerOwns
        <4> QED
          BY <1>2, <3>2, <4>1 DEF StartArm, CloseOldHandle, CloseHandle
      <3> QED
        BY <3>1, <3>2
    <2>2. cpc' = [cpc EXCEPT ![c] = "create"] /\ UNCHANGED <<held, calls, tpc, loops, sockets>>
      BY <1>2 DEF StartArm
    <2>3. lock' = c /\ active' /\ ~stop' /\ slot' = Null /\ loop' \in BOOLEAN
      BY <1>2 DEF StartArm, Arm
    <2>4. read' = 0 /\ sent' = 0 /\ failed' = 0
      BY <1>2 DEF StartArm, Arm
    <2>5. read' \in 0..MaxRecords /\ sent' \in Nat /\ failed' \in Nat
      BY <2>4
    <2>6. /\ cpc' \in [Caller -> {"idle", "start", "create", "stop", "wait", "closeHandle"}]
          /\ lock' \in Caller \cup {"free"} /\ slot' \in Run \cup {Null}
      BY <2>2, <2>3
    <2>7. active' \in BOOLEAN /\ stop' \in BOOLEAN /\ loop' \in BOOLEAN
      BY <1>2 DEF StartArm, Arm
    <2> QED
      BY <2>1, <2>2, <2>5, <2>6, <2>7
  <1>3. ASSUME NEW c \in Caller, StopTake(c) \/ StopWait(c) PROVE TypeOK'
    <2>1. CASE StopTake(c)
      BY <2>1 DEF StopTake, TakeHandle
    <2>2. CASE StopWait(c)
      BY <2>2 DEF StopWait
    <2> QED
      BY <1>3, <2>1, <2>2
  <1>4. ASSUME NEW c \in Caller, StopClose(c) PROVE TypeOK'
    <2>1. held[c] \in Run /\ refs[held[c]] \in 1..2
      BY <1>4, OwnersHaveReferences DEF StopClose, OwnerInv, CallerOwns
    <2> QED
      BY <1>4, <2>1 DEF StopClose, CloseHandle
  <1>5. ASSUME NEW h \in Run, ReleaseHandle(h) PROVE TypeOK'
    <2>1. refs[h] \in 1..2
      BY <1>5, OwnersHaveReferences DEF ReleaseHandle, ThreadOwns
    <2> QED
      BY <1>5, <2>1 DEF ReleaseHandle
  <1>6. ASSUME NEW h \in Run,
               \/ Alloc(h) \/ NoMemory(h) \/ Copy(h) \/ Open(h) \/ Finish(h) \/ Again(h)
               \/ CloseSockets(h) \/ ClearActive(h) \/ Return(h)
        PROVE  TypeOK'
    BY <1>6 DEF Alloc, NoMemory, Copy, Open, Finish, Again, CloseSockets, ClearActive, Return
  <1>7. ASSUME NEW h \in Run, ReadRecord(h) \/ Pace(h) \/ Inject(h) PROVE TypeOK'
    BY <1>7 DEF ReadRecord, Pace, Inject
  <1>8. ASSUME NEW c \in Caller, NEW p \in {"start", "stop"}, Call(c, p) PROVE TypeOK'
    BY <1>8 DEF Call
  <1>9. CASE UNCHANGED vars
    BY <1>9 DEF vars
  <1> QED
    BY <1>1, <1>2, <1>3, <1>4, <1>5, <1>6, <1>7, <1>8, <1>9 DEF Next, CallerStep, ThreadStep

\* The lock is held by a start that found nothing active; nobody else raises or
\* lowers the flag meanwhile.
LEMMA LockStep == IInv /\ [Next]_vars => LockInv'
  <1> SUFFICES ASSUME IInv, [Next]_vars PROVE LockInv'
    OBVIOUS
  <1> USE DEF IInv, Goto, Thread, callerVars, threadVars, counters,
              TypeOK, LockInv, Working, OneReplay, GoneWhenInactive
  <1>1. ASSUME NEW c \in Caller, CallerStep(c) PROVE LockInv'
    BY <1>1 DEF CallerStep, StartRefused, StartArm, StartCreate, StartNoThread, StopTake, StopWait,
                StopClose, MayStart, CloseOldHandle, CloseHandle, Arm, TakeHandle
  <1>2. ASSUME NEW h \in Run, ThreadStep(h) PROVE LockInv'
    BY <1>2 DEF ThreadStep, Alloc, NoMemory, Copy, Open, Finish, ReadRecord, Pace, Inject, Again,
                Repeats, CloseSockets, ClearActive, Return, ReleaseHandle
  <1>3. ASSUME NEW c \in Caller, NEW p \in {"start", "stop"}, Call(c, p) PROVE LockInv'
    BY <1>3 DEF Call
  <1>4. CASE UNCHANGED vars
    BY <1>4 DEF vars
  <1> QED
    BY <1>1, <1>2, <1>3, <1>4 DEF Next

\* Starts put a fresh handle into the slot, stops take it out of it.
LEMMA OwnerStep == IInv /\ [Next]_vars => OwnerInv'
  <1> SUFFICES ASSUME IInv, [Next]_vars PROVE OwnerInv'
    OBVIOUS
  <1> USE DEF IInv, Goto, Thread, callerVars, threadVars, counters,
              TypeOK, OwnerInv, CallerOwns, LockInv
  <1>1. ASSUME NEW c \in Caller, CallerStep(c) PROVE OwnerInv'
    BY <1>1 DEF CallerStep, StartRefused, StartArm, StartCreate, StartNoThread, StopTake, StopWait,
                StopClose, MayStart, CloseOldHandle, CloseHandle, Arm, TakeHandle
  <1>2. ASSUME NEW h \in Run, ThreadStep(h) PROVE OwnerInv'
    BY <1>2 DEF ThreadStep, Alloc, NoMemory, Copy, Open, Finish, ReadRecord, Pace, Inject, Again,
                Repeats, CloseSockets, ClearActive, Return, ReleaseHandle
  <1>3. ASSUME NEW c \in Caller, NEW p \in {"start", "stop"}, Call(c, p) PROVE OwnerInv'
    BY <1>3 DEF Call
  <1>4. CASE UNCHANGED vars
    BY <1>4 DEF vars
  <1> QED
    BY <1>1, <1>2, <1>3, <1>4 DEF Next

\* Only the injecting thread opens sockets, and it closes them before it is done.
LEMMA SocketStep == IInv /\ [Next]_vars => SocketInv'
  <1> SUFFICES ASSUME IInv, [Next]_vars PROVE SocketInv'
    OBVIOUS
  <1> USE DEF IInv, Goto, Thread, callerVars, threadVars, counters,
              TypeOK, SocketInv, LockInv, GoneWhenInactive, OneReplay, Working
  <1>1. ASSUME NEW c \in Caller, CallerStep(c) PROVE SocketInv'
    BY <1>1 DEF CallerStep, StartRefused, StartArm, StartCreate, StartNoThread, StopTake, StopWait,
                StopClose, MayStart, CloseOldHandle, CloseHandle, Arm, TakeHandle
  <1>2. ASSUME NEW h \in Run, ThreadStep(h) PROVE SocketInv'
    BY <1>2 DEF ThreadStep, Alloc, NoMemory, Copy, Open, Finish, ReadRecord, Pace, Inject, Again,
                Repeats, CloseSockets, ClearActive, Return, ReleaseHandle
  <1>3. ASSUME NEW c \in Caller, NEW p \in {"start", "stop"}, Call(c, p) PROVE SocketInv'
    BY <1>3 DEF Call
  <1>4. CASE UNCHANGED vars
    BY <1>4 DEF vars
  <1> QED
    BY <1>1, <1>2, <1>3, <1>4 DEF Next

\* A thread is only created when none is at work.
LEMMA OneReplayStep == IInv /\ [Next]_vars => OneReplay'
  <1> SUFFICES ASSUME IInv, [Next]_vars PROVE OneReplay'
    OBVIOUS
  <1> USE DEF IInv, Goto, Thread, callerVars, threadVars, counters,
              TypeOK, OneReplay, LockInv, Working
  <1>1. ASSUME NEW c \in Caller, CallerStep(c) PROVE OneReplay'
    BY <1>1 DEF CallerStep, StartRefused, StartArm, StartCreate, StartNoThread, StopTake, StopWait,
                StopClose, MayStart, CloseOldHandle, CloseHandle, Arm, TakeHandle
  <1>2. ASSUME NEW h \in Run, ThreadStep(h) PROVE OneReplay'
    BY <1>2 DEF ThreadStep, Alloc, NoMemory, Copy, Open, Finish, ReadRecord, Pace, Inject, Again,
                Repeats, CloseSockets, ClearActive, Return, ReleaseHandle
  <1>3. ASSUME NEW c \in Caller, NEW p \in {"start", "stop"}, Call(c, p) PROVE OneReplay'
    BY <1>3 DEF Call
  <1>4. CASE UNCHANGED vars
    BY <1>4 DEF vars
  <1> QED
    BY <1>1, <1>2, <1>3, <1>4 DEF Next

\* The flag is lowered by a thread that has closed its sockets, or has none.
LEMMA GoneStep == IInv /\ [Next]_vars => GoneWhenInactive'
  <1> SUFFICES ASSUME IInv, [Next]_vars PROVE GoneWhenInactive'
    OBVIOUS
  <1> USE DEF IInv, Goto, Thread, callerVars, threadVars, counters,
              TypeOK, GoneWhenInactive, LockInv, SocketInv, OneReplay, Working
  <1>1. ASSUME NEW c \in Caller, CallerStep(c) PROVE GoneWhenInactive'
    BY <1>1 DEF CallerStep, StartRefused, StartArm, StartCreate, StartNoThread, StopTake, StopWait,
                StopClose, MayStart, CloseOldHandle, CloseHandle, Arm, TakeHandle
  <1>2. ASSUME NEW h \in Run, ThreadStep(h) PROVE GoneWhenInactive'
    BY <1>2 DEF ThreadStep, Alloc, NoMemory, Copy, Open, Finish, ReadRecord, Pace, Inject, Again,
                Repeats, CloseSockets, ClearActive, Return, ReleaseHandle
  <1>3. ASSUME NEW c \in Caller, NEW p \in {"start", "stop"}, Call(c, p) PROVE GoneWhenInactive'
    BY <1>3 DEF Call
  <1>4. CASE UNCHANGED vars
    BY <1>4 DEF vars
  <1> QED
    BY <1>1, <1>2, <1>3, <1>4 DEF Next

\* Each step that gives a handle up drops one reference.
LEMMA RefsStep == IInv /\ [Next]_vars => HandleRefs'
  <1> SUFFICES ASSUME IInv, [Next]_vars PROVE HandleRefs'
    OBVIOUS
  <1> USE DEF IInv, Goto, Thread, callerVars, threadVars, counters,
              TypeOK, HandleRefs, CallerOwns, ThreadOwns, OwnerInv, LockInv, Working
  <1>1. ASSUME NEW c \in Caller, CallerStep(c) PROVE HandleRefs'
    BY <1>1 DEF CallerStep, StartRefused, StartArm, StartCreate, StartNoThread, StopTake, StopWait,
                StopClose, MayStart, CloseOldHandle, CloseHandle, Arm, TakeHandle
  <1>2. ASSUME NEW h \in Run, ThreadStep(h) PROVE HandleRefs'
    BY <1>2 DEF ThreadStep, Alloc, NoMemory, Copy, Open, Finish, ReadRecord, Pace, Inject, Again,
                Repeats, CloseSockets, ClearActive, Return, ReleaseHandle
  <1>3. ASSUME NEW c \in Caller, NEW p \in {"start", "stop"}, Call(c, p) PROVE HandleRefs'
    BY <1>3 DEF Call
  <1>4. CASE UNCHANGED vars
    BY <1>4 DEF vars
  <1> QED
    BY <1>1, <1>2, <1>3, <1>4 DEF Next

\* The settings only change while no replay is active.
LEMMA SettingsStep == IInv /\ [Next]_vars => OwnSettings'
  <1> SUFFICES ASSUME IInv, [Next]_vars PROVE OwnSettings'
    OBVIOUS
  <1> USE DEF IInv, Goto, Thread, callerVars, threadVars, counters,
              TypeOK, OwnSettings, LockInv, GoneWhenInactive, Working
  <1>1. ASSUME NEW c \in Caller, CallerStep(c) PROVE OwnSettings'
    BY <1>1 DEF CallerStep, StartRefused, StartArm, StartCreate, StartNoThread, StopTake, StopWait,
                StopClose, MayStart, CloseOldHandle, CloseHandle, Arm, TakeHandle
  <1>2. ASSUME NEW h \in Run, ThreadStep(h) PROVE OwnSettings'
    BY <1>2 DEF ThreadStep, Alloc, NoMemory, Copy, Open, Finish, ReadRecord, Pace, Inject, Again,
                Repeats, CloseSockets, ClearActive, Return, ReleaseHandle
  <1>3. ASSUME NEW c \in Caller, NEW p \in {"start", "stop"}, Call(c, p) PROVE OwnSettings'
    BY <1>3 DEF Call
  <1>4. CASE UNCHANGED vars
    BY <1>4 DEF vars
  <1> QED
    BY <1>1, <1>2, <1>3, <1>4 DEF Next

\* Records are read one at a time by one thread, which counts each before it
\* reads the next; the counters start over with the flag that lets it read.
LEMMA CountStep == IInv /\ [Next]_vars => CountInv' /\ Counted'
  <1> SUFFICES ASSUME IInv, [Next]_vars PROVE CountInv' /\ Counted'
    OBVIOUS
  <1> USE DEF IInv, TypeOK, Working, Goto, Thread, callerVars, threadVars, counters,
              CountInv, Counted, InHand
  <1>1. ASSUME NEW c \in Caller, CallerStep(c) PROVE CountInv' /\ Counted'
    BY <1>1 DEF CallerStep, StartRefused, StartArm, StartCreate, StartNoThread, StopTake, StopWait,
                StopClose, MayStart, CloseOldHandle, CloseHandle, Arm, TakeHandle,
                GoneWhenInactive, LockInv
  <1>2. ASSUME NEW h \in Run, ReadRecord(h) PROVE CountInv' /\ Counted'
    <2>1. ~InHand
      BY <1>2 DEF ReadRecord, OneReplay
    <2>2. read' = sent' + failed' + 1
      BY <1>2, <2>1 DEF ReadRecord
    <2>3. InHand'
      BY <1>2 DEF ReadRecord
    <2> QED
      BY <2>2, <2>3
  <1>3. ASSUME NEW h \in Run, Pace(h) \/ Inject(h) PROVE CountInv' /\ Counted'
    <2>1. InHand /\ read = sent + failed + 1
      BY <1>3 DEF Pace, Inject
    <2>2. \A g \in Run : g # h => tpc'[g] = tpc[g] /\ tpc[g] \notin {"pace", "inject"}
      BY <1>3 DEF Pace, Inject, OneReplay
    <2>3. CASE tpc'[h] = "inject" \/ (stop /\ Pace(h))
      <3>1. read' = sent' + failed' + 1 /\ stop' = stop
        BY <1>3, <2>1, <2>3 DEF Pace, Inject
      <3>2. ~stop => InHand'
        BY <1>3, <2>3
      <3> QED
        BY <3>1, <3>2
    <2>4. CASE ~(tpc'[h] = "inject" \/ (stop /\ Pace(h)))
      <3>1. read' = sent' + failed'
        BY <1>3, <2>1, <2>4 DEF Pace, Inject
      <3>2. ~InHand'
        BY <1>3, <2>2, <2>4 DEF Pace, Inject
      <3> QED
        BY <3>1, <3>2
    <2> QED
      BY <2>3, <2>4
  <1>4. ASSUME NEW h \in Run, ThreadStep(h), ~ReadRecord(h), ~Pace(h), ~Inject(h)
        PROVE  CountInv' /\ Counted'
    <2>1. UNCHANGED <<read, sent, failed, stop>>
      BY <1>4 DEF ThreadStep, Alloc, NoMemory, Copy, Open, Finish, Again, CloseSockets,
                  ClearActive, Return, ReleaseHandle
    <2>2. InHand' = InHand
      BY <1>4 DEF ThreadStep, Alloc, NoMemory, Copy, Open, Finish, Again, Repeats, CloseSockets,
                  ClearActive, Return, ReleaseHandle
    <2> QED
      BY <2>1, <2>2
  <1>5. ASSUME NEW c \in Caller, NEW p \in {"start", "stop"}, Call(c, p)
        PROVE  CountInv' /\ Counted'
    BY <1>5 DEF Call
  <1>6. CASE UNCHANGED vars
    BY <1>6 DEF vars
  <1> QED
    BY <1>1, <1>2, <1>3, <1>4, <1>5, <1>6 DEF Next

\* No replay, no handle, nobody inside the lock.
LEMMA InitIInv == Init => IInv
  <1> SUFFICES ASSUME Init PROVE IInv
    OBVIOUS
  <1> USE DEF Init
  <1>1. TypeOK
    <2>1. read \in 0..MaxRecords /\ calls \in 0..MaxCalls /\ sent \in Nat /\ failed \in Nat
      OBVIOUS
    <2>2. /\ active \in BOOLEAN /\ stop \in BOOLEAN /\ loop \in BOOLEAN
          /\ loops \in [Run -> BOOLEAN]
      OBVIOUS
    <2>3. refs \in [Run -> 0..2] /\ tpc \in [Run -> {"none"}]
      OBVIOUS
    <2>4. held \in [Caller -> {Null}] /\ cpc \in [Caller -> {"idle"}]
      OBVIOUS
    <2> QED
      BY <2>1, <2>2, <2>3, <2>4 DEF TypeOK
  <1>2. LockInv /\ SocketInv
    BY DEF LockInv, SocketInv, Working
  <1>3. OwnerInv /\ HandleRefs
    BY DEF OwnerInv, HandleRefs, CallerOwns, ThreadOwns
  <1>4. CountInv /\ Counted
    BY DEF CountInv, Counted, InHand
  <1>5. OneReplay /\ GoneWhenInactive /\ OwnSettings
    BY DEF OneReplay, GoneWhenInactive, OwnSettings, Working
  <1> QED
    BY <1>1, <1>2, <1>3, <1>4, <1>5 DEF IInv

\* The inductive invariant of the replay.
THEOREM Inductive == Spec => []IInv
  <1>1. IInv /\ [Next]_vars => IInv'
    BY TypeStep, LockStep, OwnerStep, SocketStep, CountStep, OneReplayStep, GoneStep, RefsStep,
       SettingsStep DEF IInv
  <1> QED
    BY InitIInv, <1>1, PTL DEF Spec

\* There is never a second replay thread at work: the sockets need no lock.
THEOREM OneReplayAtATime == Spec => []OneReplay
  <1>1. IInv => OneReplay
    BY DEF IInv
  <1> QED
    BY Inductive, <1>1, PTL

\* When replayActive is seen low the sockets are closed and nobody uses them.
THEOREM InactiveMeansGone == Spec => []GoneWhenInactive
  <1>1. IInv => GoneWhenInactive
    BY DEF IInv
  <1> QED
    BY Inductive, <1>1, PTL

\* Every handle is released as often as it has owners, whoever joins or gives up.
THEOREM ReferencesMatchOwners == Spec => []HandleRefs
  <1>1. IInv => HandleRefs
    BY DEF IInv
  <1> QED
    BY Inductive, <1>1, PTL

\* The counters are those of one replay.
THEOREM CountersAddUp == Spec => []Counted
  <1>1. IInv => Counted
    BY DEF IInv
  <1> QED
    BY Inductive, <1>1, PTL
==============================================================================
