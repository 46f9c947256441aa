------------------------------- MODULE Replay -------------------------------
(***************************************************************************)
(* Replay of a saved capture file (pcapreplay.cpp): HTTP workers, the      *)
(* control-socket thread and main() start and stop replays under           *)
(* replayLock; a thread of its own reads the file and injects its packets  *)
(* through sockets that only it may touch (divert_linux.cpp).  Threads are *)
(* known by their handles, which count two owners (platform_linux.cpp).    *)
(*                                                                         *)
(* Abstractions.  What the file holds, whether it can be opened, whether   *)
(* memory, threads and sockets are to be had and how long a record waits   *)
(* for its time are nondeterministic.                                      *)
(***************************************************************************)
EXTENDS Naturals

CONSTANTS
  Caller,      \* threads that call pcapReplayStart and pcapReplayStop
  Run,         \* bound: handles of the replay threads ever created
  Null,        \* no handle
  MaxRecords,  \* bound: records of a replay, over all turns of the loop
  MaxCalls     \* bound: calls that ever come

ASSUME ReplayAssumption ==
  /\ Null \notin Run /\ "free" \notin Caller
  /\ MaxRecords \in Nat /\ MaxCalls \in Nat

VARIABLES
  cpc,       \* where each caller is
  held,      \* the handle a caller took out of the slot
  lock,      \* the caller inside replayLock, or "free"
  active,    \* replayActive
  stop,      \* replayStop
  slot,      \* replayThread
  loop,      \* replayLoop, standing for all settings of a replay
  tpc,       \* where each replay thread is
  loops,     \* its copy of the settings
  refs,      \* owners of each handle
  sockets,   \* of packetBackendInject
  read, sent, failed,  \* the three counters
  calls      \* calls so far

callerVars == <<cpc, held, lock, calls>>
threadVars == <<tpc, loops, refs>>
counters == <<read, sent, failed>>
vars == <<callerVars, active, stop, slot, loop, threadVars, sockets, counters>>

Working == {"alloc", "copy", "open", "loop", "pace", "inject", "again", "close", "clear"}

TypeOK ==
  /\ cpc \in [Caller -> {"idle", "start", "create", "stop", "wait", "closeHandle"}]
  /\ held \in [Caller -> Run \cup {Null}]
  /\ lock \in Caller \cup {"free"}
  /\ active \in BOOLEAN /\ stop \in BOOLEAN
  /\ slot \in Run \cup {Null}
  /\ loop \in BOOLEAN
  /\ tpc \in [Run -> Working \cup {"none", "return", "release", "gone"}]
  /\ loops \in [Run -> BOOLEAN]
  /\ refs \in [Run -> 0..2]
  /\ sockets \in {"closed", "open", "failed"}
  /\ read \in 0..MaxRecords /\ sent \in Nat /\ failed \in Nat
  /\ calls \in 0..MaxCalls

Init ==
  /\ cpc = [c \in Caller |-> "idle"] /\ held = [c \in Caller |-> Null]
  /\ lock = "free" /\ active = FALSE /\ stop = FALSE /\ slot = Null /\ loop = FALSE
  /\ tpc = [h \in Run |-> "none"] /\ loops = [h \in Run |-> FALSE]
  /\ refs = [h \in Run |-> 0]
  /\ sockets = "closed" /\ read = 0 /\ sent = 0 /\ failed = 0 /\ calls = 0

Goto(c, place) == cpc' = [cpc EXCEPT ![c] = place]
Thread(h, place) == tpc' = [tpc EXCEPT ![h] = place]

\* CloseHandle: one owner less.
CloseHandle(h) == refs' = [refs EXCEPT ![h] = @ - 1]

------------------------------------------------------------------------------
(* pcapReplayStart.                                                         *)

Call(c, place) ==
  /\ cpc[c] = "idle" /\ calls < MaxCalls
  /\ Goto(c, place) /\ calls' = calls + 1
  /\ UNCHANGED <<held, lock, active, stop, slot, loop, threadVars, sockets, counters>>

\* "a replay is already running", or the file does not pass the probe.
StartRefused(c) ==
  /\ cpc[c] = "start" /\ lock = "free"
  /\ Goto(c, "idle")
  /\ UNCHANGED <<held, lock, calls, active, stop, slot, loop, threadVars, sockets, counters>>

MayStart == lock = "free" /\ ~active

\* A run that ended by itself left its handle in the slot.
CloseOldHandle == IF slot # Null THEN CloseHandle(slot) ELSE UNCHANGED refs

\* The flags and counters of the run to come.
Arm ==
  /\ active' = TRUE /\ stop' = FALSE
  /\ read' = 0 /\ sent' = 0 /\ failed' = 0

StartArm(c) ==
  /\ cpc[c] = "start" /\ MayStart
  /\ CloseOldHandle /\ slot' = Null
  /\ loop' \in BOOLEAN
  /\ Arm
  /\ lock' = c /\ Goto(c, "create")
  /\ UNCHANGED <<held, calls, tpc, loops, sockets>>

StartCreate(c) ==
  /\ cpc[c] = "create"
  /\ \E h \in Run :
       /\ tpc[h] = "none" /\ Thread(h, "alloc")
       /\ refs' = [refs EXCEPT ![h] = 2]
       /\ slot' = h
  /\ lock' = "free" /\ Goto(c, "idle")
  /\ UNCHANGED <<held, calls, active, stop, loop, loops, sockets, counters>>

\* Seeded fault: the failure path does not leave the lock.
StartNoThreadLocked(c) ==
  /\ cpc[c] = "create"
  /\ active' = FALSE
  /\ Goto(c, "idle")
  /\ UNCHANGED <<held, lock, calls, stop, slot, loop, threadVars, sockets, counters>>

StartNoThread(c) ==
  /\ cpc[c] = "create"
  /\ active' = FALSE
  /\ lock' = "free" /\ Goto(c, "idle")
  /\ UNCHANGED <<held, calls, stop, slot, loop, threadVars, sockets, counters>>

------------------------------------------------------------------------------
(* pcapReplayStop.                                                          *)

\* Seeded fault: the handle is read and stays where it is.
TakeHandleCopy(c) == held' = [held EXCEPT ![c] = slot] /\ UNCHANGED slot

\* Whoever takes the handle owns the join.
TakeHandle(c) == held' = [held EXCEPT ![c] = slot] /\ slot' = Null

StopTake(c) ==
  /\ cpc[c] = "stop" /\ lock = "free"
  /\ stop' = TRUE
  /\ TakeHandle(c)
  /\ Goto(c, IF slot = Null THEN "idle" ELSE "wait")
  /\ UNCHANGED <<lock, calls, active, loop, threadVars, sockets, counters>>

\* WaitForSingleObject: the thread's finished flag, or REPLAY_JOIN_TIMEOUT.
StopWait(c) ==
  /\ cpc[c] = "wait"
  /\ Goto(c, "closeHandle")
  /\ UNCHANGED <<held, lock, calls, active, stop, slot, loop, threadVars, sockets, counters>>

StopClose(c) ==
  /\ cpc[c] = "closeHandle"
  /\ CloseHandle(held[c])
  /\ held' = [held EXCEPT ![c] = Null] /\ Goto(c, "idle")
  /\ UNCHANGED <<lock, calls, active, stop, slot, loop, tpc, loops, sockets, counters>>

------------------------------------------------------------------------------
(* replayThreadProc.                                                        *)

Alloc(h) ==
  /\ tpc[h] = "alloc" /\ Thread(h, "copy")
  /\ UNCHANGED <<callerVars, active, stop, slot, loop, loops, refs, sockets, counters>>

NoMemory(h) ==
  /\ tpc[h] = "alloc" /\ Thread(h, "return")
  /\ active' = FALSE
  /\ UNCHANGED <<callerVars, stop, slot, loop, loops, refs, sockets, counters>>

Copy(h) ==
  /\ tpc[h] = "copy" /\ lock = "free" /\ Thread(h, "open")
  /\ loops' = [loops EXCEPT ![h] = loop]
  /\ UNCHANGED <<callerVars, active, stop, slot, loop, refs, sockets, counters>>

\* The file was there at the probe; now it may be gone.
Open(h) ==
  /\ tpc[h] = "open"
  /\ Thread(h, "loop") \/ Thread(h, "close")
  /\ UNCHANGED <<callerVars, active, stop, slot, loop, loops, refs, sockets, counters>>

\* End of file, a truncated or a corrupt record, or a stop.
Finish(h) ==
  /\ tpc[h] = "loop" /\ Thread(h, "again")
  /\ UNCHANGED <<callerVars, active, stop, slot, loop, loops, refs, sockets, counters>>

ReadRecord(h) ==
  /\ tpc[h] = "loop" /\ ~stop /\ read < MaxRecords
  /\ read' = read + 1 /\ Thread(h, "pace")
  /\ UNCHANGED <<callerVars, active, stop, slot, loop, loops, refs, sockets, sent, failed>>

\* The record's time has come, or a stop.
Pace(h) ==
  /\ tpc[h] = "pace"
  /\ IF stop
     THEN Thread(h, "again") /\ UNCHANGED failed
     ELSE \/ Thread(h, "inject") /\ UNCHANGED failed
          \/ Thread(h, "loop") /\ failed' = failed + 1    \* not IP
  /\ UNCHANGED <<callerVars, active, stop, slot, loop, loops, refs, sockets, read, sent>>

\* packetBackendInject, with the sockets it opens on first use.
Inject(h) ==
  /\ tpc[h] = "inject" /\ Thread(h, "loop")
  /\ sockets' \in IF sockets = "closed" THEN {"open", "failed"} ELSE {sockets}
  /\ \/ sockets' = "open" /\ sent' = sent + 1 /\ UNCHANGED failed
     \/ failed' = failed + 1 /\ UNCHANGED sent
  /\ UNCHANGED <<callerVars, active, stop, slot, loop, loops, refs, read>>

\* Seeded fault: replayStop is not read when the file starts over.
RepeatsAnyway(h) == loops[h]

Repeats(h) == loops[h] /\ ~stop

Again(h) ==
  /\ tpc[h] = "again"
  /\ Thread(h, IF Repeats(h) THEN "open" ELSE "close")
  /\ UNCHANGED <<callerVars, active, stop, slot, loop, loops, refs, sockets, counters>>

\* packetBackendInjectClose
CloseSockets(h) ==
  /\ tpc[h] = "close" /\ Thread(h, "clear")
  /\ sockets' = "closed"
  /\ UNCHANGED <<callerVars, active, stop, slot, loop, loops, refs, counters>>

ClearActive(h) ==
  /\ tpc[h] = "clear" /\ Thread(h, "return")
  /\ active' = FALSE
  /\ UNCHANGED <<callerVars, stop, slot, loop, loops, refs, sockets, counters>>

\* threadTrampoline: finished is set.
Return(h) ==
  /\ tpc[h] = "return" /\ Thread(h, "release")
  /\ UNCHANGED <<callerVars, active, stop, slot, loop, loops, refs, sockets, counters>>

\* releaseHandle by the thread itself.
ReleaseHandle(h) ==
  /\ tpc[h] = "release" /\ Thread(h, "gone")
  /\ refs' = [refs EXCEPT ![h] = @ - 1]
  /\ UNCHANGED <<callerVars, active, stop, slot, loop, loops, sockets, counters>>

------------------------------------------------------------------------------

CallerStep(c) ==
  \/ StartRefused(c) \/ StartArm(c) \/ StartCreate(c) \/ StartNoThread(c)
  \/ StopTake(c) \/ StopWait(c) \/ StopClose(c)

ThreadStep(h) ==
  \/ Alloc(h) \/ NoMemory(h) \/ Copy(h) \/ Open(h) \/ Finish(h) \/ ReadRecord(h)
  \/ Pace(h) \/ Inject(h) \/ Again(h) \/ CloseSockets(h) \/ ClearActive(h)
  \/ Return(h) \/ ReleaseHandle(h)

Next ==
  \/ \E c \in Caller : CallerStep(c) \/ Call(c, "start") \/ Call(c, "stop")
  \/ \E h \in Run : ThreadStep(h)

Spec == Init /\ [][Next]_vars

\* Every thread is scheduled.  replayLock is free again and again because calls
\* are finitely many.
FairSpec ==
  /\ Spec
  /\ \A c \in Caller : WF_vars(CallerStep(c))
  /\ \A h \in Run : WF_vars(ThreadStep(h))

------------------------------------------------------------------------------
(* Properties.                                                              *)

\* The sockets have no lock: "the replay thread is the only user"
\* (divert_linux.cpp), so there is never a second one, whatever is started,
\* stopped and given up on meanwhile.
OneReplay ==
  \A g, h \in Run : tpc[g] \in Working /\ tpc[h] \in Working => g = h

\* "Once a caller observes not active the handle really is gone and a fresh run
\* can open its own": no sockets, and no thread that may still use them.
GoneWhenInactive ==
  ~active => sockets = "closed" /\ \A h \in Run : tpc[h] \notin Working

\* Has somebody outside the thread a right to the handle?
CallerOwns(h) == slot = h \/ \E c \in Caller : held[c] = h
ThreadOwns(h) == tpc[h] \notin {"none", "gone"}

\* A handle has as many references as owners: it is freed once, after both, and
\* each CloseHandle is somebody's first.
HandleRefs ==
  \A h \in Run :
    refs[h] = (IF CallerOwns(h) THEN 1 ELSE 0) + (IF ThreadOwns(h) THEN 1 ELSE 0)

\* Every record read is injected or skipped, but for one in hand, or left when
\* the stop came: the counters are one run's, never two runs' mixed.
Counted == read \in {sent + failed, sent + failed + 1}

\* The settings that reports show while a replay is active are its own.
OwnSettings ==
  \A h \in Run : tpc[h] \in Working \ {"alloc", "copy"} => loops[h] = loop

\* A stop ends the replay, also one whose caller gave up waiting, or that loops:
\* nothing takes the flag back before the thread has seen it.
StopEnds == stop /\ active ~> ~active

\* Every call returns.
CallsReturn == \A c \in Caller : cpc[c] # "idle" ~> cpc[c] = "idle"

------------------------------------------------------------------------------
(* The inductive invariant behind the safety properties (Replay_proofs).    *)

\* Inside replayLock beyond one step is only a start that has found no replay
\* active and has raised the flag for its own.
LockInv ==
  /\ \A c \in Caller : cpc[c] = "create" <=> lock = c
  /\ lock # "free" => active /\ slot = Null /\ \A h \in Run : tpc[h] \notin Working

\* A handle has one owner outside its thread at most, and exists.
OwnerInv ==
  /\ \A c \in Caller : held[c] # Null <=> cpc[c] \in {"wait", "closeHandle"}
  /\ \A c, d \in Caller : held[c] = held[d] /\ held[c] # Null => c = d
  /\ \A c \in Caller : held[c] = slot => slot = Null
  /\ \A h \in Run : tpc[h] = "none" => ~CallerOwns(h)

\* Sockets are opened late and closed before the end.
SocketInv ==
  /\ lock # "free" => sockets = "closed"
  /\ \A h \in Run : tpc[h] \in {"alloc", "copy", "clear"} => sockets = "closed"

\* A record in hand is counted once it has been dealt with.
InHand == \E h \in Run : tpc[h] \in {"pace", "inject"}
CountInv ==
  /\ InHand => read = sent + failed + 1
  /\ ~InHand /\ ~stop => read = sent + failed

IInv ==
  /\ TypeOK /\ LockInv /\ OwnerInv /\ SocketInv /\ CountInv
  /\ OneReplay /\ GoneWhenInactive /\ HandleRefs /\ Counted /\ OwnSettings
==============================================================================
