------------------------------ MODULE Lifecycle ------------------------------
(***************************************************************************)
(* Sessions of the Linux capture backend and what outlives them            *)
(* (divertStart and divertStop of divert_linux.cpp): every step of a start *)
(* can fail, the waits for the two loops are bounded, and a loop that is   *)
(* wedged in a call of its critical section lives on.  Capture models what *)
(* the loops do with packets; here a critical section is one step that     *)
(* may take longer than any wait.                                          *)
(*                                                                         *)
(* Each start that opens a handle has a number; handles, mutexes and       *)
(* threads are known by the number of the start that made them, and the    *)
(* globals nfqHandle, nfqQueue and mutex hold such a number, 0 for NULL.   *)
(***************************************************************************)
EXTENDS Naturals

CONSTANTS
  MaxStarts,  \* bound: starts that get as far as nfq_open
  MaxTorn     \* bound: the same, once one has failed with loops left alive

ASSUME LifecycleAssumption == MaxStarts \in Nat \ {0} /\ MaxTorn \in Nat

Session == 1..MaxStarts
Thread == Session \X {"read", "clock"}

VARIABLES
  ctl,          \* where the caller of divertStart or divertStop stands
  session,      \* number of the last start
  nfqHandle, nfqQueue, mutex,
  open,         \* handles that are open
  owner,        \* the handle to which the kernel has bound the queue number
  stopLooping,
  pc,           \* where each loop is
  waits,        \* the mutex a loop waits for or holds
  uses,         \* the handle a read loop passed to nfq_handle_packet
  wedged,       \* loops that do not get on in their critical section
  torn          \* history: a start failed while loops used what it took down

callVars == <<ctl, session>>
objVars == <<nfqHandle, nfqQueue, mutex, open, owner>>
loopVars == <<pc, waits, uses, wedged>>
vars == <<callVars, objVars, stopLooping, loopVars, torn>>

TypeOK ==
  /\ ctl \in {"idle", "opening", "bound", "ready", "reading", "rules", "running",
              "unwinding", "failing", "stopping", "aborted"}
  /\ session \in 0..MaxStarts
  /\ nfqHandle \in 0..session /\ nfqQueue \in 0..session /\ mutex \in 0..session
  /\ open \subseteq 1..session
  /\ owner \in 0..session
  /\ stopLooping \in BOOLEAN
  /\ pc \in [Thread -> {"none", "poll", "wait", "lock", "handle", "consume", "check",
                        "final", "close", "exit"}]
  /\ waits \in [Thread -> 0..session]
  /\ uses \in [Thread -> 0..session]
  /\ wedged \subseteq Thread
  /\ torn \in BOOLEAN

Init ==
  /\ ctl = "idle" /\ session = 0
  /\ nfqHandle = 0 /\ nfqQueue = 0 /\ mutex = 0
  /\ open = {} /\ owner = 0
  /\ stopLooping = FALSE
  /\ pc = [t \in Thread |-> "none"]
  /\ waits = [t \in Thread |-> 0] /\ uses = [t \in Thread |-> 0]
  /\ wedged = {}
  /\ torn = FALSE

Alive(t) == pc[t] \notin {"none", "exit"}
Critical(t) == pc[t] \in {"handle", "consume", "close"}
Free(m) == m # 0 /\ \A t \in Thread : Critical(t) => waits[t] # m
Own(t) == t[1] = session

------------------------------------------------------------------------------
(* The loops.  nfqFd goes with nfqHandle: there is data only while it is open. *)

Goto(t, l) == pc' = [pc EXCEPT ![t] = l]

\* poll() timed out or has data: stopLooping is looked at first.
ReadStop(t) ==
  /\ pc[t] = "poll" /\ stopLooping
  /\ Goto(t, "exit")
  /\ UNCHANGED <<callVars, objVars, stopLooping, waits, uses, wedged, torn>>

\* recv() has a message, and the loop asks for the mutex of this moment.
ReadReceive(t) ==
  /\ pc[t] = "poll" /\ ~stopLooping
  /\ nfqHandle # 0
  /\ Goto(t, IF mutex = 0 THEN "exit" ELSE "lock")
  /\ waits' = [waits EXCEPT ![t] = mutex]
  /\ UNCHANGED <<callVars, objVars, stopLooping, uses, wedged, torn>>

\* recv() fails, as it does on a descriptor that was closed.
ReadFail(t) ==
  /\ pc[t] = "poll" /\ ~stopLooping
  /\ Goto(t, "exit")
  /\ UNCHANGED <<callVars, objVars, stopLooping, waits, uses, wedged, torn>>

\* With the mutex stopLooping is looked at again, then the message is handled.
ReadLock(t) ==
  /\ pc[t] = "lock" /\ Free(waits[t])
  /\ Goto(t, IF stopLooping THEN "exit" ELSE "handle")
  /\ uses' = [uses EXCEPT ![t] = IF stopLooping THEN 0 ELSE nfqHandle]
  /\ UNCHANGED <<callVars, objVars, stopLooping, waits, wedged, torn>>

\* The mutex of this moment is free within CLOCK_WAITMS, or this run is skipped;
\* without a mutex the wait fails and the loop raises stopLooping itself.
ClockWait(t) ==
  /\ pc[t] = "wait"
  /\ \/ Free(mutex) /\ Goto(t, "consume")
     \/ ~Free(mutex) /\ Goto(t, "check")
  /\ waits' = [waits EXCEPT ![t] = mutex]
  /\ stopLooping' = (stopLooping \/ mutex = 0)
  /\ UNCHANGED <<callVars, objVars, uses, wedged, torn>>

ClockCheck(t) ==
  /\ pc[t] = "check"
  /\ Goto(t, IF ~stopLooping THEN "wait" ELSE IF mutex = 0 THEN "exit" ELSE "final")
  /\ waits' = [waits EXCEPT ![t] = mutex]
  /\ UNCHANGED <<callVars, objVars, stopLooping, uses, wedged, torn>>

\* Seeded fault: the last wait is bounded too, and its result is ignored.
ClockFinalAnyway(t) ==
  /\ pc[t] = "final"
  /\ Goto(t, "close")
  /\ UNCHANGED <<callVars, objVars, stopLooping, waits, uses, wedged, torn>>

ClockFinal(t) ==
  /\ pc[t] = "final" /\ Free(waits[t])
  /\ Goto(t, "close")
  /\ UNCHANGED <<callVars, objVars, stopLooping, waits, uses, wedged, torn>>

\* A verdict, a capture file or a raw socket does not answer.
Wedge(t) ==
  /\ Critical(t) /\ t \notin wedged
  /\ wedged' = wedged \cup {t}
  /\ UNCHANGED <<callVars, objVars, stopLooping, pc, waits, uses, torn>>

\* The end of a critical section.  ReleaseMutex is given the global: what the loop
\* does not hold it cannot release, and only the final section shrugs that off
\* (a debug build ends there; what a release build does then is not followed).
Leave(t) ==
  /\ Critical(t)
  /\ IF waits[t] = mutex \/ pc[t] = "close"
     THEN /\ Goto(t, CASE pc[t] = "handle" -> "poll"
                       [] pc[t] = "consume" -> "check"
                       [] pc[t] = "close" -> "exit")
          /\ UNCHANGED ctl
     ELSE ctl' = "aborted" /\ UNCHANGED pc
  /\ waits' = [waits EXCEPT ![t] = 0]
  /\ uses' = [uses EXCEPT ![t] = 0]
  /\ wedged' = wedged \ {t}
  /\ UNCHANGED <<session, objVars, stopLooping, torn>>

------------------------------------------------------------------------------
(* divertStart, one call that can fail after the other, under appLock.       *)

\* The filter compiles, and nfq_open returns a handle.
Open ==
  /\ ctl = "idle" /\ session < MaxStarts /\ (torn => session < MaxTorn)
  /\ ctl' = "opening" /\ session' = session + 1
  /\ nfqHandle' = session + 1 /\ open' = open \cup {session + 1}
  /\ UNCHANGED <<nfqQueue, mutex, owner, stopLooping, loopVars, torn>>

\* Or it returns none: the global is overwritten all the same.
OpenFails ==
  /\ ctl = "idle"
  /\ nfqHandle' = 0
  /\ UNCHANGED <<callVars, nfqQueue, mutex, open, owner, stopLooping, loopVars, torn>>

BindPfFails ==
  /\ ctl = "opening"
  /\ ctl' = "failing"
  /\ UNCHANGED <<session, objVars, stopLooping, loopVars, torn>>

\* The kernel binds a queue number to one handle at a time.
CreateQueue ==
  /\ ctl = "opening" /\ owner = 0
  /\ ctl' = "bound"
  /\ nfqQueue' = nfqHandle /\ owner' = nfqHandle
  /\ UNCHANGED <<session, nfqHandle, mutex, open, stopLooping, loopVars, torn>>

\* It is taken, by this process or by another one.
CreateQueueFails ==
  /\ ctl = "opening"
  /\ ctl' = "failing"
  /\ nfqQueue' = 0
  /\ UNCHANGED <<session, nfqHandle, mutex, open, owner, stopLooping, loopVars, torn>>

SetModeFails ==
  /\ ctl = "bound"
  /\ ctl' = "failing"
  /\ UNCHANGED <<session, objVars, stopLooping, loopVars, torn>>

\* The list and the modules' marks are reset, stopLooping is cleared and the
\* mutex is made, or not.
CreateMutex(ok) ==
  /\ ctl = "bound"
  /\ ctl' = IF ok THEN "ready" ELSE "failing"
  /\ mutex' = IF ok THEN session ELSE 0
  /\ stopLooping' = FALSE
  /\ UNCHANGED <<session, nfqHandle, nfqQueue, open, owner, loopVars, torn>>

CreateThread(from, kind, entry, next) ==
  /\ ctl = from
  /\ \/ ctl' = next /\ Goto(<<session, kind>>, entry)
     \/ ctl' = "failing" /\ UNCHANGED pc
  /\ UNCHANGED <<session, objVars, stopLooping, waits, uses, wedged, torn>>

\* The rules are installed or not asked for; or they fail, and the loops are told
\* to stop.
InstallRules ==
  /\ ctl = "rules"
  /\ ctl' \in {"running", "unwinding"}
  /\ stopLooping' = (stopLooping \/ ctl' = "unwinding")
  /\ UNCHANGED <<session, objVars, loopVars, torn>>

\* Seeded fault: the wait returns when one of the two has ended.
JoinedReader == ~Alive(<<session, "read">>)

\* WaitForMultipleObjects on both threads of this start.
Joined == \A t \in Thread : Own(t) => ~Alive(t)

\* A bounded wait runs out only when a section takes that long.
TimedOut == ~Joined /\ wedged # {}

\* 3 s for the loops, whose result nobody looks at.
Unwind ==
  /\ ctl = "unwinding" /\ (Joined \/ TimedOut)
  /\ ctl' = "failing"
  /\ UNCHANGED <<session, objVars, stopLooping, loopVars, torn>>

\* nfq_destroy_queue and nfq_close of what the globals hold.
TakeDown ==
  /\ nfqHandle' = 0 /\ nfqQueue' = 0
  /\ open' = open \ {nfqHandle}
  /\ owner' = IF owner \in {nfqHandle, nfqQueue} THEN 0 ELSE owner

\* Loops that may use what TakeDown takes away.
Users == {t \in Thread : Alive(t) /\ t[1] \in {nfqHandle, nfqQueue}}

\* The label fail.  Neither stopLooping nor the mutex is touched.
Fail ==
  /\ ctl = "failing"
  /\ ctl' = "idle"
  /\ TakeDown
  /\ torn' = (torn \/ Users # {})
  /\ UNCHANGED <<session, mutex, stopLooping, loopVars>>

------------------------------------------------------------------------------
(* divertStop.                                                              *)

StopRequest ==
  /\ ctl = "running"
  /\ ctl' = "stopping" /\ stopLooping' = TRUE
  /\ UNCHANGED <<session, objVars, loopVars, torn>>

\* The loops ended within 5 s.
StopJoin ==
  /\ ctl = "stopping" /\ Joined
  /\ ctl' = "idle"
  /\ TakeDown
  /\ mutex' = 0
  /\ UNCHANGED <<session, stopLooping, loopVars, torn>>

\* Seeded fault: the branch that abandons the loops takes the queue down as well.
GiveUpTakesDown ==
  /\ ctl = "stopping" /\ TimedOut
  /\ ctl' = "idle"
  /\ TakeDown
  /\ UNCHANGED <<session, mutex, stopLooping, loopVars, torn>>

\* Seeded fault: the wait has no bound.
GiveUpNever == ctl = "stopping" /\ Joined /\ UNCHANGED vars

\* They did not: queue, handle and mutex are left to them.
GiveUp ==
  /\ ctl = "stopping" /\ TimedOut
  /\ ctl' = "idle"
  /\ UNCHANGED <<session, objVars, stopLooping, loopVars, torn>>


Loop(t) ==
  \/ ReadStop(t) \/ ReadReceive(t) \/ ReadFail(t) \/ ReadLock(t)
  \/ ClockWait(t) \/ ClockCheck(t) \/ ClockFinal(t) \/ Leave(t)

Starting ==
  \/ BindPfFails \/ CreateQueue \/ CreateQueueFails \/ SetModeFails
  \/ (\E ok \in BOOLEAN : CreateMutex(ok))
  \/ CreateThread("ready", "read", "poll", "reading")
  \/ CreateThread("reading", "clock", "wait", "rules")
  \/ InstallRules \/ Unwind \/ Fail

Stopping == StopJoin \/ GiveUp

Next ==
  /\ ctl # "aborted"
  /\ \/ Open \/ OpenFails \/ Starting \/ StopRequest \/ Stopping
     \/ \E t \in Thread : Loop(t) \/ Wedge(t)

Spec == Init /\ [][Next]_vars

\* The caller and the loops run; a section that is not wedged ends.  Nothing says
\* that a message arrives or that a wedged call ever returns.
Fairness ==
  /\ WF_vars(Starting) /\ WF_vars(Stopping)
  /\ \A t \in Thread :
       /\ WF_vars(ReadStop(t) \/ ReadLock(t) \/ ClockWait(t) \/ ClockCheck(t) \/ ClockFinal(t))
       /\ WF_vars(t \notin wedged /\ Leave(t))

FairSpec == Spec /\ Fairness

------------------------------------------------------------------------------
(* Properties.                                                              *)

\* A capture that runs owns the queue it reads, and its loops share one mutex.
RunsOnItsOwn ==
  ctl \in {"rules", "running", "stopping"} =>
    /\ nfqHandle = session /\ nfqQueue = session /\ mutex = session
    /\ owner = session /\ session \in open

\* At most one loop is in a critical section of each mutex.
Exclusive ==
  \A s, t \in Thread : Critical(s) /\ Critical(t) /\ waits[s] = waits[t] => s = t

Consistent == TypeOK /\ RunsOnItsOwn /\ Exclusive

\* nfq_handle_packet never runs on a handle that was closed under it: not when a
\* stop gives up, not when a start is unwound - unless a start took down queue and
\* handle under loops that were alive, as it does when the clock thread cannot be
\* created or a loop is wedged for 3 s.
HandleInUse ==
  \A t \in Thread : pc[t] = "handle" /\ ~torn => uses[t] \in open

\* A loop that a stop abandoned is never revived by a later start, though that
\* start would clear the flag it has to see: the queue it was left with keeps
\* every later start from getting that far.  (Same exception.)
NoRevival ==
  \A t \in Thread : Alive(t) /\ ~torn /\ ctl \in {"ready", "reading", "rules", "running"} => Own(t)

\* No loop ever releases a mutex it does not hold and takes the process down with
\* it.  (Same exception.)
NoAbort == ctl = "aborted" => torn

Called == ctl \notin {"idle", "running", "aborted"}

\* divertStart and divertStop return, whatever fails and whatever hangs.
CallsReturn == Called ~> ~Called
==============================================================================
