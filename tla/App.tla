--------------------------------- MODULE App ---------------------------------
(***************************************************************************)
(* Application control (main.cpp): capture sessions are started and        *)
(* stopped by HTTP connection threads, by the control-socket thread and by *)
(* the main thread, under appLock; the main thread ticks the statistics    *)
(* log while a session lasts and shuts the program down.  What a session   *)
(* does inside the backend is the subject of Capture.                      *)
(***************************************************************************)
EXTENDS Naturals, FiniteSets

CONSTANTS
  Http,         \* HTTP connection threads
  Pipe,         \* the thread of the control socket, as a set
  JoinsTimeOut, \* may the bounded waits of the clean-up run out?
  MaxRequests   \* bound: requests that ever arrive

Main == "main"
Worker == Http \cup Pipe
Proc == Worker \cup {Main}

ASSUME AppAssumption ==
  /\ Main \notin Worker /\ "free" \notin Proc
  /\ Http \cap Pipe = {}
  /\ JoinsTimeOut \in BOOLEAN
  /\ MaxRequests \in Nat

VARIABLES
  pc,         \* where each thread is
  goal,       \* what a thread that starts or stops a session is after
  appLock,    \* the thread inside appLock, or "free"
  capturing,  \* the flag everybody reads, most without the lock
  opens,      \* calls of divertStart not yet undone by divertStop
  log,        \* is the statistics log file open?
  quit,       \* quitRequested or pipeStopRequested
  accepting,  \* the transports a request may still come from
  late,       \* ghost: was a session opened after the clean-up's own stop?
  requests    \* requests so far

vars == <<pc, goal, appLock, capturing, opens, log, quit, accepting, late, requests>>

Goal == {"none", "filter", "stop", "boot", "exit"}
Place == {"idle", "check", "stopLock", "stopBody", "stopReset", "startLock",
          "startBody", "startFiles", "loop", "tickLog", "httpStop", "pipeStop", "exited"}

\* Places between EnterCriticalSection and LeaveCriticalSection.
Inside == {"stopBody", "startBody", "startFiles", "tickLog"}

TypeOK ==
  /\ pc \in [Proc -> Place]
  /\ goal \in [Proc -> Goal]
  /\ appLock \in Proc \cup {"free"}
  /\ capturing \in BOOLEAN
  /\ opens \in Nat
  /\ log \in BOOLEAN
  /\ quit \in BOOLEAN
  /\ accepting \subseteq {"http", "pipe"}
  /\ late \in BOOLEAN
  /\ requests \in 0..MaxRequests

\* The servers run before main() looks at --filter.
Init ==
  /\ \E filterGiven \in BOOLEAN :
       pc = [p \in Proc |-> IF p # Main THEN "idle"
                            ELSE IF filterGiven THEN "startLock" ELSE "loop"]
  /\ goal = [p \in Proc |-> IF p = Main THEN "boot" ELSE "none"]
  /\ appLock = "free" /\ capturing = FALSE /\ opens = 0
  /\ log = FALSE /\ quit = FALSE
  /\ accepting = {"http", "pipe"} /\ late = FALSE /\ requests = 0

\* A worker that is done has no goal.
Goto(p, place) ==
  /\ pc' = [pc EXCEPT ![p] = place]
  /\ goal' = [goal EXCEPT ![p] = IF place = "idle" THEN "none" ELSE @]

\* main() returned: the process and its threads are gone.
Exited == pc[Main] = "exited"

\* The clean-up's own stop is done: nobody stops a session any more.
CleanedUp == pc[Main] \in {"stopReset", "httpStop", "pipeStop", "exited"}

AfterStop(p) ==
  CASE goal[p] = "filter" -> "startLock"
    [] goal[p] = "exit" -> "httpStop"
    [] OTHER -> "idle"

AfterStart(p) == IF goal[p] = "boot" THEN "loop" ELSE "idle"

------------------------------------------------------------------------------
(* Requests.                                                                *)

\* POST /api/filter and POST /api/stop, or the pipe commands of that name.
Request(w, g) ==
  /\ pc[w] = "idle" /\ requests < MaxRequests
  /\ IF w \in Http THEN "http" \in accepting ELSE "pipe" \in accepting
  /\ g \in {"filter", "stop"}
  /\ pc' = [pc EXCEPT ![w] = "check"]
  /\ goal' = [goal EXCEPT ![w] = g]
  /\ requests' = requests + 1
  /\ UNCHANGED <<appLock, capturing, opens, log, quit, accepting, late>>

\* POST /api/quit, the pipe's "stop", a signal or --timeout.
QuitRequest ==
  /\ ~quit /\ quit' = TRUE
  /\ UNCHANGED <<pc, goal, appLock, capturing, opens, log, accepting, late, requests>>

\* appIsCapturing() before appStopCapture(), without the lock.
Check(w) ==
  /\ pc[w] = "check"
  /\ Goto(w, IF capturing THEN "stopLock" ELSE AfterStop(w))
  /\ UNCHANGED <<appLock, capturing, opens, log, quit, accepting, late, requests>>

------------------------------------------------------------------------------
(* appStopCapture.                                                          *)

StopLock(p) ==
  /\ pc[p] = "stopLock" /\ appLock = "free"
  /\ appLock' = p
  /\ Goto(p, "stopBody")
  /\ UNCHANGED <<capturing, opens, log, quit, accepting, late, requests>>

\* Seeded fault: wasCapturing is not tested.
StopBodyAlways(p) ==
  /\ pc[p] = "stopBody"
  /\ opens' = opens - 1 /\ capturing' = FALSE /\ log' = FALSE
  /\ Goto(p, "stopReset")
  /\ appLock' = "free"
  /\ UNCHANGED <<quit, accepting, late, requests>>

\* divertStop, capturing, statsLogStop; the lock is left.
StopBody(p) ==
  /\ pc[p] = "stopBody"
  /\ IF capturing
     THEN /\ opens' = opens - 1 /\ capturing' = FALSE /\ log' = FALSE
          /\ Goto(p, "stopReset")
     ELSE /\ Goto(p, AfterStop(p))
          /\ UNCHANGED <<opens, capturing, log>>
  /\ appLock' = "free"
  /\ UNCHANGED <<quit, accepting, late, requests>>

\* The report is written and the counters are reset after the lock was left.
StopReset(p) ==
  /\ pc[p] = "stopReset"
  /\ Goto(p, AfterStop(p))
  /\ UNCHANGED <<appLock, capturing, opens, log, quit, accepting, late, requests>>

------------------------------------------------------------------------------
(* appStartCapture.                                                         *)

MayStart == appLock = "free" /\ ~capturing

StartLock(p) ==
  /\ pc[p] = "startLock" /\ MayStart
  /\ appLock' = p
  /\ Goto(p, "startBody")
  /\ UNCHANGED <<capturing, opens, log, quit, accepting, late, requests>>

\* "already capturing": the lock is taken and left again.
StartRefused(p) ==
  /\ pc[p] = "startLock" /\ appLock = "free" /\ capturing
  /\ Goto(p, AfterStart(p))
  /\ UNCHANGED <<appLock, capturing, opens, log, quit, accepting, late, requests>>

\* Seeded fault: an early return without LeaveCriticalSection.
StartDeniedLocked(p) ==
  /\ pc[p] = "startLock" /\ appLock = "free" /\ ~capturing
  /\ appLock' = p
  /\ Goto(p, AfterStart(p))
  /\ UNCHANGED <<capturing, opens, log, quit, accepting, late, requests>>

\* No privileges, or the process filter cannot be built.
StartDenied(p) ==
  /\ pc[p] = "startLock" /\ appLock = "free" /\ ~capturing
  /\ Goto(p, AfterStart(p))
  /\ UNCHANGED <<appLock, capturing, opens, log, quit, accepting, late, requests>>

\* statsReset, then a divertStart that succeeds.
StartBody(p) ==
  /\ pc[p] = "startBody"
  /\ opens' = opens + 1 /\ capturing' = TRUE
  /\ late' = (late \/ CleanedUp)
  /\ Goto(p, "startFiles")
  /\ UNCHANGED <<appLock, log, quit, accepting, requests>>

\* statsReset, then a divertStart that fails.
StartFails(p) ==
  /\ pc[p] = "startBody"
  /\ appLock' = "free"
  /\ Goto(p, AfterStart(p))
  /\ UNCHANGED <<capturing, opens, log, quit, accepting, late, requests>>

\* statsLogStart, pcapExportStart and scenarioStart; the lock is left.  The log
\* is opened if --stats-log was given and the file can be written.
StartFiles(p) ==
  /\ pc[p] = "startFiles"
  /\ log' \in {log, TRUE}
  /\ appLock' = "free"
  /\ Goto(p, AfterStart(p))
  /\ UNCHANGED <<capturing, opens, quit, accepting, late, requests>>

------------------------------------------------------------------------------
(* The main thread.                                                         *)

\* A turn of the loop that finds a session with a log: statsLogTick found the
\* file open and is about to write to it.
Tick ==
  /\ pc[Main] = "loop" /\ ~quit /\ appLock = "free"
  /\ capturing /\ log
  /\ appLock' = Main
  /\ Goto(Main, "tickLog")
  /\ UNCHANGED <<capturing, opens, log, quit, accepting, late, requests>>

TickDone ==
  /\ pc[Main] = "tickLog"
  /\ appLock' = "free"
  /\ Goto(Main, "loop")
  /\ UNCHANGED <<capturing, opens, log, quit, accepting, late, requests>>

\* The clean-up begins: appStopCapture() (pcap replay is a session of its own).
LeaveLoop ==
  /\ pc[Main] = "loop" /\ quit
  /\ pc' = [pc EXCEPT ![Main] = "stopLock"]
  /\ goal' = [goal EXCEPT ![Main] = "exit"]
  /\ UNCHANGED <<appLock, capturing, opens, log, quit, accepting, late, requests>>

\* httpServerStop: nothing of the server is left, or the waits ran out over a
\* thread that lives on and may yet act on a request.
HttpJoin ==
  /\ pc[Main] = "httpStop"
  /\ Goto(Main, "pipeStop")
  /\ \/ /\ \A w \in Http : pc[w] = "idle"
        /\ accepting' = accepting \ {"http"}
     \/ /\ JoinsTimeOut
        /\ UNCHANGED accepting
  /\ UNCHANGED <<appLock, capturing, opens, log, quit, late, requests>>

\* pipeServerStop, likewise, DeleteCriticalSection(&appLock) and the end of main().
PipeJoin ==
  /\ pc[Main] = "pipeStop"
  /\ Goto(Main, "exited")
  /\ \/ /\ \A w \in Pipe : pc[w] = "idle"
        /\ accepting' = accepting \ {"pipe"}
     \/ /\ JoinsTimeOut
        /\ UNCHANGED accepting
  /\ UNCHANGED <<appLock, capturing, opens, log, quit, late, requests>>

------------------------------------------------------------------------------

StopStep(p) == StopLock(p) \/ StopBody(p) \/ StopReset(p)
StartStep(p) ==
  \/ StartLock(p) \/ StartRefused(p) \/ StartDenied(p)
  \/ StartBody(p) \/ StartFails(p) \/ StartFiles(p)
MainStep ==
  \/ Tick \/ TickDone \/ LeaveLoop \/ HttpJoin \/ PipeJoin

Next ==
  /\ ~Exited
  /\ \/ \E w \in Worker : Check(w) \/ \E g \in {"filter", "stop"} : Request(w, g)
     \/ \E p \in Proc : StopStep(p) \/ StartStep(p)
     \/ MainStep
     \/ QuitRequest

Spec == Init /\ [][Next]_vars

------------------------------------------------------------------------------
(* Properties.                                                              *)

\* appLock excludes: the thread it names is inside, and nobody else is.
Excluded == \A p \in Proc : pc[p] \in Inside <=> appLock = p

\* divertStart is never called while a session is open and divertStop only when
\* one is, which is what Capture's Start and StopRequest take for granted; the
\* flag tells the truth whenever the lock is free.
OneSession ==
  /\ opens <= 1
  /\ capturing <=> opens = 1

\* The statistics log never outlives its session: opened under appLock, "exactly
\* as appStopCapture() stops them" (main.cpp).
LogWithSession == log => capturing

\* statslog.cpp has no lock of its own: the main thread never writes to a FILE
\* that a worker's stop has closed.
TickOnOpenLog == pc[Main] = "tickLog" => log

\* The capture is stopped before the servers that can start one: what runs when
\* they are stopped, and when main() returns, was started after that stop.
LeftByLate == CleanedUp /\ capturing => late

LockInv ==
  /\ Excluded
  /\ pc[Main] \notin {"idle", "check"}
  /\ \A w \in Worker :
       pc[w] \notin {"loop", "tickLog", "httpStop", "pipeStop", "exited"}
  /\ \A w \in Worker : goal[w] \in {"none", "filter", "stop"}
  /\ goal[Main] \in {"boot", "exit"}
  /\ pc[Main] \in {"loop", "tickLog", "startLock", "startBody", "startFiles"}
       => goal[Main] = "boot"
  /\ pc[Main] \in {"stopLock", "stopBody", "stopReset", "httpStop", "pipeStop", "exited"}
       => goal[Main] = "exit"

SessionInv ==
  /\ \A p \in Proc : pc[p] = "startBody" => ~capturing
  /\ \A p \in Proc : pc[p] = "startFiles" => capturing

IInv ==
  /\ TypeOK /\ LockInv /\ SessionInv
  /\ OneSession /\ LogWithSession /\ TickOnOpenLog /\ LeftByLate
==============================================================================
