------------------------------- MODULE Scenario -------------------------------
(***************************************************************************)
(* The scenario player (scenario.cpp) with those who drive it: the main    *)
(* loop's tick, which runs inside appLock while a capture runs, a worker   *)
(* of the control API, which takes no lock and so overlaps the tick, and   *)
(* the start and the stop of a capture, which take it.  Calls are made one *)
(* at a time.                                                              *)
(*                                                                         *)
(* Abstractions.  An object of the document is a record: at is -1 without  *)
(* an "at", when is "none" without a "when".  A step sets one parameter.   *)
(* Of the metrics there are the packet counter and elapsed_sec; the others *)
(* are read and compared as the counter is.  The unit of time is the main  *)
(* loop's interval, CLOCK_TICK_MS, of which Second make a second.          *)
(***************************************************************************)
EXTENDS Integers, Sequences, FiniteSets, SequencesExt, Series

CONSTANTS
  Documents,    \* the documents a worker may load: sequences of objects
  Keys, Values, \* parameters and what they are set to
  MaxSteps,     \* MAX_STEPS
  Second,       \* units of time in a second
  Wrap,         \* the clock is a DWORD: it wraps at this value
  Boot,         \* the clock when the program starts
  MaxTime,      \* bound on the time that passes
  LastCall,     \* bound: no call comes after this time
  MaxCalls,     \* bound on the calls
  MaxCaptured   \* bound on the packets counted

Objects == UNION {ToSet(doc) : doc \in Documents}
Never == 1000000  \* 0x7FFFFFFF, above every "at"

ASSUME ScenarioAssumption ==
  /\ Documents \subseteq Seq(Objects)
  /\ Objects \subseteq [at : Int, when : {"none", "captured_count", "elapsed_sec"}, value : Int,
                       repeat : Int, times : Int, key : Keys, set : Values]
  /\ \A o \in Objects : o.at < Never
  /\ MaxSteps \in Nat \ {0} /\ Second \in Nat \ {0} /\ Wrap \in Nat \ {0}
  /\ MaxTime \in Nat /\ MaxCaptured \in Nat /\ Boot \in 0..Wrap-1 /\ 0 \notin Values

Unset == 0  \* not set by any step yet

VARIABLES
  steps, nSteps,         \* the loaded steps
  active,                \* a scenario is being played
  startMs,               \* the clock when it was started
  settings,              \* the parameters the steps write
  capturesNow, captured, \* a capture runs; statsCapturedTotal
  tick,                  \* where scenarioTick() stands
  call,                  \* where the caller stands
  time,                  \* the true time
  ticked,                \* the main loop has had its turn in this unit of time
  calls,                 \* calls made
  document,              \* what was loaded last
  started,               \* when the last start came, -1 once something else came
  firedAt,               \* when each step was fired last in this play
  overlapped             \* a tick ran while the last load or start was being made

player == <<steps, nSteps, active, startMs, settings>>
app == <<capturesNow, captured>>
clock == <<time, ticked>>
ghosts == <<calls, document, started, firedAt, overlapped>>
scenarioVars == <<player, app, tick, call, clock, ghosts>>

Index == 1..MaxSteps
Clock == (Boot + time) % Wrap
Since(now, then) == (now - then) % Wrap

\* The step parseObject() makes of an object, and whether it is of use.
Usable(o) == o.when # "none" \/ o.at >= 0
StepOf(o) ==
  [trigger |-> IF o.when # "none" THEN "condition" ELSE "time",
   at |-> o.at, when |-> o.when, value |-> o.value, repeat |-> o.repeat, times |-> o.times,
   key |-> o.key, set |-> o.set, fireCount |-> 0, nextFireMs |-> 0, done |-> FALSE]
BlankStep ==
  StepOf([at |-> -1, when |-> "none", value |-> 0, repeat |-> 0, times |-> 0,
          key |-> CHOOSE k \in Keys : TRUE, set |-> Unset])

Resting == [pc |-> "idle", i |-> 0, now |-> 0, elapsed |-> 0, remaining |-> 0]
NoCall == [pc |-> "idle", i |-> 0, rest |-> <<>>, appLock |-> FALSE]

ScenarioInit ==
  /\ steps = [i \in Index |-> BlankStep] /\ nSteps = 0
  /\ active = FALSE /\ startMs = 0 /\ settings = [k \in Keys |-> Unset]
  /\ capturesNow = FALSE /\ captured = 0
  /\ tick = Resting /\ call = NoCall /\ time = 0 /\ ticked = FALSE
  /\ calls = 0 /\ document = <<>> /\ started = -1 /\ firedAt = [i \in Index |-> -1]
  /\ overlapped = FALSE

\* One call after the other; the worker's wait for no tick.
MayCall == call.pc = "idle" /\ calls < MaxCalls /\ time <= LastCall

------------------------------------------------------------------------------
(* Loading.                                                                 *)

\* scenarioParse() forgets what was loaded.
LoadBegin(doc) ==
  /\ MayCall
  /\ nSteps' = 0
  /\ call' = [NoCall EXCEPT !.pc = "parse", !.rest = doc]
  /\ calls' = calls + 1 /\ document' = doc /\ started' = -1
  /\ overlapped' = (tick.pc # "idle")
  /\ UNCHANGED <<steps, active, startMs, settings, app, tick, clock, firedAt>>

\* One object; a step without a trigger is overwritten by the next.
LoadObject ==
  /\ call.pc = "parse" /\ call.rest # <<>> /\ nSteps < MaxSteps
  /\ steps' = [steps EXCEPT ![nSteps + 1] = StepOf(Head(call.rest))]
  /\ nSteps' = IF Usable(Head(call.rest)) THEN nSteps + 1 ELSE nSteps
  /\ call' = [call EXCEPT !.rest = Tail(@)]
  /\ UNCHANGED <<active, startMs, settings, app, tick, clock, ghosts>>

SortKey(s) == IF s.trigger = "time" THEN s.at ELSE Never

\* Seeded fault: a step goes before those with the same key.
InsertBeforeEqual(sorted, s) ==
  LET k == Cardinality({i \in DOMAIN sorted : SortKey(sorted[i]) < SortKey(s)})
  IN InsertAt(sorted, k + 1, s)

\* A step goes behind those with its key or a smaller one.
Insert(sorted, s) ==
  LET k == Cardinality({i \in DOMAIN sorted : SortKey(sorted[i]) <= SortKey(s)})
  IN InsertAt(sorted, k + 1, s)

\* sortSteps(), an insertion sort: one step after the other is put in.
Sorted(s, n) ==
  LET sorted[k \in 0..n] == IF k = 0 THEN <<>> ELSE Insert(sorted[k - 1], s[k])
  IN sorted[n]

LoadSort ==
  /\ call.pc = "parse" /\ (call.rest = <<>> \/ nSteps >= MaxSteps)
  /\ steps' = [i \in Index |-> IF i <= nSteps THEN Sorted(steps, nSteps)[i] ELSE steps[i]]
  /\ call' = NoCall
  /\ UNCHANGED <<nSteps, active, startMs, settings, app, tick, clock, ghosts>>

------------------------------------------------------------------------------
(* Starting and stopping.                                                   *)

\* scenarioStart() raises active, then clears the steps one by one.
Begin(locked) ==
  IF nSteps = 0
  THEN call' = NoCall /\ UNCHANGED <<active, startMs, started, firedAt, overlapped>>
  ELSE /\ startMs' = Clock /\ active' = TRUE
       /\ started' = time /\ firedAt' = [i \in Index |-> -1]
       /\ overlapped' = (tick.pc # "idle")
       /\ call' = [NoCall EXCEPT !.pc = "clear", !.i = 1, !.appLock = locked]

\* apiScenarioStart()
StartBegin ==
  /\ MayCall /\ nSteps > 0
  /\ Begin(FALSE)
  /\ calls' = calls + 1
  /\ UNCHANGED <<steps, nSteps, settings, app, tick, clock, document>>

\* Seeded fault: done is not cleared.
StartClearKeepsDone ==
  /\ call.pc = "clear"
  /\ steps' = [steps EXCEPT ![call.i] = [@ EXCEPT !.fireCount = 0, !.nextFireMs = 0]]
  /\ call' = IF call.i < nSteps THEN [call EXCEPT !.i = @ + 1] ELSE NoCall
  /\ UNCHANGED <<nSteps, active, startMs, settings, app, tick, clock, ghosts>>

StartClear ==
  /\ call.pc = "clear"
  /\ steps' = [steps EXCEPT ![call.i] =
                 [@ EXCEPT !.fireCount = 0, !.done = FALSE, !.nextFireMs = 0]]
  /\ call' = IF call.i < nSteps THEN [call EXCEPT !.i = @ + 1] ELSE NoCall
  /\ UNCHANGED <<nSteps, active, startMs, settings, app, tick, clock, ghosts>>

\* apiScenarioStop()
Stop ==
  /\ MayCall
  /\ active' = FALSE
  /\ calls' = calls + 1 /\ started' = -1
  /\ UNCHANGED <<steps, nSteps, startMs, settings, app, tick, call, clock, document, firedAt, overlapped>>

\* appStartCapture(): the counters are cleared, then the scenario is started.
CaptureStart ==
  /\ MayCall /\ ~capturesNow /\ tick.pc = "idle"
  /\ capturesNow' = TRUE /\ captured' = 0
  /\ Begin(TRUE)
  /\ calls' = calls + 1
  /\ UNCHANGED <<steps, nSteps, settings, tick, clock, document>>

\* appStopCapture()
CaptureStop ==
  /\ MayCall /\ capturesNow /\ tick.pc = "idle"
  /\ active' = FALSE
  /\ capturesNow' = FALSE /\ captured' = 0
  /\ calls' = calls + 1 /\ started' = -1
  /\ UNCHANGED <<steps, nSteps, startMs, settings, tick, call, clock, document, firedAt, overlapped>>

------------------------------------------------------------------------------
(* The tick.                                                                *)

TickBegin ==
  /\ tick.pc = "idle" /\ ~call.appLock
  /\ capturesNow /\ active /\ nSteps > 0
  /\ ~ticked /\ ticked' = TRUE
  /\ tick' = [pc |-> "loop", i |-> 1, now |-> Clock, elapsed |-> Since(Clock, startMs), remaining |-> 0]
  /\ overlapped' = (overlapped \/ call.pc # "idle")
  /\ UNCHANGED <<player, app, call, time, calls, document, started, firedAt>>

Metric(name) ==
  IF name = "captured_count" THEN captured
  ELSE tick.elapsed \div Second

\* A step waiting to be fired again looks at the time only.
Due(s) ==
  IF s.nextFireMs # 0 THEN tick.now >= s.nextFireMs
  ELSE IF s.trigger = "time" THEN s.at <= tick.elapsed \div Second
  ELSE Metric(s.when) >= s.value

\* Seeded fault: one fire too many.
RetiredLate(s) ==
  IF s.repeat > 0 /\ (s.times <= 0 \/ s.fireCount <= s.times)
  THEN [s EXCEPT !.nextFireMs = (tick.now + s.repeat * Second) % Wrap]
  ELSE [s EXCEPT !.done = TRUE]

\* retireStep(), after applyStep() has counted the fire.
Retired(s) ==
  IF s.repeat > 0 /\ (s.times <= 0 \/ s.fireCount < s.times)
  THEN [s EXCEPT !.nextFireMs = (tick.now + s.repeat * Second) % Wrap]
  ELSE [s EXCEPT !.done = TRUE]

InLoop == tick.pc = "loop" /\ tick.i <= nSteps

\* Seeded fault: a spent step counts as remaining, remaining++ above the test.
TickSkipCountsDone ==
  /\ InLoop
  /\ steps[tick.i].done \/ ~Due(steps[tick.i])
  /\ tick' = [tick EXCEPT !.i = @ + 1, !.remaining = @ + 1]
  /\ UNCHANGED <<player, app, call, clock, ghosts>>

TickSkip ==
  /\ InLoop
  /\ steps[tick.i].done \/ ~Due(steps[tick.i])
  /\ tick' = [tick EXCEPT !.i = @ + 1,
                          !.remaining = IF steps[tick.i].done THEN @ ELSE @ + 1]
  /\ UNCHANGED <<player, app, call, clock, ghosts>>

TickFire ==
  /\ InLoop
  /\ ~steps[tick.i].done /\ Due(steps[tick.i])
  /\ LET i == tick.i
         s == Retired([steps[i] EXCEPT !.fireCount = @ + 1])
     IN /\ settings' = [settings EXCEPT ![s.key] = s.set]
        /\ steps' = [steps EXCEPT ![i] = s]
        /\ firedAt' = [firedAt EXCEPT ![i] = time]
        /\ tick' = [tick EXCEPT !.i = @ + 1, !.remaining = IF s.done THEN @ ELSE @ + 1]
  /\ UNCHANGED <<nSteps, active, startMs, app, call, clock, calls, document, started, overlapped>>

\* The scenario ends by itself once every step is spent.
TickEnd ==
  /\ tick.pc = "loop" /\ tick.i > nSteps
  /\ active' = IF tick.remaining = 0 THEN FALSE ELSE active
  /\ tick' = Resting
  /\ UNCHANGED <<steps, nSteps, startMs, settings, app, call, clock, ghosts>>

\* A packet is counted.
Packet ==
  /\ capturesNow /\ captured < MaxCaptured
  /\ captured' = captured + 1
  /\ UNCHANGED <<player, capturesNow, tick, call, clock, ghosts>>

\* A tick takes far less than a unit of time, and there is one in each.
Elapse ==
  /\ time < MaxTime /\ tick.pc = "idle" /\ call.pc = "idle"
  /\ ticked \/ ~capturesNow \/ ~active \/ nSteps = 0
  /\ time' = time + 1 /\ ticked' = FALSE
  /\ UNCHANGED <<player, app, tick, call, ghosts>>

ScenarioTick == TickBegin \/ TickSkip \/ TickFire \/ TickEnd
Calling == LoadObject \/ LoadSort \/ StartClear

ScenarioNext ==
  \/ \E doc \in Documents : LoadBegin(doc)
  \/ StartBegin \/ Stop \/ CaptureStart \/ CaptureStop
  \/ Calling \/ ScenarioTick \/ Packet \/ Elapse

\* The tick comes every 200 ms, calls return, and time passes.
ScenarioFairness == WF_scenarioVars(ScenarioTick) /\ WF_scenarioVars(Calling) /\ WF_scenarioVars(Elapse)
ScenarioSpec == ScenarioInit /\ [][ScenarioNext]_scenarioVars /\ ScenarioFairness

------------------------------------------------------------------------------
(* Properties.                                                              *)

Loaded == 1..nSteps

\* The objects of the document that make a step.
UsableObjects == Only(document, {o \in Objects : Usable(o)})

\* The variables have the values their declarations promise.
ScenarioTypeOK ==
  /\ nSteps \in 0..MaxSteps /\ DOMAIN steps = Index
  /\ \A i \in Index : steps[i].fireCount \in Nat /\ steps[i].nextFireMs \in 0..Wrap-1
  /\ active \in BOOLEAN /\ ticked \in BOOLEAN /\ startMs \in 0..Wrap-1
  /\ settings \in [Keys -> Values \cup {Unset}]
  /\ captured \in 0..MaxCaptured /\ capturesNow \in BOOLEAN
  /\ tick.pc \in {"idle", "loop"} /\ tick.i \in 0..MaxSteps+1
  /\ tick.remaining \in 0..MaxSteps
  /\ call.pc \in {"idle", "parse", "clear"}

\* What a step is, without what playing it writes.
Plan(s) == [s EXCEPT !.fireCount = 0, !.nextFireMs = 0, !.done = FALSE]

\* After a load the steps are the first MaxSteps usable objects, the timed ones
\* by their second and, within a second, as in the file, the conditions last.
LoadedInOrder ==
  call.pc = "idle" =>
    LET usable == UsableObjects
        kept == IF Len(usable) < MaxSteps THEN Len(usable) ELSE MaxSteps
        K(i) == SortKey(StepOf(usable[i]))
        Rank(i) == Cardinality({j \in 1..kept : K(j) < K(i) \/ (K(j) = K(i) /\ j <= i)})
    IN /\ nSteps = kept
       /\ \A i \in 1..kept : Plan(steps[Rank(i)]) = StepOf(usable[i])

\* A step is fired once, or as often as "times" says if it repeats.
FiredAtMostTimes ==
  call.pc = "idle" /\ ~overlapped =>
    \A i \in Loaded :
      steps[i].repeat <= 0 \/ steps[i].times > 0 =>
        steps[i].fireCount <= IF steps[i].repeat > 0 THEN steps[i].times ELSE 1

\* When the step fired last at t is to be fired again lies behind the wrap, where
\* the tick's comparison of two clock values is wrong.
BehindWrap(s, t) == ((Boot + t) % Wrap) + s.repeat * Second >= Wrap

\* A step that is fired is due: its second has come, and a repetition, but for one
\* behind the wrap, comes no earlier than "repeat" seconds after the last fire.
FiredNotEarly ==
  \A i \in Index :
    ~overlapped /\ firedAt'[i] # firedAt[i] /\ firedAt'[i] # -1 =>
      /\ steps[i].trigger = "time" /\ started # -1 => time - started >= steps[i].at * Second
      /\ steps[i].fireCount > 0 /\ firedAt[i] # -1 /\ ~BehindWrap(steps[i], firedAt[i]) =>
           time - firedAt[i] >= steps[i].repeat * Second

\* Nor is it late: at the end of a tick every timed step whose second has come
\* has been fired, for as long as the play is shorter than the clock's round.
FiredWhenDue ==
  /\ call.pc = "idle" /\ tick.pc = "idle" /\ ~overlapped
  /\ ticked /\ active /\ started # -1 /\ time - started < Wrap
  => \A i \in Loaded :
       steps[i].trigger = "time" /\ time - started >= steps[i].at * Second /\ started < time =>
         steps[i].fireCount > 0

\* The timed steps of a play are fired in the order of their seconds.
PlayedInOrder ==
  call.pc = "idle" /\ ~overlapped =>
    \A i, j \in Loaded :
      /\ steps[i].trigger = "time" /\ steps[j].trigger = "time"
      /\ steps[i].at < steps[j].at /\ steps[j].fireCount > 0
      => steps[i].fireCount > 0

\* Once timed steps that do not repeat are all spent, each parameter has the
\* value of the last step that names it: the latest second, then the file order.
FinalSettings ==
  LET usable == UsableObjects
      Naming(k) == {i \in DOMAIN usable : usable[i].key = k}
      Later(i, j) == usable[i].at > usable[j].at \/ (usable[i].at = usable[j].at /\ i >= j)
  IN call.pc = "idle" /\ ~overlapped /\ nSteps = Len(usable)
     /\ (\A i \in Loaded : steps[i].done /\ steps[i].trigger = "time" /\ steps[i].repeat <= 0)
     => \A k \in Keys : \A i \in Naming(k) :
          (\A j \in Naming(k) : Later(i, j)) => settings[k] = usable[i].set

\* A scenario that was started is played until every step is spent, and does not
\* end early because of the play before.  The exception: a tick that overlaps the
\* start finds active raised and the steps not cleared yet, and ends the play.
RestartPlays ==
  call.pc = "idle" /\ ~overlapped /\ started # -1 /\ ~active => \A i \in Loaded : steps[i].done

\* A scenario that is played while packets are captured, and whose steps are all
\* timed and do not repeat forever, comes to its end, unless it is replaced.
PlayEnds ==
  (/\ active /\ started # -1
   /\ \A i \in Loaded : steps[i].trigger = "time" /\ (steps[i].repeat <= 0 \/ steps[i].times > 0))
  ~> (~active \/ ~capturesNow \/ started = -1)

\* The table of steps is the document's, whatever overlaps, and, unless a tick
\* ran while it was loaded or started, is played from its front, each step as
\* often as asked.
ScenarioConsistent == ScenarioTypeOK /\ LoadedInOrder /\ PlayedInOrder /\ FiredAtMostTimes

\* A play that has ended was a whole one, and left the settings it should, unless
\* a tick ran while it was loaded or started.
PlayedOut == FinalSettings /\ RestartPlays

\* Unless a tick ran while they were loaded or started, steps are fired when they
\* are due, neither before nor after, but for repetitions behind the clock's wrap.
Punctual == [][FiredNotEarly /\ FiredWhenDue']_scenarioVars
==============================================================================
