# A verification development for clumsy

clumsy degrades a machine's network traffic on purpose: packets that an
iptables rule (or WinDivert) diverts to the program wait in a list, run through
a pipeline of twelve modules (lag, jitter, drop, burstloss, blackout, throttle,
duplicate, ood, tamper, corrupt, reset, bandwidth) and are then given back to
the kernel.  It is controlled while it runs: by a web dashboard, a control
socket, scenario files and the command line.  This directory holds TLA+
modules of the parts where threads, time and failures meet, the TLC
configurations that check them and the TLAPS proofs about them.  Line numbers
below are those of the files in `src/`.

## 1. Inventory

| component (file) | state | operations | hard behaviour | what makes it correct |
|---|---|---|---|---|
| Linux capture backend (`divert_linux.cpp`) | queue and socket handles, `stopLooping`, two threads, a mutex, verdict flags | `divertStart`, `divertStop`, read loop, clock loop, `nfqCallback`, `divertConsumeStep`, `sendAllListPackets` | two threads and a stop, flags changed meanwhile, a queue that goes away with packets unanswered; starts that fail half-way, loops that outlive the waits | each queued id answered once; no packet lost, used after free or left behind; handles outlive their users; calls return |
| packet list (`packet.cpp`) | doubly linked list | create, clone, free, pop, insert | only consistent inside the mutex | a node has one place |
| lag, jitter (`lag.cpp`, `jitter.cpp`) | FIFO buffer with 32-bit time stamps | start, close, process | tick wrap, full buffer | nobody waits (much) longer than configured; order kept by lag |
| throttle, ood (`throttle.cpp`, `ood.cpp`) | buffer, start tick | start, close, process | tick 0 as a sentinel, limits that change | everything is let out again, as a permutation |
| bandwidth (`bandwidth.cpp`) | FIFO buffer, token bucket | start, close, process | full buffer, limit 0 | only overflow is dropped, order kept |
| drop, duplicate, tamper, corrupt, reset | counters, chances | process | out of memory | nothing leaks |
| blackout, burstloss | phase machine, two-state chain | process, trigger | a trigger that changes the phase the timer measures; wrap | an outage lasts as long as asked and comes when its gap is over |
| application control (`main.cpp`) | `capturing`, current filter, `appLock`, quit flags | start, stop, tick, clean-up | requests of many workers, shutdown while a worker starts a capture | one session at a time; its counters are its own; nothing runs on after clean-up |
| control API, HTTP, pipe (`controlapi.cpp`, `httpserver.cpp`, `pipe.cpp`) | connection count, stop flags, listeners | accept loop, connection threads, event streams, one handler per command, stop | check-then-act, cap, slow clients, bounded joins | the count is true and capped; a joined transport is quiet; quitting ends |
| scenario player (`scenario.cpp`) | steps, start time | load, start, stop, tick | loaded by a worker while the main loop ticks; repeat timers | each step fires when due, as often as asked |
| pcap export, replay (`pcapexport.cpp`, `pcapreplay.cpp`) | file, counters, thread handle, active and stop flags | start, stop, write, thread | lock-free gate, stop racing with start, corrupt file in a loop | no write to a closed file, one replay at a time, stop ends it |
| latency histogram (`latency.cpp`) | 13 buckets, totals | record, reset, percentile | lock-free writer, locked reset, a sum in two parts | between records the histogram is the session's; a percentile finds its rank |
| statistics log, report (`statslog.cpp`, `report.cpp`) | last count, samples, final totals | start, tick, stop | started and stopped under `appLock`, the counters reset outside it | a session's numbers are its own |
| profiles, presets (`profile.cpp`, `main.cpp`) | tables, files | save, apply, delete | concurrent workers, full table, cut names, a file truncated and written again | a saved profile is found again, others are untouched |
| iptables rules (`iptables_linux.cpp`) | installed rules | install, roll back, remove | failing commands half-way, rules of others in the same chains | never half a rule set; none left behind; injected packets do not come back |
| filter language (`filterexpr.cpp`) | compiled program | compile, match, derive rules | more rules than fit, terms iptables cannot express | grammar and precedence; the rules are a superset of the filter |
| platform layer (`platform_linux.cpp`) | reference-counted handles | create, wait, close | a thread outliving its handle | freed once, after both owners |
| process filter, packet editing, plugins, elevation, JSON | none to speak of | parse, evaluate, edit | - | pure functions and I/O |

Threads and what they share:

    read loop  --mutex-->  list, module buffers  <--mutex--  clock loop
        ^                                                       ^
        | stopLooping, queue handle                             |
    divertStart / divertStop  <--appLock--  HTTP and pipe workers, main loop
    enabled flags, parameters:  written by workers and the scenario without a lock,
                                read by both loops

## 2. Plan

In the order of importance to a user whose traffic depends on the program.
Each step is a module, its runs and, where it is marked (P), its proofs.

| step | modules | question | state |
|---|---|---|---|
| 1 | `NfQueue`, `Capture` (P) | is every packet the kernel hands over answered, once, by two loops, a start and a stop? | done, refinement proved |
| 2 | `App` (P) | do many workers and the main thread open and close one session at a time, and does the program end cleanly? | done |
| 3 | `Queues` (P) | how long, and in which order, do the holding modules keep packets; when do blackout and burstloss lose them? | done |
| 4 | `Replay` (P) | one replay at a time, ended by a stop, handles freed once? | done |
| 5 | `Rules`, `Filter`, `Chains` (P), `Iptables` | does a filter mean what its grammar says, do the derived rules queue all it matches, and are the chains restored whatever fails? | done |
| 6 | `Scenario` (P) | is each step fired when due, as often as asked, in each play anew? | done |
| 7 | `PcapExport` (P) | the lock-free gate `pcapActive`, limits, a start that replaces a running export, failing writes | done |
| 8 | `Profiles` (P) | saved is restored, others are kept, and what a kill leaves of the file | done |
| 9 | `Lifecycle` (P) | failing starts, loops that hang, the stop that gives up on its threads and the start after it | done |
| 10 | `Servers` (P) | the cap on connections, slow clients, the joins of the clean-up | done, refinement of `App` proved |
| 11 | `Stats` (P) | are the numbers of a session its own, with resets outside the lock and a writer without one? | done |
| 12 | - | the runaway guard of raw-socket injection; the Windows backend | later |

What composes what.  `Servers` extends `App`: every step of the two transports
is a step of `App` or leaves it alone (`AppSpec`).  `App`'s variable `opens` is
`Capture`'s session, seen from outside (`App!OneSession` is the assumption under
which `Capture!Start` needs no case "already running").  `Capture` implements
`NfQueue`.  `Lifecycle` is `Capture`'s `Start` and `StopJoin` with everything
that can fail in them, and with critical sections in place of packets.
`Queues` is the detail behind `Capture`'s nondeterministic `LagProcess` and
`BandwidthProcess`: it forgets threads and verdicts and keeps order and time.
`Chains` is what `Capture`'s `Start` and `StopJoin` do with iptables rules, for any
compiler of filters; `Iptables` gives it that of `Filter`, whose `Match` is the test
behind `Capture!ReadPass`.  Both know from `Rules` what a rule is.  `Stats` is
`App`'s `StartBody`, `StopBody` and `StopReset` with the numbers they reset and
keep.  `Scenario` and `PcapExport` take from `App` that start, stop and tick run
inside `appLock` (`App!Excluded`).

Abstract specifications: `NfQueue`, which `Capture` implements; `App`, which
`Servers` implements; `Filter!Grammar`, with which the parser agrees.  That
`Queues` only delays and that a capture file is written between its open and its
close are stated as invariants (`InOrder`, `Conserved`; `GateOpen`,
`FilesAsAsked`) and action properties, not as abstract machines.

All theorems the plan had are proved; section 5 says what is left to TLC and why.

## 3. What is modelled

Conventions.  A module's variables and actions carry the names of the source
where TLA+ allows it.  Each action is one step between two points at which
another thread can look.  Definitions that are introduced by the comment
"Seeded fault" stand before the definition they spoil; nothing in a
specification uses them, they say which slip of the code each property would
notice.

### `NfQueue` - what the kernel is promised

`fate` of each packet id: unseen, queued, accepted, dropped, or flushed (thrown
away by the kernel when the queue goes).  The program may answer pending ids,
each once, and destroy the queue.  Threads, list and modules are not visible.

### `Capture` - the capture backend, `divert_linux.cpp` and `divert.cpp`'s structure

State: `ctl` (where divertStart and divertStop stand), `stopLooping`, the places
`rpc` and `cpc` of the read loop and the clock loop, `mutex`, `stage` (which
module the holder of the mutex visits), the read buffer `msg`, the kernel's
`fate`, the sets `received`, `captured`, `issued` (verdictIssued), the `list`,
each module's `buffer`, and the flags `enabled`, `lastEnabled`, `linked`
(`bufHead`/`bufTail` have been linked to each other).

Actions: `Arrive`; `ReadReceive`, `ReadFail`, `ReadStop`, `ReadDiscard`,
`ReadPass`, `ReadCapture`; `ClockAcquire`, `ClockSkip`, `ClockCheck`,
`ClockFinal`; `RunStage` (one turn of the module loop of divertConsumeStep),
`CloseStage` (one turn of the closing loop), `SendOne`, `Release`; `Start`,
`StopRequest`, `StopJoin`, `Toggle`; and `CloseUnlinked`, the crash.

Abstractions.  Packets are ids and the list and buffers are sets: order is
`Queues`' subject.  Which packets match the filter, a direction switch or a
chance, and when a delay has expired, is nondeterministic.  `ReadPass` covers
the three reasons for which nfqCallback accepts at once: empty payload, filter
mismatch, out of memory.  `Clone` is the memory for synthetic packets.
The pipeline is built from one module of each way to treat packets: hold all
(lag; also jitter, throttle, ood), free some (drop; also burstloss, blackout
and a throttle that drops), add some (duplicate), hold and free the overflow
(bandwidth).  tamper, corrupt and reset change bytes or add packets as duplicate does and leave
list and buffers as they are.  Only successful starts and joined stops are
modelled here; the others are `Lifecycle`'s.

Flags change at any time (`controlapi.cpp`, `pipe.cpp` and `scenario.cpp` write
them without the mutex).  `rested` remembers whether they did so in a session:
`CleanStop` is promised only if they did not, and everything else regardless.

### `App` - application control, `main.cpp`

State: each thread's place `pc` and its `goal`, `appLock`, `capturing`, the
number `opens` of sessions, whether the statistics `log` is open, `quit`, which
transports are `accepting`, how many `requests` came, and `late`, which remembers
that a session was opened after the clean-up's own stop.  Threads are the HTTP
connection threads, the control-socket thread and the main thread.

Actions: `Request`, `QuitRequest`, `Check` (appIsCapturing() read without the
lock); `StopLock`, `StopBody`, `StopReset`; `StartLock`, `StartRefused`,
`StartDenied`, `StartBody`, `StartFails`, `StartFiles`; `Tick`, `TickDone`,
`LeaveLoop`, `HttpJoin`, `PipeJoin`.

Abstractions.  The current filter string, pcap export and scenario are left out
(the last two have modules of their own).  `JoinsTimeOut` says whether the
bounded waits of the clean-up may run out.

### `Servers` - the transports, `httpserver.cpp` and `pipe.cpp`

Extends `App`.  State: what each worker does outside of `App` (`place`: reading
a request, inside `App`, streaming events, closing), the accept loop's place
`acceptor`, the counter `activeConnections`, and how far httpServerStop() has
got with the `listener`.

Actions: `LoopHead`, `Accept`, `AcceptWoken`, `Cap`, `Spawn`, `SpawnFails`; `Route`,
`RouteQuit`, `RouteStream`, `Answer`, `Deadline`, `Respond`, `StreamLost`,
`StreamEnds`, `Close`; `PipeAccept`; `CloseListener`, `JoinAcceptor`, `Drain`,
`PipeDrain`; and `AppStep`, the steps of `App` the transports have no part in.
`Route` is `App!Request`, `Drain` and `PipeDrain` are `App!HttpJoin` and
`App!PipeJoin`.

Abstractions.  What is read, parsed and checked of a request is one choice
between the kinds of routes; a client may stop sending, close or connect at any
time.  That close() need not wake an accept() on Linux is the choice between
`AcceptWoken` and a late `Accept`.

### `Lifecycle` - starts that fail and stops that give up, `divert_linux.cpp`

State: the caller's place `ctl`, the number of the `session`, the globals
`nfqHandle`, `nfqQueue` and `mutex` (each the number of the start that made what
it points to, 0 for NULL), which handles are `open`, the `owner` of the kernel's
queue number, `stopLooping`; for each loop its `pc`, the mutex it `waits` for or
holds, the handle it `uses`, and whether it is `wedged` in a call; and `torn`,
which remembers that a failed start took queue and handle from live loops.

Actions: `Open`, `OpenFails`, `BindPfFails`, `CreateQueue`, `CreateQueueFails`,
`SetModeFails`, `CreateMutex`, `CreateThread`, `InstallRules`, `Unwind`, `Fail`;
`StopRequest`, `StopJoin`, `GiveUp`; `ReadStop`, `ReadReceive`, `ReadFail`,
`ReadLock`, `ClockWait`, `ClockCheck`, `ClockFinal`, `Leave` and `Wedge`.

Abstractions.  A critical section is one step that may last longer than any
wait.  Of a start that fails before it has a handle there is what it does to
`nfqHandle` (`OpenFails`); the program `filterProg`, which every start overwrites
first, has no counterpart here.  A loop that cannot release the mutex it is given calls ABORT(), which is `aborted`
(`divert_linux.cpp:580`); a release build compiles that
to nothing and goes on with the old mutex kept, which is not followed further.

### `Queues` - lag, jitter, throttle, ood, bandwidth, burstloss, blackout

State: the `pipeline` in use, a `clock` of `Modulus` values, the ticks `late` since the last consume
step, `stage`, the `list` and each module's `buf` as sequences from head to
tail, flags `on` and `lastOn`, `lagTime`, `frameFrom` (throttleStartTick), blackout's
phase (`dark`, `phaseFrom`, `trigger`) and burstloss's state `burst`, and the
results `arrived`, `sent`, `lost`, `measured` (what latencyRecord got).

Actions: `Receive` and `ClockRun` begin a consume step; `Visit(m)` is a module's
turn, start, process or closeDown; `Send` is sendAllListPackets; `Toggle`,
`Trigger`, `SetLagTime`, `Tick`.

Abstractions.  A consume step takes no time, and flags and parameters change
between steps (`Capture` has the interleavings).  Chances, jitter's
distribution, bandwidth's limit and packet sizes are nondeterministic: any
number of packets from bandwidth's tail may be paid for.  `waited`, `delay` and
`phaseAge` are values of the model, by which the properties know the truth about
an entry and a phase.  `Bypass` are packets a direction switch excludes.

The clock starts anywhere and wraps in every pipeline.  lag and jitter compare
absolute values, and throttle uses 0 for "none"; what that does to a packet is
named in the properties (see the observations).  `Misled`: a packet that lag or
jitter takes shortly before the wrap, or throttle at tick 0; `Excused`: also one
that has waited for `Longest`, and those behind such a one in lag's buffer;
`forgot`, a variable of the model: throttle held packets of a frame that it took
for none.

`Series` holds two operators on sequences, the sum of a beginning and the
selection of the elements in a set, as recursive functions.  The loops of the
modules over a list or a buffer are selections (`Only`) or ends of sequences
(`Rear`, `Fore`, `Run`); `PcapExport` sums the lengths of a file's records, `Stats` the delays of a session
and the buckets a percentile walks through.

### `Stats` - what a session leaves in numbers, `latency.cpp`, `statslog.cpp`, `report.cpp`

State: each worker's place `pc` and the `cell` its statsReset() has got to,
`appLock` and `latencyLock`, `session` and `open`, `captured`
(statsCapturedTotal), the histogram (`bucket`, `total`, `minMs`, `maxMs`,
`sumLow`, `sumHigh`), the latencyRecord() and latencyPercentile() under way
(`rec`, `read`), the `log`'s last count and the `report`; and what the
properties know: `counted` and `recorded` for each session, and how many resets
of stops were `late`, still to come when it opened.

Actions: `Capture`; `RecordBucket`, `RecordMin`, `RecordMax`, `RecordSum`,
`RecordLow`, `RecordTotal`, one store each; `ResetCell`, one store or lock
operation of statsReset(); `Start`, `DivertStart`, `DivertStartFails`,
`OpenFiles`, `Stop`, `Tick`; `ReadBegin`, `ReadBucket`, `ReadEnd`.

Abstractions.  The number sent and the modules' counters go the way of
`captured`.  Intervals of rows and samples, interpolation within a bucket, and
all text are left out.

### `Replay` - replay of a capture file, `pcapreplay.cpp`

State: the callers' places `cpc` and the handle each has `held`, `lock`
(replayLock), `active`, `stop`, `slot` (replayThread), `loop` (standing for all
settings), for each replay thread its place `tpc`, its copy `loops` and the
owners `refs` of its handle, the injection `sockets`, the counters `read`,
`sent`, `failed`, and `calls`.

Actions: `Call`; `StartRefused`, `StartArm`, `StartCreate`, `StartNoThread`;
`StopTake`, `StopWait` (finished, or the wait ran out), `StopClose`; `Alloc`,
`NoMemory`, `Copy`, `Open`, `ReadRecord`, `Pace`, `Inject`, `Finish`, `Again`,
`CloseSockets`, `ClearActive`, `Return`, `ReleaseHandle`.

Abstractions.  The file's contents, failures of files, memory, threads and
sockets, and the pacing are nondeterministic.  The handle's counter is the
reference count of `platform_linux.cpp`.

### `Rules`, `Filter`, `Chains` and `Iptables` - `filterexpr.cpp`, `iptables_linux.cpp`

`Filter` has no state.  `ParseOr`, `ParseAnd`, `ParseNot` and `ParsePrimary` are
the recursive-descent parser over words, `Compile` is filterCompile, `Match` is
filterMatch, `Collect`, `SplitOr`, `EmitRules`, `DedupeRules` and `Derive` are
filterDeriveIptables; `Grammar` is what the parser is compared with, written
independently of it.  A comparison ("tcp.DstPort >= 2") is one word, because
parsePrimary takes its three tokens together or fails.

`Chains` has the expression `words`, the place `pc` of divertStart/divertStop,
`prog`, whether the `queue` is bound and the `loops` run, the commands `todo`,
the array `installed`, the kernel's `chain`s, and `before`, the chains as they
would be without this run.  Actions: `Type`; `StartRefused`, `StartCapture`,
`InstallOk`, `InstallFails`, `InstallDone`, `UnwindThreads`; `StopCapture`,
`RemoveOk`, `RemoveFails`, `CloseCapture`; `OperatorBypass` (the command the
program's own message tells users to type) and `Die`.  How iptables selects
packets (`Selects`, `Verdict`) is external.  What filterCompile and
filterDeriveIptables do are the parameters `Compiled` and `Derived`, of which only
what `filterexpr.h:63,69-73` promises is assumed: at least one rule and no more than
MAX_DERIVED_RULES.  `Iptables`' configurations give them `Filter`'s `Compile` and
`Derive`, and TLC evaluates the assumption for every expression of the run.  A stop whose threads were joined is
the one modelled, and a start never finds rules of its own installed.

### `Scenario` - the player, `scenario.cpp`

State: `steps`, `nSteps`, `active`, `startMs`, the parameters as `settings`,
`capturesNow` and `captured`, the places `tick` and `call` of scenarioTick and of
a caller, `time`; and what the properties know: the `document` loaded last,
when the play `started`, when each step was `firedAt`, and whether a tick ran
while the last load or start was being made (`overlapped`).

Actions: `LoadBegin`, `LoadObject`, `LoadSort`; `StartBegin`, `StartClear`,
`Stop`; `CaptureStart`, `CaptureStop`; `TickBegin`, `TickSkip`, `TickFire`,
`TickEnd`; `Packet`, `Elapse`.

Abstractions.  Objects are records, the counter stands for all metrics and `>=`
for all operators, the pps metric is left out; time goes in steps of one turn
of the main loop.  A worker's call may overlap a tick, as in the code, where it
takes no lock; one call is made at a time.  The clock wraps.  A play that a tick
overlapped when it was loaded or started is promised nothing but the document's
table, and a repetition whose time lies behind the wrap (`BehindWrap`) is not
promised to come at it (see the observations).

### `PcapExport` - the capture file, `pcapexport.cpp`

State: `pcapActive`, `pcapFile`, `pcapPackets`, `pcapBytes`, `limits`,
`pcapStage`, `pcapFilePath`; for each file on the `disk` the records that stdio
was given, how many of them are `stored`, whether the `header` is, and whether a
record was lost behind them (`torn`); the packet between gate and lock in
`writer`; `capturing`, `starter`; the `failures` of the file system.

Actions: `ApiStart`, `ApiStop`; `CaptureStart`, `CaptureOpens`, `CaptureStop`;
`WriteGate`, then `WriteNothing`, `WriteLimit`, `WriteRecord` or `WriteFails`.
What a function does inside pcapLock is one step, since nothing but
`pcapActive` is looked at outside.  The capture threads write inside the
capture's mutex, so there is one writer at a time.  stdio may store some of what
it has at any write; the fflush() behind the header (`Opened`) and those of a
close (`Flushed`) may fail without anybody noticing, the fwrite() of a record
(`RecordLost`) or of the header (`NotOpened`) fails with notice.

### `Profiles` - `profile.cpp`

State: the array `profiles`, the entries of the `file`, what the holder of the
lock does (`phase`), the profile and module a save has got to (`at`), the
modules (`live`), the parameters of the copied profile still `applying`; and
for the properties what was `applied`, `saved`, `stored`.

Actions: `SetModule`; `Save`, `Collect` for each module, `Delete`; `OpenFile`,
`OpenFails`, `CloseFile`, `WriteFails`; `Apply`, `ApplyOne`; `Unknown` (the
404); `Die`, `Restart`.  `LoadedFrom` is profilesLoad(), one `ReadEntry` after the
other: a name is what is between two quotes, so that behind a name with an odd
number of them the reader is out of step until the next such name, and takes
`Behind` the last quote for the name of one with an even number; it stops when
the array is full, or behind a name that is too long or empty, and reads no more
parameters of an entry than a profile has places.  `Printed` is what getParams()
writes of a chance: hundredths of a percent with one digit, rounded as the float
is (`TiesUp` are the halves it rounds up).  stdio buffers the file, so a kill
while it is open leaves any beginning of it (`Beginnings`), down to half a value.
Names with braces are left out.

## 4. What is checked

| run | what it asks | bounds | distinct states |
|---|---|---|---|
| `capture` | the inductive invariant, no orphan, a clean stop, one verdict, drops only by modules, and that `Capture` implements `NfQueue`, with flags that change at any time | 2 packets, 1 clone, all four kinds of modules, KEEP_AT_MOST 1 | 2,839,068 |
| `crash` | a sentence of the README about starts and stops; violated | 2 packets, lag and duplicate | - |
| `lifecycle` | handles are there while they are used, abandoned loops stay dead, no foreign mutex is released, calls return | 4 starts, 2 once one has failed over live loops | 85,744 |
| `servers` | `App`'s and `Servers`' inductive invariants, that `Servers` implements `App`, that connections and the program end | 2 connection threads, cap 2, the pipe, 2 requests, waits may run out | 165,450 |
| `queues` | order, conservation, bounded buffers, nobody late or early, true measurements, outages as long as asked, everybody leaves | 4 packets, one of them bypassing, KEEP_AT_MOST 3, six pipelines of up to 2 modules, delays of 0 to 2 ticks, a clock of 6 values that starts at 4 | 1,059,746 |
| `stats` | the report's, the log's and the histogram's numbers are the session's; a percentile finds its rank | 2 workers, 2 sessions, 1 packet and 2 delays in each, 2 buckets, a sum that rolls over at 4 | 3,084,252 |
| `replay` | the inductive invariant (one replay, nothing outlives it, counters, handles), and that stops and calls end | 2 callers, 2 replay threads, 2 records, 4 calls | 154,659 |
| `iptables` | parser against grammar, rules against filter, chains against what they were | all filters of up to 5 of 9 words, 3 rules, one failing command, one kill | 5,700,893 |
| `iptables_negation` | rules against filter for negated conjunctions; violated | filters of up to 7 words out of 6, nothing fails | - |
| `scenario` | order, final settings, due times, repetitions, replays, and that a play ends | 14 documents of up to 5 objects, 4 calls that may overlap ticks, 3.5 seconds of 2 ticks, a clock of 8 values that wraps at tick 3, 3 steps | 1,128,943 |
| `pcap_export` | the gate, the counters, what each file holds | 2 files, 3 packets of 2 lengths, limits 0 or 1 packets, 0 or 2 bytes, 2 failures | 1,477,188 |
| `profiles` | file against array, others kept, saved against restored | 4 names, of which two have a quote and one is cut to another and ends in a third, 2 modules, one with a chance, 3 places, 2 slots, 2 changes, 2 saves, one failure or kill | 3,417,752 |

Why the bounds are enough.  `Capture`: two packets can be in the two loops'
hands at the same time, with one in the read buffer while the other is on the
list or buffered; KEEP_AT_MOST 1 makes the second one overflow; ids are not
used again, so a run contains several sessions over the same buffers as long as
an id is left.  `Lifecycle`: one start whose loops are abandoned, and up to three
after it that could revive them; once queue and handle are gone under live loops
nothing is promised any more, and two starts show it.  `Servers`: a race needs
two workers that compete and one that observes, the control socket being a third
one; two requests and the clean-up's own stop make a start and a stop in every
order; a cap of 2 is reached by two connections and passed by one more client.
`Queues`: lag's buffer of 3 is filled and flushed by the three packets of 4 that
do not bypass (bandwidth's, which frees only beyond its 3, is not reached: that it
never holds more is `QueuesConsistent`'s); a bypassing packet passes between others; two entries of one module with different
due times are what jitter's scan and lag's early exit can get wrong; delays and
phases of up to 2 ticks with up to 1 tick between steps make "due", "just not
due" and "overdue" occur; lag is next to each module that it could upset, and the
clock wraps two ticks after the start, and again, with packets in each module.  `Stats`: the reset of one worker's
stop meets the session of the other; two delays of 3 roll the sum over.
`Replay`: one thread that lives on after a stop gave up
on it and one that would be its successor; four calls make start, stop, start,
stop by two callers in any interleaving.  `Iptables`: two words of two
families each already need more than 3 rules, so the fallback is taken, and an
"or" within an "or" lies below the depth to which branches are split; five
words hold "not" before "and", "and" before "or" and one pair of parentheses.
`Scenario`: 3 of 5 objects fit, two of a document share a second, a play is
stopped in the middle and begun again, a repetition of 1 second comes between
ticks and across the wrap, and a tick meets a load or a start at each of its steps.  `PcapExport`: the limit is reached, the file is closed and
reopened or replaced while a packet is between the gate and the lock; two failures
lose a header and a record of one file.
`Profiles`: the second module does not fit next to the first, a name of
the second slot is deleted while the first stays, the array overflows; 6
hundredths are printed as a tenth; a name with a quote stands before and behind
others.  Every unbounded counter of the code
(requests, packets, records, calls, ticks) has a bound named as such in the
module, in a guard.

Deadlock.  It is checked in `queues`, `stats`, `pcap_export` and `profiles`.
`capture` and `crash` end in the modelled crash, `lifecycle` when all starts were made,
`servers` when the program exits, `iptables*` with an idle program whose filter is
refused and full, `scenario` when time has reached its bound, `replay` when all
`MaxCalls` calls have been made and served; there it is off, and `CallsReturn`,
`QuitEnds`, `ConnectionsEnd`, `StopEnds` and `PlayEnds` say that nothing else stops.

Fairness.  `Servers!Fairness`, `Lifecycle!Fairness` and `Replay!FairSpec` are weak
fairness of each thread: the scheduler runs it; `ScenarioFairness` that of the
tick, which the main loop makes every 200 ms, of a call that has begun, and of
time.  Nothing makes packets arrive, clients connect or go on sending, users
press a button, accept() wake, recv() fail, or a wedged call return.  Timed waits
end.  Locks are assumed to be got because competition for them ends: the clock
loop tries for a bounded time, and requests and calls are finite; that a worker
gets `appLock` while the main loop ticks is not assumed.  In `Queues` the clock
loop keeps running, a consume step ends (`[]<>Idle`: it is a finite sequence of
visits and a send), and time passes; the clock's tick is strongly fair because the
model lets it wait for the end of a consume step, which real time does not.

An invariant with parts is checked as one: `IInv` of `Capture`, `App` and
`Replay` and `ServersInv` are those the proofs show to be inductive, and in them
are `OneHome`, `Accounted`, `NothingAfterFlush`; `Excluded`, `OneSession`,
`LogWithSession`, `TickOnOpenLog`, `LeftByLate`; `OneReplay`, `GoneWhenInactive`,
`HandleRefs`, `Counted`; `OnBehalf`, `JoinedQuiet`.  `Consistent` (with the module's
name where modules are proved about together) of the other modules joins the types to what holds of the module's own bookkeeping:
`Conserved`, `Bounded`; `RunsOnItsOwn`, `Exclusive`; `ReportTrue`,
`HistogramTrue`; `RulesNeedQueue`, `RoomForEveryRule`, `NoFeedback`;
`LoadedInOrder`, `PlayedInOrder`, `FiredAtMostTimes`; `GateOpen`, `Counted`,
`FilesAsAsked`, `FilesComplete`; `FileMatches`, `NameOnce`.  In the same way `OnTime`, `Punctual`,
`PlayedOut`, `OpenFilesGrow` and `Kept` are pairs of properties named in their
modules.

What the properties are about, beyond a thread's own code: `VerdictOnce`,
`OneHome` and `Accounted` relate what the kernel was told to where the nodes
are, over all modules and both loops; `NoOrphan` relates a buffer's contents to
`lastEnabled`, which two other pieces of code maintain; `CleanStop` and
`NothingAfterFlush` are about the order of the two loops' last steps.
`HandleInUse`, `NoRevival` and `NoAbort` are about loops that a stop abandoned
while later starts reuse the globals they read: what keeps them apart is that
the abandoned queue stays bound, so that no later start gets past nfq_create_queue().
`AppSpec` says that connections, caps, deadlines and joins add nothing to what
`App` allows, so that what is proved of `App` holds under its servers;
`JoinedQuiet` that a wait which did not run out has seen the last thread.
`TickOnOpenLog` is about a file that another thread may close.
`InOrder` is about the pipeline as a whole, as a permutation of every sequence
in it; `OutageTimed` relates the phases to real time across triggers, switches
and the wrap.  `ReportTrue` and `HistogramTrue` compare what is shown with what
the packets of a session did; `RankIsFound` is about a walk through buckets that
are written and reset meanwhile.  `GoneWhenInactive` and `HandleRefs` are about
threads that outlive the call that should have ended them; `SelectedIsQueued`
compares two readings of one filter, the program's and the kernel's, in chains
that others have rules in; `ChainRestored` is about every command that may fail;
`ClosedFinal` is about a test that is stale when its answer is used;
`SavedIsRestored` and `RestartsWithBeginning` go from a save through a file, a
kill and a load to an application.

### Findings

Each is a run that TLC ends with a counterexample.

1. `crash`: a module switched on for the first time between the clock loop's
   last consume step and its closing loop is closed although it was never
   started, and dereferences NULL (`divert_linux.cpp:626`, `lag.cpp:23-48`),
   against "Start/stop clumsy at any time" (`README.md:13`).
2. `iptables_negation`: collect() hands `negated` down through an "and", so a
   double negation, or a negation of a conjunction with a negation in it, sets
   a constraint that the filter does not have: `not ( not outbound and tcp )`
   installs OUTPUT rules only, although it matches inbound UDP.  Against "The
   derived rules are deliberately a SUPERSET of what the expression matches"
   (`filterexpr.h:53`).

### Observations without a run

Met while reading and modelling; some of them TLC refutes with the property
named, others a model would say no more about than the line does.

- `POST /api/filter` looks at `capturing`, stops, and starts again in three
  separate steps (`controlapi.cpp:405`): of two such requests one can be
  refused with "already capturing", its filter unused.
- A message that was received just before a stop is thrown away unanswered,
  `divert_linux.cpp:572`, against line 14 of that file; the kernel discards it
  with the queue (`Capture!EveryReceivedIdAnswered` is not an invariant).
- A module switched off right before the stop is not closed, because the
  closing loop looks at `*enabledFlag` and not at `lastEnabled`
  (`divert_linux.cpp:624`); its packets are lost with the queue, and the next
  session, whose queue does not know their ids, finds them
  (`Capture!EveryCapturedIdAnswered`; `manual.md:554` promises no loss).
- appStopCapture() resets the counters after leaving `appLock` (`main.cpp:503`):
  a session begun by another worker in between loses what it has counted, its
  report and its log may go back, and its histogram is emptied; what `Stats`
  promises is conditioned on `late`.  `--report-out` is written in the same gap
  and may show the other worker's fresh session.
- The report of a stopped session keeps its totals, but statsReset() has emptied
  the histogram: its page says "No packet was delayed during this session"
  (`report.cpp:222`).
- The clean-up stops the capture before the servers that can start one
  (`main.cpp:850`): one may be left running when main() returns
  (`App!LeftByLate` says it was started late), and its rules stay installed,
  against `iptables_linux.cpp:14`, "removal runs from divertStop(), from the
  normal exit path".
- `httpserver.cpp:719`, "closing the listener wakes the blocking accept()", is
  not so on Linux: the join runs out after 3 s, and one late client may still be
  accepted and served (`Servers!Accept`).
- The control socket has no deadline for a whole command, only one per recv():
  a client that keeps sending bytes keeps it, and the clean-up's wait runs out.
- After a stop that gave up, queue and handle stay bound: later starts fail at
  nfq_create_queue() until the program is restarted, which is also what keeps
  the abandoned loops from being revived (`Lifecycle!NoRevival`).
- divertStart() overwrites `filterProg` and `nfqHandle` before it knows whether it
  can start (`divert_linux.cpp:651,657`): one that fails after a stop that gave up
  leaves NULL where the abandoned read loop's globals were.  It does not come to
  use them, because it finds `stopLooping` raised (`Lifecycle!ReadLock`), unless it
  is in nfqCallback() already: with `filterProg` NULL every packet matches (line
  503).
- The label `fail` of divertStart() takes down queue and handle without a look at
  the loops.  If the clock thread cannot be created, a loop hangs for more than
  the 3 s of the unwinding, or nfq_bind_pf() fails after a stop that gave up
  (`fail` destroys the old `nfqQueue`), a live loop uses a closed handle, may be
  revived by the next start, and may release that start's mutex
  (`HandleInUse`, `NoRevival` and `NoAbort` without `torn` are not invariants).
- NFQUEUE ids begin anew with each queue, so that the late verdict of a packet
  left behind by an earlier session may meet another packet's id; `Capture`
  uses an id once.
- blackout's startUp clears `triggerPending`: a trigger accepted between the
  enabling and the next consume step, or while no capture runs, is lost, against
  "toggles a blackout immediately on the next process()" (`blackout.cpp:123`).
- A reader between the two stores of latencyRecord() sees a sum 1,000,000,000 ms
  too large, against `latency.cpp:16`, "a concurrent record can only ever *add*
  to a bucket, which no reader is confused by".  The metrics read buckets, sum
  and count in separate calls, so that the last bucket need not be the count.
- The rows' rate is an int product: after a late reset it may be negative, and
  with more than 2.1 million packets between two rows it overflows
  (`statslog.cpp:99`).
- lag and jitter compare absolute clock values, not differences (`lag.cpp:72`,
  `jitter.cpp:136`), against `platform.h:82`: a packet that comes shortly before
  the wrap leaves at once, or is held until the clock has come round, after 49
  days, and in lag's buffer so are those behind it.  Without `Misled` and
  `Excused` TLC refutes `OnTime`.
- `throttle.cpp:80` uses the start tick 0 for "not throttling": a frame that
  begins at clock 0 is forgotten; what it holds stays until a later frame ends,
  and later packets overtake it.  Without `forgot` TLC refutes `InOrder`.
- The comment in `ood.cpp` on the order of release is the reverse of what the
  insertions do; no promise about order hangs on it.
- `pcapreplay.cpp:203` logs "stopping" at a corrupt record; a looping replay
  opens the file again.
- `main.cpp:849` and `controlapi.cpp:618` speak of joining the replay thread; a
  stop that finds the handle taken by another stop returns at once
  (`pcapreplay.cpp:344`), and the replay may still be running.
- The loops run before the rules are installed, and the mark bypass is
  installed last and removed first: for that time NFQUEUE rules stand without
  it.  It is in OUTPUT only; a marked packet on loopback meets the INPUT rule.
- A rule whose `-D` fails is forgotten (`iptables_linux.cpp:176`).
- Contradictory terms (`tcp and udp`) overwrite each other and the rules are
  still called exact; the branches beyond SPLIT_BRANCH_LIMIT are dropped.
- scenarioStart() raises `active` before it clears the steps
  (`scenario.cpp:363-371`), and a worker calls it without `appLock`
  (`controlapi.cpp:501`): a tick in between finds every step of the play before
  still done and ends the new one at once.  Without `overlapped` TLC refutes
  `PlayedOut` that way, and `Punctual` and `PlayedInOrder` as well.
- A scenario loaded while one plays is played with the old start time; two
  loads at once may both pass the test of MAX_STEPS.
- A repetition compares absolute clock values (`scenario.cpp:409`): near the
  wrap a step is fired at each tick, or not for 49 days; a repetition due at
  clock 0 counts as not armed.  Without `BehindWrap` TLC refutes `Punctual`.  A conditional step that repeats looks at its
  condition the first time only.
- pcapExportStart() does not look at the fflush() behind the header
  (`pcapexport.cpp:138`): on a full disk it opens the gate and returns 1 with no
  header stored, and if there is room again before stdio's buffer has to be
  written, what was lost is not noticed.  Nor does closeFileLocked() look at its
  fflush() and fclose() (lines 100-101): records that were counted, and that the
  log and apiPcapStop() report, may not be in the file.  `FilesComplete` promises
  header and records unless such a call failed.
- `report.cpp:415-421` takes the capture file's path and its count in two
  locked calls, which the comment at `pcapexport.cpp:173` means to prevent;
  apiPcapStop() reads the count before it stops.
- appStartCapture() asks whether a capture file is open, then opens one: a file
  opened by a worker in between is replaced (`main.cpp:457`).
- A profile has 32 places; all modules on need 63: what does not fit is left
  out of the saved profile in silence (`manual.md:1518`).
- A name of 48 characters or more is cut when it is stored and compared whole
  when it is looked up: each save adds one more entry, apply and delete answer
  404 (`profile.cpp:371`; `manual.md:1519` says it is overwritten).
- A profile file that cannot be opened is reported to the log only, the request
  succeeds; a kill while it is written loses the profiles at its end.
- In profiles.json, an entry with a name that is too long ends the loading: the
  closing brace of its object is taken for the end of the file
  (`profile.cpp:185,194`).
- Nothing refuses a name with a quote (`controlapi.cpp:443`), it is written as it
  is (`profile.cpp:330`) and read to its next quote (`profile.cpp:191`): the next
  start does not have the profile, or has it under what is behind its last
  quote, and may lose those behind it.  Without `Unquoted` TLC refutes
  `FileMatches`.
- Chances are kept in hundredths of a percent (`drop.cpp:45`) and printed with one
  digit (`drop.cpp:63`, and `throttle`, `ood`, `burstloss`, `tamper`, `corrupt`): a
  profile brings 12.34 % back as 12.3 %, and 0.04 % as 0.

## 5. What is proved

All for every value of the constants that the modules' named assumptions
(`CaptureAssumption`, `AppAssumption`, `ServersAssumption`, `ReplayAssumption`,
`LifecycleAssumption`, `PcapAssumption`, `QueuesAssumption`, `StatsAssumption`,
`ScenarioAssumption`, `ProfilesAssumption`, `RulesAssumption`, `ChainsAssumption`)
allow; TLC evaluates those on every run.  In each module an invariant (`IInv`; for
`Servers` `SInv`, which adds its own parts to `App`'s) is shown to hold initially
and to be kept by every step; the properties follow from it.

**`Capture_proofs`**, any packets, clones, pipeline and buffer size, with flags
that may change at any time.  `TypeCorrect`, `QuiescentOutsideMutex`,
`NodesHaveOneHome`, `CapturedAccounted`, `FlushIsFinal`, `AtMostOneVerdict`,
`Implements`, `PendingAreMarked`, `StopIsClean`, `DropsAreOfModules`.
`OneHome` alone is not inductive: that a received packet gets a node nobody
else holds needs that the read buffer's id is neither captured nor answered,
which needs that it is filled exactly while the read loop waits (`ThreadInv`)
and that held ids are captured and unanswered (`NodeInv`).  `ListQuiescent` is
what makes the hand-over of the mutex harmless, and `NothingAfterFlush` needs
that the clock loop leaves only after `stopLooping` (`ThreadInv`) and that the
read loop tests it again under the mutex.  The proof has a lemma per part
(`TypeStep`, `ThreadStep`, `NodeStep`), one for what any module's process
function does to nodes (`ModuleNodes`) and one for settleVerdict (`SettleIs`).
`Implements` maps every step to one of `NfQueue` or a stutter: a consume step's
turn answers the held ids it frees or sends, of which none was answered before
(`HeldAnswer`); `AtMostOneVerdict` is then a fact about `NfQueue`.
`PendingAreMarked` needs that a buffer only gains packets in its module's own
turn, which marks it, and only loses the mark when it is emptied
(`BufferTurn`).  `StopIsClean` has an invariant of its own (`RestInv`, kept by
`RestStep`): while flags rest, a buffer that holds something belongs to an enabled
module, so the closing loop, which goes by the flag, empties each in its turn, and
no captured id is left to the kernel.

Then about `Chains`: any compiler and any rules derived from its programs, any
number of failing commands and kills, any packets.  `ChainsInductive`,
`ChainsAreConsistent`, `ChainsAreRestored`.

- `Undoes`: there is a `WayBack` from the chains to those of before, one state of all
  chains per installed rule, in which the rule's `-D` takes out the first rule that is
  spelled so.  That this is the right one is not obvious where the operator, or a
  killed run, has put an equal rule into the chain: a bypass is always at the
  *front* when its turn comes, and what is put in front of it is a bypass as well
  (`DeletedOwn`, `DeletedBehind`, `DeletedFront`).  `ChainRestored` is the case of nothing
  left installed.
- `Planned` and `Shielded`: in the order of installed rules and commands still to run
  the bypasses come last (`BypassLast`), one for each table (`Shielding`), and an
  installed bypass finds a bypass in front of its chain.  Hence `NoFeedback`.
- `Placed` (where commands and rules may be left) gives `RulesNeedQueue`;
  `CommandsAre` counts the commands of a list of rules, for `RoomForEveryRule`: two
  for each rule and one for each of two tables.

**`Control_proofs`**, about `App`: any numbers of threads and requests, with
waits that may run out.  `LockExcludes`, `SessionsAlternate`, `LogEndsWithSession`,
`TickWritesToOpenFile`, `LeftoversAreLate`.  The strengthening is `LockInv` (a
thread is inside exactly if it holds the lock, and the main thread's places and
goals are its own) and `SessionInv` (inside a start, `capturing` is what the test
at the lock found); one lemma for each of stops, starts, the main thread and the
rest.

Then about `Servers`: any cap and any finite set of connection threads.
`ServersAreCounted`, `ServersImplementApp`, `AppKept`.  That the counter is the
number of connections is by induction over the accept loop's and the connections'
steps, with the library's facts about cardinalities; that `Drain` is
`App!HttpJoin` needs it: a counter of 0 with an ended accept loop means that no
connection is left (`NobodyLeft`), and none of them is inside `App` (`OnBehalf`).
`AppKept` cites `App`'s `Inductive` through the refinement.

And about `Scenario`: any documents, any size of the table, any second, any
bounds.  `ScenarioInductive`, `SortOrders`,
`ScenarioIsConsistent`, `PlaysOut`, `PlaysPunctually`.  The properties speak of the
state between calls and ticks; the invariant has to speak of every point within
them:

- `LoadInv`: while a document is read, the steps are those that its beginning makes
  (`ReadSoFar`); afterwards an `Arrangement` of the first that fit.  `SortOrders` says,
  by induction on the number of steps, that the insertion sort arranges any table
  so; `RankIs` turns the arrangement into the ranks `LoadedInOrder` speaks of.
- `StepsSound`: a step that is not spent has a fire left of those `times` allows.
- `PlayInv`: timed steps are fired from the front on, also in the middle of a tick
  (`FrontFirst`); the tick leaves behind none whose second has come (`Passed`), and
  counts no remaining step only if all it has passed are spent, which is why a play
  ends whole; of the steps for a parameter the last that was fired has set it
  (`LastSet`).
- `Timing`: what the true time of the start and of the last fire are to `startMs` and
  `nextFireMs`.

The first two hold whatever overlaps, so that a load always leaves the document's
table.  The others are kept only where no tick overlapped the last load or start
(`ScenarioInv` has them under `~overlapped`): the invariant has to show, for each
step of a tick, that a call under way has set `overlapped` or is not there.  The
clock may start anywhere and wrap: `StartShown` and `NextShown` say what `startMs`
and `nextFireMs` are modulo the wrap, `NoneEarly` follows from the first, and of a
repetition whose next time lies behind the wrap (`BehindWrap`) nothing is claimed.

And about `Profiles`: any names and what they are cut to, any modules with any
numbers of parameters, any sizes of a profile and of the array, with failures and
kills at any step.  `ProfilesInductive`, `ProfilesAreConsistent`,
`AppliedIsRestored`, `OthersAreKept`.  The invariant has five parts:

- `ProfilesTypes`: the array, and what was last written of it, is a `Table`, in which a
  name that no longer one is cut to occurs once (`Once`).  A save looks its slot up by
  the whole name and stores the cut one, so `Once` is kept only for such names.
- `FileInv`: at every point of a write, what a start would load `Starts` the array to
  be written, as far as no name has a quote; a file that is whole is the array.  The
  reader is followed entry by entry (`ReadIs`, `OneIsRead`, `ReadOfNext`): what it has
  is some of the entries, each once, and all of those before the first quote
  (`Loads`, `LoadsTable`).  `BeginningsAre` says of a write that stops that it leaves
  a beginning of the array, `LoadsBeginning` what is loaded of one.
- `Collected`: while a save goes through the modules, its profile has parameters of
  the modules so far only, which tell them as they were read, and takes no more places
  than these need (`Collects`).  Without the count it could not be said that the next
  module still has room.
- `SavedInv`: every profile that is not being collected tells what its save has read
  (`Tells`); so do those in the file while the program is down, which is what makes a
  restart harmless.
- `AppliedInv`: each parameter still to be applied agrees with what was saved, as it
  is printed, and whatever is not yet so is among them; what is printed of a chance
  is at most half a tenth of a percent from it (`PrintedIs`).

`ProfilesAssumption` asks that a name is cut once (what is left of it is not cut
again), that what is behind a name's last quote has none, that modules[] has no
module twice, that each takes a place, and that profiles.json, as it is found at
first, has no name twice.

**`Replay_proofs`**, any callers, runs, records and calls.
`OneReplayAtATime`, `InactiveMeansGone`, `ReferencesMatchOwners`,
`CountersAddUp`.  The key is `GoneWhenInactive`: a start that finds `active`
false finds no thread at work, so neither the one it creates nor the flags it
clears can meet an older one.  It needs `SocketInv` (sockets are closed before
the flag falls) and `LockInv`; `HandleRefs` needs that each handle has one
owner outside its thread (`OwnerInv`); `Counted` is not inductive without
knowing which thread has a record in hand (`CountInv`).

**`Lifecycle_proofs`**, any number of starts, each of which may fail at any step
and be given up on.  `LifecycleInvariant`, `LifecycleConsistent`, `HandlesLast`,
`AbandonedStayDead`, `NeverAborts`.  None of the last three properties is
inductive: that an abandoned loop stays dead follows from what it still *holds*,
not from where it stands.  `Equipped` says so: a loop that is alive belongs to the
start that owns the kernel's queue number and whose mutex the global still
names, its handle is open, and `stopLooping` is raised unless its call is still
under way or its capture runs.  So a later start fails at nfq_create_queue(), before it could replace the
mutex or clear the flag.  All of it holds while no failed start has taken the queue
from live loops (`torn`), the exception the properties make as well.

**`PcapExport_proofs`**, any files, limits, packet lengths and numbers of packets.
`PcapInvariant`, `PcapConsistent`, `PcapFilesGrow`.  The strengthening is
`OpenFile` (the open file has no lost record, and was opened for the limits and
stages that the globals now hold; nothing is said of its header) and
`CountersBounded`; `Complete` is `FilesComplete` of one file.  `OpenFile` is
what makes the stale answer of the gate harmless: whatever happens between
`WriteGate` and the lock, the record goes to the file that is open then and is
counted against that file's limits.  The bound of `pcapBytes` is a product of two
parameters, so it has lemmas of its own (`Products`, `ProductsGrow`).

**`Series_proofs`** holds what the proofs of `Chains`, `PcapExport`, `Queues`, `Stats`,
`Scenario` and `Profiles` need to know about `SumTo` and `Only`.  The library's induction theorems take an operator and cannot be used;
`Induction` and `SequenceInduction` say the same of a *set*: a set with 0 (the
empty sequence) in it that is closed under the successor (under appending) holds
all numbers (all sequences).  With it the recursive functions are shown to exist
and to satisfy their equations (`SumNext`, `OnlyAppend`).

**`Queues_proofs`**, any pipeline in the order of modules[], any number of packets,
any direction switches, sizes, and times shorter than the clock's round
(`Longest < Modulus`).

- `QueuesInvariant`, `QueuesConsistent`.  The inductive invariant is `Consistent`
  with `Emptied` (a module that was not on in the last step holds nothing: the
  closing turn has emptied it), `Measures` (every buffered node's stamp is the clock
  less its real wait) and `PhaseKnown` (the same for blackout's phase).  Each
  module's process function is shown to make a `Turn`: what it keeps and what it
  passes on are, together with what it frees, the nodes it had and the ids on the
  list, each once.  That is a lemma per module (`LagTurn`, `JitterTurn`,
  `ThrottleTurn`, `OodTurn`, `BandwidthTurn`, `FreeTurn`, `CloseTurn`) from what the
  invariant gives all of them (`Given`); they rest on lemmas about what a selection
  leaves (`OnlyFacts`, `Parted`), about cutting and joining sequences (`Cut`, `Join`,
  `Ends`) and about a node's way through a buffer (`Through`).  `ConservedTurn` then
  needs no more than the `Turn`.
- `MeasuredTruly` and `OutagesTimed` follow: the difference of two clock values is the
  real time across any number of wraps, as long as it is less than `Modulus`
  (`ClockIs`, `NextTick`).
- `PacketsInOrder`.  `InOrder` says of a pipeline what it takes to be inductive: what the modules
  already visited hold is newer than the list, which is newer than what the
  others hold.  A module keeps it if its turn is `Orderly`: it sends on older
  packets than it keeps, in their order.  `OneByOne` says that a consume step
  begins with one packet at most, and `FrameKnown` that throttle holds nothing
  when it does not throttle, until it has forgotten a frame (`forgot`).
- `PacketsOnTime`.  `Told` is what the loops that stop early rely on (lag's and
  ood's buffers are sorted by their stamps, throttle's nodes came after the
  frame began, but for those of tick 0) and what jitter's stamps mean; `Young` how
  old a node can be when ood's turn comes, `Brief` how old a frame.  `WaitedIs` says
  where the clock stands for a node of a known age, on either side of the wrap:
  where the comparison of lag or jitter is wrong about it, it is `Misled`.  A lemma
  per module (`LagTimely`, `JitterTimely`, `ThrottleTimely`, `OodTimely`).

No theorem has a hypothesis about the clock: it may start anywhere, at 0 as well,
and wrap any number of times.
`QueuesAssumption` asks for values that the parameters' limits in the code
guarantee: a largest lag-time (LAG_MAX), ood's limit within the buffer's
(OOD_BUF_MAX), a flush of no more than the buffer, and times that are small
against the clock's 2^32.

**`Stats_proofs`**, any finite set of workers, any sessions, packets, buckets, and
delays below the limit of the low half of the sum.  `StatsInvariant`,
`StatsConsistent`, `PercentilesFindTheirRank`.  `Consistent` speaks of what is shown;
to be kept it has to speak of every cell between two steps of a reset, a record
and a reading:

- `Locked`: `appLock` is held from a start's reset until its files are open,
  `latencyLock` behind the cell of the reset that takes it.  `Undisturbed`: in an open
  session that opened with no stop's reset to come, none comes.  Both together
  are why one flag per session (`late`) is enough to say whose numbers can be wrong.
- `StaysCleared`: the cells that a reset has emptied stay empty until a session
  opens, since no packet is consumed before; so a session begins with zeros.
- `HistogramInv`: the histogram of an undisturbed session while a record is under
  way, cell by cell (`Tallied`, `Summed`, `Smallest`, `Largest`): those that the
  record has been to hold its delay, the others do not.  The sum's two halves are
  one number (`RolledOver`).
- `ReportInv`: what report and log show while the session is open, and what they
  keep of it afterwards.
- `Covered` and `Reading`, for `RankIsFound`: `total`, with the record in hand, is no more
  than the buckets hold and one, unless a reset is among the buckets; and what a
  percentile has not yet seen is still there, since a reset waits for the lock
  it reads under and only grows meanwhile.

The proof says more than was assumed: however many stops reset late, no more than
one delay can be missing from the buckets, that of a record which put it into its
bucket before a reset came by and counts it in `total` afterwards; what an earlier
reset left of this kind the next one's emptying of `total` takes away.
`RankIsFound` allows one, and none where no reset was late.

Only model-checked, by their run:

- liveness: `CallsReturn`, `QuitEnds`, `ConnectionsEnd`, `EveryoneLeaves`, `StopEnds`,
  `PlayEnds`.  Liveness under fairness and ENABLED are out of the prover's reach.
- `ParserAgrees`: the parser and `Grammar` are RECURSIVE operators over expressions,
  which are out of its reach too.
- `SelectedIsQueued`: it does not hold for every filter (finding 2), only for those of
  the run, which are too short for a negated conjunction; it speaks of `Match` and
  `Derive`, which are RECURSIVE as well.

## 6. What is not modelled

- The injection through raw sockets and its runaway guard (a count within a
  second, beyond which injection is off until the next start).
- The Windows backend `divert.cpp`: same list, modules, mutex, start-up order
  and closing loop as `Capture`, with reinjection in place of verdicts.  What
  differs: the clock loop closes the WinDivert handle inside the mutex, which
  ends the read loop, and divertStop() waits without a limit.
- The process filter, packet editing with its checksums, tamper, corrupt and
  reset: functions of bytes, without states to interleave.
- Reading and parsing of requests, CSRF and host checks, static files, presets,
  the listing of profiles: no state, or state nobody else looks at.
- The rendering of report, rows, metrics and console; the dashboard, JSON,
  plugins, elevation: formatting and I/O.
