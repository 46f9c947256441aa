-------------------------------- MODULE Stats --------------------------------
(***************************************************************************)
(* What a session leaves in numbers: the packet counter, the histogram of  *)
(* delays (latency.cpp), the rows of the statistics log (statslog.cpp) and *)
(* the report (report.cpp).  Workers start and stop sessions under appLock *)
(* and reset the numbers: before divertStart inside the lock, and after a  *)
(* stop outside it.  The capture's threads, which the mutex keeps apart,   *)
(* count and record without a lock; readers and a reset of the histogram   *)
(* share latencyLock.                                                      *)
(*                                                                         *)
(* Abstractions.  statsSentTotal and the modules' counters go the way of   *)
(* statsCapturedTotal and are left out.  A divertStop ends the capture's   *)
(* threads; Lifecycle has the one that gives up.  The intervals of the     *)
(* rows and samples, their number and their wording are left out.          *)
(***************************************************************************)
EXTENDS Naturals, Sequences, FiniteSets, SequencesExt, Series

CONSTANTS
  Workers,      \* connection threads, control socket, main thread
  Bounds,       \* the inclusive upper bounds of all buckets but the last
  Delays,       \* delays that are recorded, none of them too long to be
  Rollover,     \* SUM_ROLLOVER
  MaxSessions, MaxPackets, MaxRecords  \* bounds: sessions, and in each of them

Reader == "reader"
Bucket == 1..Len(Bounds) + 1
Session == 1..MaxSessions

ASSUME StatsAssumption ==
  /\ IsFiniteSet(Workers) /\ "free" \notin Workers /\ Reader \notin Workers
  /\ Bounds \in Seq(Nat) /\ \A i, j \in DOMAIN Bounds : i < j => Bounds[i] < Bounds[j]
  /\ Rollover \in Nat \ {0} /\ Delays \subseteq Nat /\ \A ms \in Delays : ms < Rollover
  /\ MaxSessions \in Nat /\ MaxPackets \in Nat /\ MaxRecords \in Nat

VARIABLES
  pc,          \* where each worker is
  cell,        \* the step of statsReset() a worker is at
  appLock, latencyLock,
  session,     \* number of the last session
  open,        \* between divertStart and divertStop
  captured,    \* statsCapturedTotal
  bucket,      \* buckets[]
  total, minMs, maxMs, sumLow, sumHigh,
  rec,         \* the latencyRecord() under way
  read,        \* the latencyPercentile() under way
  log,         \* the statistics log: is it open, and logPrevCaptured
  report,      \* the report: its session, sessionActive, finalCaptured, last sample
  counted,     \* ghost: packets captured in each session
  recorded,    \* ghost: the delays recorded in each session
  late         \* ghost: stops whose reset was still to come when a session opened

histogram == <<bucket, total, minMs, maxMs, sumLow, sumHigh>>
ghosts == <<counted, recorded, late>>
vars == <<pc, cell, appLock, latencyLock, session, open, captured, histogram, rec, read, log,
          report, ghosts>>

Total(f) == SumTo(f, Len(f))

\* statsReset() and the latencyReset() it calls, cell by cell.
LastCell == Len(Bounds) + 9
Cells ==
  [k \in 1..LastCell |->
     IF k < 3 THEN <<"captured", "lock">>[k]
     ELSE IF k < Len(Bounds) + 4 THEN "bucket"
     ELSE <<"total", "min", "max", "low", "high", "unlock">>[k - Len(Bounds) - 3]]
BucketAt(k) == k - 2

TypeOK ==
  /\ pc \in [Workers -> {"idle", "startReset", "open", "files", "stopReset"}]
  /\ cell \in [Workers -> 1..LastCell]
  /\ appLock \in Workers \cup {"free"}
  /\ latencyLock \in Workers \cup {Reader, "free"}
  /\ session \in 0..MaxSessions /\ open \in BOOLEAN
  /\ captured \in Nat /\ bucket \in [Bucket -> Nat]
  /\ total \in Nat /\ minMs \in Nat /\ maxMs \in Nat /\ sumLow \in Nat /\ sumHigh \in Nat
  /\ rec \in [at : {"none", "min", "max", "sum", "low", "total"}, ms : Nat, low : Nat]
  /\ read \in [at : 0..Len(Bounds) + 2, n : Nat, lowest : Nat, highest : Nat, found : Nat]
  /\ log \in [open : BOOLEAN, prev : Nat]
  /\ report \in [session : 0..MaxSessions, active : BOOLEAN, final : Nat, sample : Nat]

NoRecord == [at |-> "none", ms |-> 0, low |-> 0]
NoRead == [at |-> 0, n |-> 0, lowest |-> 0, highest |-> 0, found |-> 0]

Init ==
  /\ pc = [w \in Workers |-> "idle"] /\ cell = [w \in Workers |-> 1]
  /\ appLock = "free" /\ latencyLock = "free"
  /\ session = 0 /\ open = FALSE /\ captured = 0
  /\ bucket = [b \in Bucket |-> 0]
  /\ total = 0 /\ minMs = 0 /\ maxMs = 0 /\ sumLow = 0 /\ sumHigh = 0
  /\ rec = NoRecord /\ read = NoRead
  /\ log = [open |-> FALSE, prev |-> 0]
  /\ report = [session |-> 0, active |-> FALSE, final |-> 0, sample |-> 0]
  /\ counted = [s \in Session |-> 0] /\ recorded = [s \in Session |-> <<>>]
  /\ late = [s \in Session |-> 0]

------------------------------------------------------------------------------
(* The capture's threads.                                                   *)

\* nfqCallback: statsCapturedTotal.
Capture ==
  /\ open /\ counted[session] < MaxPackets
  /\ captured' = captured + 1
  /\ counted' = [counted EXCEPT ![session] = @ + 1]
  /\ UNCHANGED <<pc, cell, appLock, latencyLock, session, open, histogram, rec, read, log,
                 report, recorded, late>>

\* The first bucket whose bound is not below ms, or the last one.
BucketOf(ms) ==
  CHOOSE b \in Bucket :
    /\ b \in DOMAIN Bounds => ms <= Bounds[b]
    /\ \A c \in 1..b-1 : ms > Bounds[c]

RecordBucket(ms) ==
  /\ open /\ rec.at = "none" /\ Len(recorded[session]) < MaxRecords
  /\ bucket' = [bucket EXCEPT ![BucketOf(ms)] = @ + 1]
  /\ rec' = [rec EXCEPT !.at = "min", !.ms = ms]
  /\ UNCHANGED <<pc, cell, appLock, latencyLock, session, open, captured, total, minMs, maxMs,
                 sumLow, sumHigh, read, log, report, ghosts>>

RecordMin ==
  /\ rec.at = "min"
  /\ minMs' = IF total = 0 \/ rec.ms < minMs THEN rec.ms ELSE minMs
  /\ rec' = [rec EXCEPT !.at = "max"]
  /\ UNCHANGED <<pc, cell, appLock, latencyLock, session, open, captured, bucket, total, maxMs,
                 sumLow, sumHigh, read, log, report, ghosts>>

RecordMax ==
  /\ rec.at = "max"
  /\ maxMs' = IF rec.ms > maxMs THEN rec.ms ELSE maxMs
  /\ rec' = [rec EXCEPT !.at = "sum"]
  /\ UNCHANGED <<pc, cell, appLock, latencyLock, session, open, captured, bucket, total, minMs,
                 sumLow, sumHigh, read, log, report, ghosts>>

\* The part above SUM_ROLLOVER goes first, the rest is stored afterwards.
RecordSum ==
  /\ rec.at = "sum"
  /\ LET low == sumLow + rec.ms
     IN /\ sumHigh' = IF low >= Rollover THEN sumHigh + 1 ELSE sumHigh
        /\ rec' = [rec EXCEPT !.at = "low", !.low = low % Rollover]
  /\ UNCHANGED <<pc, cell, appLock, latencyLock, session, open, captured, bucket, total, minMs,
                 maxMs, sumLow, read, log, report, ghosts>>

RecordLow ==
  /\ rec.at = "low"
  /\ sumLow' = rec.low
  /\ rec' = [rec EXCEPT !.at = "total"]
  /\ UNCHANGED <<pc, cell, appLock, latencyLock, session, open, captured, bucket, total, minMs,
                 maxMs, sumHigh, read, log, report, ghosts>>

RecordTotal ==
  /\ rec.at = "total"
  /\ total' = total + 1
  /\ recorded' = [recorded EXCEPT ![session] = Append(@, rec.ms)]
  /\ rec' = NoRecord
  /\ UNCHANGED <<pc, cell, appLock, latencyLock, session, open, captured, bucket, minMs, maxMs,
                 sumLow, sumHigh, read, log, report, counted, late>>

LatencyRecord ==
  \/ \E ms \in Delays : RecordBucket(ms)
  \/ RecordMin \/ RecordMax \/ RecordSum \/ RecordLow \/ RecordTotal

------------------------------------------------------------------------------
(* statsReset.                                                              *)

\* Seeded fault: latencyReset does not take latencyLock.
ResetWaitsNot(w) == TRUE

ResetMayBegin(w) == latencyLock = "free"

\* Seeded fault: the reset comes after divertStart.
StartOrderOpens == <<"open", "startReset", "files">>

\* appStartCapture: statsReset, divertStart, and then the files.
StartOrder == <<"startReset", "open", "files">>

\* Where worker w goes from a place of StartOrder.
Proceed(w) ==
  LET i == CHOOSE j \in DOMAIN StartOrder : StartOrder[j] = pc[w]
  IN pc' = [pc EXCEPT ![w] = IF i < Len(StartOrder) THEN StartOrder[i + 1] ELSE "idle"]

ResetDone(w) ==
  /\ cell' = [cell EXCEPT ![w] = 1]
  /\ IF pc[w] = "stopReset" THEN pc' = [pc EXCEPT ![w] = "idle"] ELSE Proceed(w)

ResetCell(w) ==
  LET k == cell[w]
      is(name) == Cells[k] = name
  IN /\ pc[w] \in {"startReset", "stopReset"}
     /\ is("lock") => ResetMayBegin(w)
     /\ latencyLock' = IF is("lock") THEN w ELSE IF is("unlock") THEN "free" ELSE latencyLock
     /\ captured' = IF is("captured") THEN 0 ELSE captured
     /\ bucket' = IF is("bucket") THEN [bucket EXCEPT ![BucketAt(k)] = 0] ELSE bucket
     /\ total' = IF is("total") THEN 0 ELSE total
     /\ minMs' = IF is("min") THEN 0 ELSE minMs
     /\ maxMs' = IF is("max") THEN 0 ELSE maxMs
     /\ sumLow' = IF is("low") THEN 0 ELSE sumLow
     /\ sumHigh' = IF is("high") THEN 0 ELSE sumHigh
     /\ IF k < LastCell THEN cell' = [cell EXCEPT ![w] = k + 1] /\ UNCHANGED pc ELSE ResetDone(w)
     /\ UNCHANGED <<appLock, session, open, rec, read, log, report, ghosts>>

------------------------------------------------------------------------------
(* Sessions.                                                                *)

Start(w) ==
  /\ pc[w] = "idle" /\ appLock = "free" /\ ~open
  /\ appLock' = w
  /\ pc' = [pc EXCEPT ![w] = StartOrder[1]]
  /\ UNCHANGED <<cell, latencyLock, session, open, captured, histogram, rec, read, log, report,
                 ghosts>>

\* divertStart succeeds: packets may be counted from here on.
DivertStart(w) ==
  /\ pc[w] = "open" /\ session < MaxSessions
  /\ session' = session + 1 /\ open' = TRUE
  /\ late' = [late EXCEPT ![session + 1] = Cardinality({v \in Workers : pc[v] = "stopReset"})]
  /\ Proceed(w)
  /\ UNCHANGED <<cell, appLock, latencyLock, captured, histogram, rec, read, log, report,
                 counted, recorded>>

DivertStartFails(w) ==
  /\ pc[w] = "open"
  /\ appLock' = "free"
  /\ pc' = [pc EXCEPT ![w] = "idle"]
  /\ UNCHANGED <<cell, latencyLock, session, open, captured, histogram, rec, read, log, report,
                 ghosts>>

\* reportSessionStart, reportTick and reportSessionStop.
ReportStarted == [session |-> session, active |-> TRUE, final |-> 0, sample |-> 0]
ReportTicked == IF report.active THEN [report EXCEPT !.sample = captured] ELSE report
ReportStopped == [report EXCEPT !.active = FALSE, !.final = captured]

\* statsLogStart, statsLogTick and statsLogStop.
LogStarted == [open |-> TRUE, prev |-> captured]
LogTicked == IF log.open THEN [log EXCEPT !.prev = captured] ELSE log
LogStopped == [log EXCEPT !.open = FALSE]

\* The report and the log are started; the lock is left.
OpenFiles(w) ==
  /\ pc[w] = "files"
  /\ report' = ReportStarted
  /\ log' = LogStarted
  /\ appLock' = "free"
  /\ Proceed(w)
  /\ UNCHANGED <<cell, latencyLock, session, open, captured, histogram, rec, read, ghosts>>

\* appStopCapture inside appLock: divertStop waits for a record under way.
Stop(w) ==
  /\ pc[w] = "idle" /\ appLock = "free" /\ open /\ rec.at = "none"
  /\ open' = FALSE
  /\ log' = LogStopped
  /\ report' = ReportStopped
  /\ pc' = [pc EXCEPT ![w] = "stopReset"]
  /\ UNCHANGED <<cell, appLock, latencyLock, session, captured, histogram, rec, read, ghosts>>

\* The main loop's turn.
Tick ==
  /\ appLock = "free" /\ open
  /\ log' = LogTicked
  /\ report' = ReportTicked
  /\ UNCHANGED <<pc, cell, appLock, latencyLock, session, open, captured, histogram, rec, read,
                 ghosts>>

------------------------------------------------------------------------------
(* latencyPercentile: the counts are read under the lock, one by one.       *)

ReadBegin ==
  /\ read.at = 0 /\ latencyLock = "free" /\ total > 0
  /\ latencyLock' = Reader
  /\ read' = [at |-> 1, n |-> total, lowest |-> minMs, highest |-> maxMs, found |-> 0]
  /\ UNCHANGED <<pc, cell, appLock, session, open, captured, histogram, rec, log, report, ghosts>>

ReadBucket ==
  /\ read.at \in Bucket
  /\ read' = [read EXCEPT !.at = @ + 1, !.found = @ + bucket[read.at]]
  /\ UNCHANGED <<pc, cell, appLock, latencyLock, session, open, captured, histogram, rec, log,
                 report, ghosts>>

Walked == read.at = Len(Bounds) + 2

ReadEnd ==
  /\ Walked
  /\ latencyLock' = "free" /\ read' = NoRead
  /\ UNCHANGED <<pc, cell, appLock, session, open, captured, histogram, rec, log, report, ghosts>>

Next ==
  \/ Capture \/ LatencyRecord \/ Tick \/ ReadBegin \/ ReadBucket \/ ReadEnd
  \/ \E w \in Workers :
       ResetCell(w) \/ Start(w) \/ DivertStart(w) \/ DivertStartFails(w) \/ OpenFiles(w) \/ Stop(w)

Spec == Init /\ [][Next]_vars

------------------------------------------------------------------------------
(* Properties.                                                              *)

\* What the report shows as captured: live counters while its session is open.
Shown == IF report.active THEN captured ELSE report.final

\* The report shows the packets of the session it names, and the log's next row
\* and the report's next sample do not go back, unless a stop's reset was still
\* to come when that session opened; and even then none is counted twice.
ReportTrue ==
  report.session # 0 =>
    /\ Shown <= counted[report.session]
    /\ late[report.session] = 0 =>
         /\ Shown = counted[report.session]
         /\ report.active => log.prev <= captured /\ report.sample <= captured

\* Between two records of a session its histogram holds exactly what the session
\* recorded, over any number of rollovers of the sum, unless a reset came late.
HistogramTrue ==
  open /\ rec.at = "none" /\ late[session] = 0 =>
    /\ total = Len(recorded[session])
    /\ \A b \in Bucket :
         bucket[b] = Cardinality({i \in DOMAIN recorded[session] :
                                    BucketOf(recorded[session][i]) = b})
    /\ sumHigh * Rollover + sumLow = Total(recorded[session])
    /\ total > 0 => /\ minMs = Min(ToSet(recorded[session]))
                    /\ maxMs = Max(ToSet(recorded[session]))

\* Whatever is recorded and reset meanwhile, a percentile is looked for among at
\* least as many delays as it was computed from, so that the walk finds its rank;
\* late resets can make one go missing, that of the record under way.
RankIsFound ==
  Walked => /\ read.n <= read.found + (IF session # 0 /\ late[session] > 0 THEN 1 ELSE 0)
            /\ session # 0 /\ late[session] = 0 => read.lowest <= read.highest

\* The numbers of a session are its own.
Consistent == TypeOK /\ ReportTrue /\ HistogramTrue
==============================================================================
